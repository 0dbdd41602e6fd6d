SPECIFICATION Spec
CONSTANTS
    MaxGeneration = 3
    MaxData = 1
    MinCols = 2
    MaxCols = 3
    Grids = {}
    MaxFits = 0
INVARIANTS
    DisplacedPageStaysOut
CHECK_DEADLOCK FALSE
