SPECIFICATION Spec
CONSTANTS
    MaxGeneration = 3
    MaxData = 1
    MinCols = 2
    MaxCols = 3
    Grids = {1}
    MaxFits = 1
INVARIANTS
    TypeOK
    NeverStranded
    OneSocket
    ReadyMeansAttached
    WidthsAgree
PROPERTIES
    DetachedPageRests
CHECK_DEADLOCK FALSE
