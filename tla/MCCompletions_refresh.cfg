SPECIFICATION FairSpec
CONSTANTS
    Panes = {p1, p2}
    Statuses = {"", "working", "done"}
    PaneLimit = 2
    MaxChanges = 2
    MaxBreaks = 0
CHECK_DEADLOCK FALSE
PROPERTIES
    RefreshingEnds
