SPECIFICATION FairSpec
CONSTANTS
    Panes = {p1, p2, p3}
    Statuses = {"working", "done"}
    PaneLimit = 2
    MaxChanges = 3
    MaxBreaks = 1
CHECK_DEADLOCK FALSE
INVARIANTS
    TypeOK
PROPERTIES
    OnlyNewCompletions
    RoomForEverySnapshot
    StandingDoneIsAnnounced
    RefreshingEnds
