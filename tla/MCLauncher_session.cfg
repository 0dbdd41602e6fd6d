SPECIFICATION FairSpec
CHECK_DEADLOCK FALSE
INVARIANTS
    ReleasedIsStopped
    QuarantineHasCause
PROPERTIES
    CallsReturn
    ClientFollowsServer
