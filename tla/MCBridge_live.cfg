SPECIFICATION FairSpec
CONSTANTS
    MaxChunks = 2
    QueueLimit = 1
    MaxCompletions = 0
    Disturbances = {"page", "shutdown", "stop", "descendant"}
CHECK_DEADLOCK FALSE
INVARIANTS
    CleanReturnIsReaped

    
