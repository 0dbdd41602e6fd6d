SPECIFICATION Spec
CONSTANTS
    MaxChunks = 1
    QueueLimit = 1
    MaxCompletions = 1
    Disturbances = {"descendant"}
CHECK_DEADLOCK FALSE
INVARIANTS
    NothingAfterLastMessage
