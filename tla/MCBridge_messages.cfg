SPECIFICATION Spec
CONSTANTS
    MaxChunks = 2
    QueueLimit = 1
    MaxCompletions = 1
    Disturbances = {"detach", "ping", "pong", "invalid"}
CHECK_DEADLOCK FALSE
INVARIANTS
    TypeOK
    OutputInOrder
    ExitCarriesAllOutput
    DisplacedPageIsTold
    ReportsNeverBlock
