CONSTANTS
    t1 = t1
    t2 = t2
    Torrents = {t1, t2}
    None = None
    NumPieces = 2
    QueueSize <- OneEach
    Front = "rpc"
    VerifyComplete = FALSE
    MaxCommands = 3
SPECIFICATION Spec
INVARIANTS
    StartWaitsForVerify
    CheckedTrue
    RunningKnowsCompleteness
CHECK_DEADLOCK FALSE
