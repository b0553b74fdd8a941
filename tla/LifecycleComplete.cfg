CONSTANTS
    t1 = t1
    t2 = t2
    Torrents = {t1}
    None = None
    NumPieces = 1
    QueueSize <- OneEach
    Front = "rpc"
    VerifyComplete = TRUE
    MaxCommands = 3
SPECIFICATION Spec
INVARIANT StartWaitsForVerify
CHECK_DEADLOCK FALSE
