CONSTANTS
    t1 = t1
    t2 = t2
    Torrents = {t1, t2}
    None = None
    NumPieces = 1
    QueueSize <- OneEach
    Front = "direct"
    VerifyComplete = TRUE
    MaxCommands = 3
SPECIFICATION FairSpec
INVARIANTS
    TypeOK
    StateMatchesWorker
    NoFreedTorrentUsed
PROPERTIES
    VerifyPromise
    RemoveReturns
    VerifyEnds
CHECK_DEADLOCK FALSE
