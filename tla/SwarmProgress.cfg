CONSTANTS
    p1 = p1
    p2 = p2
    f1 = f1
    f2 = f2
    NumPieces = 2
    RawBegin <- SharedBegin
    RawEnd <- SharedEnd
    Peers = {p1}
    FastPeers = {p1}
    Files = {f1, f2}
    FilePieces <- OneFilePerPiece
    PeerLimit = 1
    MaxRequests = 2
    MayCorrupt = FALSE
    MaxReplication = 2
SPECIFICATION FairSpec
PROPERTY CalmCompletes
CHECK_DEADLOCK FALSE
