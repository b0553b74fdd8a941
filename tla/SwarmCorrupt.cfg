CONSTANTS
    p1 = p1
    p2 = p2
    f1 = f1
    f2 = f2
    NumPieces = 2
    RawBegin <- AlignedBegin
    RawEnd <- AlignedEnd
    Peers = {p1, p2}
    FastPeers = {p2}
    Files = {f1}
    FilePieces <- OneFile
    PeerLimit = 2
    MaxRequests = 1
    MayCorrupt = TRUE
    MaxReplication = 1
SPECIFICATION Spec
INVARIANTS
    NoBlockLost
    HadPiecesVerified
    EachBlockOnce
CHECK_DEADLOCK FALSE
