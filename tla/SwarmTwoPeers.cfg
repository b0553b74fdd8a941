CONSTANTS
    p1 = p1
    p2 = p2
    f1 = f1
    f2 = f2
    NumPieces = 2
    RawBegin <- SharedBegin
    RawEnd <- SharedEnd
    Peers = {p1, p2}
    FastPeers = {}
    Files = {f1, f2}
    FilePieces <- OneFilePerPiece
    PeerLimit = 2
    MaxRequests = 1
    MayCorrupt = FALSE
    MaxReplication = 2
SPECIFICATION Spec
INVARIANTS
    TypeOK
    StoredLeftAlone
    NeighboursMeet
    ReplicationCovers
    NoBlockLost
    CompletenessFresh
PROPERTY UsefulRequests
CHECK_DEADLOCK FALSE
SYMMETRY PeerSymmetry
