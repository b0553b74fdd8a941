CONSTANTS
    torrent = torrent
    file = file
    Torrents = {torrent}
    Blocks = {0, 1}
    Owner <- OneOwner
    FileOf <- OneFile
    PieceOf <- TwoPieces
    Limits = {0, 1}
    MayBeShut = {}
    Suspect = {0}
    Late = {"bad"}
    MaxClock = 2
SPECIFICATION Spec
INVARIANTS
    TypeOK
    SavedOrDirty
    ServedGood
PROPERTIES
    HadStable
CHECK_DEADLOCK FALSE
