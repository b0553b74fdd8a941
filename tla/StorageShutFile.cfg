CONSTANTS
    torrent = torrent
    file = file
    Torrents = {torrent}
    Blocks = {0, 1}
    Owner <- OneOwner
    FileOf <- OneFile
    PieceOf <- TwoPieces
    Limits = {0, 1}
    MayBeShut = {file}
    Suspect = {}
    Late = {}
    MaxClock = 1
SPECIFICATION Spec
PROPERTIES
    LeavesForDisk
CHECK_DEADLOCK FALSE
