CONSTANTS
    t1 = t1
    k1 = k1
    k2 = k2
    Tiers = {t1}
    Trackers = {k1, k2}
    Scrapable = {k1}
    Lists <- Edited
    ScrapePaused = TRUE
    MayUnregister = TRUE
    MaxQueue = 3
    MaxScrapes = 1
    MaxResets = 1
SPECIFICATION FairSpec
INVARIANTS
    TypeOK
    QueueOrdered
    FlagsAnswered
PROPERTIES
    CompletionKept
    SilencedOnlyBy
    EventsSent
CHECK_DEADLOCK FALSE
