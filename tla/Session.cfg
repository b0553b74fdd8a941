CONSTANTS
    announce = announce
    scrape = scrape
    Tasks <- AllTasks
    Protocols = {0, 1}
    CloseSession = CloseSession
SPECIFICATION FairSpec
INVARIANTS
    TypeOK
    OnePlace
    NothingLeftBehind
    UpdatingIsUnderWay
PROPERTIES
    FetchAnswered
    PromiseKept
CHECK_DEADLOCK FALSE
