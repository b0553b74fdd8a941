CONSTANTS
    announce = announce
    scrape = scrape
    Tasks <- AllTasks
    Protocols = {0, 1}
    CloseSession = CloseSession
SPECIFICATION FairSpec
PROPERTIES
    CloseReturns
CHECK_DEADLOCK FALSE
