SPECIFICATION FairSpec
CONSTANTS
    Worker = {w1, w2}
    Main = Main
    None = None
    Item = {i1, i2}
    NoItem = NoItem
    Priority <- OnePriority
    Result <- AllResults
    MaxUpdates = 1
    EarlierPool = FALSE
    StartTimeout = TRUE
    EarlyStart = TRUE
    FreeWhen = "idle"
PROPERTY EveryEntryHandled
PROPERTY UpdatesReachEveryThread
PROPERTY ShutdownCompletes
CHECK_DEADLOCK FALSE
