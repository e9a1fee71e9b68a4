SPECIFICATION FairSpec
CONSTANTS
    Worker = {w1, w2}
    Main = Main
    None = None
    Item = {i1}
    NoItem = NoItem
    Priority <- OnePriority
    Result <- OneResult
    MaxUpdates = 0
    EarlierPool = FALSE
    StartTimeout = FALSE
    EarlyStart = FALSE
    FreeWhen = "settled"
PROPERTY ShutdownCompletes
CHECK_DEADLOCK FALSE
