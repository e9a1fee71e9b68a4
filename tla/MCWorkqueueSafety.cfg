SPECIFICATION Spec
CONSTANTS
    Worker = {w1, w2, w3}
    Main = Main
    None = None
    Item = {i1, i2}
    NoItem = NoItem
    Priority <- TwoPriorities
    Result <- AllResults
    MaxUpdates = 2
    EarlierPool = FALSE
    StartTimeout = FALSE
    EarlyStart = FALSE
    FreeWhen = "settled"
SYMMETRY Symmetry
INVARIANT EntryHasOneOwner
INVARIANT NoLostReply
INVARIANT ArgConsumedOnce
 
PROPERTY ImplementsWorkPool
CHECK_DEADLOCK FALSE
