SPECIFICATION FairSpec
CONSTANTS
    Circuit = {c1, c2, c3}
    MaxPending <- MCMaxPending
    AlwaysRoom = 1
INVARIANT TasksCounted
INVARIANT QueueCoherent
INVARIANT TaskKeepsCircuit
PROPERTY PoolUsedAsPromised
PROPERTY QueueDrains
PROPERTY ClosedIsFreed
CHECK_DEADLOCK FALSE
