SPECIFICATION FairSpec
CONSTANTS
    NumLegs = 2
    MaxRetry = 1
    MaxLegs = 2
    None = None
INVARIANT PoolCoherent
INVARIANT ObjectOwned
INVARIANT LinkedAtExitFirst
PROPERTY SetSettles
PROPERTY ExitReleasesSet
CHECK_DEADLOCK FALSE
