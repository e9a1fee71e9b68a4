SPECIFICATION FairSpec
CONSTANTS
    NumLegs = 2
    MaxRetry = 1
    MaxLegs = 2
    None = None
INVARIANT LegsMeetAtExit
CHECK_DEADLOCK FALSE
