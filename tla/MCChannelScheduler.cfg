SPECIFICATION FairSpec
CONSTANTS
    busy = busy
    quiet = quiet
    Channel = {busy, quiet}
    None = None
    HighWater = 2
    LowWater = 1
    MaxLimit = 2
    CellsToQueue <- MCCells
    DestroysToSend <- MCOneForBusy
    DirectWrites <- MCOneForBusy
    MaxSwitches = 1
INVARIANT HeapMatchesState
INVARIANT NoStaleChannel
INVARIANT NoSchedBug
INVARIANT RunIsScheduled
PROPERTY QueuedCellsLeave
CHECK_DEADLOCK FALSE
