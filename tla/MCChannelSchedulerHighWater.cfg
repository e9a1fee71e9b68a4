SPECIFICATION Spec
CONSTANTS
    busy = busy
    quiet = quiet
    Channel = {busy, quiet}
    None = None
    HighWater = 1
    LowWater = 1
    MaxLimit = 1
    CellsToQueue <- MCCells
    DestroysToSend <- MCNone
    DirectWrites <- MCTwoForBusy
    MaxSwitches = 0
PROPERTY StopsAtHighWater
CHECK_DEADLOCK FALSE
