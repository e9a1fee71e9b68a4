SPECIFICATION Spec
CONSTANTS
    a = a
    b = b
    c1 = c1
    c2 = c2
    NoCirc = NoCirc
    Conn = {a, b}
    Circ = {c1, c2}
    Optimistic = {c1, c2}
    MaxId <- MCId
    StreamStart = 1
    StreamInc = 1
    CircStart = 2
    CircInc = 2
    OutbufLimit = 0
    MaxData <- MCData
    MaxCloses = 1
INVARIANT HonestCellsAccepted
INVARIANT StreamsKeepTheirData
INVARIANT NoStall
CHECK_DEADLOCK FALSE
