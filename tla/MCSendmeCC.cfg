SPECIFICATION FairSpec
CONSTANTS
  UsesCC = TRUE
  CircwindowStart = 4
  PackageWindowInit = 4
  Inc = 2
  CwndInit = 3
  CwndMin = 2
  CwndMax = 4
  MaxData = 7
  MaxOther = 0
  EmitVersion <- MCEmitV1
  AcceptMinVersion <- MCAcceptV1
INVARIANTS
  InflightExact
PROPERTIES
  AllDataDelivered
CHECK_DEADLOCK FALSE
