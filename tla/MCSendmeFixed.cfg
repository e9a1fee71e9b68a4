SPECIFICATION FairSpec
CONSTANTS
  UsesCC = FALSE
  CircwindowStart = 6
  PackageWindowInit = 4
  Inc = 2
  CwndInit = 2
  CwndMin = 2
  CwndMax = 2
  MaxData = 6
  MaxOther = 1
  EmitVersion <- MCEmitMixed
  AcceptMinVersion <- MCAcceptMixed
INVARIANTS
  TypeOK
  HonestCircuitStaysOpen
  WindowConservation
  DigestsAwaitSendmes
PROPERTIES
  PredictsSendme
  AllDataDelivered
  ImplementsCreditWindow
CHECK_DEADLOCK FALSE
