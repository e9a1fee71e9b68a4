SPECIFICATION FairSpec
CONSTANTS
  l1 = l1
  l2 = l2
  NoLeg = NoLeg
  Leg <- MCLeg
  Fragile = {l1}
  Command = {"DATA", "CTRL"}
  SendmeInc = 2
  Cwnd = 2
  MaxOooq = 2
  MaxSend <- MCMaxSend
INVARIANTS
  InOrderDelivery
  CoherentSequences
  LossBounded
PROPERTIES
  AllDelivered
CHECK_DEADLOCK FALSE
