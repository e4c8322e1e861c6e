CONSTANTS
  Detect = 5
  KeepAlive = 10
  Period = 1
  MaxLate = 2
  ResetDelay = 1
SPECIFICATION FairSpec
INVARIANTS
  TypeOK
  AlertHasCause
PROPERTIES
  ClearsWhenHeld
  UnstableResets
  HoldingClears
