\* A QoS 0 or 2 publish, a link that changes and a fault of every kind.
CONSTANTS
  Ids = {1, 2}
  QoS = {0, 2}
  TimerIds = {1, 2}
  MaxQueue = 1
  MaxPubs = 1
  MaxFlaps = 1
  MaxFaults = 1
SPECIFICATION Spec
INVARIANTS
  TypeOK
  ConnectedHasSocket
  
\* The link may stay down for good, and identifiers are bounded.
PROPERTY NoFalseDeath
CHECK_DEADLOCK FALSE
