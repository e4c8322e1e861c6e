CONSTANTS
  Hosts = {h1, h2}
  None = None
  MaxTraps = 1
  MaxServers = 1
  Slots = 2
  Burst = 1
  Tries = 2
  MaxAlerts = 3
  MaxAsks = 2
  MaxCmds = 3
  MaxFaults = 3
SPECIFICATION FairSpec
INVARIANTS
  TypeOK
  QueueBounded
  TriesAreBack
  ServersServed
  AskerHears
PROPERTIES
  TrapsDrain
CHECK_DEADLOCK FALSE
