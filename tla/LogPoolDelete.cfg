\* The help text of the shell's "del" against FTE_LOG_del and a restart.
CONSTANTS
  MAX_LOG_COUNT = 3
  MaxEvents = 2
  MaxDels = 1
  MaxFaults = 0
  MaxCrashes = 2
SPECIFICATION Spec
INVARIANT DeletedStayDeleted
