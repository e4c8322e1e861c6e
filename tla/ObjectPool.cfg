CONSTANTS
  NumRoms = 2
  Fixed = 1
  MaxRecords = 4
  MaxCmds = 4
  MaxPlugs = 1
  MaxCrashes = 2
  MaxFaults = 1
SPECIFICATION Spec
INVARIANTS
  TypeOK
  
  
  
CHECK_DEADLOCK FALSE
