\* A ring of three cells, so that it wraps and overflows; crashes and a fault.
CONSTANTS
  MAX_LOG_COUNT = 3
  MaxEvents = 3
  MaxDels = 1
  MaxFaults = 1
  MaxCrashes = 2
SPECIFICATION FairSpec
INVARIANTS
  TypeOK
  CleanLogIsSaved
  OneSaveBehind
PROPERTIES
  IsBoundedLog
  EntriesReachFlash
