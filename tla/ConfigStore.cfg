\* Two pools; flash faults of every kind, a crash, a forced save and a reset.
CONSTANTS
  a = a
  Default = Default
  Blank = Blank
  Vals <- MCVals
  Seeded <- MCSeeded
  NumPools = 2
  MaxEdits = 1
  MaxForces = 1
  MaxClears = 1
  MaxFaults = 1
  MaxCrashes = 1
SPECIFICATION FairSpec
INVARIANTS
  IInv
  CleanMeansSaved
  WholeUnlessOverlap
PROPERTIES
  IsAtomicStore
  ChangesReachFlash
