CONSTANTS
  Unset = Unset
  NumObjs = 1
  NumEvents = 2
  Values = {0, 1, 2}
  Configs <- MCLimit
  Word = 16
  Width = 12
  Period = 1
  MaxAge = 2
  MaxLate = 2
  Jump = 2
  MaxSets = 0
SPECIFICATION FairSpec
PROPERTIES
  IntervalRecurs
