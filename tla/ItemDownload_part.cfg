SPECIFICATION FairSpec
CONSTANTS
  w1 = w1
  w2 = w2
  s1 = s1
  NoOne = NoOne
  Workers <- TwoWorkers
  Sweepers <- OneSweeper
  Chunks = 2
  MaxAttempts = 3
  WorkerStalls <- OutsideFile
  CleanerStalls <- OutsideUnlink
  MaxClaims = 3
  MaxFaults = 1
INVARIANTS ImportedIsVerified PartIsPrefix
PROPERTIES OnlyDeadPartsRemoved DeadPartsCollected
CHECK_DEADLOCK FALSE
