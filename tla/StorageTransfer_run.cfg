SPECIFICATION Spec
CONSTANTS
  t1 = t1
  t2 = t2
  f1 = f1
  f2 = f2
  Workers <- TwoWorkers
  Files <- TwoFiles
  Settings <- TwoSettings
  MaxJobs = 2
  MaxVersions = 2
  Attempts = 2
  Mixes <- OneKind
  MaxForeign = 1
  MaxFaults = 1
SYMMETRY Interchangeable
INVARIANTS DestinationWhole RowsCopyKept
PROPERTIES CompletedWasWhole
CHECK_DEADLOCK FALSE
