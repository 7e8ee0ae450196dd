SPECIFICATION SnapshotSpec
CONSTANTS
  a1 = a1
  a2 = a2
  s1 = s1
  s2 = s2
  Processes <- TwoProcesses
  Snapshots <- TwoSnapshots
  Images <- TwoImages
  MaxChanges = 1
  MaxCalls = 1
  MaxFailures = 2
INVARIANTS CompletedIsPreview FinalIsKnown
PROPERTIES StartHeals
SYMMETRY Symmetry
CHECK_DEADLOCK FALSE
