SPECIFICATION Spec
CONSTANTS
  a1 = a1
  a2 = a2
  f1 = f1
  f2 = f2
  Processes <- TwoProcesses
  Files <- TwoFiles
  Policies <- DefaultPolicy
  Sources <- TwoSources
  MaxChanges = 1
  MaxCalls = 2
  MaxStalls = 1
  MaxFaults = 1
SYMMETRY Alike
INVARIANTS CompletedIsMarked MarkerLast
PROPERTIES CompletedStays
CHECK_DEADLOCK FALSE
