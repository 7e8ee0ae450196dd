SPECIFICATION Spec
CONSTANTS
  w1 = w1
  w2 = w2
  r = r
  c1 = c1
  Workers <- MCWorkers
  Repairer = r
  Callers <- OneCaller
  ItemCount = 2
  MaxFaults = 1
  MaxRequests = 2
INVARIANTS TerminalSettled
PROPERTIES CancelWins RepairNeverRequeued
CHECK_DEADLOCK FALSE
