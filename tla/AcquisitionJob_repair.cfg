SPECIFICATION FairSpec
CONSTANTS
  w1 = w1
  w2 = w2
  r = r
  c1 = c1
  Workers <- MCWorkers
  Repairer = r
  Callers <- OneCaller
  ItemCount = 1
  MaxFaults = 1
  MaxRequests = 2
INVARIANTS ManifestAgrees RepairIntent
PROPERTIES LeaseSpec RepairSettles
CHECK_DEADLOCK FALSE
