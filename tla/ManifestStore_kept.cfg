SPECIFICATION FairSpec
CONSTANTS
  w1 = w1
  w2 = w2
  w3 = w3
  Writers <- MCWriters
  Stalls <- OutsideSweep
  MaxClaims = 4
  MaxFaults = 2
INVARIANTS ClosedHasManifest
PROPERTIES ReferencedKept ReferenceAdvances OrphansCollected
CHECK_DEADLOCK FALSE
