SPECIFICATION FairSpec
CONSTANTS
  w1 = w1
  w2 = w2
  c1 = c1
  Workers <- TwoWorkers
  Callers <- OneCaller
  Posts <- ThreePosts
  Source <- ChangingSource
  MaxCandidates = 3
  MaxPages = 4
  MaxRequests = 5
  MaxClaims = 3
  MaxFaults = 1
INVARIANTS CandidatesCounted PagesChained CompletedIsWhole
PROPERTIES SearchEnds
CHECK_DEADLOCK FALSE
