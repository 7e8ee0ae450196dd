SPECIFICATION FairSpec
CONSTANTS
  c1 = c1
  c2 = c2
  Callers <- TwoCallers
  MaxJobs = 2
  MaxFaults = 2
INVARIANTS OneTraining ResumeAfterEnd
PROPERTIES CancelSettles
CHECK_DEADLOCK FALSE
