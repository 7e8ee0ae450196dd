SPECIFICATION Spec
CONSTANTS
  t1 = t1
  t2 = t2
  w1 = w1
  w2 = w2
  Images <- TwoImages
  MaxRuns = 2
  MaxWorkers = 1
  Tags <- TwoTags
  Triggers <- NoTriggers
  Predictions <- SomePredictions
  Texts <- OneText
  Written <- FirstWritten
  Drops <- DropNone
  Policies <- KeepOnly
  Windows <- TwoWindows
  MaxEdits = 2
  Changing <- SecondChanges
  MaxSelects = 1
  MaxFaults = 1
INVARIANTS EndIsWhole RevisionsChained
 
SYMMETRY Symmetry
CHECK_DEADLOCK FALSE
