SPECIFICATION PlanSpec
CONSTANTS
  c1 = c1
  c2 = c2
  p1 = p1
  p2 = p2
  s1 = s1
  s2 = s2
  Callers <- TwoCallers
  Posts <- TwoPosts
  Searches <- TwoSearches
  Versions <- OldOrNew
  MaxPlans = 2
  NoPreview = NoPreview
SYMMETRY Interchangeable
INVARIANTS PlannedOnce ConfirmedStartable
CHECK_DEADLOCK FALSE
