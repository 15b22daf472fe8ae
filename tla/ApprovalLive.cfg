CONSTANTS
  MaxRuns = 3
  Calls = {c1}
  Parent <- ParentMC
  Push = TRUE
  Overlap <- ApprovesMC
  MaxCommits = 2
  MaxMerges = 2
  MaxRebases = 1
  MaxCrashes = 1
SPECIFICATION FairSpec
INVARIANTS TypeOK
PROPERTIES ImplementsLanding LandedIsClosed
CHECK_DEADLOCK FALSE
