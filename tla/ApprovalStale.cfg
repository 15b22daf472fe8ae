CONSTANTS
  MaxRuns = 3
  Calls = {c1, c2}
  Parent <- ParentMC
  Push = FALSE
  Overlap <- ApprovesMC
  MaxCommits = 1
  MaxMerges = 2
  MaxRebases = 1
  MaxCrashes = 0
SPECIFICATION Spec
PROPERTIES StaleNeverMerges
SYMMETRY SymmetryMC
CHECK_DEADLOCK FALSE
