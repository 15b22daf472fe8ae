CONSTANTS
  MaxRuns = 3
  Calls = {c1, c2}
  Parent <- ParentMC
  Push = FALSE
  Overlap <- BesideMC
  MaxCommits = 1
  MaxMerges = 2
  MaxRebases = 1
  MaxCrashes = 1
SPECIFICATION Spec
INVARIANTS NoWorkLost VerdictsAgree
SYMMETRY SymmetryMC
CHECK_DEADLOCK FALSE
