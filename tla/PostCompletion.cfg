CONSTANTS
  MaxFix = 2
  MaxTaskRetries = 1
  Reviewer <- EitherMC
  Operator <- AllMC
  MaxTasks = 5
  MaxRuns = 5
  MaxUpsets = 1
SPECIFICATION FairSpec
INVARIANTS TypeOK MergedCleared OneFollowUp  RoundsBounded QuietMerge
PROPERTIES CompletionsHandled
CHECK_DEADLOCK FALSE
