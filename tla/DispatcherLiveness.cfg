CONSTANTS
  t1 = t1
  t2 = t2
  a1 = a1
  a2 = a2
  Task <- OneTaskMC
  Agent <- OneAgentMC
  Lineage <- NobodyMC
  Operator <- DispatchCancelMC
  MaxConcurrentRuns = 1
  MaxTaskRetries = 1
  MaxRuns = 1
  MaxCrashes = 2
  MaxAge = 2
SPECIFICATION FairSpec
PROPERTIES AbandonedRunsEnd SlotsComeBack
CHECK_DEADLOCK FALSE
