CONSTANTS
  t1 = t1
  t2 = t2
  a1 = a1
  a2 = a2
  Task <- OneTaskMC
  Agent <- OneAgentMC
  Lineage <- NobodyMC
  Operator <- OnlyCancelMC
  MaxConcurrentRuns = 1
  MaxTaskRetries = 1
  MaxRuns = 2
  MaxCrashes = 0
  MaxAge = 0
SPECIFICATION Spec
INVARIANTS CancelledHasNoSession
CHECK_DEADLOCK FALSE
