CONSTANTS
  t1 = t1
  t2 = t2
  a1 = a1
  a2 = a2
  Task <- TasksMC
  Agent <- AgentsMC
  Lineage <- LineageMC
  Operator <- NobodyMC
  MaxConcurrentRuns = 2
  MaxTaskRetries = 1
  MaxRuns = 2
  MaxCrashes = 1
  MaxAge = 0
SPECIFICATION Spec
INVARIANTS OneLiveRunPerTask AgentExclusive
CHECK_DEADLOCK FALSE
