CONSTANTS
  t1 = t1
  t2 = t2
  a1 = a1
  a2 = a2
  Task <- OneTaskMC
  Agent <- AgentsMC
  Lineage <- NobodyMC
  Operator <- NudgeMC
  MaxConcurrentRuns = 1
  MaxTaskRetries = 1
  MaxRuns = 3
  MaxCrashes = 1
  MaxAge = 1
SPECIFICATION Spec
INVARIANTS TypeOK SlotsRespected RetriesPaidByRuns
PROPERTIES NoSecondPipeline
CHECK_DEADLOCK FALSE
