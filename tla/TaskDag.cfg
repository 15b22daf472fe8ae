SPECIFICATION Spec
CONSTANTS
  t1 = t1  t2 = t2  t3 = t3
  Task <- TasksMC
  Import <- AcyclicMC
  MaxRuns = 2
  MaxEdits = 2
  MaxSweeps = 3
INVARIANTS TypeOK EvaluationReturns OrderIrrelevant QueuedRetryReopens NobodyForgotten
CHECK_DEADLOCK FALSE
