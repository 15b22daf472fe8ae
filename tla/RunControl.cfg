CONSTANTS
  MaxTaskRetries = 1
  Operator <- OperatorMC
  MaxRuns = 3
  MaxGrants = 2
  MaxCrashes = 1
  MaxCalls = 1
SPECIFICATION Spec
INVARIANTS TypeOK WorktreeExclusive AttemptsPaid
PROPERTIES ResumesLatestWork PauseHolds
CONSTRAINT Open
CHECK_DEADLOCK FALSE
