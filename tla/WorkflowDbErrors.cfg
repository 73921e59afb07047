SPECIFICATION Spec
CONSTANTS
  Requests = {r1}
  Tasks = {t1, t2}
  MaxDay = 1
  N = 2
  MaxRetries = 2
  Idempotent = {1}
  Compensable = {1, 2}
  Ops = {"retry", "retryStep", "cancel", "compensate", "force", "manualRecovery"}
  MaxCalls = 1
  MaxCrashes = 1
  DbErrors = TRUE
  SlowSteps = TRUE
SYMMETRY TaskSymmetry
INVARIANTS
  StepOrder
  CompletedMeansDone
  BoundedRepetition
CHECK_DEADLOCK FALSE
