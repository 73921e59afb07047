SPECIFICATION Spec
CONSTANTS
  Requests = {r1}
  Tasks = {t1, t2}
  MaxDay = 1
  N = 2
  MaxRetries = 2
  Idempotent = {1}
  Compensable = {1, 2}
  Ops = {"retry", "retryStep", "cancel", "compensate", "force", "manualRecovery"}
  MaxCalls = 2
  MaxCrashes = 1
  DbErrors = FALSE
  SlowSteps = TRUE
SYMMETRY TaskSymmetry
INVARIANT AtMostOnce
CHECK_DEADLOCK FALSE
