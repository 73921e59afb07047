SPECIFICATION Spec
CONSTANTS
  Requests = {r1}
  Tasks = {t1, t2}
  MaxDay = 1
  N = 2
  MaxRetries = 2
  Idempotent = {1}
  Compensable = {1, 2}
  Ops = {}
  MaxCalls = 0
  MaxCrashes = 0
  DbErrors = TRUE
  SlowSteps = FALSE
INVARIANTS
  ExactlyOncePerRequest
CHECK_DEADLOCK FALSE
