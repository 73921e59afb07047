SPECIFICATION FairSpec
CONSTANTS
  Requests = {r1}
  Tasks = {t1, t2}
  MaxDay = 1
  N = 2
  MaxRetries = 2
  Idempotent = {1}
  Compensable = {1, 2}
  Ops = {"retry"}
  MaxCalls = 1
  MaxCrashes = 0
  DbErrors = FALSE
  SlowSteps = FALSE
PROPERTIES
  EveryRunEnds
CHECK_DEADLOCK FALSE
