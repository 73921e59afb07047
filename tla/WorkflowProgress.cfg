SPECIFICATION FairSpec
CONSTANTS
  Requests = {r1}
  Tasks = {t1, t2}
  MaxDay = 2
  N = 2
  MaxRetries = 2
  Idempotent = {1}
  Compensable = {1, 2}
  Ops = {"compensate", "manualRecovery"}
  MaxCalls = 2
  MaxCrashes = 0
  DbErrors = FALSE
  SlowSteps = FALSE

  
PROPERTIES
  
  EveryRunEnds
CHECK_DEADLOCK FALSE
