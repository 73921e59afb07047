SPECIFICATION AccessSpec
CONSTANTS
  u1 = u1
  k1 = k1
  k2 = k2
  v1 = v1
  p1 = p1
  AiPrompts = {p1}
  FailureThreshold = 2
  HalfOpenAfter = 2
  MaxAiQuota = 1
  MaxAiTime = 3
  MaxAiRequests = 3
  MaxStarts = 2
  MaxOperations = 2
INVARIANTS  LimitsHold  
PROPERTY ProviderSpared
CHECK_DEADLOCK FALSE
