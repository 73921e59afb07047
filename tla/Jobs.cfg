SPECIFICATION JobsSpec
CONSTANTS
  u1 = u1
  s1 = s1
  s2 = s2
  c1 = c1
  QueueNames = {"deploy-contract", "process-tts", "index-market-news"}
  DeployAttempts = 1
  TtsAttempts = 2
  NewsAttempts = 1
  Limits = {0, 1}
  MaxJobs = 3
  MaxRequests = 2
  VoiceUsers = {u1}
  MaxSessionsPerUser = 1
  VoiceIds = {s1, s2}
  MaxCalls = 3
  Contents = {c1}
  MaxRetries = 3
  BullAttempts = 3
  MaxStalled = 1
  MaxSpeechJobs = 2
SYMMETRY Symmetry
CONSTRAINT FewAtOnce
INVARIANTS  ResultMeansCompleted  NotStranded
PROPERTY InterruptSilences
CHECK_DEADLOCK FALSE
