SPECIFICATION Spec
CONSTANTS
  a = a
  b = b
  c = c
  Addr <- MCAddr
  ApproverLists <- MCApproverLists
  Delays <- MCDelays
  U64 = 8
  OverflowChecks = TRUE
  MaxTime = 2
  MaxProposals = 2
INVARIANTS
  TypeOK
  QuorumBacked
  
PROPERTIES
  StaysSettled
  
CHECK_DEADLOCK FALSE
