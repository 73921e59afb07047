-------------------------- MODULE GovernanceProofs --------------------------
(***************************************************************************)
(* Proofs about Governance, for every set of accounts, approver lists,     *)
(* delays, word width and number of proposals.                             *)
(*                                                                         *)
(* QuorumBacked is not inductive: that the role map does not change under  *)
(* a voter needs "no proposal exists before init" (BeforeInit), that the   *)
(* count stays within the list needs the threshold check made when the     *)
(* proposal was created, and Cardinality needs the voters to be finite     *)
(* (Threshold). The timelock needs the history of created_at and delay     *)
(* that execution_time stands for (Timelock).                              *)
(***************************************************************************)
EXTENDS Governance, FiniteSetTheorems, TLAPS

BeforeInit == ~initialized => prop_cnt = 0

Threshold ==
  \A id \in 1 .. prop_cnt :
    /\ props[id].approval_threshold <= Len(props[id].approvers)
    /\ IsFiniteSet(Voters(id))

Timelock ==
  \A id \in 1 .. prop_cnt :
    LET p == props[id] IN
    /\ p.executed <=> p.status = "Executed"
    /\ OverflowChecks => p.execution_time = p.created_at + hist[id].delay
    /\ p.executed => now >= p.execution_time /\ \E a \in Addr : hist[id].by = {a}
    /\ ~p.executed => hist[id].by = {}

-----------------------------------------------------------------------------
\* The clock stays inside a u64 when the delay is added modulo its width.
LEMMA ExecutionTimeType ==
  ASSUME NEW t \in 0 .. MaxTime, NEW d \in Delays
  PROVE  /\ (t + d) % U64 \in 0 .. (U64 - 1)
         /\ t + d < U64 => (t + d) % U64 = t + d
  <1>1. t + d \in Nat /\ U64 \in Nat \ {0}
    BY DelaysAssumption, U64Assumption, BoundsAssumption
  <1> QED
    BY <1>1

\* Typing (TypeOK) is preserved by every step of the contract.
THEOREM TypeCorrect == Spec => []TypeOK
  <1>1. Init => TypeOK
    <2> SUFFICES ASSUME Init PROVE TypeOK
      OBVIOUS
    <2>1. now \in 0 .. MaxTime /\ prop_cnt \in 0 .. MaxProposals
      BY BoundsAssumption DEF Init
    <2>2. DOMAIN roles = {} /\ apprv \subseteq (1 .. prop_cnt) \X Addr
      BY DEF Init
    <2>3. props \in [1 .. prop_cnt -> UpgradeProposal]
      BY DEF Init
    <2>4. hist \in [1 .. prop_cnt -> [delay : Delays, by : SUBSET Addr]]
      BY DEF Init
    <2>5. initialized \in BOOLEAN
      BY DEF Init
    <2> QED
      BY <2>1, <2>2, <2>3, <2>4, <2>5 DEF TypeOK
  <1>2. TypeOK /\ [Next]_vars => TypeOK'
    <2> SUFFICES ASSUME TypeOK, [Next]_vars PROVE TypeOK'
      OBVIOUS
    <2> USE DEF TypeOK
    <2>1. CASE Tick
      BY <2>1, BoundsAssumption DEF Tick
    <2>2. ASSUME NEW admin \in Addr, NEW executor \in Addr,
                 NEW approvers \in ApproverLists,
                 init(admin, approvers, executor)
          PROVE  TypeOK'
      BY <2>2 DEF init, GovernanceRole, Admin, Approver, Executor
    <2>3. ASSUME NEW a \in Addr, NEW list \in ApproverLists, NEW delay \in Delays,
                 NEW threshold \in 0 .. (Len(list) + 1),
                 propose_upgrade(a, threshold, list, delay)
          PROVE  TypeOK'
      <3>1. threshold \in Nat
        BY ApproverListsAssumption
      <3>2. now \in 0 .. (U64 - 1) /\ ExecutionTime(delay) \in 0 .. (U64 - 1)
        BY ExecutionTimeType, BoundsAssumption, U64Assumption DEF ExecutionTime
      <3>3. props' \in [1 .. (prop_cnt + 1) -> UpgradeProposal]
        BY <2>3, <3>1, <3>2 DEF propose_upgrade, UpgradeProposal, ProposalStatus
      <3>4. hist' \in [1 .. (prop_cnt + 1) -> [delay : Delays, by : SUBSET Addr]]
        BY <2>3 DEF propose_upgrade
      <3>5. prop_cnt' = prop_cnt + 1 /\ prop_cnt' \in 0 .. MaxProposals
        BY <2>3, BoundsAssumption DEF propose_upgrade
      <3>6. apprv' \subseteq (1 .. prop_cnt') \X Addr
        BY <2>3, <3>5 DEF propose_upgrade
      <3> QED
        BY <2>3, <3>3, <3>4, <3>5, <3>6 DEF propose_upgrade
    <2>4. ASSUME NEW id \in 1 .. prop_cnt, NEW a \in Addr, approve_proposal(id, a)
          PROVE  TypeOK'
      <3> DEFINE n == props[id].approvals_count + 1
                 s == IF n >= props[id].approval_threshold THEN "Approved" ELSE "Pending"
      <3>1. /\ n \in Nat /\ s \in ProposalStatus
            /\ props' = [props EXCEPT ![id] = [props[id] EXCEPT !.approvals_count = n, !.status = s]]
        BY <2>4 DEF approve_proposal, FirstApproval, ApprovalKey, UpgradeProposal, ProposalStatus
      <3> HIDE DEF n, s
      <3>2. props' \in [1 .. prop_cnt -> UpgradeProposal]
        BY <3>1 DEF UpgradeProposal
      <3> QED
        BY <2>4, <3>2 DEF approve_proposal, FirstApproval, ApprovalKey
    <2>5. ASSUME NEW id \in 1 .. prop_cnt, NEW a \in Addr, execute_proposal(id, a)
          PROVE  TypeOK'
      <3>1. props' \in [1 .. prop_cnt -> UpgradeProposal]
        BY <2>5 DEF execute_proposal, TimelockExpired, UpgradeProposal, ProposalStatus
      <3> QED
        BY <2>5, <3>1 DEF execute_proposal, TimelockExpired
    <2>6. ASSUME NEW id \in 1 .. prop_cnt, NEW a \in Addr, reject_proposal(id, a)
          PROVE  TypeOK'
      BY <2>6 DEF reject_proposal, UpgradeProposal, ProposalStatus
    <2>7. ASSUME NEW id \in 1 .. prop_cnt, NEW a \in Addr, cancel_proposal(id, a)
          PROVE  TypeOK'
      BY <2>7 DEF cancel_proposal, Cancellable, UpgradeProposal, ProposalStatus
    <2>8. CASE UNCHANGED vars
      BY <2>8 DEF vars
    <2> QED
      BY <2>1, <2>2, <2>3, <2>4, <2>5, <2>6, <2>7, <2>8 DEF Next
  <1> QED
    BY <1>1, <1>2, PTL DEF Spec
-----------------------------------------------------------------------------
QInv == TypeOK /\ BeforeInit /\ Threshold /\ QuorumBacked

\* A step that neither votes nor touches what QuorumBacked reads of a proposal
\* leaves that proposal backed.
LEMMA QuorumFrame ==
  ASSUME QInv, NEW id \in 1 .. prop_cnt, UNCHANGED roles, Voters(id)' = Voters(id),
         props'[id].approvals_count = props[id].approvals_count,
         props'[id].approval_threshold = props[id].approval_threshold,
         props'[id].approvers = props[id].approvers,
         \/ props'[id].status = props[id].status
         \/ props'[id].status = "Cancelled"
         \/ props[id].status = "Pending" /\ props'[id].status = "Rejected"
         \/ props[id].status = "Approved" /\ props'[id].status = "Executed"
  PROVE  LET p == props'[id] IN
         /\ p.approvals_count = Cardinality(Voters(id)')
         /\ \A a \in Voters(id)' : Listed(a, p.approvers) /\ RoleOf(a)' <= Approver
         /\ p.status \in {"Pending", "Rejected"} => p.approvals_count < p.approval_threshold
         /\ p.status \in {"Approved", "Executed"} => p.approvals_count = p.approval_threshold
         /\ p.approvals_count <= Len(p.approvers)
         /\ p.approval_threshold <= Len(p.approvers)
         /\ IsFiniteSet(Voters(id)')
  BY DEF QInv, QuorumBacked, Threshold, RoleOf

\* The inductive invariant behind the quorum.
LEMMA QuorumInvariant == Spec => []QInv
  <1>1. Init => BeforeInit /\ Threshold /\ QuorumBacked
    BY DEF Init, BeforeInit, Threshold, QuorumBacked
  <1>2. QInv /\ TypeOK' /\ [Next]_vars => (BeforeInit /\ Threshold /\ QuorumBacked)'
    <2> SUFFICES ASSUME QInv, TypeOK', [Next]_vars
                 PROVE  (BeforeInit /\ Threshold /\ QuorumBacked)'
      OBVIOUS
    <2>0. TypeOK /\ BeforeInit /\ Threshold /\ QuorumBacked
      BY DEF QInv
    <2>1. CASE Tick
      BY <2>0, <2>1 DEF Tick, BeforeInit, Threshold, QuorumBacked, Voters, RoleOf
    <2>2. ASSUME NEW admin \in Addr, NEW executor \in Addr,
                 NEW approvers \in ApproverLists,
                 init(admin, approvers, executor)
          PROVE  (BeforeInit /\ Threshold /\ QuorumBacked)'
      <3>1. prop_cnt' = 0
        BY <2>0, <2>2 DEF init, BeforeInit
      <3> QED
        BY <3>1 DEF BeforeInit, Threshold, QuorumBacked
    <2>3. ASSUME NEW a \in Addr, NEW list \in ApproverLists, NEW delay \in Delays,
                 NEW threshold \in 0 .. (Len(list) + 1),
                 propose_upgrade(a, threshold, list, delay)
          PROVE  (BeforeInit /\ Threshold /\ QuorumBacked)'
      <3>0. PICK n : n = prop_cnt + 1
        OBVIOUS
      <3>1. /\ initialized' /\ UNCHANGED <<roles, apprv>>
            /\ prop_cnt' = n /\ n = prop_cnt + 1 /\ prop_cnt \in Nat
            /\ \A id \in 1 .. prop_cnt : props'[id] = props[id]
            /\ props'[n].approval_threshold = threshold
            /\ props'[n].approvers = list
            /\ props'[n].approvals_count = 0
            /\ props'[n].status = "Pending"
            /\ threshold \in Nat /\ threshold > 0 /\ threshold <= Len(list) /\ Len(list) \in Nat
        BY <2>0, <2>3, <3>0, ApproverListsAssumption DEF propose_upgrade, TypeOK
      <3>2. Voters(n)' = {}
        BY <2>0, <3>1 DEF Voters, TypeOK
      <3>3. IsFiniteSet(Voters(n)') /\ Cardinality(Voters(n)') = 0
        BY <3>2, FS_EmptySet
      <3>4. \A id \in 1 .. prop_cnt : Voters(id)' = Voters(id)
        BY <3>1 DEF Voters
      <3>5. \A id \in 1 .. prop_cnt' : id \in 1 .. prop_cnt \/ id = n
        BY <3>1
      <3>6. BeforeInit'
        BY <3>1 DEF BeforeInit
      <3>7. Threshold'
        BY <2>0, <3>1, <3>3, <3>4, <3>5 DEF Threshold
      <3>8. ASSUME NEW id \in 1 .. prop_cnt'
            PROVE  LET p == props'[id] IN
                   /\ p.approvals_count = Cardinality(Voters(id)')
                   /\ \A v \in Voters(id)' : Listed(v, p.approvers) /\ RoleOf(v)' <= Approver
                   /\ p.status \in {"Pending", "Rejected"} =>
                        p.approvals_count < p.approval_threshold
                   /\ p.status \in {"Approved", "Executed"} =>
                        p.approvals_count = p.approval_threshold
                   /\ p.approvals_count <= Len(p.approvers)
        <4>1. CASE id \in 1 .. prop_cnt
          BY <3>1, <3>4, <4>1, QuorumFrame
        <4>2. CASE id = n
          BY <3>1, <3>2, <3>3, <4>2
        <4> QED
          BY <3>5, <4>1, <4>2
      <3> QED
        BY <3>6, <3>7, <3>8 DEF QuorumBacked
    <2>4. ASSUME NEW id \in 1 .. prop_cnt, NEW a \in Addr, approve_proposal(id, a)
          PROVE  (BeforeInit /\ Threshold /\ QuorumBacked)'
      <3>1. /\ UNCHANGED <<roles, prop_cnt, initialized>>
            /\ \A i \in 1 .. prop_cnt : i # id => props'[i] = props[i] /\ Voters(i)' = Voters(i)
            /\ props'[id].approvers = props[id].approvers
            /\ props'[id].approval_threshold = props[id].approval_threshold
            /\ props'[id].approvals_count = props[id].approvals_count + 1
        BY <2>0, <2>4 DEF approve_proposal, FirstApproval, ApprovalKey, TypeOK, UpgradeProposal, Voters
      <3>2. props'[id].status = IF props[id].approvals_count + 1 >= props[id].approval_threshold
                                THEN "Approved" ELSE "Pending"
        BY <2>0, <2>4 DEF approve_proposal, FirstApproval, ApprovalKey, TypeOK, UpgradeProposal
      <3>3. Voters(id)' = Voters(id) \union {a} /\ a \notin Voters(id)
        BY <2>4 DEF approve_proposal, FirstApproval, ApprovalKey, Voters
      <3>4. IsFiniteSet(Voters(id)') /\ Cardinality(Voters(id)') = Cardinality(Voters(id)) + 1
        BY <2>0, <3>3, FS_AddElement DEF Threshold
      <3>5. /\ props[id].approvals_count \in Nat /\ props[id].approval_threshold \in Nat
            /\ Len(props[id].approvers) \in Nat /\ props[id].status = "Pending"
            /\ Listed(a, props[id].approvers) /\ RoleOf(a) <= Approver
        BY <2>0, <2>4, ApproverListsAssumption
           DEF approve_proposal, FirstApproval, ApprovalKey, TypeOK, UpgradeProposal, require_role
      <3>6. /\ props[id].approvals_count < props[id].approval_threshold
            /\ props[id].approvals_count = Cardinality(Voters(id))
            /\ props[id].approval_threshold <= Len(props[id].approvers)
            /\ \A v \in Voters(id) : Listed(v, props[id].approvers) /\ RoleOf(v) <= Approver
        BY <2>0, <3>5 DEF QuorumBacked, Threshold
      <3>7. \A v : RoleOf(v)' = RoleOf(v)
        BY <3>1 DEF RoleOf
      <3>8. BeforeInit' /\ Threshold'
        BY <2>0, <3>1, <3>4 DEF BeforeInit, Threshold
      <3>9. ASSUME NEW i \in 1 .. prop_cnt
            PROVE  LET p == props'[i] IN
                   /\ p.approvals_count = Cardinality(Voters(i)')
                   /\ \A v \in Voters(i)' : Listed(v, p.approvers) /\ RoleOf(v)' <= Approver
                   /\ p.status \in {"Pending", "Rejected"} =>
                        p.approvals_count < p.approval_threshold
                   /\ p.status \in {"Approved", "Executed"} =>
                        p.approvals_count = p.approval_threshold
                   /\ p.approvals_count <= Len(p.approvers)
        <4>1. CASE i # id
          BY <3>1, <4>1, QuorumFrame
        <4>2. CASE i = id
          <5>1. \A v \in Voters(id)' : Listed(v, props'[id].approvers) /\ RoleOf(v)' <= Approver
            BY <3>1, <3>3, <3>5, <3>6, <3>7
          <5> QED
            BY <3>1, <3>2, <3>4, <3>5, <3>6, <4>2, <5>1
        <4> QED
          BY <4>1, <4>2
      <3> QED
        BY <3>1, <3>8, <3>9 DEF QuorumBacked
    <2>5. ASSUME NEW id \in 1 .. prop_cnt, NEW a \in Addr, execute_proposal(id, a)
          PROVE  (BeforeInit /\ Threshold /\ QuorumBacked)'
      <3>1. /\ UNCHANGED <<roles, prop_cnt, initialized>>
            /\ \A i \in 1 .. prop_cnt :
                 /\ Voters(i)' = Voters(i)
                 /\ props'[i].approvals_count = props[i].approvals_count
                 /\ props'[i].approval_threshold = props[i].approval_threshold
                 /\ props'[i].approvers = props[i].approvers
                 /\ \/ props'[i].status = props[i].status
                    \/ props'[i].status = "Cancelled"
                    \/ props[i].status = "Pending" /\ props'[i].status = "Rejected"
                    \/ props[i].status = "Approved" /\ props'[i].status = "Executed"
        BY <2>0, <2>5 DEF execute_proposal, TimelockExpired, TypeOK, UpgradeProposal, Voters
      <3> QED
        BY <2>0, <3>1, QuorumFrame DEF BeforeInit, Threshold, QuorumBacked
    <2>6. ASSUME NEW id \in 1 .. prop_cnt, NEW a \in Addr, reject_proposal(id, a)
          PROVE  (BeforeInit /\ Threshold /\ QuorumBacked)'
      <3>1. /\ UNCHANGED <<roles, prop_cnt, initialized>>
            /\ \A i \in 1 .. prop_cnt :
                 /\ Voters(i)' = Voters(i)
                 /\ props'[i].approvals_count = props[i].approvals_count
                 /\ props'[i].approval_threshold = props[i].approval_threshold
                 /\ props'[i].approvers = props[i].approvers
                 /\ \/ props'[i].status = props[i].status
                    \/ props'[i].status = "Cancelled"
                    \/ props[i].status = "Pending" /\ props'[i].status = "Rejected"
                    \/ props[i].status = "Approved" /\ props'[i].status = "Executed"
        BY <2>0, <2>6 DEF reject_proposal, TypeOK, UpgradeProposal, Voters
      <3> QED
        BY <2>0, <3>1, QuorumFrame DEF BeforeInit, Threshold, QuorumBacked
    <2>7. ASSUME NEW id \in 1 .. prop_cnt, NEW a \in Addr, cancel_proposal(id, a)
          PROVE  (BeforeInit /\ Threshold /\ QuorumBacked)'
      <3>1. /\ UNCHANGED <<roles, prop_cnt, initialized>>
            /\ \A i \in 1 .. prop_cnt :
                 /\ Voters(i)' = Voters(i)
                 /\ props'[i].approvals_count = props[i].approvals_count
                 /\ props'[i].approval_threshold = props[i].approval_threshold
                 /\ props'[i].approvers = props[i].approvers
                 /\ \/ props'[i].status = props[i].status
                    \/ props'[i].status = "Cancelled"
                    \/ props[i].status = "Pending" /\ props'[i].status = "Rejected"
                    \/ props[i].status = "Approved" /\ props'[i].status = "Executed"
        BY <2>0, <2>7 DEF cancel_proposal, Cancellable, TypeOK, UpgradeProposal, Voters
      <3> QED
        BY <2>0, <3>1, QuorumFrame DEF BeforeInit, Threshold, QuorumBacked
    <2>8. CASE UNCHANGED vars
      BY <2>0, <2>8 DEF vars, BeforeInit, Threshold, QuorumBacked, Voters, RoleOf
    <2> QED
      BY <2>1, <2>2, <2>3, <2>4, <2>5, <2>6, <2>7, <2>8 DEF Next
  <1> QED
    BY <1>1, <1>2, TypeCorrect, PTL DEF Spec, QInv

\* Every proposal's approval count is the number of distinct, listed and
\* authorised accounts on record for it, and its status agrees with the count
\* (QuorumBacked): no upgrade is executed without its quorum, whatever the
\* order in which accounts propose, vote, reject, cancel and execute.
THEOREM QuorumAlwaysBacked == Spec => []QuorumBacked
  BY QuorumInvariant, PTL DEF QInv
-----------------------------------------------------------------------------
\* The invariant behind the timelock: what execution_time stands for, and which
\* proposals have been executed.
LEMMA TimelockInvariant == Spec => []Timelock
  <1>1. Init => Timelock
    BY DEF Init, Timelock
  <1>2. TypeOK /\ Timelock /\ [Next]_vars => Timelock'
    <2> SUFFICES ASSUME TypeOK, Timelock, [Next]_vars PROVE Timelock'
      OBVIOUS
    <2>1. CASE Tick
      <3>1. now' = now + 1 /\ now \in Int /\ UNCHANGED <<prop_cnt, props, hist>>
        BY <2>1, BoundsAssumption DEF Tick, TypeOK
      <3>2. \A id \in 1 .. prop_cnt : props[id].execution_time \in Int
        BY U64Assumption DEF TypeOK, UpgradeProposal
      <3> QED
        BY <3>1, <3>2 DEF Timelock
    <2>2. ASSUME NEW admin \in Addr, NEW executor \in Addr,
                 NEW approvers \in ApproverLists,
                 init(admin, approvers, executor)
          PROVE  Timelock'
      BY <2>2 DEF init, Timelock
    <2>3. ASSUME NEW a \in Addr, NEW list \in ApproverLists, NEW delay \in Delays,
                 NEW threshold \in 0 .. (Len(list) + 1),
                 propose_upgrade(a, threshold, list, delay)
          PROVE  Timelock'
      <3>1. PICK n : n = prop_cnt + 1
        OBVIOUS
      <3>2. /\ UNCHANGED now /\ prop_cnt' = n
            /\ \A id \in 1 .. n : id \in 1 .. prop_cnt \/ id = n
            /\ \A id \in 1 .. prop_cnt : props'[id] = props[id] /\ hist'[id] = hist[id]
            /\ ~props'[n].executed /\ props'[n].status = "Pending"
            /\ hist'[n].by = {} /\ hist'[n].delay = delay
            /\ props'[n].created_at = now
            /\ props'[n].execution_time = ExecutionTime(delay)
        BY <2>3, <3>1 DEF propose_upgrade, TypeOK
      <3>3. OverflowChecks => ExecutionTime(delay) = now + delay
        BY <2>3, ExecutionTimeType DEF propose_upgrade, AddOk, ExecutionTime, TypeOK
      <3> QED
        BY <3>2, <3>3 DEF Timelock
    <2>4. ASSUME NEW id \in 1 .. prop_cnt, NEW a \in Addr, approve_proposal(id, a)
          PROVE  Timelock'
      <3>1. /\ UNCHANGED <<now, prop_cnt, hist>>
            /\ \A i \in 1 .. prop_cnt :
                 /\ props'[i].executed = props[i].executed
                 /\ props'[i].created_at = props[i].created_at
                 /\ props'[i].execution_time = props[i].execution_time
                 /\ \/ props'[i].status = props[i].status
                    \/ props[i].status = "Pending" /\ props'[i].status \in {"Pending", "Approved"}
        BY <2>4 DEF approve_proposal, FirstApproval, ApprovalKey, TypeOK, UpgradeProposal
      <3> QED
        BY <3>1 DEF Timelock
    <2>5. ASSUME NEW id \in 1 .. prop_cnt, NEW a \in Addr, execute_proposal(id, a)
          PROVE  Timelock'
      <3>1. /\ UNCHANGED <<now, prop_cnt>>
            /\ \A i \in 1 .. prop_cnt : i # id => props'[i] = props[i] /\ hist'[i] = hist[i]
            /\ props'[id].executed /\ props'[id].status = "Executed"
            /\ props'[id].created_at = props[id].created_at
            /\ props'[id].execution_time = props[id].execution_time
            /\ hist'[id].by = hist[id].by \union {a} /\ hist'[id].delay = hist[id].delay
            /\ props[id].status = "Approved" /\ now >= props[id].execution_time
        BY <2>5 DEF execute_proposal, TimelockExpired, TypeOK, UpgradeProposal
      <3>2. hist'[id].by = {a}
        BY <3>1 DEF Timelock
      <3> QED
        BY <3>1, <3>2 DEF Timelock
    <2>6. ASSUME NEW id \in 1 .. prop_cnt, NEW a \in Addr,
                 reject_proposal(id, a) \/ cancel_proposal(id, a)
          PROVE  Timelock'
      <3>1. /\ UNCHANGED <<now, prop_cnt, hist>>
            /\ \A i \in 1 .. prop_cnt :
                 /\ props'[i].executed = props[i].executed
                 /\ props'[i].created_at = props[i].created_at
                 /\ props'[i].execution_time = props[i].execution_time
                 /\ \/ props'[i].status = props[i].status
                    \/ /\ props[i].status = "Pending" \/ ~props[i].executed
                       /\ props'[i].status \in {"Rejected", "Cancelled"}
        <4>1. CASE reject_proposal(id, a)
          BY <4>1 DEF reject_proposal, TypeOK, UpgradeProposal
        <4>2. CASE cancel_proposal(id, a)
          BY <4>2 DEF cancel_proposal, Cancellable, TypeOK, UpgradeProposal
        <4> QED
          BY <2>6, <4>1, <4>2
      <3> QED
        BY <3>1 DEF Timelock
    <2>7. CASE UNCHANGED vars
      BY <2>7 DEF vars, Timelock
    <2> QED
      BY <2>1, <2>2, <2>3, <2>4, <2>5, <2>6, <2>7 DEF Next
  <1> QED
    BY <1>1, <1>2, TypeCorrect, PTL DEF Spec

\* In a build whose overflowing additions panic, no proposal is executed before
\* the delay its proposer asked for has passed, and each executed proposal was
\* executed by exactly one account (ExecutedAfterDelay).
THEOREM TimelockHonoured ==
  ASSUME OverflowChecks
  PROVE  Spec => []ExecutedAfterDelay
  <1>1. Timelock => ExecutedAfterDelay
    <2> SUFFICES ASSUME Timelock, NEW id \in 1 .. prop_cnt
                 PROVE  /\ props[id].executed <=> props[id].status = "Executed"
                        /\ props[id].executed =>
                             /\ now >= props[id].created_at + hist[id].delay
                             /\ Cardinality(hist[id].by) = 1
      BY DEF ExecutedAfterDelay
    <2>1. props[id].executed => Cardinality(hist[id].by) = 1
      BY FS_Singleton DEF Timelock
    <2> QED
      BY <2>1 DEF Timelock
  <1> QED
    BY <1>1, TimelockInvariant, PTL

\* An executed proposal never changes, a rejected or cancelled one is never
\* approved or executed, votes are never withdrawn, and none is recorded once a
\* proposal has left Pending (StaysSettled).
THEOREM SettledForever == Spec => StaysSettled
  <1> DEFINE Keeps(id) ==
        /\ props[id].executed => props'[id] = props[id]
        /\ props[id].status \in {"Rejected", "Cancelled"} =>
             props'[id].status \in {"Rejected", "Cancelled"}
        /\ Voters(id) \subseteq Voters(id)'
        /\ Settled(id) => Voters(id)' = Voters(id)
  <1>1. TypeOK /\ Timelock /\ [Next]_vars => [\A id \in 1 .. prop_cnt : Keeps(id)]_vars
    <2> SUFFICES ASSUME TypeOK, Timelock, Next, NEW id \in 1 .. prop_cnt PROVE Keeps(id)
      OBVIOUS
    <2>1. CASE Tick
      BY <2>1 DEF Tick, Voters
    <2>2. ASSUME NEW admin \in Addr, NEW executor \in Addr,
                 NEW approvers \in ApproverLists,
                 init(admin, approvers, executor)
          PROVE  Keeps(id)
      BY <2>2 DEF init, Voters
    <2>3. ASSUME NEW a \in Addr, NEW list \in ApproverLists, NEW delay \in Delays,
                 NEW threshold \in 0 .. (Len(list) + 1),
                 propose_upgrade(a, threshold, list, delay)
          PROVE  Keeps(id)
      <3>1. props'[id] = props[id] /\ UNCHANGED apprv
        BY <2>3 DEF propose_upgrade, TypeOK
      <3> QED
        BY <3>1 DEF Voters
    <2>4. ASSUME NEW i \in 1 .. prop_cnt, NEW a \in Addr, approve_proposal(i, a)
          PROVE  Keeps(id)
      <3>1. props[i].status = "Pending" /\ apprv' = apprv \union {<<i, a>>}
        BY <2>4 DEF approve_proposal, FirstApproval, ApprovalKey
      <3>2. ~props[i].executed
        BY <3>1 DEF Timelock
      <3>3. id # i => props'[id] = props[id]
        BY <2>4 DEF approve_proposal, FirstApproval, ApprovalKey, TypeOK
      <3> QED
        BY <3>1, <3>2, <3>3 DEF Voters, Settled
    <2>5. ASSUME NEW i \in 1 .. prop_cnt, NEW a \in Addr, execute_proposal(i, a)
          PROVE  Keeps(id)
      <3>1. props[i].status = "Approved" /\ UNCHANGED apprv
        BY <2>5 DEF execute_proposal, TimelockExpired
      <3>2. ~props[i].executed
        BY <3>1 DEF Timelock
      <3>3. id # i => props'[id] = props[id]
        BY <2>5 DEF execute_proposal, TimelockExpired, TypeOK
      <3> QED
        BY <3>1, <3>2, <3>3 DEF Voters
    <2>6. ASSUME NEW i \in 1 .. prop_cnt, NEW a \in Addr,
                 reject_proposal(i, a) \/ cancel_proposal(i, a)
          PROVE  Keeps(id)
      <3>0. UNCHANGED apprv /\ (props[i].status = "Pending" \/ ~props[i].executed)
        BY <2>6 DEF reject_proposal, cancel_proposal, Cancellable
      <3>1. ~props[i].executed
        BY <3>0 DEF Timelock
      <3>2. id # i => props'[id] = props[id]
        BY <2>6 DEF reject_proposal, cancel_proposal, Cancellable, TypeOK
      <3>3. props'[i].status \in {"Rejected", "Cancelled"}
        BY <2>6 DEF reject_proposal, cancel_proposal, Cancellable, TypeOK, UpgradeProposal
      <3> QED
        BY <3>0, <3>1, <3>2, <3>3 DEF Voters
    <2> QED
      BY <2>1, <2>2, <2>3, <2>4, <2>5, <2>6 DEF Next
  <1> QED
    BY <1>1, TypeCorrect, TimelockInvariant, PTL DEF Spec, StaysSettled

-----------------------------------------------------------------------------
(* Governance implements UpgradeBallot, in a build whose overflowing        *)
(* additions panic.  A step of the contract is the step of the ballots that *)
(* its effect on one proposal is (BallotStep): the stored count must be the *)
(* number of votes (QuorumBacked) for a vote to pass the ballot when it     *)
(* should, and execution_time must be what was asked for (Timelock) for an  *)
(* execution to come no earlier than the ballot allows.                     *)

Mapped == [id \in 1 .. prop_cnt |-> AsBallot(id)]

\* A step that changes one proposal changes one ballot.
LEMMA OneBallotChanges ==
  ASSUME prop_cnt \in Nat, UNCHANGED prop_cnt, NEW i \in 1 .. prop_cnt,
         \A id \in 1 .. prop_cnt : id # i => AsBallot(id)' = AsBallot(id)
  PROVE  Mapped' = [Mapped EXCEPT ![i] = AsBallot(i)']
  <1>1. Mapped' = [id \in 1 .. prop_cnt |-> AsBallot(id)']
    BY DEF Mapped
  <1> QED
    BY <1>1 DEF Mapped

\* A step that leaves what a ballot is made of alone leaves the ballot alone.
LEMMA BallotFrame ==
  ASSUME NEW id, props'[id] = props[id], hist'[id].delay = hist[id].delay,
         Voters(id)' = Voters(id)
  PROVE  AsBallot(id)' = AsBallot(id)
  BY DEF AsBallot, Outcome

\* Every step of governance is a step of the ballots or leaves them alone.
LEMMA BallotStep ==
  ASSUME OverflowChecks, QInv, Timelock, [Next]_vars
  PROVE  [Ballot!BallotNext]_(Ballot!ballotVars)
  <1>0. TypeOK /\ Threshold /\ QuorumBacked /\ prop_cnt \in Nat
    BY DEF QInv, TypeOK
  <1>1. CASE Tick
    <2>1. now' = now + 1 /\ UNCHANGED <<prop_cnt, props, hist, apprv>>
      BY <1>1 DEF Tick
    <2>2. Mapped' = Mapped
      BY <2>1 DEF Mapped, AsBallot, Voters, Outcome
    <2> QED
      BY <2>1, <2>2 DEF Ballot!BallotNext, Ballot!TimePasses, Mapped
  <1>2. ASSUME UNCHANGED <<now, prop_cnt, props, hist, apprv>>
        PROVE  UNCHANGED Ballot!ballotVars
    <2>1. Mapped' = Mapped
      BY <1>2 DEF Mapped, AsBallot, Voters, Outcome
    <2> QED
      BY <1>2, <2>1 DEF Ballot!ballotVars, Mapped
  <1>3. ASSUME NEW a \in Addr, NEW list \in ApproverLists, NEW delay \in Delays,
               NEW threshold \in 0 .. (Len(list) + 1),
               propose_upgrade(a, threshold, list, delay)
        PROVE  Ballot!Open
    <2>0. PICK n : n = prop_cnt + 1
      OBVIOUS
    <2>1. /\ UNCHANGED <<now, apprv>> /\ prop_cnt' = n /\ n \in Nat
          /\ \A id \in 1 .. prop_cnt : props'[id] = props[id] /\ hist'[id] = hist[id]
          /\ props'[n].approval_threshold = threshold /\ threshold > 0
          /\ props'[n].created_at = now /\ hist'[n].delay = delay
          /\ props'[n].status = "Pending"
      BY <1>0, <1>3, <2>0 DEF propose_upgrade, TypeOK
    <2>2. \A id : Voters(id)' = Voters(id)
      BY <2>1 DEF Voters
    <2>3. Voters(n) = {}
      BY <1>0, <2>0 DEF Voters, TypeOK
    <2>4. \A id \in 1 .. prop_cnt : AsBallot(id)' = AsBallot(id)
      BY <2>1, <2>2, BallotFrame
    <2>5. now + delay >= now
      BY <1>0, DelaysAssumption, BoundsAssumption, U64Assumption DEF TypeOK
    <2>6. /\ AsBallot(n)'.quorum > 0 /\ AsBallot(n)'.earliest >= now
          /\ AsBallot(n)'.votes = {} /\ AsBallot(n)'.outcome = "open"
      BY <2>1, <2>2, <2>3, <2>5 DEF AsBallot, Outcome
    <2>7. /\ Mapped' = [id \in 1 .. n |-> AsBallot(id)'] /\ Len(Mapped') = n
          /\ DOMAIN Mapped = 1 .. prop_cnt /\ Len(Mapped) = prop_cnt
      BY <1>0, <2>1 DEF Mapped
    <2>8. /\ \A id \in 1 .. prop_cnt : Mapped[id] = AsBallot(id)
          /\ \A id \in 1 .. n : Mapped'[id] = AsBallot(id)'
      BY <2>1 DEF Mapped
    <2>9. /\ UNCHANGED now
          /\ Len(Mapped') = Len(Mapped) + 1
          /\ \A id \in DOMAIN Mapped : Mapped'[id] = Mapped[id]
          /\ LET new == Mapped'[Len(Mapped) + 1]
             IN  new.quorum > 0 /\ new.earliest >= now /\ new.votes = {} /\ new.outcome = "open"
      BY <1>0, <2>0, <2>1, <2>4, <2>6, <2>7, <2>8
    <2> QED
      BY <2>9, Zenon DEF Ballot!Open, Mapped
  <1>4. ASSUME NEW i \in 1 .. prop_cnt, NEW a \in Addr, approve_proposal(i, a)
        PROVE  Ballot!Vote(i, a)
    <2>1. /\ UNCHANGED <<now, prop_cnt, hist>>
          /\ \A id \in 1 .. prop_cnt : id # i => props'[id] = props[id]
          /\ props'[i].approval_threshold = props[i].approval_threshold
          /\ props'[i].created_at = props[i].created_at
          /\ props[i].status = "Pending"
          /\ props'[i].status =
               IF props[i].approvals_count + 1 >= props[i].approval_threshold
               THEN "Approved" ELSE "Pending"
      BY <1>0, <1>4 DEF approve_proposal, TypeOK, UpgradeProposal
    <2>2. /\ a \notin Voters(i) /\ Voters(i)' = Voters(i) \cup {a}
          /\ \A id : id # i => Voters(id)' = Voters(id)
      BY <1>4 DEF approve_proposal, FirstApproval, ApprovalKey, Voters
    <2>3. Cardinality(Voters(i) \cup {a}) = props[i].approvals_count + 1
      BY <1>0, <2>2, FS_AddElement DEF Threshold, QuorumBacked
    <2>4. /\ AsBallot(i).outcome = "open"
          /\ AsBallot(i)' = [AsBallot(i) EXCEPT
               !.votes = Voters(i) \cup {a},
               !.outcome = IF Cardinality(Voters(i) \cup {a}) >= AsBallot(i).quorum
                           THEN "passed" ELSE "open"]
      <3>1. PICK o : o = IF Cardinality(Voters(i) \cup {a}) >= props[i].approval_threshold
                         THEN "passed" ELSE "open"
        OBVIOUS
      <3>2. Outcome[props'[i].status] = o
        BY <2>1, <2>3, <3>1 DEF Outcome
      <3>3. /\ AsBallot(i).outcome = "open"
            /\ AsBallot(i)' = [AsBallot(i) EXCEPT !.votes = Voters(i) \cup {a}, !.outcome = o]
        <4>1. AsBallot(i) = [quorum |-> props[i].approval_threshold,
                             earliest |-> props[i].created_at + hist[i].delay,
                             votes |-> Voters(i), outcome |-> "open"]
          BY <2>1 DEF AsBallot, Outcome
        <4>2. AsBallot(i)' = [quorum |-> props[i].approval_threshold,
                              earliest |-> props[i].created_at + hist[i].delay,
                              votes |-> Voters(i) \cup {a}, outcome |-> o]
          <5>1. Outcome' = Outcome
            BY DEF Outcome
          <5> QED
            BY <2>1, <2>2, <3>2, <5>1 DEF AsBallot
        <4>3. PICK q, e, v, v1 : /\ q = props[i].approval_threshold
                                 /\ e = props[i].created_at + hist[i].delay
                                 /\ v = Voters(i) /\ v1 = Voters(i) \cup {a}
          OBVIOUS
        <4>4. PICK ballot : ballot = AsBallot(i)
          OBVIOUS
        <4>5. ballot = [quorum |-> q, earliest |-> e, votes |-> v, outcome |-> "open"]
          BY <4>1, <4>3, <4>4
        <4>6. PICK voted : voted = [ballot EXCEPT !.votes = v1]
          OBVIOUS
        <4>7. voted = [quorum |-> q, earliest |-> e, votes |-> v1, outcome |-> "open"]
          BY <4>5, <4>6
        <4>8. [voted EXCEPT !.outcome = o] =
                [quorum |-> q, earliest |-> e, votes |-> v1, outcome |-> o]
          BY <4>7
        <4>9. [ballot EXCEPT !.votes = v1, !.outcome = o] = [voted EXCEPT !.outcome = o]
          BY <4>6
        <4>10. ballot.outcome = "open"
          BY <4>5
        <4> QED
          BY <4>2, <4>3, <4>4, <4>8, <4>9, <4>10
      <3>4. AsBallot(i).quorum = props[i].approval_threshold
        BY DEF AsBallot
      <3> QED
        BY <3>1, <3>3, <3>4
    <2>5. Mapped' = [Mapped EXCEPT ![i] = AsBallot(i)']
      BY <1>0, <2>1, <2>2, BallotFrame, OneBallotChanges
    <2>6. Mapped[i] = AsBallot(i) /\ AsBallot(i).votes = Voters(i)
      BY DEF Mapped, AsBallot
    <2>7. LET votes == Mapped[i].votes \cup {a}
          IN  /\ Mapped[i].outcome = "open" /\ a \notin Mapped[i].votes
              /\ UNCHANGED now
              /\ Mapped' = [Mapped EXCEPT ![i] = [Mapped[i] EXCEPT
                   !.votes = votes,
                   !.outcome = IF Cardinality(votes) >= Mapped[i].quorum
                               THEN "passed" ELSE "open"]]
      BY <2>1, <2>2, <2>4, <2>5, <2>6
    <2>8. Ballot!Cardinality(Mapped[i].votes \cup {a}) = Cardinality(Mapped[i].votes \cup {a})
      BY DEF Ballot!Cardinality, Cardinality
    <2> QED
      BY <2>7, <2>8, Zenon DEF Ballot!Vote, Ballot!Becomes, Mapped
  <1>5. ASSUME NEW i \in 1 .. prop_cnt, NEW a \in Addr, execute_proposal(i, a)
        PROVE  Ballot!Enact(i)
    <2>1. /\ UNCHANGED <<now, prop_cnt, apprv>>
          /\ \A id \in 1 .. prop_cnt : id # i => props'[id] = props[id] /\ hist'[id] = hist[id]
          /\ props'[i].approval_threshold = props[i].approval_threshold
          /\ props'[i].created_at = props[i].created_at
          /\ hist'[i].delay = hist[i].delay
          /\ props[i].status = "Approved" /\ props'[i].status = "Executed"
          /\ now >= props[i].execution_time
      BY <1>0, <1>5 DEF execute_proposal, TimelockExpired, TypeOK, UpgradeProposal
    <2>2. \A id : Voters(id)' = Voters(id)
      BY <2>1 DEF Voters
    <2>3. now >= AsBallot(i).earliest
      BY <2>1 DEF Timelock, AsBallot
    <2>4. /\ AsBallot(i).outcome = "passed"
          /\ AsBallot(i)' = [AsBallot(i) EXCEPT !.outcome = "enacted"]
      BY <2>1, <2>2 DEF AsBallot, Outcome
    <2>5. Mapped' = [Mapped EXCEPT ![i] = AsBallot(i)']
      BY <1>0, <2>1, <2>2, BallotFrame, OneBallotChanges
    <2>6. Mapped[i] = AsBallot(i)
      BY DEF Mapped
    <2>7. /\ Mapped[i].outcome = "passed" /\ now >= Mapped[i].earliest
          /\ UNCHANGED now
          /\ Mapped' = [Mapped EXCEPT ![i] = [Mapped[i] EXCEPT !.outcome = "enacted"]]
      BY <2>1, <2>3, <2>4, <2>5, <2>6
    <2> QED
      BY <2>7, Zenon DEF Ballot!Enact, Ballot!Becomes, Mapped
  <1>6. ASSUME NEW i \in 1 .. prop_cnt, NEW a \in Addr,
               reject_proposal(i, a) \/ cancel_proposal(i, a)
        PROVE  Ballot!Drop(i)
    <2>1. /\ UNCHANGED <<now, prop_cnt, apprv, hist>>
          /\ \A id \in 1 .. prop_cnt : id # i => props'[id] = props[id]
          /\ props'[i].approval_threshold = props[i].approval_threshold
          /\ props'[i].created_at = props[i].created_at
          /\ props'[i].status \in {"Rejected", "Cancelled"}
      BY <1>0, <1>6 DEF reject_proposal, cancel_proposal, TypeOK, UpgradeProposal
    <2>2. props[i].status \in ProposalStatus /\ props[i].status # "Executed"
      BY <1>0, <1>6 DEF reject_proposal, cancel_proposal, Cancellable, Timelock,
                        TypeOK, UpgradeProposal
    <2>3. \A id : Voters(id)' = Voters(id)
      BY <2>1 DEF Voters
    <2>4. /\ AsBallot(i).outcome # "enacted"
          /\ AsBallot(i)' = [AsBallot(i) EXCEPT !.outcome = "dropped"]
      BY <2>1, <2>2, <2>3 DEF AsBallot, Outcome, ProposalStatus
    <2>5. Mapped' = [Mapped EXCEPT ![i] = AsBallot(i)']
      BY <1>0, <2>1, <2>3, BallotFrame, OneBallotChanges
    <2>6. Mapped[i] = AsBallot(i)
      BY DEF Mapped
    <2>7. /\ Mapped[i].outcome # "enacted" /\ UNCHANGED now
          /\ Mapped' = [Mapped EXCEPT ![i] = [Mapped[i] EXCEPT !.outcome = "dropped"]]
      BY <2>1, <2>4, <2>5, <2>6
    <2> QED
      BY <2>7, Zenon DEF Ballot!Drop, Ballot!Becomes, Mapped
  <1>7. DOMAIN Mapped = 1 .. prop_cnt
    BY DEF Mapped
  <1>8. CASE UNCHANGED vars
    BY <1>2, <1>8 DEF vars
  <1>9. ASSUME NEW admin \in Addr, NEW executor \in Addr, NEW approvers \in ApproverLists,
               init(admin, approvers, executor)
        PROVE  UNCHANGED Ballot!ballotVars
    BY <1>2, <1>9 DEF init
  <1> QED
    BY <1>1, <1>3, <1>4, <1>5, <1>6, <1>7, <1>8, <1>9 DEF Next, Ballot!BallotNext, Mapped

\* In a build whose overflowing additions panic, governance implements the
\* ballot (ImplementsBallot): every call is one vote, opening, enactment or drop
\* of one ballot, with a quorum of distinct accounts and the delay asked for.
THEOREM BallotImplemented ==
  ASSUME OverflowChecks
  PROVE  Spec => ImplementsBallot
  <1>1. Init => Ballot!BallotInit
    BY DEF Init, Ballot!BallotInit, AsBallot
  <1>2. QInv /\ Timelock /\ [Next]_vars => [Ballot!BallotNext]_(Ballot!ballotVars)
    BY BallotStep
  <1> QED
    BY <1>1, <1>2, QuorumInvariant, TimelockInvariant, PTL DEF Spec, ImplementsBallot, Ballot!BallotSpec
=============================================================================
