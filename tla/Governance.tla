----------------------------- MODULE Governance -----------------------------
(***************************************************************************)
(* The upgrade governance that the Soroban contracts share                 *)
(* (Contracts/shared/src/governance.rs), entered through the trading        *)
(* contract's wrappers (Contracts/contracts/trading/src/lib.rs).            *)
(*                                                                         *)
(* A Soroban invocation that returns an error or panics is rolled back, so *)
(* a call is one atomic step whose guard is the conjunction of all its     *)
(* checks, and a refused call is not a step.                               *)
(***************************************************************************)
EXTENDS Integers, Sequences, FiniteSets

CONSTANTS
  Addr,            \* account addresses
  ApproverLists,   \* the approver vectors a caller may pass
  Delays,          \* the timelock delays a caller may pass
  U64,             \* number of values of a u64: timestamps are below it
  OverflowChecks,  \* TRUE: an overflowing + panics (dev and test profile);
                   \* FALSE: it wraps (the release profile that is deployed)
  MaxTime,         \* bound: the last ledger timestamp explored
  MaxProposals     \* bound: proposals created

ASSUME ApproverListsAssumption == ApproverLists \subseteq Seq(Addr)
ASSUME U64Assumption == U64 \in Nat /\ U64 > 0
ASSUME DelaysAssumption == Delays \subseteq 0 .. (U64 - 1)
ASSUME OverflowAssumption == OverflowChecks \in BOOLEAN
ASSUME BoundsAssumption ==
  /\ MaxTime \in 0 .. (U64 - 1)
  /\ MaxProposals \in Nat

VARIABLES
  now,         \* env.ledger().timestamp()
  initialized, \* storage key INIT
  roles,       \* storage key "roles": a partial map from addresses to roles
  prop_cnt,    \* storage key "prop_cnt"
  props,       \* storage key "props": proposals 1 .. prop_cnt
  apprv,       \* storage key "apprv": the (id, address) pairs present
  hist         \* history, not stored: for each proposal the delay asked for
               \* and the set of accounts that executed it

vars == <<now, initialized, roles, prop_cnt, props, apprv, hist>>

-----------------------------------------------------------------------------
(* Roles are ordered by privilege, most privileged first.                  *)

Admin    == 0
Approver == 1
Executor == 2
GovernanceRole == {Admin, Approver, Executor}

ProposalStatus == {"Pending", "Approved", "Rejected", "Executed", "Cancelled"}

UpgradeProposal ==
  [ proposer           : Addr,
    approval_threshold : Nat,
    approvers          : ApproverLists,
    approvals_count    : Nat,
    status             : ProposalStatus,
    created_at         : 0 .. (U64 - 1),
    execution_time     : 0 .. (U64 - 1),
    executed           : BOOLEAN ]

\* An address without an entry is treated as an Executor.
RoleOf(a) == IF a \in DOMAIN roles THEN roles[a] ELSE Executor

\* require_role panics when the caller's role is less privileged.
require_role(a, required) == RoleOf(a) <= required

Listed(a, list) == \E i \in DOMAIN list : list[i] = a

\* now + timelock_delay in u64 arithmetic.
AddOk(delay)  == OverflowChecks => now + delay < U64
ExecutionTime(delay) == (now + delay) % U64

(* Guards and keys of the operations, each with a mutated form above it    *)
(* that a run must tell from it.                                           *)

\* The key under which an approval is recorded and looked up.
ApprovalKey_off_by_one(id, a) == <<id + 1, a>>
ApprovalKey(id, a) == <<id, a>>

\* Duplicate approvals are refused.
FirstApproval_unchecked(id, a) == TRUE
FirstApproval(id, a) == ApprovalKey(id, a) \notin apprv

TimelockExpired_early(id) == now + 1 >= props[id].execution_time
TimelockExpired(id) == now >= props[id].execution_time

Cancellable_always(id) == TRUE
Cancellable(id) == ~props[id].executed

-----------------------------------------------------------------------------
Init ==
  /\ now = 0
  /\ initialized = FALSE
  /\ roles = <<>>
  /\ prop_cnt = 0
  /\ props = <<>>
  /\ apprv = {}
  /\ hist = <<>>

\* Ledger time passes.
Tick ==
  /\ now < MaxTime
  /\ now' = now + 1
  /\ UNCHANGED <<initialized, roles, prop_cnt, props, apprv, hist>>

\* The role map is filled in this order: admin, approvers, executor; a later
\* entry replaces an earlier one for the same address.
init(admin, approvers, executor) ==
  /\ ~initialized
  /\ initialized' = TRUE
  /\ roles' = [a \in {b \in Addr : b \in {admin, executor} \/ Listed(b, approvers)} |->
                 IF a = executor THEN Executor
                 ELSE IF Listed(a, approvers) THEN Approver
                 ELSE Admin]
  /\ UNCHANGED <<now, prop_cnt, props, apprv, hist>>

propose_upgrade(proposer, threshold, approvers, delay) ==
  /\ initialized
  /\ require_role(proposer, Admin)
  /\ threshold > 0
  /\ threshold <= Len(approvers)
  /\ AddOk(delay)
  /\ prop_cnt < MaxProposals
  /\ prop_cnt' = prop_cnt + 1
  /\ props' =
       [i \in 1 .. (prop_cnt + 1) |->
          IF i = prop_cnt + 1
          THEN [ proposer           |-> proposer,
                 approval_threshold |-> threshold,
                 approvers          |-> approvers,
                 approvals_count    |-> 0,
                 status             |-> "Pending",
                 created_at         |-> now,
                 execution_time     |-> ExecutionTime(delay),
                 executed           |-> FALSE ]
          ELSE props[i]]
  /\ hist' = [i \in 1 .. (prop_cnt + 1) |->
                IF i = prop_cnt + 1 THEN [delay |-> delay, by |-> {}] ELSE hist[i]]
  /\ UNCHANGED <<now, initialized, roles, apprv>>

approve_proposal(id, approver) ==
  /\ initialized
  /\ require_role(approver, Approver)
  /\ props[id].status = "Pending"
  /\ Listed(approver, props[id].approvers)
  /\ FirstApproval(id, approver)
  /\ apprv' = apprv \union {ApprovalKey(id, approver)}
  /\ LET count == props[id].approvals_count + 1 IN
     props' = [props EXCEPT
                 ![id] = [@ EXCEPT !.approvals_count = count,
                                   !.status = IF count >= props[id].approval_threshold
                                              THEN "Approved" ELSE "Pending"]]
  /\ UNCHANGED <<now, initialized, roles, prop_cnt, hist>>

execute_proposal(id, executor) ==
  /\ initialized
  /\ require_role(executor, Executor)
  /\ props[id].status = "Approved"
  /\ TimelockExpired(id)
  /\ props' = [props EXCEPT ![id].executed = TRUE, ![id].status = "Executed"]
  /\ hist' = [hist EXCEPT ![id].by = @ \union {executor}]
  /\ UNCHANGED <<now, initialized, roles, prop_cnt, apprv>>

\* A rejector needs the Approver role but not a place in the proposal's list.
reject_proposal(id, rejector) ==
  /\ initialized
  /\ require_role(rejector, Approver)
  /\ props[id].status = "Pending"
  /\ props' = [props EXCEPT ![id].status = "Rejected"]
  /\ UNCHANGED <<now, initialized, roles, prop_cnt, apprv, hist>>

\* Only the executed flag stops a cancellation: any admin may cancel a
\* proposal that is pending, approved, rejected or already cancelled.
cancel_proposal(id, admin) ==
  /\ initialized
  /\ require_role(admin, Admin)
  /\ Cancellable(id)
  /\ props' = [props EXCEPT ![id].status = "Cancelled"]
  /\ UNCHANGED <<now, initialized, roles, prop_cnt, apprv, hist>>

Next ==
  \/ Tick
  \/ \E admin, executor \in Addr, approvers \in ApproverLists :
        init(admin, approvers, executor)
  \/ \E a \in Addr, list \in ApproverLists, delay \in Delays :
        \E threshold \in 0 .. (Len(list) + 1) : propose_upgrade(a, threshold, list, delay)
  \/ \E id \in 1 .. prop_cnt, a \in Addr :
        \/ approve_proposal(id, a)
        \/ execute_proposal(id, a)
        \/ reject_proposal(id, a)
        \/ cancel_proposal(id, a)

Spec == Init /\ [][Next]_vars

-----------------------------------------------------------------------------
(* Properties.                                                             *)

\* The accounts whose approval of proposal id is on record.
Voters(id) == {a \in Addr : <<id, a>> \in apprv}

\* Every storage entry has the type its reader expects, proposal ids are
\* exactly 1 .. prop_cnt and no approval names an id that was never issued.
TypeOK ==
  /\ now \in 0 .. MaxTime
  /\ initialized \in BOOLEAN
  /\ DOMAIN roles \subseteq Addr
  /\ \A a \in DOMAIN roles : roles[a] \in GovernanceRole
  /\ prop_cnt \in 0 .. MaxProposals
  /\ props \in [1 .. prop_cnt -> UpgradeProposal]
  /\ apprv \subseteq (1 .. prop_cnt) \X Addr
  /\ hist \in [1 .. prop_cnt -> [delay : Delays, by : SUBSET Addr]]

\* The counter kept in the proposal is the number of distinct accounts whose
\* approval is on record; each of them is on the proposal's list and holds the
\* Approver or Admin role; and the status agrees with the count: a pending or
\* rejected proposal is short of its threshold, an approved or executed one
\* has reached it exactly (approve_proposal refuses votes after that).
QuorumBacked ==
  \A id \in 1 .. prop_cnt :
    LET p == props[id] IN
    /\ p.approvals_count = Cardinality(Voters(id))
    /\ \A a \in Voters(id) : Listed(a, p.approvers) /\ RoleOf(a) <= Approver
    /\ p.status \in {"Pending", "Rejected"} => p.approvals_count < p.approval_threshold
    /\ p.status \in {"Approved", "Executed"} => p.approvals_count = p.approval_threshold
    /\ p.approvals_count <= Len(p.approvers)

\* A proposal is executed by exactly one account, and never before the delay
\* its proposer asked for has passed since it was created. The code compares
\* the clock with execution_time, which is created_at + delay in u64.
ExecutedAfterDelay ==
  \A id \in 1 .. prop_cnt :
    /\ props[id].executed <=> props[id].status = "Executed"
    /\ props[id].executed =>
         /\ now >= props[id].created_at + hist[id].delay
         /\ Cardinality(hist[id].by) = 1

\* What settles stays settled: an executed proposal never changes again, a
\* rejected or cancelled one is never approved or executed later, an approval
\* on record is never withdrawn, and no vote is added to a proposal that is no
\* longer pending.
Settled(id) == props[id].status # "Pending"
StaysSettled ==
  [][\A id \in 1 .. prop_cnt :
       /\ props[id].executed => props'[id] = props[id]
       /\ props[id].status \in {"Rejected", "Cancelled"} =>
            props'[id].status \in {"Rejected", "Cancelled"}
       /\ Voters(id) \subseteq Voters(id)'
       /\ Settled(id) => Voters(id)' = Voters(id)]_vars

\* A proposal as a ballot: its votes are the approvals on record, and it may be
\* enacted when the delay its proposer asked for has passed.
Outcome ==
  [Pending |-> "open", Approved |-> "passed", Executed |-> "enacted",
   Rejected |-> "dropped", Cancelled |-> "dropped"]
AsBallot(id) ==
  [ quorum   |-> props[id].approval_threshold,
    earliest |-> props[id].created_at + hist[id].delay,
    votes    |-> Voters(id),
    outcome  |-> Outcome[props[id].status] ]
Ballot == INSTANCE UpgradeBallot WITH
  Voter <- Addr, clock <- now, ballots <- [id \in 1 .. prop_cnt |-> AsBallot(id)]

\* Governance implements the ballot: the approvals it counts are votes of
\* distinct accounts, a proposal passes with the vote that makes its threshold,
\* is executed once and not before the delay asked for has passed, and what was
\* rejected or cancelled never comes back.
ImplementsBallot == Ballot!BallotSpec

\* What UPGRADEABILITY.md says: no single actor can carry an upgrade through.
\* The proposer, the approvers and the executor of an executed proposal are at
\* least two accounts.
NoSingleActor ==
  \A id \in 1 .. prop_cnt :
    props[id].executed =>
      Cardinality({props[id].proposer} \union Voters(id) \union hist[id].by) > 1
=============================================================================
