------------------------------- MODULE Vesting -------------------------------
(***************************************************************************)
(* The academy's vesting contract (Contracts/contracts/academy/src/        *)
(* vesting.rs).  Its circuit breaker is never tripped or set by any        *)
(* function of the contract, so require_not_paused always passes.          *)
(***************************************************************************)
EXTENDS Ledger

CONSTANTS
  GrantAmounts,    \* amounts an administrator may grant
  Terms,           \* [start, cliff, duration] an administrator may pass
  MinRevokeDelay,  \* the hour revoke asks for
  RevokeDelays,    \* delays an administrator may pass
  ClaimBatches,    \* grant_ids a caller may pass to batch_claim
  MaxBatchClaims,  \* MAX_BATCH_CLAIMS
  VestingFunds,    \* the contract's reward tokens at the start
  MaxGrants        \* bound: grants made

VARIABLES
  vestingInit,     \* "init"
  sched,           \* "sched": grants 1 .. "cnt"
  vestingBal,      \* balances in the reward token
  paidFor          \* history: tokens paid per grant

vestingVars == <<vestingInit, sched, vestingBal, paidFor>>

VestingTypeOK ==
  /\ vestingInit \in BOOLEAN
  /\ Len(sched) <= MaxGrants
  /\ \A g \in DOMAIN sched :
       /\ sched[g].beneficiary \in Users /\ sched[g].amount \in Nat \ {0}
       /\ sched[g].cliff <= sched[g].duration
       /\ sched[g].revoke_time \in 0 .. now
  /\ vestingBal \in [Accounts -> Nat]

VestingInit ==
  /\ vestingInit = FALSE
  /\ sched = <<>>
  /\ vestingBal = [a \in Accounts |-> IF a = Self THEN VestingFunds ELSE 0]
  /\ paidFor = <<>>

VestingTick == CloseLedger /\ UNCHANGED vestingVars

init ==
  /\ ~ vestingInit
  /\ vestingInit' = TRUE
  /\ UNCHANGED <<now, sched, vestingBal, paidFor>>

grant_vesting(beneficiary, amount, t) ==
  /\ vestingInit /\ Len(sched) < MaxGrants
  /\ amount > 0 /\ t.cliff <= t.duration
  /\ sched' = Append(sched,
       [ beneficiary |-> beneficiary, amount |-> amount, start_time |-> t.start,
         cliff |-> t.cliff, duration |-> t.duration,
         claimed |-> FALSE, revoked |-> FALSE, revoke_time |-> 0 ])
  /\ paidFor' = Append(paidFor, 0)
  /\ UNCHANGED <<now, vestingInit, vestingBal>>

\* Nothing before the cliff, everything at the end, in between a share that
\* grows from the cliff on.
calculate_vested_amount(s, time) ==
  IF time < s.start_time + s.cliff THEN 0
  ELSE IF time >= s.start_time + s.duration THEN s.amount
  ELSE (s.amount * (time - (s.start_time + s.cliff))) \div (s.duration - s.cliff)

claimable(g, beneficiary) ==
  /\ g \in DOMAIN sched
  /\ sched[g].beneficiary = beneficiary
  /\ ~ sched[g].claimed /\ ~ sched[g].revoked
  /\ calculate_vested_amount(sched[g], now) # 0

claimable_amount(g) == calculate_vested_amount(sched[g], now)

\* The first claim closes the grant, however little of it has vested.
claim(g, beneficiary) ==
  /\ claimable(g, beneficiary)
  /\ CanPay(vestingBal, Self, claimable_amount(g))
  /\ sched' = [sched EXCEPT ![g].claimed = TRUE]
  /\ vestingBal' = Pay(vestingBal, Self, beneficiary, claimable_amount(g))
  /\ paidFor' = [paidFor EXCEPT ![g] = @ + claimable_amount(g)]
  /\ UNCHANGED <<now, vestingInit>>

\* Every id is checked against the schedules as they were before the batch, and
\* paid as often as it is listed.
batch_claim(ids, beneficiary) ==
  /\ Len(ids) \in 1 .. MaxBatchClaims
  /\ \A i \in DOMAIN ids : claimable(ids[i], beneficiary)
  /\ LET total == SumOver(DOMAIN ids, LAMBDA i : claimable_amount(ids[i]))
     IN  /\ CanPay(vestingBal, Self, total)
         /\ vestingBal' = Pay(vestingBal, Self, beneficiary, total)
  /\ sched' = [g \in DOMAIN sched |->
                 [sched[g] EXCEPT !.claimed = @ \/ \E i \in DOMAIN ids : ids[i] = g]]
  /\ paidFor' = [g \in DOMAIN sched |-> paidFor[g] +
                   claimable_amount(g) * Cardinality({i \in DOMAIN ids : ids[i] = g})]
  /\ UNCHANGED <<now, vestingInit>>

\* A bug this module must not have: a claimed grant is revoked.
revoke_claimed(g, delay) ==
  /\ g \in DOMAIN sched
  /\ ~ sched[g].revoked
  /\ delay >= MinRevokeDelay /\ now >= sched[g].start_time + delay
  /\ sched' = [sched EXCEPT ![g].revoked = TRUE, ![g].revoke_time = now]
  /\ UNCHANGED <<now, vestingInit, vestingBal, paidFor>>

revoke(g, delay) ==
  /\ g \in DOMAIN sched
  /\ ~ sched[g].claimed /\ ~ sched[g].revoked
  /\ delay >= MinRevokeDelay /\ now >= sched[g].start_time + delay
  /\ sched' = [sched EXCEPT ![g].revoked = TRUE, ![g].revoke_time = now]
  /\ UNCHANGED <<now, vestingInit, vestingBal, paidFor>>

VestingNext ==
  \/ VestingTick
  \/ init
  \/ \E u \in Users :
       \/ \E a \in GrantAmounts, t \in Terms : grant_vesting(u, a, t)
       \/ \E g \in 1 .. MaxGrants : claim(g, u)
       \/ \E ids \in ClaimBatches : batch_claim(ids, u)
  \/ \E g \in 1 .. MaxGrants, d \in RevokeDelays : revoke(g, d)

-----------------------------------------------------------------------------
\* A grant pays at most its amount, once, and a grant is settled one way: what
\* was revoked has paid nothing, and tokens have left the contract only for
\* claimed grants.
GrantPaidOnce ==
  \A g \in DOMAIN sched :
    /\ paidFor[g] <= sched[g].amount
    /\ paidFor[g] > 0 => sched[g].claimed
    /\ sched[g].revoked => paidFor[g] = 0 /\ ~ sched[g].claimed
=============================================================================
