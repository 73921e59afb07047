------------------------------ MODULE Insurance ------------------------------
(***************************************************************************)
(* The parametric insurance contract (Contracts/contracts/                 *)
(* parametric_insurance/src).  The oracle (shared::oracle) is not in the   *)
(* repository: a call to it returns some median price or fails.            *)
(***************************************************************************)
EXTENDS Ledger

CONSTANTS
  LiquidityAmounts,  \* amounts a provider may pass
  Policies,          \* [coverage, premium, duration, condition] a holder may pass
  Threshold,         \* trigger_threshold of the policies
  OracleValues,      \* what the oracle may report
  InsuranceFunds,    \* what each user holds of the pool token at the start
  MaxPolicies        \* bound: policies created

VARIABLES
  insuranceInit,     \* Init
  paused,            \* Paused
  pool,              \* RiskPool
  policy,            \* Policy(id), ids 1 .. PolicyCounter
  provided,          \* LiquidityProvider(address)
  poolBal            \* balances in the pool token

insuranceVars == <<insuranceInit, paused, pool, policy, provided, poolBal>>

PolicyStatus == {"Active", "Expired", "Claimed", "Cancelled"}

InsuranceTypeOK ==
  /\ insuranceInit \in BOOLEAN /\ paused \in BOOLEAN
  /\ \A f \in DOMAIN pool : pool[f] \in Nat
  /\ \A i \in DOMAIN policy :
       /\ policy[i].policyholder \in Users /\ policy[i].status \in PolicyStatus
       /\ policy[i].coverage_amount \in Nat \ {0}
  /\ provided \in [Users -> Nat]
  /\ poolBal \in [Accounts -> Nat]

NewRiskPool ==
  [ total_liquidity |-> 0, reserved_liquidity |-> 0, total_premiums_collected |-> 0,
    total_payouts |-> 0, total_policies |-> 0, active_policies |-> 0 ]

saturating_sub(a, b) == IF a >= b THEN a - b ELSE 0
available_liquidity == saturating_sub(pool.total_liquidity, pool.reserved_liquidity)

InsuranceInit ==
  /\ insuranceInit = FALSE /\ paused = FALSE
  /\ pool = NewRiskPool
  /\ policy = <<>>
  /\ provided = [u \in Users |-> 0]
  /\ poolBal = [a \in Accounts |-> IF a = Self THEN 0 ELSE InsuranceFunds]

InsuranceTick == CloseLedger /\ UNCHANGED insuranceVars

init ==
  /\ ~ insuranceInit
  /\ insuranceInit' = TRUE
  /\ pool' = NewRiskPool
  /\ UNCHANGED <<now, paused, policy, provided, poolBal>>

\* pause and unpause; update_oracle_config changes nothing that is modelled.
set_paused(p) ==
  /\ insuranceInit
  /\ paused' = p
  /\ UNCHANGED <<now, insuranceInit, pool, policy, provided, poolBal>>

deposit_liquidity(provider, amount) ==
  /\ ~ paused /\ insuranceInit /\ amount > 0
  /\ CanPay(poolBal, provider, amount)
  /\ poolBal' = Pay(poolBal, provider, Self, amount)
  /\ provided' = [provided EXCEPT ![provider] = @ + amount]
  /\ pool' = [pool EXCEPT !.total_liquidity = @ + amount]
  /\ UNCHANGED <<now, insuranceInit, paused, policy>>

\* A bug this module must not have: the reservation is not looked at.
withdraw_liquidity_unreserved(provider, amount) ==
  /\ ~ paused /\ insuranceInit /\ amount > 0
  /\ provided[provider] >= amount
  /\ CanPay(poolBal, Self, amount)
  /\ poolBal' = Pay(poolBal, Self, provider, amount)
  /\ provided' = [provided EXCEPT ![provider] = @ - amount]
  /\ pool' = [pool EXCEPT !.total_liquidity = @ - amount]
  /\ UNCHANGED <<now, insuranceInit, paused, policy>>

withdraw_liquidity(provider, amount) ==
  /\ ~ paused /\ insuranceInit /\ amount > 0
  /\ provided[provider] >= amount
  /\ available_liquidity >= amount
  /\ CanPay(poolBal, Self, amount)
  /\ poolBal' = Pay(poolBal, Self, provider, amount)
  /\ provided' = [provided EXCEPT ![provider] = @ - amount]
  /\ pool' = [pool EXCEPT !.total_liquidity = @ - amount]
  /\ UNCHANGED <<now, insuranceInit, paused, policy>>

\* The coverage must fit before the premium is added.
create_policy(holder, p) ==
  /\ Len(policy) < MaxPolicies
  /\ ~ paused /\ insuranceInit
  /\ p.coverage > 0 /\ p.premium > 0 /\ p.duration # 0
  /\ available_liquidity >= p.coverage
  /\ CanPay(poolBal, holder, p.premium)
  /\ poolBal' = Pay(poolBal, holder, Self, p.premium)
  /\ policy' = Append(policy,
       [ policyholder |-> holder, coverage_amount |-> p.coverage, end_time |-> now + p.duration,
         trigger_condition |-> p.condition, status |-> "Active", paid |-> 0 ])
  /\ pool' = [pool EXCEPT !.total_liquidity = @ + p.premium,
                          !.reserved_liquidity = @ + p.coverage,
                          !.total_premiums_collected = @ + p.premium,
                          !.total_policies = @ + 1, !.active_policies = @ + 1]
  /\ UNCHANGED <<now, insuranceInit, paused, provided>>

\* What cancelling and expiring do to the pool.
Released(i) ==
  [pool EXCEPT !.reserved_liquidity = saturating_sub(@, policy[i].coverage_amount),
               !.active_policies = saturating_sub(@, 1)]

cancel_policy(holder, i) ==
  /\ ~ paused
  /\ i \in DOMAIN policy /\ policy[i].policyholder = holder /\ policy[i].status = "Active"
  /\ pool' = Released(i)
  /\ policy' = [policy EXCEPT ![i].status = "Cancelled"]
  /\ UNCHANGED <<now, insuranceInit, paused, provided, poolBal>>

Triggered(condition, value) ==
  CASE condition = "GreaterThan"    -> value > Threshold
    [] condition = "LessThan"       -> value < Threshold
    [] condition = "GreaterOrEqual" -> value >= Threshold
    [] condition = "LessOrEqual"    -> value <= Threshold
    [] condition = "EqualTo"        -> value = Threshold

\* A bug this module must not have: a paid policy stays active.
check_trigger_stays_active(i, value) ==
  /\ insuranceInit
  /\ i \in DOMAIN policy /\ policy[i].status = "Active" /\ now <= policy[i].end_time
  /\ Triggered(policy[i].trigger_condition, value)
  /\ CanPay(poolBal, Self, policy[i].coverage_amount)
  /\ poolBal' = Pay(poolBal, Self, policy[i].policyholder, policy[i].coverage_amount)
  /\ pool' = [Released(i) EXCEPT
                !.total_liquidity = saturating_sub(@, policy[i].coverage_amount),
                !.total_payouts = @ + policy[i].coverage_amount]
  /\ policy' = [policy EXCEPT ![i].paid = @ + policy[i].coverage_amount]
  /\ UNCHANGED <<now, insuranceInit, paused, provided>>

\* Anyone may call it, paused or not.  `paid' is history.  After end_time the
\* call expires the policy and then returns an error, which undoes that.
check_trigger(i, value) ==
  /\ insuranceInit
  /\ i \in DOMAIN policy /\ policy[i].status = "Active" /\ now <= policy[i].end_time
  /\ Triggered(policy[i].trigger_condition, value)
  /\ CanPay(poolBal, Self, policy[i].coverage_amount)
  /\ poolBal' = Pay(poolBal, Self, policy[i].policyholder, policy[i].coverage_amount)
  /\ pool' = [Released(i) EXCEPT
                !.total_liquidity = saturating_sub(@, policy[i].coverage_amount),
                !.total_payouts = @ + policy[i].coverage_amount]
  /\ policy' = [policy EXCEPT ![i].status = "Claimed",
                              ![i].paid = @ + policy[i].coverage_amount]
  /\ UNCHANGED <<now, insuranceInit, paused, provided>>

expire_policy(i) ==
  /\ insuranceInit
  /\ i \in DOMAIN policy /\ policy[i].status = "Active" /\ now > policy[i].end_time
  /\ pool' = Released(i)
  /\ policy' = [policy EXCEPT ![i].status = "Expired"]
  /\ UNCHANGED <<now, insuranceInit, paused, provided, poolBal>>

InsuranceNext ==
  \/ InsuranceTick
  \/ init
  \/ \E p \in BOOLEAN : set_paused(p)
  \/ \E u \in Users :
       \/ \E a \in LiquidityAmounts : deposit_liquidity(u, a) \/ withdraw_liquidity(u, a)
       \/ \E p \in Policies : create_policy(u, p)
       \/ \E i \in 1 .. MaxPolicies : cancel_policy(u, i)
  \/ \E i \in 1 .. MaxPolicies :
       \/ \E value \in OracleValues : check_trigger(i, value)
       \/ expire_policy(i)

-----------------------------------------------------------------------------
ActivePolicies == {i \in DOMAIN policy : policy[i].status = "Active"}

\* Every active policy can be paid at any time: the coverage reserved is that of
\* the active policies, the pool's liquidity covers it, and the contract holds
\* that liquidity, whatever providers withdraw and whichever policies end how.
CoverageReserved ==
  /\ pool.reserved_liquidity = SumOver(ActivePolicies, LAMBDA i : policy[i].coverage_amount)
  /\ pool.active_policies = Cardinality(ActivePolicies)
  /\ pool.reserved_liquidity <= pool.total_liquidity
  /\ pool.total_liquidity = poolBal[Self]

\* A policy pays its coverage once and only by being claimed, and the pool's
\* totals agree with the policies.
PolicyPaidOnce ==
  /\ \A i \in DOMAIN policy :
       policy[i].paid = IF policy[i].status = "Claimed" THEN policy[i].coverage_amount ELSE 0
  /\ pool.total_payouts = SumOver(DOMAIN policy, LAMBDA i : policy[i].paid)
=============================================================================
