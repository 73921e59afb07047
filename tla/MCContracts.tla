----------------------------- MODULE MCContracts -----------------------------
(***************************************************************************)
(* The contracts other than trading, each on a small instance.  The        *)
(* constants that are numbers, and sets of them, are in the configuration. *)
(***************************************************************************)
EXTENDS Contracts

CONSTANTS u1, u2, k1, m1, m2, s1, a1, t1, t2

StakePoolsDeployed == 0 :> [lockup_seconds |-> 1, apy_bps |-> 10000]

GrantTerms ==
  {[start |-> 0, cliff |-> 1, duration |-> 3], [start |-> 1, cliff |-> 1, duration |-> 1],
   [start |-> 0, cliff |-> 2, duration |-> 1]}
GrantBatches == {<<>>, <<1, 2>>, <<2, 1>>, <<2>>, <<1, 2, 3>>}

PoliciesOffered ==
  {[coverage |-> 2, premium |-> 1, duration |-> 1, condition |-> "GreaterOrEqual"],
   [coverage |-> 1, premium |-> 1, duration |-> 2, condition |-> "LessThan"],
   [coverage |-> 1, premium |-> 0, duration |-> 1, condition |-> "EqualTo"]}

MessageLimits ==
  {[window_secs |-> w, user_limit |-> 1, global_limit |-> 3, premium_user_limit |-> 2] : w \in {0, 2}}
MessageBreaker ==
  [max_volume_per_period |-> 3, max_tx_count_per_period |-> 3, period_duration |-> 3]

PoolPairs == {<<1, 2>>}
PriceTable == <<<<-2, 6>>, <<0, 10>>, <<2, 16>>>>
PositionRanges == {<<-1, 1>>, <<0, 2>>}

TermsOfBadges ==
  {[discount |-> 5, max_redemptions |-> 2, validity |-> 1],
   [discount |-> 11, max_redemptions |-> 1, validity |-> 0]}
BreakerOfBadges ==
  [max_volume_per_period |-> 2, max_tx_count_per_period |-> 3, period_duration |-> 2]

TreasuryPayments ==
  {[to |-> "other", value |-> 1, unfreeze |-> FALSE], [to |-> "other", value |-> 2, unfreeze |-> FALSE],
   [to |-> "self", value |-> 0, unfreeze |-> TRUE]}
DeployedLimits == [dailyLimit |-> 1, weeklyLimit |-> 1, threshold |-> 0]
TreasurySettings == {DeployedLimits, [dailyLimit |-> 0, weeklyLimit |-> 2, threshold |-> 1]}

\* Bound: of the settings that only multiply states, few are explored together.
FewSettings ==
  /\ Cardinality(msgLimit.premium) + Cardinality(enc_keys) + Cardinality(msgBreaker.paused) <= 2
  /\ Cardinality(badgeBreaker.paused) <= 1

\* Accounts and transaction hashes are interchangeable.
Symmetry == Permutations(Users) \cup Permutations({t1, t2})
=============================================================================
