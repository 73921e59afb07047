--------------------------- MODULE StakingRewards ---------------------------
(***************************************************************************)
(* The staking contract (Contracts/contracts/staking-rewards/src/lib.rs).  *)
(* Time is counted in units of which YearLength make a year.               *)
(***************************************************************************)
EXTENDS Ledger

CONSTANTS
  StakePools,    \* POOL_CONFIG: the pools initialize stores
  StakeAmounts,  \* amounts a caller may pass
  YearLength,    \* seconds_in_year, in units of time
  StakeFunds     \* what each user holds of the staking token, and the contract
                 \* of the reward token, at the start

VARIABLES
  rewardToken,   \* REWARD_TOKEN: "none", "same" as STAKE_TOKEN, or "other"
  userStake,     \* (USER_STAKE, user)
  stakeBal,      \* balances in the staking token
  rewardBal,     \* the contract's balance in a reward token that is "other"
  accrued,       \* history: amount * apy_bps * time, added up per user
  rewarded       \* history: rewards paid out or compounded, per user

stakingVars == <<rewardToken, userStake, stakeBal, rewardBal, accrued, rewarded>>

StakingTypeOK ==
  /\ rewardToken \in {"none", "same", "other"}
  /\ DOMAIN userStake \subseteq Users
  /\ \A u \in DOMAIN userStake :
       /\ userStake[u].amount \in Nat \ {0}
       /\ userStake[u].pool_id \in DOMAIN StakePools
       /\ userStake[u].start_timestamp \in 0 .. userStake[u].last_claim_timestamp
       /\ userStake[u].last_claim_timestamp \in 0 .. now
  /\ stakeBal \in [Accounts -> Nat]
  /\ rewardBal \in Nat

StakingInit ==
  /\ rewardToken = "none"
  /\ userStake = Empty
  /\ stakeBal = [a \in Accounts |-> IF a = Self THEN 0 ELSE StakeFunds]
  /\ rewardBal = StakeFunds
  /\ accrued = [u \in Users |-> 0]
  /\ rewarded = [u \in Users |-> 0]

\* While a ledger closes, every stake earns.
StakingTick ==
  /\ CloseLedger
  /\ accrued' = [u \in Users |-> accrued[u] +
                   IF Has(userStake, u)
                   THEN userStake[u].amount * StakePools[userStake[u].pool_id].apy_bps
                   ELSE 0]
  /\ UNCHANGED <<rewardToken, userStake, stakeBal, rewardBal, rewarded>>

initialize(token) ==
  /\ rewardToken = "none"
  /\ rewardToken' = token
  /\ UNCHANGED <<now, userStake, stakeBal, rewardBal, accrued, rewarded>>

calculate_rewards(s) ==
  (s.amount * StakePools[s.pool_id].apy_bps * (now - s.last_claim_timestamp))
    \div (10000 * YearLength)

\* A bug this module must not have: tokens added late earn from the last claim on.
stake_keeps_claim_time(user, amount, pool_id) ==
  /\ amount > 0 /\ rewardToken # "none" /\ pool_id \in DOMAIN StakePools
  /\ CanPay(stakeBal, user, amount)
  /\ stakeBal' = Pay(stakeBal, user, Self, amount)
  /\ userStake' = Put(userStake, user,
       [ amount |-> amount + (IF Has(userStake, user) THEN userStake[user].amount ELSE 0),
         pool_id |-> pool_id, start_timestamp |-> now,
         last_claim_timestamp |-> IF Has(userStake, user)
                                  THEN userStake[user].last_claim_timestamp ELSE now ])
  /\ UNCHANGED <<now, rewardToken, rewardBal, accrued, rewarded>>

\* Adding to a stake restarts its clocks and drops what it had earned.
stake(user, amount, pool_id) ==
  /\ amount > 0 /\ rewardToken # "none" /\ pool_id \in DOMAIN StakePools
  /\ CanPay(stakeBal, user, amount)
  /\ stakeBal' = Pay(stakeBal, user, Self, amount)
  /\ userStake' = Put(userStake, user,
       [ amount |-> amount + (IF Has(userStake, user) THEN userStake[user].amount ELSE 0),
         pool_id |-> pool_id, start_timestamp |-> now, last_claim_timestamp |-> now ])
  /\ UNCHANGED <<now, rewardToken, rewardBal, accrued, rewarded>>

\* The reward leaves the contract's balance in the reward token, which holds
\* the stakes too when the two tokens are the same.
claim(user) ==
  /\ Has(userStake, user)
  /\ LET reward == calculate_rewards(userStake[user])
     IN  /\ reward > 0
         /\ \/ /\ rewardToken = "same" /\ CanPay(stakeBal, Self, reward)
               /\ stakeBal' = Pay(stakeBal, Self, user, reward)
               /\ UNCHANGED rewardBal
            \/ /\ rewardToken = "other" /\ rewardBal >= reward
               /\ rewardBal' = rewardBal - reward
               /\ UNCHANGED stakeBal
         /\ rewarded' = [rewarded EXCEPT ![user] = @ + reward]
  /\ userStake' = [userStake EXCEPT ![user].last_claim_timestamp = now]
  /\ UNCHANGED <<now, rewardToken, accrued>>

\* Before the lock-up ends a tenth stays in the contract.  What was earned
\* since the last claim is dropped with the stake.
unstake(user) ==
  /\ Has(userStake, user)
  /\ LET s       == userStake[user]
         early   == now - s.start_timestamp < StakePools[s.pool_id].lockup_seconds
         penalty == IF early THEN (s.amount * 1000) \div 10000 ELSE 0
     IN  /\ CanPay(stakeBal, Self, s.amount - penalty)
         /\ stakeBal' = Pay(stakeBal, Self, user, s.amount - penalty)
  /\ userStake' = Without(userStake, user)
  /\ UNCHANGED <<now, rewardToken, rewardBal, accrued, rewarded>>

\* A bug this module must not have: any reward token is staked.
compound_any_token(user) ==
  /\ Has(userStake, user)
  /\ LET reward == calculate_rewards(userStake[user])
     IN  /\ reward > 0
         /\ userStake' = [userStake EXCEPT ![user].amount = @ + reward,
                                           ![user].last_claim_timestamp = now]
         /\ rewarded' = [rewarded EXCEPT ![user] = @ + reward]
  /\ UNCHANGED <<now, rewardToken, stakeBal, rewardBal, accrued>>

compound(user) ==
  /\ Has(userStake, user)
  /\ rewardToken = "same"
  /\ LET reward == calculate_rewards(userStake[user])
     IN  /\ reward > 0
         /\ userStake' = [userStake EXCEPT ![user].amount = @ + reward,
                                           ![user].last_claim_timestamp = now]
         /\ rewarded' = [rewarded EXCEPT ![user] = @ + reward]
  /\ UNCHANGED <<now, rewardToken, stakeBal, rewardBal, accrued>>

StakingNext ==
  \/ StakingTick
  \/ \E token \in {"same", "other"} : initialize(token)
  \/ \E u \in Users :
       \/ \E a \in StakeAmounts, p \in 0 .. Cardinality(DOMAIN StakePools) : stake(u, a, p)
       \/ claim(u) \/ unstake(u) \/ compound(u)

-----------------------------------------------------------------------------
\* When rewards are paid in another token, the contract holds every stake in
\* full: whatever the order of stakes, penalties and withdrawals, the last user
\* to leave can be paid.  (With one token for both, rewards are paid from the
\* stakes, and nothing keeps them apart.)
StakesBacked ==
  rewardToken = "other" =>
    stakeBal[Self] >= SumOver(DOMAIN userStake, LAMBDA u : userStake[u].amount)

\* No moment of a stake is rewarded twice: over any sequence of stakes, pool
\* changes, claims and compounds, a user's rewards never exceed what the stakes
\* earned while they were there.
RewardsEarnedOnce ==
  \A u \in Users : rewarded[u] * 10000 * YearLength <= accrued[u]
=============================================================================
