--------------------------- MODULE LiquidityMining ---------------------------
(***************************************************************************)
(* The liquidity-mining contract                                           *)
(* (Contracts/contracts/liquidity-mining/src/lib.rs).  `now' is            *)
(* env.ledger().sequence().  bonus_multiplier_tier is 0 in every stake (no *)
(* function sets it), so the multiplier is 1 and the lock-up is never      *)
(* asked for.                                                              *)
(***************************************************************************)
EXTENDS Ledger

CONSTANTS
  PairIds,      \* pair ids a caller may pass
  Emissions,    \* emissions_per_block an administrator may pass
  LpAmounts,    \* LP amounts a caller may pass
  MiningFunds   \* each user's LP tokens and the contract's reward tokens at the start

VARIABLES
  miningInit,   \* INITIALIZED
  pairs,        \* ("pair", id)
  lpStake,      \* ("lp_stake", user, id)
  total_lp,     \* TOTAL_LP_STAKED, of all pairs together
  locked,       \* ("locked", user)
  lpBal,        \* balances in the LP token
  miningBal,    \* the contract's balance in the reward token
  emitted       \* history: rewards paid per pair

miningVars == <<miningInit, pairs, lpStake, total_lp, locked, lpBal, miningBal, emitted>>

MiningTypeOK ==
  /\ miningInit \in BOOLEAN
  /\ DOMAIN pairs \subseteq PairIds
  /\ \A p \in DOMAIN pairs :
       /\ pairs[p].created \in 0 .. pairs[p].last_update_block
       /\ pairs[p].last_update_block \in 0 .. now
  /\ DOMAIN lpStake \subseteq Users \X DOMAIN pairs
  /\ \A k \in DOMAIN lpStake : lpStake[k].lp_balance \in Nat /\ lpStake[k].reward_debt \in Nat
  /\ locked \in [Users -> Nat]
  /\ lpBal \in [Accounts -> Nat]
  /\ miningBal \in Nat

MiningInit ==
  /\ miningInit = FALSE
  /\ pairs = Empty
  /\ lpStake = Empty
  /\ total_lp = 0
  /\ locked = [u \in Users |-> 0]
  /\ lpBal = [a \in Accounts |-> IF a = Self THEN 0 ELSE MiningFunds]
  /\ miningBal = MiningFunds
  /\ emitted = [p \in PairIds |-> 0]

MiningTick == CloseLedger /\ UNCHANGED miningVars

initialize ==
  /\ ~ miningInit
  /\ miningInit' = TRUE
  /\ total_lp' = 0
  /\ UNCHANGED <<now, pairs, lpStake, locked, lpBal, miningBal, emitted>>

\* `created' is history.  total_allocated is stored and never read.
create_pair(id, per_block) ==
  /\ miningInit /\ per_block > 0 /\ ~ Has(pairs, id)
  /\ pairs' = Put(pairs, id,
       [emissions_per_block |-> per_block, last_update_block |-> now, created |-> now])
  /\ UNCHANGED <<now, miningInit, lpStake, total_lp, locked, lpBal, miningBal, emitted>>

update_pair_rewards(id) == [pairs EXCEPT ![id].last_update_block = now]

\* What the stake has earned since the pair was last updated, less everything
\* it was ever paid: negative after a claim and an update.
calculate_pending_reward(ps, user, id) ==
  LET s == lpStake[<<user, id>>]
  IN  IF total_lp = 0 \/ s.lp_balance = 0 THEN 0
      ELSE ((s.lp_balance * ps[id].emissions_per_block * (now - ps[id].last_update_block))
              \div total_lp) - s.reward_debt

provide_liquidity(user, id, amount) ==
  /\ miningInit /\ amount > 0 /\ Has(pairs, id)
  /\ CanPay(lpBal, user, amount)
  /\ pairs' = update_pair_rewards(id)
  /\ LET s == IF Has(lpStake, <<user, id>>) THEN lpStake[<<user, id>>]
              ELSE [lp_balance |-> 0, reward_debt |-> 0]
     IN  lpStake' = Put(lpStake, <<user, id>>, [s EXCEPT !.lp_balance = @ + amount])
  /\ lpBal' = Pay(lpBal, user, Self, amount)
  /\ total_lp' = total_lp + amount
  /\ UNCHANGED <<now, miningInit, locked, miningBal, emitted>>

\* A bug this module must not have: the reward is computed before the pair is
\* updated, so it is paid and then forgotten with the stale copy of the stake.
withdraw_liquidity_pays_first(user, id, amount) ==
  /\ miningInit /\ amount > 0
  /\ Has(lpStake, <<user, id>>) /\ lpStake[<<user, id>>].lp_balance >= amount
  /\ LET pending == calculate_pending_reward(pairs, user, id)
         reward  == IF pending > 0 THEN pending ELSE 0
     IN  /\ miningBal >= reward
         /\ miningBal' = miningBal - reward
         /\ emitted' = [emitted EXCEPT ![id] = @ + reward]
         /\ pairs' = pairs
  /\ lpStake' = [lpStake EXCEPT ![<<user, id>>].lp_balance = @ - amount]
  /\ total_lp' = total_lp - amount
  /\ lpBal' = Pay(lpBal, Self, user, amount)
  /\ UNCHANGED <<now, miningInit, locked>>

\* The copy of the stake is read before the reward is paid and stored after
\* it, so the reward_debt claim_rewards_internal stores would be lost; but
\* the pair has just been updated, and nothing is ever pending.
withdraw_liquidity(user, id, amount) ==
  /\ miningInit /\ amount > 0
  /\ Has(lpStake, <<user, id>>) /\ lpStake[<<user, id>>].lp_balance >= amount
  /\ pairs' = update_pair_rewards(id)
  /\ LET pending == calculate_pending_reward(update_pair_rewards(id), user, id)
         reward  == IF pending > 0 THEN pending ELSE 0
     IN  /\ miningBal >= reward
         /\ miningBal' = miningBal - reward
         /\ emitted' = [emitted EXCEPT ![id] = @ + reward]
  /\ lpStake' = [lpStake EXCEPT ![<<user, id>>].lp_balance = @ - amount]
  /\ total_lp' = total_lp - amount
  /\ lpBal' = Pay(lpBal, Self, user, amount)
  /\ UNCHANGED <<now, miningInit, locked>>

claim_rewards_internal(user, id, pending) ==
  /\ miningBal >= pending
  /\ miningBal' = miningBal - pending
  /\ lpStake' = [lpStake EXCEPT ![<<user, id>>].reward_debt = @ + pending]
  /\ emitted' = [emitted EXCEPT ![id] = @ + pending]

claim_rewards(user, id) ==
  /\ miningInit /\ Has(lpStake, <<user, id>>)
  /\ LET pending == calculate_pending_reward(pairs, user, id)
     IN  pending > 0 /\ claim_rewards_internal(user, id, pending)
  /\ UNCHANGED <<now, miningInit, pairs, total_lp, locked, lpBal>>

\* Half of the reward becomes governance power, and all of it is paid.
lock_rewards_for_governance(user, id, lockup_days) ==
  /\ miningInit /\ lockup_days \in 1 .. 365 /\ Has(lpStake, <<user, id>>)
  /\ LET pending == calculate_pending_reward(pairs, user, id)
     IN  /\ pending > 0
         /\ locked' = [locked EXCEPT ![user] = @ + pending \div 2]
         /\ claim_rewards_internal(user, id, pending)
  /\ UNCHANGED <<now, miningInit, pairs, total_lp, lpBal>>

MiningNext ==
  \/ MiningTick
  \/ initialize
  \/ \E id \in PairIds :
       \/ \E e \in Emissions : create_pair(id, e)
       \/ \E u \in Users :
            \/ \E a \in LpAmounts : provide_liquidity(u, id, a) \/ withdraw_liquidity(u, id, a)
            \/ claim_rewards(u, id)
            \/ \E days \in {0, 1} : lock_rewards_for_governance(u, id, days)

-----------------------------------------------------------------------------
\* A pair pays at most its emissions: however stakes in it and in the other
\* pairs (which share total_lp) come and go between claims, the rewards paid are
\* within emissions_per_block for the blocks since the pair was created.
EmissionsBounded ==
  \A p \in DOMAIN pairs :
    emitted[p] <= pairs[p].emissions_per_block * (now - pairs[p].created)

\* Every LP token staked can be withdrawn: the contract holds exactly the
\* balances it has recorded, and the running total agrees with them.
LpBacked ==
  /\ lpBal[Self] = total_lp
  /\ total_lp = SumOver(DOMAIN lpStake, LAMBDA k : lpStake[k].lp_balance)
=============================================================================
