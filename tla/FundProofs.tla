----------------------------- MODULE FundProofs -----------------------------
(***************************************************************************)
(* Lemmas about what each contract holds and hands out, for every set of   *)
(* accounts, amounts, pools, terms and limits.  Each contract has an       *)
(* inductive invariant of its own (StakingInv, MiningInv, CoverInv,        *)
(* SynthInv, VestingInv, AcademyInv, FlowInv), a lemma per operation, and  *)
(* three results: the invariant begins, every step keeps it, and what the  *)
(* contract promises follows from it.  ContractProofs puts them together.  *)
(***************************************************************************)
EXTENDS Funds, ProofBasics

-----------------------------------------------------------------------------
\* Staking.
StakeOk(s) ==
  /\ s \in [amount : Nat, pool_id : DOMAIN StakePools, start_timestamp : Nat, last_claim_timestamp : Nat]
  /\ s.last_claim_timestamp <= now
Earning(s) == s.amount * StakePools[s.pool_id].apy_bps
\* What the stake of a user has earned since the last claim.
Unclaimed(u) ==
  IF u \in DOMAIN userStake
  THEN Earning(userStake[u]) * (now - userStake[u].last_claim_timestamp) ELSE 0
Staked == FieldSum(userStake, "amount", DOMAIN userStake)

StakingTyped ==
  /\ now \in Nat
  /\ DOMAIN userStake \subseteq Users /\ \A u \in DOMAIN userStake : StakeOk(userStake[u])
  /\ stakeBal \in [Accounts -> Int]
  /\ rewarded \in [Users -> Nat] /\ accrued \in [Users -> Nat]
StakesThere ==
  /\ rewardToken = "none" => DOMAIN userStake = {} /\ stakeBal[Self] = 0
  /\ rewardToken = "other" => stakeBal[Self] >= Staked
RewardsFrom(u) == rewarded[u] * (10000 * YearLength) + Unclaimed(u) <= accrued[u]
StakingInv == StakingTyped /\ StakesThere /\ \A u \in Users : RewardsFrom(u)

LEMMA StakesBackedIs ==
  Staking!StakesBacked <=> (rewardToken = "other" => stakeBal[Self] >= Staked)
  BY DEF Staking!StakesBacked, Staking!SumOver, Staked, FieldSum, Staking!MapThenSumSet, Staking!MapThenFoldSet,
         MapThenSumSet, MapThenFoldSet

LEMMA StakingBegins ==
  ASSUME StakingConstants, Staking!StakingInit
  PROVE  Staking!StakesBacked /\ Staking!RewardsEarnedOnce /\ (now \in Nat => StakingInv)
  <1> USE DEF StakingConstants, Staking!StakingInit, Staking!Empty, Staking!Accounts, Accounts
  <1>1. DOMAIN userStake = {}
    OBVIOUS
  <1>2. now \in Nat => StakingTyped
    BY <1>1 DEF StakingTyped
  <1>3. Staked = 0
    BY <1>1, FieldSumEmpty DEF Staked
  <1>4. StakesThere
    BY <1>1 DEF StakesThere
  <1>5. ASSUME NEW u \in Users PROVE RewardsFrom(u)
    BY <1>1 DEF RewardsFrom, Unclaimed
  <1>6. Staking!StakesBacked /\ Staking!RewardsEarnedOnce
    BY StakesBackedIs DEF Staking!RewardsEarnedOnce
  <1> QED
    BY <1>2, <1>4, <1>5, <1>6 DEF StakingInv

LEMMA StakesFinite ==
  ASSUME StakingTyped
  PROVE  IsFiniteSet(DOMAIN userStake) /\ \A u \in DOMAIN userStake : userStake[u]["amount"] \in Int
  BY FS_Subset, LedgerAssumption DEF StakingTyped, StakeOk

LEMMA StakedNat ==
  ASSUME StakingTyped
  PROVE  Staked \in Nat
  <1>1. \A u \in DOMAIN userStake : userStake[u]["amount"] \in Nat
    BY DEF StakingTyped, StakeOk
  <1> QED
    BY <1>1, StakesFinite, FieldSumNatural DEF Staked

LEMMA UnclaimedNat ==
  ASSUME StakingConstants, StakingTyped, NEW u
  PROVE  Unclaimed(u) \in Nat
  <1>1. CASE u \in DOMAIN userStake
    <2>1. Earning(userStake[u]) \in Nat
      BY <1>1 DEF Earning, StakingConstants, StakingTyped, StakeOk
    <2>2. now - userStake[u].last_claim_timestamp \in Nat
      BY <1>1 DEF StakingTyped, StakeOk
    <2>3. Unclaimed(u) = Earning(userStake[u]) * (now - userStake[u].last_claim_timestamp)
      BY <1>1 DEF Unclaimed
    <2> QED
      BY <2>1, <2>2, <2>3
  <1>2. CASE u \notin DOMAIN userStake
    BY <1>2 DEF Unclaimed
  <1> QED
    BY <1>1, <1>2

LEMMA StakingTickKeeps ==
  ASSUME StakingConstants, StakingInv, Staking!StakingTick
  PROVE  StakingInv'
  <1> USE DEF StakingConstants
  <1>1. /\ now' = now + 1 /\ now \in Nat
        /\ UNCHANGED <<rewardToken, userStake, stakeBal, rewardBal, rewarded>>
    BY DEF Staking!StakingTick, Staking!CloseLedger, StakingInv, StakingTyped
  <1>2. \A u \in DOMAIN userStake : Earning(userStake[u]) \in Nat
    BY DEF StakingInv, StakingTyped, StakeOk, Earning
  <1>3. \A u \in Users : accrued'[u] = accrued[u] + IF u \in DOMAIN userStake THEN Earning(userStake[u]) ELSE 0
    BY DEF Staking!StakingTick, Staking!Has, Earning
  <1>4. StakingTyped'
    <2>1. accrued' \in [Users -> Nat]
      BY <1>2, <1>3 DEF StakingInv, StakingTyped, Staking!StakingTick
    <2>2. \A u \in DOMAIN userStake : StakeOk(userStake[u])'
      BY <1>1 DEF StakingInv, StakingTyped, StakeOk
    <2> QED
      BY <1>1, <2>1, <2>2 DEF StakingInv, StakingTyped
  <1>5. StakesThere'
    BY <1>1 DEF StakingInv, StakesThere, Staked
  <1>6. ASSUME NEW u \in Users PROVE RewardsFrom(u)'
    <2>1. RewardsFrom(u) /\ rewarded'[u] = rewarded[u] /\ rewarded[u] \in Nat /\ accrued[u] \in Nat
      BY <1>1 DEF StakingInv, StakingTyped
    <2>2. CASE u \in DOMAIN userStake
      <3>1. PICK e : e = Earning(userStake[u])
        OBVIOUS
      <3>2. PICK l : l = userStake[u].last_claim_timestamp
        OBVIOUS
      <3>3. e \in Nat /\ l \in Nat /\ l <= now
        BY <1>2, <2>2, <3>1, <3>2 DEF StakingInv, StakingTyped, StakeOk
      <3>4. Unclaimed(u) = e * (now - l) /\ Unclaimed(u)' = e * (now + 1 - l)
        <4>1. Unclaimed(u) = e * (now - l)
          BY <2>2, <3>1, <3>2 DEF Unclaimed
        <4>2. userStake' = userStake /\ u \in DOMAIN userStake'
          BY <1>1, <2>2
        <4>3. Unclaimed(u)' = Earning(userStake'[u]) * (now' - userStake'[u].last_claim_timestamp)
          BY <4>2 DEF Unclaimed
        <4>4. Earning(userStake'[u]) = e /\ userStake'[u].last_claim_timestamp = l
          BY <3>1, <3>2, <4>2
        <4>5. Unclaimed(u)' = e * (now' - l)
          BY <4>3, <4>4
        <4> QED
          BY <1>1, <3>3, <4>1, <4>5
      <3>5. e * (now + 1 - l) = e * (now - l) + e
        BY <1>1, <3>3
      <3>6. e * (now - l) \in Int /\ rewarded[u] * (10000 * YearLength) \in Int
        BY <1>1, <2>1, <3>3
      <3>7. accrued'[u] = accrued[u] + e
        BY <1>3, <2>2, <3>1
      <3> QED
        BY <2>1, <3>3, <3>4, <3>5, <3>6, <3>7 DEF RewardsFrom
    <2>3. CASE u \notin DOMAIN userStake
      <3>1. Unclaimed(u) = 0 /\ Unclaimed(u)' = 0 /\ accrued'[u] = accrued[u]
        BY <1>1, <1>3, <2>1, <2>3 DEF Unclaimed
      <3> QED
        BY <2>1, <3>1 DEF RewardsFrom
    <2> QED
      BY <2>2, <2>3
  <1> QED
    BY <1>4, <1>5, <1>6 DEF StakingInv

LEMMA StakingInitKeeps ==
  ASSUME StakingConstants, StakingInv, NEW token \in {"same", "other"}, Staking!initialize(token)
  PROVE  StakingInv'
  <1>1. rewardToken = "none" /\ rewardToken' = token /\ UNCHANGED <<now, userStake, stakeBal, rewardBal, accrued, rewarded>>
    BY DEF Staking!initialize
  <1>2. StakingTyped'
    BY <1>1 DEF StakingInv, StakingTyped, StakeOk
  <1>3. DOMAIN userStake = {} /\ stakeBal[Self] = 0
    BY <1>1 DEF StakingInv, StakesThere
  <1>4. Staked = 0 /\ Staked' = 0
    BY <1>1, <1>3, FieldSumEmpty DEF Staked
  <1>5. StakesThere'
    BY <1>1, <1>3, <1>4 DEF StakesThere
  <1>6. ASSUME NEW u \in Users PROVE RewardsFrom(u)'
    BY <1>1 DEF StakingInv, RewardsFrom, Unclaimed, Earning
  <1> QED
    BY <1>2, <1>5, <1>6 DEF StakingInv

LEMMA StakeKeeps ==
  ASSUME StakingConstants, StakingInv, NEW u \in Users, NEW a \in StakeAmounts, NEW p, Staking!stake(u, a, p)
  PROVE  StakingInv'
  <1> USE DEF StakingConstants
  <1>1. /\ a \in Nat /\ a > 0 /\ rewardToken # "none" /\ p \in DOMAIN StakePools
        /\ UNCHANGED <<now, rewardToken, rewardBal, accrued, rewarded>>
    BY DEF Staking!stake
  <1>2. PICK old : old = IF u \in DOMAIN userStake THEN userStake[u].amount ELSE 0
    OBVIOUS
  <1>3. old \in Nat
    BY <1>2 DEF StakingInv, StakingTyped, StakeOk
  <1>4. PICK s : s = [amount |-> a + old, pool_id |-> p, start_timestamp |-> now, last_claim_timestamp |-> now]
    OBVIOUS
  <1>5. userStake' = [x \in DOMAIN userStake \cup {u} |-> IF x = u THEN s ELSE userStake[x]]
    BY <1>2, <1>4 DEF Staking!stake, Staking!Put, Staking!Has
  <1>6. now \in Nat /\ s.amount = a + old /\ s.pool_id = p /\ s.last_claim_timestamp = now
    BY <1>4 DEF StakingInv, StakingTyped
  <1>13. StakeOk(s)
    BY <1>1, <1>3, <1>4, <1>6 DEF StakeOk
  <1>7. /\ DOMAIN userStake' = DOMAIN userStake \cup {u} /\ userStake'[u] = s
        /\ \A x \in DOMAIN userStake \ {u} : userStake'[x] = userStake[x]
    BY <1>5
  <1>8. stakeBal' \in [Accounts -> Int] /\ stakeBal'[Self] = stakeBal[Self] + a
    BY <1>1, LedgerAssumption DEF Staking!stake, Staking!Pay, StakingInv, StakingTyped, Accounts
  <1>9. StakingTyped'
    <2>1. \A x \in DOMAIN userStake' : StakeOk(userStake[x])'
      BY <1>1, <1>7, <1>13 DEF StakingInv, StakingTyped, StakeOk
    <2> QED
      BY <1>1, <1>7, <1>8, <2>1 DEF StakingInv, StakingTyped
  <1>10. Staked' = Staked + a
    <2>1. IsFiniteSet(DOMAIN userStake) /\ \A x \in DOMAIN userStake : userStake[x]["amount"] \in Int
      BY StakesFinite DEF StakingInv
    <2>2. Differ(userStake, userStake', "amount", DOMAIN userStake, u)
      BY <1>7, <2>1 DEF Differ
    <2>3. userStake'[u]["amount"] = a + old
      BY <1>6, <1>7
    <2>4. old = IF u \in DOMAIN userStake THEN userStake[u]["amount"] ELSE 0
      BY <1>2
    <2>5. PICK m2 : m2 = userStake'
      OBVIOUS
    <2>6. FieldSum(m2, "amount", DOMAIN userStake \cup {u}) = FieldSum(userStake, "amount", DOMAIN userStake) + (a + old) - old
      <3>1. u \in DOMAIN m2 /\ m2[u]["amount"] = a + old /\ a + old \in Int /\ Differ(userStake, m2, "amount", DOMAIN userStake, u)
        BY <1>1, <1>3, <1>7, <2>2, <2>3, <2>5
      <3> QED
        BY <2>4, <3>1, SumChanged
    <2>7. Staked' = FieldSum(m2, "amount", DOMAIN userStake \cup {u})
      BY <1>7, <2>5 DEF Staked
    <2>8. Staked \in Nat
      BY StakedNat DEF StakingInv
    <2> QED
      BY <1>1, <1>3, <2>6, <2>7, <2>8 DEF Staked
  <1>11. StakesThere'
    <2>1. stakeBal[Self] \in Int /\ Staked \in Nat
      BY StakedNat DEF StakingInv, StakingTyped, Accounts
    <2> QED
      BY <1>1, <1>8, <1>10, <2>1 DEF StakingInv, StakesThere
  <1>12. ASSUME NEW x \in Users PROVE RewardsFrom(x)'
    <2>1. RewardsFrom(x) /\ rewarded[x] \in Nat /\ accrued[x] \in Nat
      BY DEF StakingInv, StakingTyped
    <2>2. CASE x = u
      <3>1. Unclaimed(x)' = 0
        <4>1. Earning(s) \in Nat
          BY <1>1, <1>3, <1>6 DEF Earning
        <4>2. Unclaimed(x)' = Earning(s) * (now - now)
          BY <1>1, <1>6, <1>7, <2>2 DEF Unclaimed, Earning
        <4> QED
          BY <1>6, <4>1, <4>2
      <3>2. Unclaimed(x) \in Nat
        BY UnclaimedNat DEF StakingInv
      <3>3. rewarded[x] * (10000 * YearLength) \in Int
        BY <2>1
      <3> QED
        BY <1>1, <2>1, <3>1, <3>2, <3>3 DEF RewardsFrom
    <2>3. CASE x # u
      <3>1. Unclaimed(x)' = Unclaimed(x)
        BY <1>1, <1>7, <2>3 DEF Unclaimed, Earning
      <3> QED
        BY <1>1, <2>1, <3>1 DEF RewardsFrom
    <2> QED
      BY <2>2, <2>3
  <1> QED
    BY <1>9, <1>11, <1>12 DEF StakingInv

LEMMA RewardWithin ==
  ASSUME StakingConstants, StakingInv, NEW u \in DOMAIN userStake, NEW r, r = Staking!calculate_rewards(userStake[u])
  PROVE  r \in Nat /\ r * (10000 * YearLength) <= Unclaimed(u)
  <1>1. PICK e : e = Unclaimed(u)
    OBVIOUS
  <1>2. e \in Nat /\ e = userStake[u].amount * StakePools[userStake[u].pool_id].apy_bps * (now - userStake[u].last_claim_timestamp)
    <2>1. e \in Nat
      BY <1>1, UnclaimedNat DEF StakingInv
    <2> QED
      BY <1>1, <2>1 DEF Unclaimed, Earning
  <1>3. r = e \div (10000 * YearLength)
    BY <1>2 DEF Staking!calculate_rewards
  <1>4. PICK y : y = 10000 * YearLength
    OBVIOUS
  <1>5. y \in Nat /\ y > 0
    BY <1>4 DEF StakingConstants
  <1>6. PICK d : d = e \div y
    OBVIOUS
  <1>7. d \in Nat
    BY <1>2, <1>5, <1>6
  <1>8. y * d <= e
    BY <1>2, <1>5, <1>6
  <1>9. r = d /\ d * y = y * d
    BY <1>3, <1>4, <1>5, <1>6, <1>7
  <1> QED
    BY <1>1, <1>4, <1>7, <1>8, <1>9

LEMMA ClaimKeeps ==
  ASSUME StakingConstants, StakingInv, NEW u \in Users, Staking!claim(u)
  PROVE  StakingInv'
  <1> USE DEF StakingConstants
  <1>1. PICK r : r = Staking!calculate_rewards(userStake[u])
    OBVIOUS
  <1>2. /\ u \in DOMAIN userStake /\ UNCHANGED <<now, rewardToken, accrued>>
        /\ rewarded' = [rewarded EXCEPT ![u] = @ + r]
        /\ userStake' = [userStake EXCEPT ![u].last_claim_timestamp = now]
    BY <1>1 DEF Staking!claim, Staking!Has
  <1>3. \/ rewardToken = "same" /\ stakeBal' = Staking!Pay(stakeBal, Self, u, r)
        \/ rewardToken = "other" /\ stakeBal' = stakeBal
    BY <1>1 DEF Staking!claim
  <1>4. r \in Nat /\ r * (10000 * YearLength) <= Unclaimed(u)
    BY <1>1, <1>2, RewardWithin
  <1>5. /\ DOMAIN userStake' = DOMAIN userStake /\ \A x \in DOMAIN userStake \ {u} : userStake'[x] = userStake[x]
        /\ userStake'[u].last_claim_timestamp = now
        /\ userStake'[u].amount = userStake[u].amount /\ userStake'[u].pool_id = userStake[u].pool_id
    <2>1. userStake'[u] = [userStake[u] EXCEPT !.last_claim_timestamp = now]
      BY <1>2
    <2>2. userStake[u] \in [amount : Nat, pool_id : DOMAIN StakePools, start_timestamp : Nat, last_claim_timestamp : Nat]
      BY <1>2 DEF StakingInv, StakingTyped, StakeOk
    <2> QED
      BY <1>2, <2>1, <2>2
  <1>6. stakeBal' \in [Accounts -> Int]
    BY <1>3, <1>4 DEF StakingInv, StakingTyped, Staking!Pay, Accounts
  <1>7. rewarded' \in [Users -> Nat]
    BY <1>2, <1>4 DEF StakingInv, StakingTyped
  <1>8. StakingTyped'
    <2>1. \A x \in DOMAIN userStake' : StakeOk(userStake[x])'
      BY <1>2, <1>5 DEF StakingInv, StakingTyped, StakeOk
    <2> QED
      BY <1>2, <1>5, <1>6, <1>7, <2>1 DEF StakingInv, StakingTyped
  <1>9. Staked' = Staked
    <2>1. \A x \in DOMAIN userStake : userStake[x]["amount"] = userStake'[x]["amount"]
      BY <1>5
    <2>2. PICK m2 : m2 = userStake'
      OBVIOUS
    <2>3. FieldSum(userStake, "amount", DOMAIN userStake) = FieldSum(m2, "amount", DOMAIN userStake)
      BY <1>5, <2>1, <2>2, StakesFinite, FieldSumAgrees DEF StakingInv
    <2> QED
      BY <1>5, <2>2, <2>3 DEF Staked
  <1>10. StakesThere'
    BY <1>2, <1>3, <1>9 DEF StakingInv, StakesThere
  <1>11. ASSUME NEW x \in Users PROVE RewardsFrom(x)'
    <2>1. RewardsFrom(x) /\ rewarded[x] \in Nat /\ accrued[x] \in Nat
      BY DEF StakingInv, StakingTyped
    <2>2. CASE x = u
      <3>1. Unclaimed(x)' = 0
        <4>1. Earning(userStake[u])' \in Nat
          BY <1>2, <1>5 DEF Earning, StakingInv, StakingTyped, StakeOk
        <4>2. now \in Nat /\ now' = now /\ (userStake[u].last_claim_timestamp)' = now
          BY <1>2, <1>5 DEF StakingInv, StakingTyped
        <4> QED
          BY <1>2, <1>5, <2>2, <4>1, <4>2 DEF Unclaimed
      <3>2. PICK w : w = Unclaimed(u)
        OBVIOUS
      <3>3. w \in Nat
        BY <3>2, UnclaimedNat DEF StakingInv
      <3>4. rewarded'[x] = rewarded[x] + r
        BY <1>2, <2>2 DEF StakingInv, StakingTyped
      <3>5. PICK y : y = 10000 * YearLength
        OBVIOUS
      <3>6. y \in Nat /\ (rewarded[x] + r) * y = rewarded[x] * y + r * y /\ rewarded[x] * y \in Int /\ r * y \in Int
        BY <1>4, <2>1, <3>5
      <3>7. rewarded[x] * y + w <= accrued[x] /\ r * y <= w
        BY <1>4, <2>1, <2>2, <3>2, <3>5 DEF RewardsFrom
      <3>8. (rewarded[x] + r) * y <= accrued[x]
        BY <2>1, <3>3, <3>6, <3>7
      <3> QED
        BY <1>2, <3>1, <3>4, <3>5, <3>6, <3>8 DEF RewardsFrom
    <2>3. CASE x # u
      <3>1. Unclaimed(x)' = Unclaimed(x) /\ rewarded'[x] = rewarded[x]
        BY <1>2, <1>5, <2>3 DEF Unclaimed, Earning, StakingInv, StakingTyped
      <3> QED
        BY <1>2, <2>1, <3>1 DEF RewardsFrom
    <2> QED
      BY <2>2, <2>3
  <1> QED
    BY <1>8, <1>10, <1>11 DEF StakingInv

LEMMA UnstakeKeeps ==
  ASSUME StakingConstants, StakingInv, NEW u \in Users, Staking!unstake(u)
  PROVE  StakingInv'
  <1> USE DEF StakingConstants
  <1>1. /\ u \in DOMAIN userStake /\ UNCHANGED <<now, rewardToken, rewardBal, accrued, rewarded>>
        /\ userStake' = [x \in DOMAIN userStake \ {u} |-> userStake[x]]
    BY DEF Staking!unstake, Staking!Has, Staking!Without
  <1>2. PICK a : a = userStake[u].amount
    OBVIOUS
  <1>3. a \in Nat
    BY <1>1, <1>2 DEF StakingInv, StakingTyped, StakeOk
  <1>4. PICK b : b \in Nat /\ b <= a /\ stakeBal' = Staking!Pay(stakeBal, Self, u, b)
    <2>1. PICK q : q \in {0, (a * 1000) \div 10000} /\ stakeBal' = Staking!Pay(stakeBal, Self, u, a - q)
      BY <1>2 DEF Staking!unstake
    <2>2. q \in Nat /\ q <= a
      BY <1>3, <2>1
    <2> QED
      BY <1>3, <2>1, <2>2
  <1>5. stakeBal' \in [Accounts -> Int] /\ stakeBal'[Self] = stakeBal[Self] - b
    BY <1>4, LedgerAssumption DEF Staking!Pay, StakingInv, StakingTyped, Accounts
  <1>6. DOMAIN userStake' = DOMAIN userStake \ {u} /\ \A x \in DOMAIN userStake \ {u} : userStake'[x] = userStake[x]
    BY <1>1
  <1>7. StakingTyped'
    <2>1. \A x \in DOMAIN userStake' : StakeOk(userStake[x])'
      BY <1>1, <1>6 DEF StakingInv, StakingTyped, StakeOk
    <2> QED
      BY <1>1, <1>5, <1>6, <2>1 DEF StakingInv, StakingTyped
  <1>8. Staked' = Staked - a
    <2>1. IsFiniteSet(DOMAIN userStake) /\ \A x \in DOMAIN userStake : userStake[x]["amount"] \in Int
      BY StakesFinite DEF StakingInv
    <2>2. PICK m2 : m2 = userStake'
      OBVIOUS
    <2>3. Differ(userStake, m2, "amount", DOMAIN userStake, u)
      BY <1>6, <2>1, <2>2 DEF Differ
    <2>4. FieldSum(m2, "amount", DOMAIN userStake \ {u}) = FieldSum(userStake, "amount", DOMAIN userStake) - userStake[u]["amount"]
      BY <1>1, <2>3, SumRemoved
    <2>5. userStake[u]["amount"] = a
      BY <1>2
    <2> QED
      BY <1>6, <2>2, <2>4, <2>5 DEF Staked
  <1>9. StakesThere'
    <2>1. stakeBal[Self] \in Int /\ Staked \in Nat
      BY StakedNat DEF StakingInv, StakingTyped, Accounts
    <2>2. rewardToken # "none"
      BY <1>1 DEF StakingInv, StakesThere
    <2> QED
      BY <1>1, <1>3, <1>4, <1>5, <1>8, <2>1, <2>2 DEF StakingInv, StakesThere
  <1>10. ASSUME NEW x \in Users PROVE RewardsFrom(x)'
    <2>1. RewardsFrom(x) /\ rewarded[x] \in Nat /\ accrued[x] \in Nat
      BY DEF StakingInv, StakingTyped
    <2>2. CASE x = u
      <3>1. Unclaimed(x)' = 0
        BY <1>6, <2>2 DEF Unclaimed
      <3>2. Unclaimed(x) \in Nat
        BY UnclaimedNat DEF StakingInv
      <3>3. rewarded[x] * (10000 * YearLength) \in Int
        BY <2>1
      <3> QED
        BY <1>1, <2>1, <3>1, <3>2, <3>3 DEF RewardsFrom
    <2>3. CASE x # u
      <3>1. Unclaimed(x)' = Unclaimed(x)
        BY <1>1, <1>6, <2>3 DEF Unclaimed, Earning
      <3> QED
        BY <1>1, <2>1, <3>1 DEF RewardsFrom
    <2> QED
      BY <2>2, <2>3
  <1> QED
    BY <1>7, <1>9, <1>10 DEF StakingInv

LEMMA CompoundKeeps ==
  ASSUME StakingConstants, StakingInv, NEW u \in Users, Staking!compound(u)
  PROVE  StakingInv'
  <1> USE DEF StakingConstants
  <1>1. PICK r : r = Staking!calculate_rewards(userStake[u])
    OBVIOUS
  <1>2. /\ u \in DOMAIN userStake /\ rewardToken = "same"
        /\ UNCHANGED <<now, rewardToken, stakeBal, rewardBal, accrued>>
        /\ rewarded' = [rewarded EXCEPT ![u] = @ + r]
        /\ userStake' = [userStake EXCEPT ![u].amount = @ + r, ![u].last_claim_timestamp = now]
    BY <1>1 DEF Staking!compound, Staking!Has
  <1>4. r \in Nat /\ r * (10000 * YearLength) <= Unclaimed(u)
    BY <1>1, <1>2, RewardWithin
  <1>3. now \in Nat
    BY DEF StakingInv, StakingTyped
  <1>5. /\ DOMAIN userStake' = DOMAIN userStake /\ \A x \in DOMAIN userStake \ {u} : userStake'[x] = userStake[x]
        /\ userStake'[u].last_claim_timestamp = now
        /\ userStake'[u] \in [amount : Nat, pool_id : DOMAIN StakePools, start_timestamp : Nat, last_claim_timestamp : Nat]
    <2>1. userStake'[u] = [[userStake[u] EXCEPT !.amount = @ + r] EXCEPT !.last_claim_timestamp = now]
      BY <1>2
    <2>2. userStake[u] \in [amount : Nat, pool_id : DOMAIN StakePools, start_timestamp : Nat, last_claim_timestamp : Nat]
      BY <1>2 DEF StakingInv, StakingTyped, StakeOk
    <2>3. PICK s : s = userStake[u]
      OBVIOUS
    <2>4. userStake'[u] = [amount |-> s.amount + r, pool_id |-> s.pool_id, start_timestamp |-> s.start_timestamp,
                           last_claim_timestamp |-> now]
      BY <2>1, <2>2, <2>3
    <2>5. s.amount + r \in Nat /\ s.pool_id \in DOMAIN StakePools /\ s.start_timestamp \in Nat
      BY <1>4, <2>2, <2>3
    <2> QED
      BY <1>2, <1>3, <2>4, <2>5
  <1>7. rewarded' \in [Users -> Nat]
    BY <1>2, <1>4 DEF StakingInv, StakingTyped
  <1>8. StakingTyped'
    <2>1. \A x \in DOMAIN userStake' : StakeOk(userStake[x])'
      BY <1>2, <1>3, <1>5 DEF StakingInv, StakingTyped, StakeOk
    <2> QED
      BY <1>2, <1>5, <1>7, <2>1 DEF StakingInv, StakingTyped
  <1>10. StakesThere'
    BY <1>2 DEF StakingInv, StakesThere
  <1>11. ASSUME NEW x \in Users PROVE RewardsFrom(x)'
    <2>1. RewardsFrom(x) /\ rewarded[x] \in Nat /\ accrued[x] \in Nat
      BY DEF StakingInv, StakingTyped
    <2>2. CASE x = u
      <3>1. Unclaimed(x)' = 0
        <4>1. Earning(userStake'[u]) \in Nat
          BY <1>2, <1>5 DEF Earning, StakingInv, StakingTyped, StakeOk
        <4> QED
          BY <1>2, <1>3, <1>5, <2>2, <4>1 DEF Unclaimed
      <3>2. PICK w : w = Unclaimed(u)
        OBVIOUS
      <3>3. w \in Nat
        BY <3>2, UnclaimedNat DEF StakingInv
      <3>4. rewarded'[x] = rewarded[x] + r
        BY <1>2, <2>2 DEF StakingInv, StakingTyped
      <3>5. PICK y : y = 10000 * YearLength
        OBVIOUS
      <3>6. y \in Nat /\ (rewarded[x] + r) * y = rewarded[x] * y + r * y /\ rewarded[x] * y \in Int /\ r * y \in Int
        BY <1>4, <2>1, <3>5
      <3>7. rewarded[x] * y + w <= accrued[x] /\ r * y <= w
        BY <1>4, <2>1, <2>2, <3>2, <3>5 DEF RewardsFrom
      <3>8. (rewarded[x] + r) * y <= accrued[x]
        BY <2>1, <3>3, <3>6, <3>7
      <3> QED
        BY <1>2, <3>1, <3>4, <3>5, <3>6, <3>8 DEF RewardsFrom
    <2>3. CASE x # u
      <3>1. Unclaimed(x)' = Unclaimed(x) /\ rewarded'[x] = rewarded[x]
        BY <1>2, <1>5, <2>3 DEF Unclaimed, Earning, StakingInv, StakingTyped
      <3> QED
        BY <1>2, <2>1, <3>1 DEF RewardsFrom
    <2> QED
      BY <2>2, <2>3
  <1> QED
    BY <1>8, <1>10, <1>11 DEF StakingInv

LEMMA StakingKeeps ==
  ASSUME StakingConstants, StakingInv, Staking!StakingNext
  PROVE  StakingInv'
  <1>1. ASSUME NEW u \in Users,
               \/ \E a \in StakeAmounts, p \in 0 .. Staking!Cardinality(DOMAIN StakePools) : Staking!stake(u, a, p)
               \/ Staking!claim(u) \/ Staking!unstake(u) \/ Staking!compound(u)
        PROVE  StakingInv'
    BY <1>1, StakeKeeps, ClaimKeeps, UnstakeKeeps, CompoundKeeps
  <1> QED
    BY <1>1, StakingTickKeeps, StakingInitKeeps DEF Staking!StakingNext

LEMMA StakingHolds ==
  ASSUME StakingConstants, StakingInv
  PROVE  Staking!StakesBacked /\ Staking!RewardsEarnedOnce
  <1>1. Staking!StakesBacked
    BY StakesBackedIs DEF StakingInv, StakesThere
  <1>2. ASSUME NEW u \in Users PROVE rewarded[u] * 10000 * YearLength <= accrued[u]
    <2>1. RewardsFrom(u) /\ rewarded[u] \in Nat /\ accrued[u] \in Nat /\ Unclaimed(u) \in Nat
      BY UnclaimedNat DEF StakingInv, StakingTyped
    <2>2. rewarded[u] * 10000 * YearLength = rewarded[u] * (10000 * YearLength) /\ rewarded[u] * (10000 * YearLength) \in Nat
      BY <2>1 DEF StakingConstants
    <2> QED
      BY <2>1, <2>2 DEF RewardsFrom
  <1> QED
    BY <1>1, <1>2 DEF Staking!RewardsEarnedOnce

-----------------------------------------------------------------------------
\* Liquidity mining.
PairRecord == [emissions_per_block : Nat, last_update_block : Nat, created : Nat]
LpRecord == [lp_balance : Nat, reward_debt : Nat]
PairOk(p) ==
  /\ pairs[p] \in PairRecord
  /\ pairs[p].created <= pairs[p].last_update_block /\ pairs[p].last_update_block <= now
MiningTyped ==
  /\ now \in Nat /\ total_lp \in Nat
  /\ DOMAIN pairs \subseteq PairIds /\ \A p \in DOMAIN pairs : PairOk(p)
  /\ IsFiniteSet(DOMAIN lpStake) /\ \A k \in DOMAIN lpStake : lpStake[k] \in LpRecord
  /\ lpBal \in [Accounts -> Int]
  /\ emitted \in [PairIds -> Nat]
MiningStarted == /\ ~miningInit => DOMAIN lpStake = {}
                 /\ \A k \in DOMAIN lpStake : k[2] \in DOMAIN pairs
                 /\ \A p \in PairIds \ DOMAIN pairs : emitted[p] = 0
LpThere ==
  /\ lpBal[Self] = total_lp
  /\ total_lp = FieldSum(lpStake, "lp_balance", DOMAIN lpStake)

StakesIn(p) == {k \in DOMAIN lpStake : k[2] = p}
PairLp(p) == FieldSum(lpStake, "lp_balance", StakesIn(p))
\* What each stake may have been paid since the pair was updated.
Share(p, c, k) ==
  /\ c[k] \in Nat /\ c[k] <= lpStake[k].reward_debt
  /\ c[k] * PairLp(p) <= lpStake[k].lp_balance * (pairs[p].emissions_per_block * (now - pairs[p].last_update_block))
Shares(p, c) ==
  /\ \A k \in StakesIn(p) : Share(p, c, k)
  /\ PairLp(p) = 0 => Total(c, StakesIn(p)) = 0
  /\ emitted[p] <= pairs[p].emissions_per_block * (pairs[p].last_update_block - pairs[p].created) + Total(c, StakesIn(p))
EmissionsOk == \A p \in DOMAIN pairs : \E c : Shares(p, c)
MiningInv == MiningTyped /\ MiningStarted /\ LpThere /\ EmissionsOk

LEMMA LpBackedIs ==
  Mining!LpBacked <=> LpThere
  BY DEF Mining!LpBacked, Mining!SumOver, LpThere, FieldSum, Mining!MapThenSumSet, Mining!MapThenFoldSet,
         MapThenSumSet, MapThenFoldSet

LEMMA MiningBegins ==
  ASSUME MiningConstants, Mining!MiningInit
  PROVE  LpThere /\ DOMAIN pairs = {} /\ (now \in Nat => MiningInv)
  <1> USE DEF MiningConstants, Mining!MiningInit, Mining!Empty, Mining!Accounts, Accounts
  <1>1. DOMAIN lpStake = {} /\ DOMAIN pairs = {}
    OBVIOUS
  <1>2. now \in Nat => MiningTyped
    BY <1>1, FS_EmptySet DEF MiningTyped
  <1>3. FieldSum(lpStake, "lp_balance", DOMAIN lpStake) = 0
    BY <1>1, FieldSumEmpty
  <1>4. LpThere
    BY <1>3 DEF LpThere
  <1>5. MiningStarted /\ EmissionsOk
    BY <1>1 DEF MiningStarted, EmissionsOk
  <1> QED
    BY <1>1, <1>2, <1>4, <1>5 DEF MiningInv

LEMMA PairLpBounds ==
  ASSUME MiningInv, NEW p
  PROVE  /\ IsFiniteSet(StakesIn(p)) /\ StakesIn(p) \subseteq DOMAIN lpStake
         /\ PairLp(p) \in Nat /\ PairLp(p) <= total_lp
  <1>1. IsFiniteSet(DOMAIN lpStake) /\ \A k \in DOMAIN lpStake : lpStake[k]["lp_balance"] \in Nat
    BY DEF MiningInv, MiningTyped, LpRecord
  <1>2. IsFiniteSet(StakesIn(p)) /\ StakesIn(p) \subseteq DOMAIN lpStake
    BY <1>1, FS_Subset DEF StakesIn
  <1>3. PairLp(p) \in Nat
    BY <1>1, <1>2, FieldSumNatural DEF PairLp
  <1>4. PICK F : F = Field(lpStake, "lp_balance")
    OBVIOUS
  <1>5. PairLp(p) = Total(F, StakesIn(p)) /\ total_lp = Total(F, DOMAIN lpStake)
    BY <1>1, <1>2, <1>4, FieldSumIsTotal DEF PairLp, MiningInv, LpThere
  <1>6. \A k \in DOMAIN lpStake : F[k] \in Nat
    BY <1>1, <1>4 DEF Field
  <1>7. Total(F, StakesIn(p)) <= Total(F, DOMAIN lpStake)
    BY <1>1, <1>2, <1>6, SubsetTotal
  <1> QED
    BY <1>2, <1>3, <1>5, <1>7

\* A pair has emitted what its rate allows.
LEMMA EmittedWithin ==
  ASSUME MiningInv, NEW p \in DOMAIN pairs
  PROVE  emitted[p] <= pairs[p].emissions_per_block * (now - pairs[p].created)
  <1>1. PICK c : Shares(p, c)
    BY DEF MiningInv, EmissionsOk
  <1>2. PICK S, L : S = StakesIn(p) /\ L = PairLp(p)
    OBVIOUS
  <1>3. IsFiniteSet(S) /\ S \subseteq DOMAIN lpStake /\ L \in Nat
    BY <1>2, PairLpBounds
  <1>4. PICK e, t, f, g : e = pairs[p].emissions_per_block /\ t = pairs[p].last_update_block /\ f = pairs[p].created /\ g = emitted[p]
    OBVIOUS
  <1>5. e \in Nat /\ t \in Nat /\ f \in Nat /\ f <= t /\ t <= now /\ now \in Nat /\ g \in Nat
    BY <1>4 DEF MiningInv, MiningTyped, PairOk, PairRecord
  <1>6. PICK B : B = e * (now - t)
    OBVIOUS
  <1>7. B \in Nat
    <2>1. now - t \in Nat
      BY <1>5
    <2> QED
      BY <1>5, <1>6, <2>1
  <1>8. PICK l : l = Field(lpStake, "lp_balance")
    OBVIOUS
  <1>9. \A k \in S : l[k] = lpStake[k].lp_balance /\ l[k] \in Nat
    BY <1>3, <1>8 DEF Field, MiningInv, MiningTyped, LpRecord
  <1>10. \A k \in S : c[k] \in Nat /\ c[k] * L <= l[k] * B
    BY <1>1, <1>2, <1>4, <1>6, <1>9 DEF Shares, Share
  <1>11. PICK C : C = Total(c, S)
    OBVIOUS
  <1>12. C \in Nat
    BY <1>3, <1>10, <1>11, TotalNatural
  <1>13. Total(l, S) = L
    BY <1>2, <1>3, <1>8, FieldSumIsTotal DEF PairLp
  <1>14. C * L <= L * B
    BY <1>3, <1>7, <1>9, <1>10, <1>11, <1>13, SharesBounded
  <1>15. C <= B
    <2>1. CASE L > 0
      BY <1>3, <1>7, <1>12, <1>14, <2>1
    <2>2. CASE L = 0
      <3>1. C = 0
        BY <1>1, <1>2, <1>11, <2>2 DEF Shares
      <3> QED
        BY <1>7, <3>1
    <2> QED
      BY <1>3, <2>1, <2>2
  <1>16. g <= e * (t - f) + C
    BY <1>1, <1>2, <1>4, <1>11 DEF Shares
  <1>17. e * (t - f) + e * (now - t) = e * (now - f) /\ e * (t - f) \in Int
    BY <1>5
  <1> QED
    BY <1>4, <1>5, <1>6, <1>7, <1>12, <1>15, <1>16, <1>17

\* A pair that is updated, and a pair that a step leaves alone.
LEMMA UpdatedPair ==
  ASSUME MiningInv, MiningTyped', NEW p \in DOMAIN pairs, p \in DOMAIN pairs', now' = now,
         emitted'[p] = emitted[p], pairs'[p] = [pairs[p] EXCEPT !.last_update_block = now]
  PROVE  \E c : Shares(p, c)'
  <1>1. IsFiniteSet(StakesIn(p)')
    <2>1. IsFiniteSet(DOMAIN lpStake')
      BY DEF MiningTyped
    <2> QED
      BY <2>1, FS_Subset DEF StakesIn
  <1>2. /\ pairs'[p].emissions_per_block = pairs[p].emissions_per_block
        /\ pairs'[p].created = pairs[p].created /\ pairs'[p].last_update_block = now
        /\ pairs[p].emissions_per_block \in Nat /\ pairs[p].created \in Nat /\ now \in Nat
    BY DEF MiningInv, MiningTyped, PairOk, PairRecord
  <1>3. PICK S : S = StakesIn(p)'
    OBVIOUS
  <1>4. PICK c : c = [k \in S |-> 0]
    OBVIOUS
  <1>5. Total(c, S) = 0
    BY <1>1, <1>3, <1>4, ZeroTotal
  <1>6. emitted[p] <= pairs[p].emissions_per_block * (now - pairs[p].created)
    BY EmittedWithin
  <1>7. pairs[p].emissions_per_block * (now - pairs[p].created) \in Int
    BY <1>2
  <1>8. PairLp(p)' \in Nat
    <2>1. \A k \in S : lpStake'[k]["lp_balance"] \in Nat
      BY <1>3 DEF StakesIn, MiningTyped, LpRecord
    <2>2. PICK q : q = lpStake'
      OBVIOUS
    <2>3. FieldSum(q, "lp_balance", S) \in Nat
      BY <1>1, <1>3, <2>1, <2>2, FieldSumNatural DEF StakesIn
    <2> QED
      BY <1>3, <2>2, <2>3 DEF PairLp
  <1>9. ASSUME NEW k \in S PROVE Share(p, c, k)'
    <2>1. c[k] = 0
      BY <1>4
    <2>2. lpStake'[k].lp_balance \in Nat /\ lpStake'[k].reward_debt \in Nat
      BY <1>3 DEF StakesIn, MiningTyped, LpRecord
    <2>3. lpStake'[k].lp_balance * (pairs'[p].emissions_per_block * (now' - pairs'[p].last_update_block)) = 0
      BY <1>2, <2>2
    <2>4. 0 * PairLp(p)' = 0
      BY <1>8
    <2> QED
      BY <2>1, <2>2, <2>3, <2>4 DEF Share
  <1>10. emitted'[p] <= pairs'[p].emissions_per_block * (pairs'[p].last_update_block - pairs'[p].created) + Total(c, S)
    BY <1>2, <1>5, <1>6, <1>7
  <1>11. Shares(p, c)'
    BY <1>3, <1>5, <1>9, <1>10 DEF Shares
  <1> QED
    BY <1>11

SamePair(p) ==
  /\ p \in DOMAIN pairs /\ pairs'[p] = pairs[p] /\ emitted'[p] = emitted[p]
  /\ StakesIn(p)' = StakesIn(p) /\ \A k \in StakesIn(p) : lpStake'[k] = lpStake[k]

LEMMA SamePairLp ==
  ASSUME MiningInv, NEW p, StakesIn(p)' = StakesIn(p), \A k \in StakesIn(p) : lpStake'[k]["lp_balance"] = lpStake[k]["lp_balance"]
  PROVE  PairLp(p)' = PairLp(p)
  <1>1. PICK q, S : q = lpStake' /\ S = StakesIn(p)
    OBVIOUS
  <1>2. IsFiniteSet(S) /\ S \subseteq DOMAIN lpStake
    BY <1>1, PairLpBounds
  <1>3. S \subseteq DOMAIN q
    BY <1>1 DEF StakesIn
  <1>4. FieldSum(lpStake, "lp_balance", S) = FieldSum(q, "lp_balance", S)
    BY <1>1, <1>2, <1>3, FieldSumAgrees
  <1> QED
    BY <1>1, <1>4 DEF PairLp

LEMMA UntouchedPair ==
  ASSUME MiningInv, NEW p, SamePair(p), now' \in {now, now + 1}
  PROVE  \E c : Shares(p, c)'
  <1>1. PICK c : Shares(p, c)
    BY DEF MiningInv, EmissionsOk, SamePair
  <1>2. PairLp(p)' = PairLp(p)
    BY SamePairLp DEF SamePair
  <1>3. PICK e, t : e = pairs[p].emissions_per_block /\ t = pairs[p].last_update_block
    OBVIOUS
  <1>4. e \in Nat /\ t \in Nat /\ t <= now /\ now \in Nat
    BY <1>3 DEF MiningInv, MiningTyped, PairOk, PairRecord, SamePair
  <1>5. ASSUME NEW k \in StakesIn(p) PROVE Share(p, c, k)'
    <2>1. Share(p, c, k) /\ lpStake'[k] = lpStake[k]
      BY <1>1 DEF Shares, SamePair
    <2>2. PICK b : b = lpStake[k].lp_balance
      OBVIOUS
    <2>3. b \in Nat /\ c[k] \in Nat /\ PairLp(p) \in Nat
      BY <2>1, <2>2, PairLpBounds DEF Share, MiningInv, MiningTyped, LpRecord, StakesIn
    <2>4. c[k] * PairLp(p) <= b * (e * (now - t))
      BY <1>3, <2>1, <2>2 DEF Share
    <2>5. b * (e * (now - t)) <= b * (e * (now' - t))
      <3>1. CASE now' = now
        <4>1. b * (e * (now - t)) \in Int
          BY <1>4, <2>3
        <4> QED
          BY <3>1, <4>1
      <3>2. CASE now' = now + 1
        <4>1. e * (now + 1 - t) = e * (now - t) + e /\ e * (now - t) \in Int
          BY <1>4
        <4>2. PICK x : x = e * (now - t)
          OBVIOUS
        <4>3. b * (x + e) = b * x + b * e /\ b * e \in Nat /\ b * x \in Int
          BY <1>4, <2>3, <4>1, <4>2
        <4>4. b * x <= b * (x + e)
          BY <4>3
        <4>5. e * (now' - t) = x + e
          BY <1>4, <3>2, <4>1, <4>2
        <4> QED
          BY <4>2, <4>4, <4>5
      <3> QED
        BY <3>1, <3>2
    <2>6. c[k] * PairLp(p) \in Int /\ b * (e * (now - t)) \in Int /\ b * (e * (now' - t)) \in Int
      <3>1. now' \in Int /\ now \in Int
        BY <1>4
      <3>2. PICK m : m = now'
        OBVIOUS
      <3>3. m \in Int
        BY <3>1, <3>2
      <3>4. b * (e * (m - t)) \in Int
        BY <1>4, <2>3, <3>3
      <3> QED
        BY <1>4, <2>3, <3>2, <3>4
    <2>7. c[k] * PairLp(p) <= b * (e * (now' - t))
      BY <2>4, <2>5, <2>6
    <2>8. Share(p, c, k)' <=> /\ c[k] \in Nat /\ c[k] <= lpStake'[k].reward_debt
                              /\ c[k] * PairLp(p)' <= lpStake'[k].lp_balance * (pairs'[p].emissions_per_block * (now' - pairs'[p].last_update_block))
      BY DEF Share
    <2>9. pairs'[p].emissions_per_block = e /\ pairs'[p].last_update_block = t /\ lpStake'[k].lp_balance = b
      BY <1>3, <2>1, <2>2 DEF SamePair
    <2>10. c[k] \in Nat /\ c[k] <= lpStake'[k].reward_debt
      BY <2>1 DEF Share
    <2> QED
      BY <1>2, <2>7, <2>8, <2>9, <2>10
  <1>6. Shares(p, c)'
    BY <1>1, <1>2, <1>5 DEF Shares, SamePair
  <1> QED
    BY <1>6

LEMMA MiningQuiet ==
  ASSUME MiningInv, UNCHANGED <<pairs, lpStake, lpBal, emitted>>, now' \in {now, now + 1},
         \/ UNCHANGED <<miningInit, total_lp>>
         \/ DOMAIN lpStake = {} /\ total_lp' = 0
  PROVE  MiningInv'
  <1>1. total_lp' = total_lp
    <2>1. ASSUME DOMAIN lpStake = {} PROVE total_lp = 0
      BY <2>1, FieldSumEmpty DEF MiningInv, LpThere
    <2> QED
      BY <2>1
  <1>2. \A p \in DOMAIN pairs : PairOk(p)'
    BY DEF MiningInv, MiningTyped, PairOk, PairRecord
  <1>3. MiningTyped'
    BY <1>1, <1>2 DEF MiningInv, MiningTyped
  <1>4. MiningStarted'
    BY DEF MiningInv, MiningStarted
  <1>5. LpThere'
    BY <1>1 DEF MiningInv, LpThere
  <1>6. ASSUME NEW p \in DOMAIN pairs PROVE \E c : Shares(p, c)'
    <2>1. SamePair(p)
      BY <1>6 DEF SamePair, StakesIn
    <2> QED
      BY <2>1, UntouchedPair
  <1>7. EmissionsOk'
    BY <1>6 DEF EmissionsOk
  <1> QED
    BY <1>3, <1>4, <1>5, <1>7 DEF MiningInv

LEMMA CreatePairKeeps ==
  ASSUME MiningConstants, MiningInv, NEW id \in PairIds, NEW e \in Emissions, Mining!create_pair(id, e)
  PROVE  MiningInv'
  <1>1. /\ e \in Nat /\ id \notin DOMAIN pairs /\ UNCHANGED <<now, miningInit, lpStake, total_lp, locked, lpBal, miningBal, emitted>>
        /\ now \in Nat
    BY DEF Mining!create_pair, Mining!Has, MiningConstants, MiningInv, MiningTyped
  <1>2. PICK r : r = [emissions_per_block |-> e, last_update_block |-> now, created |-> now]
    OBVIOUS
  <1>3. pairs' = [p \in DOMAIN pairs \cup {id} |-> IF p = id THEN r ELSE pairs[p]]
    BY <1>2 DEF Mining!create_pair, Mining!Put
  <1>4. DOMAIN pairs' = DOMAIN pairs \cup {id} /\ pairs'[id] = r /\ \A p \in DOMAIN pairs : pairs'[p] = pairs[p]
    BY <1>1, <1>3
  <1>5. \A p \in DOMAIN pairs' : PairOk(p)'
    <2>1. r \in PairRecord /\ r.created = now /\ r.last_update_block = now
      BY <1>1, <1>2 DEF PairRecord
    <2> QED
      BY <1>1, <1>4, <2>1 DEF MiningInv, MiningTyped, PairOk
  <1>6. MiningTyped'
    BY <1>1, <1>4, <1>5 DEF MiningInv, MiningTyped
  <1>7. MiningStarted' /\ LpThere'
    BY <1>1, <1>4 DEF MiningInv, MiningStarted, LpThere
  <1>8. ASSUME NEW p \in DOMAIN pairs PROVE \E c : Shares(p, c)'
    <2>1. SamePair(p)
      BY <1>1, <1>4, <1>8 DEF SamePair, StakesIn
    <2> QED
      BY <1>1, <2>1, UntouchedPair
  <1>9. \E c : Shares(id, c)'
    <2>1. StakesIn(id)' = {} /\ emitted'[id] = 0
      BY <1>1 DEF StakesIn, MiningInv, MiningStarted
    <2>2. PICK c : c = [k \in {} |-> 0]
      OBVIOUS
    <2>3. Total(c, {}) = 0
      BY TotalEmpty
    <2>4. r.emissions_per_block * (r.last_update_block - r.created) = 0
      <3>1. e * (now - now) = 0
        BY <1>1
      <3> QED
        BY <1>2, <3>1
    <2>5. Shares(id, c)'
      BY <1>4, <2>1, <2>3, <2>4 DEF Shares
    <2> QED
      BY <2>5
  <1>10. EmissionsOk'
    BY <1>4, <1>8, <1>9 DEF EmissionsOk
  <1> QED
    BY <1>6, <1>7, <1>10 DEF MiningInv

UpdateOf(id) ==
  /\ DOMAIN pairs' = DOMAIN pairs /\ pairs'[id] = [pairs[id] EXCEPT !.last_update_block = now]
  /\ \A p \in DOMAIN pairs \ {id} : pairs'[p] = pairs[p]

\* A step that changes the balance of one stake and updates its pair.
LEMMA BalanceKeeps ==
  ASSUME MiningInv, NEW u \in Users, NEW id \in DOMAIN pairs, NEW s, s \in LpRecord, NEW d \in Int,
         d = s.lp_balance - (IF <<u, id>> \in DOMAIN lpStake THEN lpStake[<<u, id>>].lp_balance ELSE 0),
         lpStake' = [k \in DOMAIN lpStake \cup {<<u, id>>} |-> IF k = <<u, id>> THEN s ELSE lpStake[k]],
         pairs' = [pairs EXCEPT ![id].last_update_block = now],
         lpBal' \in [Accounts -> Int], lpBal'[Self] = lpBal[Self] + d, total_lp' = total_lp + d,
         now' = now, miningInit', emitted' = emitted
  PROVE  MiningInv'
  <1>1. PICK x : x = <<u, id>>
    OBVIOUS
  <1>2. /\ DOMAIN lpStake' = DOMAIN lpStake \cup {x} /\ lpStake'[x] = s /\ x[2] = id
        /\ \A k \in DOMAIN lpStake \ {x} : lpStake'[k] = lpStake[k]
    BY <1>1
  <1>3. UpdateOf(id)
    BY DEF UpdateOf
  <1>4. now \in Nat /\ total_lp \in Nat /\ IsFiniteSet(DOMAIN lpStake) /\ \A k \in DOMAIN lpStake : lpStake[k] \in LpRecord
    BY DEF MiningInv, MiningTyped
  <1>5. total_lp' = FieldSum(lpStake', "lp_balance", DOMAIN lpStake')
    <2>1. PICK q, S : q = lpStake' /\ S = DOMAIN lpStake
      OBVIOUS
    <2>2. \A k \in S : lpStake[k]["lp_balance"] \in Int
      BY <1>4, <2>1 DEF LpRecord
    <2>3. Differ(lpStake, q, "lp_balance", S, x)
      BY <1>2, <1>4, <2>1, <2>2 DEF Differ
    <2>4. x \in DOMAIN q /\ q[x]["lp_balance"] \in Int /\ q[x]["lp_balance"] = s.lp_balance
      BY <1>2, <2>1 DEF LpRecord
    <2>5. FieldSum(q, "lp_balance", S \cup {x}) = FieldSum(lpStake, "lp_balance", S) + q[x]["lp_balance"] - (IF x \in S THEN lpStake[x]["lp_balance"] ELSE 0)
      BY <2>3, <2>4, SumChanged
    <2>6. total_lp = FieldSum(lpStake, "lp_balance", S)
      BY <2>1 DEF MiningInv, LpThere
    <2>7. PICK o : o = IF x \in S THEN lpStake[x]["lp_balance"] ELSE 0
      OBVIOUS
    <2>8. o \in Int /\ d = s.lp_balance - o /\ s.lp_balance \in Int
      BY <1>1, <2>1, <2>2, <2>4, <2>7
    <2>9. FieldSum(q, "lp_balance", S \cup {x}) = total_lp + d
      BY <1>4, <2>4, <2>5, <2>6, <2>7, <2>8
    <2> QED
      BY <1>2, <2>1, <2>9
  <1>6. total_lp' \in Nat
    <2>1. IsFiniteSet(DOMAIN lpStake') /\ \A k \in DOMAIN lpStake' : lpStake'[k]["lp_balance"] \in Nat
      BY <1>2, <1>4, FS_AddElement DEF LpRecord
    <2>2. PICK q : q = lpStake'
      OBVIOUS
    <2>3. FieldSum(q, "lp_balance", DOMAIN q) \in Nat
      BY <2>1, <2>2, FieldSumNatural
    <2> QED
      BY <1>5, <2>2, <2>3
  <1>7. MiningTyped'
    <2>1. IsFiniteSet(DOMAIN lpStake')
      BY <1>2, <1>4, FS_AddElement
    <2>2. \A k \in DOMAIN lpStake' : lpStake'[k] \in LpRecord
      BY <1>2, <1>4
    <2>3. ASSUME NEW p \in DOMAIN pairs PROVE PairOk(p)'
      <3>1. PairOk(p)
        BY DEF MiningInv, MiningTyped
      <3>2. CASE p = id
        <4>1. PICK r : r = pairs[id]
          OBVIOUS
        <4>2. r \in PairRecord /\ r.created <= r.last_update_block /\ r.last_update_block <= now
          BY <3>1, <3>2, <4>1 DEF PairOk
        <4>3. pairs'[id] = [emissions_per_block |-> r.emissions_per_block, last_update_block |-> now, created |-> r.created]
          BY <1>3, <4>1, <4>2 DEF UpdateOf, PairRecord
        <4>4. pairs'[id] \in PairRecord /\ pairs'[id].created <= now /\ pairs'[id].last_update_block = now
          BY <1>4, <4>2, <4>3 DEF PairRecord
        <4> QED
          BY <1>4, <3>2, <4>4 DEF PairOk
      <3>3. CASE p # id
        BY <1>3, <3>1, <3>3 DEF UpdateOf, PairOk
      <3> QED
        BY <3>2, <3>3
    <2>4. DOMAIN pairs' \subseteq PairIds /\ emitted' \in [PairIds -> Nat] /\ DOMAIN pairs' = DOMAIN pairs
      BY <1>3 DEF UpdateOf, MiningInv, MiningTyped
    <2> QED
      BY <1>4, <1>6, <2>1, <2>2, <2>3, <2>4 DEF MiningTyped
  <1>8. MiningStarted'
    BY <1>2, <1>3 DEF MiningInv, MiningStarted, UpdateOf
  <1>9. LpThere'
    BY <1>5 DEF MiningInv, LpThere
  <1>10. ASSUME NEW p \in DOMAIN pairs PROVE \E c : Shares(p, c)'
    <2>1. CASE p = id
      <3>1. p \in DOMAIN pairs' /\ emitted'[p] = emitted[p] /\ pairs'[p] = [pairs[p] EXCEPT !.last_update_block = now]
        BY <1>3, <1>10, <2>1 DEF UpdateOf
      <3> QED
        BY <1>7, <1>10, <3>1, UpdatedPair
    <2>2. CASE p # id
      <3>1. StakesIn(p)' = StakesIn(p) /\ \A k \in StakesIn(p) : k # x
        BY <1>2, <2>2 DEF StakesIn
      <3>2. SamePair(p)
        BY <1>2, <1>3, <1>10, <2>2, <3>1 DEF SamePair, UpdateOf, StakesIn
      <3> QED
        BY <3>2, UntouchedPair
    <2> QED
      BY <2>1, <2>2
  <1>11. EmissionsOk'
    BY <1>3, <1>10 DEF EmissionsOk, UpdateOf
  <1> QED
    BY <1>7, <1>8, <1>9, <1>11 DEF MiningInv

LEMMA ProvideKeeps ==
  ASSUME MiningConstants, MiningInv, NEW u \in Users, NEW id \in PairIds, NEW a \in LpAmounts,
         Mining!provide_liquidity(u, id, a)
  PROVE  MiningInv'
  <1>1. PICK x : x = <<u, id>>
    OBVIOUS
  <1>2. PICK o : o = IF x \in DOMAIN lpStake THEN lpStake[x] ELSE [lp_balance |-> 0, reward_debt |-> 0]
    OBVIOUS
  <1>3. PICK s : s = [o EXCEPT !.lp_balance = @ + a]
    OBVIOUS
  <1>4. /\ miningInit /\ a > 0 /\ a \in Int /\ id \in DOMAIN pairs /\ UNCHANGED <<now, miningInit, emitted>>
        /\ total_lp' = total_lp + a /\ pairs' = [pairs EXCEPT ![id].last_update_block = now]
        /\ lpBal' = Mining!Pay(lpBal, u, Self, a)
    BY DEF Mining!provide_liquidity, Mining!Has, Mining!update_pair_rewards, MiningConstants
  <1>5. lpStake' = [k \in DOMAIN lpStake \cup {<<u, id>>} |-> IF k = <<u, id>> THEN s ELSE lpStake[k]]
    BY <1>1, <1>2, <1>3 DEF Mining!provide_liquidity, Mining!Has, Mining!Put
  <1>6. o \in LpRecord
    BY <1>2 DEF MiningInv, MiningTyped, LpRecord
  <1>7. s = [lp_balance |-> o.lp_balance + a, reward_debt |-> o.reward_debt]
    BY <1>3, <1>6 DEF LpRecord
  <1>8. s \in LpRecord /\ s.lp_balance = o.lp_balance + a /\ o.lp_balance \in Int
    BY <1>4, <1>6, <1>7 DEF LpRecord
  <1>9. o.lp_balance = IF <<u, id>> \in DOMAIN lpStake THEN lpStake[<<u, id>>].lp_balance ELSE 0
    BY <1>1, <1>2
  <1>10. a = s.lp_balance - (IF <<u, id>> \in DOMAIN lpStake THEN lpStake[<<u, id>>].lp_balance ELSE 0)
    BY <1>4, <1>8, <1>9
  <1>11. lpBal' \in [Accounts -> Int] /\ lpBal'[Self] = lpBal[Self] + a
    <2>1. u # Self /\ u \in Accounts /\ Self \in Accounts /\ lpBal \in [Accounts -> Int]
      BY LedgerAssumption DEF Accounts, MiningInv, MiningTyped
    <2> QED
      BY <1>4, <2>1 DEF Mining!Pay
  <1> QED
    BY <1>4, <1>5, <1>8, <1>10, <1>11, BalanceKeeps

LEMMA NothingPending ==
  ASSUME MiningInv, NEW u, NEW id \in DOMAIN pairs, <<u, id>> \in DOMAIN lpStake
  PROVE  ~(Mining!calculate_pending_reward(Mining!update_pair_rewards(id), u, id) > 0)
  <1>1. PICK s, L, e : s = lpStake[<<u, id>>] /\ L = total_lp /\ e = pairs[id].emissions_per_block
    OBVIOUS
  <1>2. s \in LpRecord /\ L \in Nat /\ e \in Nat /\ now \in Nat /\ pairs[id] \in PairRecord
    BY <1>1 DEF MiningInv, MiningTyped, PairOk, PairRecord
  <1>3. PICK r : r = [pairs EXCEPT ![id].last_update_block = now][id]
    OBVIOUS
  <1>4. r.emissions_per_block = e /\ r.last_update_block = now
    <2>1. r = [pairs[id] EXCEPT !.last_update_block = now]
      BY <1>3
    <2> QED
      BY <1>1, <1>2, <2>1 DEF PairRecord
  <1>5. PICK b, d : b = s.lp_balance /\ d = s.reward_debt
    OBVIOUS
  <1>6. b \in Nat /\ d \in Nat
    BY <1>2, <1>5 DEF LpRecord
  <1>7. b * e * (now - now) = 0
    BY <1>2, <1>6
  <1>8. Mining!calculate_pending_reward(Mining!update_pair_rewards(id), u, id) =
          IF L = 0 \/ b = 0 THEN 0 ELSE ((b * e * (now - now)) \div L) - d
    BY <1>1, <1>3, <1>4, <1>5 DEF Mining!calculate_pending_reward, Mining!update_pair_rewards
  <1>9. L # 0 => 0 \div L = 0
    BY <1>2
  <1>10. L = 0 \/ b = 0 \/ (b * e * (now - now)) \div L - d = 0 - d
    BY <1>7, <1>9
  <1> QED
    BY <1>6, <1>8, <1>10

LEMMA WithdrawKeeps ==
  ASSUME MiningConstants, MiningInv, NEW u \in Users, NEW id \in PairIds, NEW a \in LpAmounts,
         Mining!withdraw_liquidity(u, id, a)
  PROVE  MiningInv'
  <1>1. PICK x : x = <<u, id>>
    OBVIOUS
  <1>2. PICK o : o = lpStake[x]
    OBVIOUS
  <1>3. PICK s : s = [o EXCEPT !.lp_balance = @ - a]
    OBVIOUS
  <1>4. /\ miningInit /\ a > 0 /\ a \in Int /\ x \in DOMAIN lpStake /\ o.lp_balance >= a /\ UNCHANGED <<now, miningInit>>
        /\ total_lp' = total_lp - a /\ pairs' = [pairs EXCEPT ![id].last_update_block = now]
        /\ lpBal' = Mining!Pay(lpBal, Self, u, a) /\ lpStake' = [lpStake EXCEPT ![x].lp_balance = @ - a]
    BY <1>1, <1>2 DEF Mining!withdraw_liquidity, Mining!Has, Mining!update_pair_rewards, MiningConstants
  <1>5. id \in DOMAIN pairs
    BY <1>1, <1>4 DEF MiningInv, MiningStarted
  <1>6. emitted' = emitted
    <2>1. PICK w : w = Mining!calculate_pending_reward(Mining!update_pair_rewards(id), u, id)
      OBVIOUS
    <2>2. ~(w > 0)
      BY <1>1, <1>4, <1>5, <2>1, NothingPending
    <2>3. emitted' = [emitted EXCEPT ![id] = @ + (IF w > 0 THEN w ELSE 0)]
      BY <2>1 DEF Mining!withdraw_liquidity
    <2>4. emitted \in [PairIds -> Nat]
      BY DEF MiningInv, MiningTyped
    <2>5. emitted' = [emitted EXCEPT ![id] = emitted[id] + 0]
      BY <2>2, <2>3
    <2>6. emitted[id] + 0 = emitted[id]
      BY <2>4
    <2> QED
      BY <2>4, <2>5, <2>6
  <1>7. lpStake' = [k \in DOMAIN lpStake \cup {<<u, id>>} |-> IF k = <<u, id>> THEN s ELSE lpStake[k]]
    <2>1. lpStake' = [k \in DOMAIN lpStake |-> IF k = x THEN s ELSE lpStake[k]]
      BY <1>2, <1>3, <1>4
    <2>2. DOMAIN lpStake \cup {<<u, id>>} = DOMAIN lpStake
      BY <1>1, <1>4
    <2> QED
      BY <1>1, <2>1, <2>2
  <1>8. o \in LpRecord
    BY <1>2, <1>4 DEF MiningInv, MiningTyped
  <1>9. s = [lp_balance |-> o.lp_balance - a, reward_debt |-> o.reward_debt]
    BY <1>3, <1>8 DEF LpRecord
  <1>10. s \in LpRecord /\ s.lp_balance = o.lp_balance - a /\ o.lp_balance \in Int
    BY <1>4, <1>8, <1>9 DEF LpRecord
  <1>11. PICK d : d = 0 - a
    OBVIOUS
  <1>12. d \in Int /\ d = s.lp_balance - (IF <<u, id>> \in DOMAIN lpStake THEN lpStake[<<u, id>>].lp_balance ELSE 0)
    <2>1. (IF <<u, id>> \in DOMAIN lpStake THEN lpStake[<<u, id>>].lp_balance ELSE 0) = o.lp_balance
      BY <1>1, <1>2, <1>4
    <2> QED
      BY <1>4, <1>10, <1>11, <2>1
  <1>13. lpBal' \in [Accounts -> Int] /\ lpBal'[Self] = lpBal[Self] + d
    <2>1. u # Self /\ u \in Accounts /\ Self \in Accounts /\ lpBal \in [Accounts -> Int]
      BY LedgerAssumption DEF Accounts, MiningInv, MiningTyped
    <2> QED
      BY <1>4, <1>11, <2>1 DEF Mining!Pay
  <1>14. total_lp' = total_lp + d
    BY <1>4, <1>11 DEF MiningInv, MiningTyped
  <1>15. now' = now /\ miningInit' /\ s \in LpRecord /\ d \in Int
    BY <1>4, <1>10, <1>12
  <1>16. pairs' = [pairs EXCEPT ![id].last_update_block = now]
    BY <1>4
  <1> QED
    BY <1>5, <1>6, <1>7, <1>12, <1>13, <1>14, <1>15, <1>16, BalanceKeeps

\* What a claim pays is within the stake's part of what the pair emitted since
\* its update.
LEMMA PendingWithin ==
  ASSUME MiningInv, NEW u, NEW id \in DOMAIN pairs, <<u, id>> \in DOMAIN lpStake, NEW w,
         w = Mining!calculate_pending_reward(pairs, u, id), w > 0, NEW B,
         B = pairs[id].emissions_per_block * (now - pairs[id].last_update_block)
  PROVE  /\ w \in Nat /\ lpStake[<<u, id>>].lp_balance > 0
         /\ (lpStake[<<u, id>>].reward_debt + w) * total_lp <= lpStake[<<u, id>>].lp_balance * B
  <1>1. PICK s, L, e, t : s = lpStake[<<u, id>>] /\ L = total_lp /\ e = pairs[id].emissions_per_block /\ t = pairs[id].last_update_block
    OBVIOUS
  <1>2. s \in LpRecord /\ L \in Nat /\ e \in Nat /\ now \in Nat /\ t \in Nat /\ t <= now
    BY <1>1 DEF MiningInv, MiningTyped, PairOk, PairRecord
  <1>3. PICK b, d : b = s.lp_balance /\ d = s.reward_debt
    OBVIOUS
  <1>4. b \in Nat /\ d \in Nat
    BY <1>2, <1>3 DEF LpRecord
  <1>5. w = IF L = 0 \/ b = 0 THEN 0 ELSE ((b * e * (now - t)) \div L) - d
    BY <1>1, <1>3 DEF Mining!calculate_pending_reward
  <1>6. L > 0 /\ b > 0 /\ w = ((b * e * (now - t)) \div L) - d
    <2>1. L # 0 /\ b # 0
      BY <1>5
    <2> QED
      BY <1>2, <1>4, <1>5, <2>1
  <1>7. PICK y : y = b * e * (now - t)
    OBVIOUS
  <1>8. y \in Int /\ y = b * B
    <2>1. PICK m : m = now - t
      OBVIOUS
    <2>2. m \in Int
      BY <1>2, <2>1
    <2>3. b * e * m = b * (e * m) /\ b * e * m \in Int
      BY <1>2, <1>4, <2>2
    <2> QED
      BY <1>1, <1>7, <2>1, <2>3
  <1>9. PICK z : z = y \div L
    OBVIOUS
  <1>10. z \in Int /\ z * L <= y
    BY <1>2, <1>6, <1>8, <1>9
  <1>11. w = z - d
    BY <1>6, <1>7, <1>9
  <1>12. w \in Nat /\ d + w = z
    BY <1>4, <1>10, <1>11
  <1>13. (d + w) * L <= b * B
    BY <1>8, <1>10, <1>12
  <1> QED
    BY <1>1, <1>3, <1>6, <1>12, <1>13

PaidTo(x, id, w) ==
  /\ lpStake' = [lpStake EXCEPT ![x].reward_debt = @ + w] /\ emitted' = [emitted EXCEPT ![id] = @ + w]
  /\ UNCHANGED <<now, miningInit, pairs, total_lp, lpBal>>

LEMMA PaidFrom ==
  ASSUME MiningInv, NEW u, NEW id \in DOMAIN pairs, <<u, id>> \in DOMAIN lpStake, NEW w,
         w = Mining!calculate_pending_reward(pairs, u, id), w > 0, PaidTo(<<u, id>>, id, w)
  PROVE  \E c : Shares(id, c)'
  <1>1. PICK x, S, L, B : x = <<u, id>> /\ S = StakesIn(id) /\ L = PairLp(id)
                          /\ B = pairs[id].emissions_per_block * (now - pairs[id].last_update_block)
    OBVIOUS
  <1>2. PICK b, d : b = lpStake[x].lp_balance /\ d = lpStake[x].reward_debt
    OBVIOUS
  <1>3. x \in S /\ lpStake[x] \in LpRecord /\ b \in Nat /\ d \in Nat /\ total_lp \in Nat
    BY <1>1, <1>2 DEF StakesIn, MiningInv, MiningTyped, LpRecord
  <1>4. IsFiniteSet(S) /\ S \subseteq DOMAIN lpStake /\ L \in Nat /\ L <= total_lp
    BY <1>1, PairLpBounds
  <1>5. w \in Nat /\ b > 0 /\ (d + w) * total_lp <= b * B
    BY <1>1, <1>2, PendingWithin
  <1>6. B \in Int
    <2>1. PICK e, t : e = pairs[id].emissions_per_block /\ t = pairs[id].last_update_block
      OBVIOUS
    <2>2. e \in Nat /\ t \in Nat /\ now \in Nat
      BY <2>1 DEF MiningInv, MiningTyped, PairOk, PairRecord
    <2>3. e * (now - t) \in Int
      BY <2>2
    <2> QED
      BY <1>1, <2>1, <2>3
  <1>7. /\ lpStake'[x] = [lp_balance |-> b, reward_debt |-> d + w]
        /\ DOMAIN lpStake' = DOMAIN lpStake /\ \A k \in DOMAIN lpStake \ {x} : lpStake'[k] = lpStake[k]
    <2>1. lpStake' = [lpStake EXCEPT ![x].reward_debt = @ + w]
      BY <1>1 DEF PaidTo
    <2>2. lpStake'[x] = [lpStake[x] EXCEPT !.reward_debt = @ + w]
      BY <1>3, <1>4, <2>1
    <2> QED
      BY <1>2, <1>3, <2>1, <2>2 DEF LpRecord
  <1>8. StakesIn(id)' = S /\ \A k \in S : lpStake'[k]["lp_balance"] = lpStake[k]["lp_balance"]
    BY <1>1, <1>2, <1>4, <1>7 DEF StakesIn
  <1>9. PairLp(id)' = L
    BY <1>1, <1>8, SamePairLp
  <1>10. L # 0
    <2>1. \A k \in S : lpStake[k]["lp_balance"] \in Nat
      BY <1>4 DEF MiningInv, MiningTyped, LpRecord
    <2>2. FieldSum(lpStake, "lp_balance", S) = lpStake[x]["lp_balance"] + FieldSum(lpStake, "lp_balance", S \ {x})
      BY <1>3, <1>4, <2>1, FieldSumWithout
    <2>3. FieldSum(lpStake, "lp_balance", S \ {x}) \in Nat
      <3>1. PICK R : R = S \ {x}
        OBVIOUS
      <3>2. IsFiniteSet(R) /\ R \subseteq DOMAIN lpStake /\ \A k \in R : lpStake[k]["lp_balance"] \in Nat
        BY <1>4, <2>1, <3>1, FS_Subset
      <3> QED
        BY <3>1, <3>2, FieldSumNatural
    <2> QED
      BY <1>1, <1>2, <1>3, <1>5, <2>2, <2>3 DEF PairLp
  <1>11. PICK c : Shares(id, c)
    BY DEF MiningInv, EmissionsOk
  <1>12. \A k \in S : c[k] \in Nat /\ c[k] <= lpStake[k].reward_debt /\ c[k] * L <= lpStake[k].lp_balance * B
    BY <1>1, <1>11 DEF Shares, Share
  <1>13. PICK c2 : c2 = [k \in S |-> IF k = x THEN c[x] + w ELSE c[k]]
    OBVIOUS
  <1>14. PICK v : v = c[x]
    OBVIOUS
  <1>15. v \in Nat /\ v <= d /\ c2[x] = v + w /\ \A k \in S \ {x} : c2[k] = c[k]
    BY <1>2, <1>3, <1>12, <1>13, <1>14
  <1>16. (v + w) * L <= b * B
    <2>1. PICK y, T : y = d + w /\ T = total_lp
      OBVIOUS
    <2>2. y \in Nat /\ T \in Nat /\ v + w \in Nat /\ v + w <= y /\ L <= T
      BY <1>3, <1>4, <1>5, <1>15, <2>1
    <2>3. PICK m : m = v + w
      OBVIOUS
    <2>4. m * L <= y * L /\ y * L <= y * T
      BY <1>4, <2>2, <2>3
    <2>5. m * L \in Int /\ y * L \in Int /\ y * T \in Int /\ b * B \in Int
      BY <1>3, <1>4, <1>6, <2>2, <2>3
    <2>6. y * T <= b * B
      BY <1>5, <2>1
    <2> QED
      BY <2>3, <2>4, <2>5, <2>6
  <1>17. UNCHANGED <<now, pairs>>
    BY DEF PaidTo
  <1>18. ASSUME NEW k \in S PROVE Share(id, c2, k)'
    <2>1. Share(id, c2, k)' <=> /\ c2[k] \in Nat /\ c2[k] <= lpStake'[k].reward_debt
                                /\ c2[k] * PairLp(id)' <= lpStake'[k].lp_balance * B
      BY <1>1, <1>17 DEF Share
    <2>2. CASE k = x
      <3>1. c2[k] = v + w /\ lpStake'[k].reward_debt = d + w /\ lpStake'[k].lp_balance = b
        BY <1>7, <1>15, <2>2
      <3>2. v + w \in Nat /\ v + w <= d + w
        BY <1>3, <1>5, <1>15
      <3> QED
        BY <1>9, <1>16, <2>1, <3>1, <3>2
    <2>3. CASE k # x
      <3>1. c2[k] = c[k] /\ lpStake'[k] = lpStake[k]
        BY <1>4, <1>7, <1>15, <2>3
      <3> QED
        BY <1>9, <1>12, <2>1, <3>1
    <2> QED
      BY <2>2, <2>3
  <1>19. Total(c2, S) = Total(c, S) + w /\ Total(c, S) \in Int
    <2>1. PICK R : R = S \ {x}
      OBVIOUS
    <2>2. IsFiniteSet(R) /\ \A k \in R : c2[k] = c[k]
      BY <1>4, <1>15, <2>1, FS_Subset
    <2>3. \A k \in S : c[k] \in Int /\ c2[k] \in Int
      BY <1>5, <1>12, <1>15
    <2>4. Total(c, S) = c[x] + Total(c, S \ {x}) /\ Total(c2, S) = c2[x] + Total(c2, S \ {x})
      BY <1>3, <1>4, <2>3, TotalWithout
    <2>5. Total(c2, R) = Total(c, R)
      BY <2>2, TotalAgrees
    <2>6. Total(c, R) \in Int
      BY <2>1, <2>2, <2>3, TotalType
    <2> QED
      BY <1>5, <1>14, <1>15, <2>1, <2>4, <2>5, <2>6
  <1>20. PICK h, g : h = pairs[id].emissions_per_block * (pairs[id].last_update_block - pairs[id].created) /\ g = emitted[id]
    OBVIOUS
  <1>21. h \in Int /\ g \in Nat /\ emitted'[id] = g + w
    <2>1. pairs[id] \in PairRecord /\ id \in PairIds /\ emitted \in [PairIds -> Nat]
      BY DEF MiningInv, MiningTyped, PairOk
    <2>2. PICK e, t, f : e = pairs[id].emissions_per_block /\ t = pairs[id].last_update_block /\ f = pairs[id].created
      OBVIOUS
    <2>3. e \in Nat /\ t \in Nat /\ f \in Nat
      BY <2>1, <2>2 DEF PairRecord
    <2>4. e * (t - f) \in Int
      BY <2>3
    <2> QED
      BY <1>20, <2>1, <2>2, <2>4 DEF PaidTo
  <1>22. g <= h + Total(c, S)
    BY <1>1, <1>11, <1>20 DEF Shares
  <1>23. g + w <= h + Total(c2, S)
    BY <1>5, <1>19, <1>21, <1>22
  <1>24. Shares(id, c2)'
    BY <1>8, <1>9, <1>10, <1>17, <1>18, <1>20, <1>21, <1>23 DEF Shares
  <1> QED
    BY <1>24

LEMMA PaidKeeps ==
  ASSUME MiningInv, NEW u \in Users, NEW id \in PairIds, <<u, id>> \in DOMAIN lpStake, NEW w,
         w = Mining!calculate_pending_reward(pairs, u, id), w > 0, PaidTo(<<u, id>>, id, w)
  PROVE  MiningInv'
  <1>1. PICK x : x = <<u, id>>
    OBVIOUS
  <1>2. id \in DOMAIN pairs /\ x[2] = id /\ x \in DOMAIN lpStake
    BY <1>1 DEF MiningInv, MiningStarted
  <1>3. w \in Nat
    BY <1>2, PendingWithin
  <1>4. /\ UNCHANGED <<now, miningInit, pairs, total_lp, lpBal>> /\ lpStake' = [lpStake EXCEPT ![x].reward_debt = @ + w]
        /\ emitted' = [emitted EXCEPT ![id] = @ + w]
    BY <1>1 DEF PaidTo
  <1>5. IsFiniteSet(DOMAIN lpStake) /\ \A k \in DOMAIN lpStake : lpStake[k] \in LpRecord
    BY DEF MiningInv, MiningTyped
  <1>6. /\ DOMAIN lpStake' = DOMAIN lpStake /\ \A k \in DOMAIN lpStake \ {x} : lpStake'[k] = lpStake[k]
        /\ lpStake'[x] \in LpRecord /\ lpStake'[x].lp_balance = lpStake[x].lp_balance
    <2>1. lpStake'[x] = [lpStake[x] EXCEPT !.reward_debt = @ + w]
      BY <1>2, <1>4
    <2>2. lpStake'[x] = [lp_balance |-> lpStake[x].lp_balance, reward_debt |-> lpStake[x].reward_debt + w]
      BY <1>2, <1>5, <2>1 DEF LpRecord
    <2>3. lpStake[x].lp_balance \in Nat /\ lpStake[x].reward_debt + w \in Nat
      BY <1>2, <1>3, <1>5 DEF LpRecord
    <2> QED
      BY <1>4, <2>2, <2>3 DEF LpRecord
  <1>7. emitted' \in [PairIds -> Nat] /\ \A p \in PairIds \ {id} : emitted'[p] = emitted[p]
    BY <1>3, <1>4 DEF MiningInv, MiningTyped
  <1>8. MiningTyped'
    <2>1. \A p \in DOMAIN pairs' : PairOk(p)'
      BY <1>4 DEF MiningInv, MiningTyped, PairOk
    <2>2. \A k \in DOMAIN lpStake' : lpStake'[k] \in LpRecord
      BY <1>5, <1>6
    <2> QED
      BY <1>4, <1>5, <1>6, <1>7, <2>1, <2>2 DEF MiningInv, MiningTyped
  <1>9. MiningStarted'
    BY <1>2, <1>4, <1>6, <1>7 DEF MiningInv, MiningStarted
  <1>10. LpThere'
    <2>1. PICK q, S : q = lpStake' /\ S = DOMAIN lpStake
      OBVIOUS
    <2>2. \A k \in S : lpStake[k]["lp_balance"] = q[k]["lp_balance"]
      BY <1>6, <2>1
    <2>3. FieldSum(lpStake, "lp_balance", S) = FieldSum(q, "lp_balance", S)
      BY <1>5, <1>6, <2>1, <2>2, FieldSumAgrees
    <2> QED
      BY <1>4, <1>6, <2>1, <2>3 DEF MiningInv, LpThere
  <1>11. ASSUME NEW p \in DOMAIN pairs PROVE \E c : Shares(p, c)'
    <2>1. CASE p = id
      BY <1>2, <2>1, PaidFrom
    <2>2. CASE p # id
      <3>1. StakesIn(p)' = StakesIn(p) /\ \A k \in StakesIn(p) : lpStake'[k] = lpStake[k]
        BY <1>2, <1>6, <2>2 DEF StakesIn
      <3>2. emitted'[p] = emitted[p]
        BY <1>7, <2>2 DEF MiningInv, MiningTyped
      <3>3. SamePair(p)
        BY <1>4, <3>1, <3>2 DEF SamePair
      <3> QED
        BY <1>4, <3>3, UntouchedPair
    <2> QED
      BY <2>1, <2>2
  <1>12. EmissionsOk'
    BY <1>4, <1>11 DEF EmissionsOk
  <1> QED
    BY <1>8, <1>9, <1>10, <1>12 DEF MiningInv

LEMMA MiningKeeps ==
  ASSUME MiningConstants, MiningInv, Mining!MiningNext
  PROVE  MiningInv'
  <1>1. ASSUME Mining!MiningTick PROVE MiningInv'
    BY <1>1, MiningQuiet DEF Mining!MiningTick, Mining!miningVars, Mining!CloseLedger
  <1>2. ASSUME Mining!initialize PROVE MiningInv'
    <2>1. DOMAIN lpStake = {}
      BY <1>2 DEF Mining!initialize, MiningInv, MiningStarted
    <2> QED
      BY <1>2, <2>1, MiningQuiet DEF Mining!initialize
  <1>3. ASSUME NEW u \in Users, NEW id \in PairIds, NEW w, w = Mining!calculate_pending_reward(pairs, u, id),
               miningInit, Mining!Has(lpStake, <<u, id>>), w > 0, Mining!claim_rewards_internal(u, id, w),
               UNCHANGED <<now, miningInit, pairs, total_lp, lpBal>>
        PROVE  MiningInv'
    <2>1. PaidTo(<<u, id>>, id, w) /\ <<u, id>> \in DOMAIN lpStake
      BY <1>3 DEF PaidTo, Mining!claim_rewards_internal, Mining!Has
    <2> QED
      BY <1>3, <2>1, PaidKeeps
  <1>4. ASSUME NEW u \in Users, NEW id \in PairIds, Mining!claim_rewards(u, id) PROVE MiningInv'
    BY <1>3, <1>4 DEF Mining!claim_rewards
  <1>5. ASSUME NEW u \in Users, NEW id \in PairIds, NEW n, Mining!lock_rewards_for_governance(u, id, n) PROVE MiningInv'
    BY <1>3, <1>5 DEF Mining!lock_rewards_for_governance
  <1> QED
    BY <1>1, <1>2, <1>4, <1>5, CreatePairKeeps, ProvideKeeps, WithdrawKeeps DEF Mining!MiningNext

LEMMA MiningHolds ==
  ASSUME MiningInv
  PROVE  Mining!LpBacked /\ Mining!EmissionsBounded
  BY LpBackedIs, EmittedWithin DEF MiningInv, Mining!EmissionsBounded

-----------------------------------------------------------------------------
\* Insurance.
PolicyRecord ==
  [policyholder : Users, coverage_amount : Nat, end_time : Nat, trigger_condition : {p.condition : p \in Policies},
   status : Cover!PolicyStatus, paid : Nat]
PoolRecord ==
  [total_liquidity : Nat, reserved_liquidity : Nat, total_premiums_collected : Nat,
   total_payouts : Nat, total_policies : Nat, active_policies : Nat]
Active == {i \in DOMAIN policy : policy[i].status = "Active"}

CoverTyped ==
  /\ now \in Nat /\ riskPool \in PoolRecord /\ poolBal \in [Accounts -> Int]
  /\ policy \in Seq(PolicyRecord)
CoverStarted == ~insuranceInit => policy = <<>> /\ riskPool = Cover!NewRiskPool /\ poolBal[Self] = 0
Reserved ==
  /\ riskPool.reserved_liquidity = FieldSum(policy, "coverage_amount", Active)
  /\ riskPool.active_policies = Cardinality(Active)
  /\ riskPool.reserved_liquidity <= riskPool.total_liquidity
  /\ riskPool.total_liquidity = poolBal[Self]
PaidOnClaim(i) == policy[i].paid = IF policy[i].status = "Claimed" THEN policy[i].coverage_amount ELSE 0
PaidTotal ==
  /\ \A i \in DOMAIN policy : PaidOnClaim(i)
  /\ riskPool.total_payouts = FieldSum(policy, "paid", DOMAIN policy)
CoverInv == CoverTyped /\ CoverStarted /\ Reserved /\ PaidTotal

LEMMA CoverHolds ==
  ASSUME Reserved, PaidTotal
  PROVE  Cover!CoverageReserved /\ Cover!PolicyPaidOnce
  <1>1. Cover!ActivePolicies = Active
    BY DEF Cover!ActivePolicies, Active
  <1>2. Cover!Cardinality(Active) = Cardinality(Active)
    BY DEF Cover!Cardinality, Cardinality
  <1>3. Cover!CoverageReserved
    <2>1. Cover!SumOver(Active, LAMBDA i : policy[i].coverage_amount) = FieldSum(policy, "coverage_amount", Active)
      BY DEF Cover!SumOver, FieldSum, Cover!MapThenSumSet, Cover!MapThenFoldSet, MapThenSumSet, MapThenFoldSet
    <2> QED
      BY <1>1, <1>2, <2>1 DEF Cover!CoverageReserved, Reserved
  <1>4. Cover!PolicyPaidOnce
    <2>1. Cover!SumOver(DOMAIN policy, LAMBDA i : policy[i].paid) = FieldSum(policy, "paid", DOMAIN policy)
      BY DEF Cover!SumOver, FieldSum, Cover!MapThenSumSet, Cover!MapThenFoldSet, MapThenSumSet, MapThenFoldSet
    <2> QED
      BY <2>1 DEF Cover!PolicyPaidOnce, PaidTotal, PaidOnClaim
  <1> QED
    BY <1>3, <1>4

LEMMA CoverBegins ==
  ASSUME CoverConstants, Cover!InsuranceInit
  PROVE  Reserved /\ PaidTotal /\ (now \in Nat => CoverInv)
  <1> USE DEF CoverConstants, Cover!InsuranceInit, Cover!NewRiskPool, Cover!Accounts, Accounts
  <1>1. DOMAIN policy = {} /\ Active = {} /\ policy \in Seq(PolicyRecord)
    BY DEF Active
  <1>2. now \in Nat => CoverTyped
    BY <1>1 DEF CoverTyped, PoolRecord
  <1>3. CoverStarted
    BY LedgerAssumption DEF CoverStarted
  <1>4. Reserved
    BY <1>1, FieldSumEmpty, FS_EmptySet DEF Reserved
  <1>5. PaidTotal
    BY <1>1, FieldSumEmpty DEF PaidTotal
  <1> QED
    BY <1>2, <1>3, <1>4, <1>5 DEF CoverInv

LEMMA CoverFacts ==
  ASSUME CoverInv
  PROVE  /\ DOMAIN policy = 1 .. Len(policy) /\ Len(policy) \in Nat /\ IsFiniteSet(DOMAIN policy)
         /\ IsFiniteSet(Active) /\ Active \subseteq DOMAIN policy
         /\ \A i \in DOMAIN policy : policy[i] \in PolicyRecord /\ policy[i]["coverage_amount"] \in Nat /\ policy[i]["paid"] \in Nat
  <1>1. DOMAIN policy = 1 .. Len(policy) /\ Len(policy) \in Nat
    BY DEF CoverInv, CoverTyped
  <1>2. IsFiniteSet(DOMAIN policy)
    BY <1>1, FS_Interval
  <1>3. \A i \in DOMAIN policy : policy[i] \in PolicyRecord
    BY <1>1 DEF CoverInv, CoverTyped
  <1>4. IsFiniteSet(Active) /\ Active \subseteq DOMAIN policy
    BY <1>2, FS_Subset DEF Active
  <1> QED
    BY <1>1, <1>2, <1>3, <1>4 DEF PolicyRecord

\* Liquidity that comes and goes.
LEMMA LiquidityKeeps ==
  ASSUME CoverInv, NEW d \in Int, UNCHANGED <<now, insuranceInit, policy>>, insuranceInit,
         riskPool' = [riskPool EXCEPT !.total_liquidity = @ + d],
         poolBal' \in [Accounts -> Int], poolBal'[Self] = poolBal[Self] + d,
         riskPool.reserved_liquidity <= riskPool.total_liquidity + d
  PROVE  CoverInv'
  <1>1. PICK r : r = riskPool
    OBVIOUS
  <1>2. r \in PoolRecord
    BY <1>1 DEF CoverInv, CoverTyped
  <1>3. riskPool' = [total_liquidity |-> r.total_liquidity + d, reserved_liquidity |-> r.reserved_liquidity,
                     total_premiums_collected |-> r.total_premiums_collected, total_payouts |-> r.total_payouts,
                     total_policies |-> r.total_policies, active_policies |-> r.active_policies]
    BY <1>1, <1>2 DEF PoolRecord
  <1>4. riskPool' \in PoolRecord
    <2>1. r.total_liquidity + d \in Nat
      BY <1>1, <1>2 DEF PoolRecord
    <2>2. r.reserved_liquidity \in Nat /\ r.total_premiums_collected \in Nat /\ r.total_payouts \in Nat
          /\ r.total_policies \in Nat /\ r.active_policies \in Nat
      BY <1>2 DEF PoolRecord
    <2>3. PICK s : s = riskPool'
      OBVIOUS
    <2>4. s \in PoolRecord
      BY <1>3, <2>1, <2>2, <2>3 DEF PoolRecord
    <2> QED
      BY <2>3, <2>4
  <1>5. CoverTyped'
    BY <1>4 DEF CoverInv, CoverTyped
  <1>6. CoverStarted'
    BY DEF CoverInv, CoverStarted
  <1>7. Reserved'
    <2>1. Active' = Active
      BY DEF Active
    <2> QED
      BY <1>1, <1>3, <2>1 DEF CoverInv, Reserved
  <1>8. PaidTotal'
    BY <1>1, <1>3 DEF CoverInv, PaidTotal, PaidOnClaim
  <1> QED
    BY <1>5, <1>6, <1>7, <1>8 DEF CoverInv

LEMMA DepositKeeps ==
  ASSUME CoverConstants, CoverInv, NEW u \in Users, NEW a \in LiquidityAmounts, Cover!deposit_liquidity(u, a)
  PROVE  CoverInv'
  <1>1. /\ insuranceInit /\ a > 0 /\ a \in Int /\ UNCHANGED <<now, insuranceInit, policy>>
        /\ poolBal' = Cover!Pay(poolBal, u, Self, a) /\ riskPool' = [riskPool EXCEPT !.total_liquidity = @ + a]
    BY DEF Cover!deposit_liquidity, CoverConstants
  <1>2. u # Self /\ u \in Accounts /\ Self \in Accounts /\ poolBal \in [Accounts -> Int]
    BY LedgerAssumption DEF Accounts, CoverInv, CoverTyped
  <1>3. poolBal' \in [Accounts -> Int] /\ poolBal'[Self] = poolBal[Self] + a
    BY <1>1, <1>2 DEF Cover!Pay
  <1>4. riskPool.reserved_liquidity <= riskPool.total_liquidity + a
    BY <1>1 DEF CoverInv, CoverTyped, Reserved, PoolRecord
  <1> QED
    BY <1>1, <1>3, <1>4, LiquidityKeeps

LEMMA CoverWithdrawKeeps ==
  ASSUME CoverConstants, CoverInv, NEW u \in Users, NEW a \in LiquidityAmounts, Cover!withdraw_liquidity(u, a)
  PROVE  CoverInv'
  <1>1. /\ insuranceInit /\ a > 0 /\ a \in Int /\ UNCHANGED <<now, insuranceInit, policy>> /\ Cover!available_liquidity >= a
        /\ poolBal' = Cover!Pay(poolBal, Self, u, a) /\ riskPool' = [riskPool EXCEPT !.total_liquidity = @ - a]
    BY DEF Cover!withdraw_liquidity, CoverConstants
  <1>2. u # Self /\ u \in Accounts /\ Self \in Accounts /\ poolBal \in [Accounts -> Int]
    BY LedgerAssumption DEF Accounts, CoverInv, CoverTyped
  <1>3. riskPool \in PoolRecord /\ riskPool.total_liquidity \in Nat /\ riskPool.reserved_liquidity \in Nat
    BY DEF CoverInv, CoverTyped, PoolRecord
  <1>4. PICK d : d = 0 - a
    OBVIOUS
  <1>5. d \in Int /\ riskPool.total_liquidity - a = riskPool.total_liquidity + d
    BY <1>1, <1>3, <1>4
  <1>6. poolBal' \in [Accounts -> Int] /\ poolBal'[Self] = poolBal[Self] + d
    BY <1>1, <1>2, <1>4 DEF Cover!Pay
  <1>7. riskPool.reserved_liquidity <= riskPool.total_liquidity + d
    BY <1>1, <1>3, <1>4 DEF Cover!available_liquidity, Cover!saturating_sub, CoverInv, Reserved
  <1>8. riskPool' = [riskPool EXCEPT !.total_liquidity = @ + d]
    BY <1>1, <1>5
  <1> QED
    BY <1>1, <1>5, <1>6, <1>7, <1>8, LiquidityKeeps

LEMMA CreatePolicyKeeps ==
  ASSUME CoverConstants, CoverInv, NEW u \in Users, NEW p \in Policies, Cover!create_policy(u, p)
  PROVE  CoverInv'
  <1>1. PICK c, f, n, x : c = p.coverage /\ f = p.premium /\ n = Len(policy)
          /\ x = [policyholder |-> u, coverage_amount |-> c, end_time |-> now + p.duration,
                  trigger_condition |-> p.condition, status |-> "Active", paid |-> 0]
    OBVIOUS
  <1>2. /\ insuranceInit /\ c > 0 /\ f > 0 /\ c \in Int /\ f \in Int /\ p.duration \in Nat
        /\ UNCHANGED <<now, insuranceInit>>
        /\ Cover!available_liquidity >= c /\ poolBal' = Cover!Pay(poolBal, u, Self, f)
        /\ policy' = Append(policy, x)
    BY <1>1 DEF Cover!create_policy, CoverConstants
  <1>3. riskPool' = [riskPool EXCEPT !.total_liquidity = @ + f, !.reserved_liquidity = @ + c,
                                     !.total_premiums_collected = @ + f, !.total_policies = @ + 1, !.active_policies = @ + 1]
    BY <1>1 DEF Cover!create_policy
  <1>4. PICK r : r = riskPool
    OBVIOUS
  <1>5. r \in PoolRecord /\ now \in Nat
    BY <1>4 DEF CoverInv, CoverTyped
  <1>6. riskPool' = [total_liquidity |-> r.total_liquidity + f, reserved_liquidity |-> r.reserved_liquidity + c,
                     total_premiums_collected |-> r.total_premiums_collected + f, total_payouts |-> r.total_payouts,
                     total_policies |-> r.total_policies + 1, active_policies |-> r.active_policies + 1]
    BY <1>3, <1>4, <1>5 DEF PoolRecord
  <1>7. riskPool' \in PoolRecord
    <2>0. /\ r.total_liquidity \in Nat /\ r.reserved_liquidity \in Nat /\ r.total_premiums_collected \in Nat
          /\ r.total_payouts \in Nat /\ r.total_policies \in Nat /\ r.active_policies \in Nat
      BY <1>5 DEF PoolRecord
    <2>1. r.total_liquidity + f \in Nat /\ r.reserved_liquidity + c \in Nat /\ r.total_premiums_collected + f \in Nat
          /\ r.total_payouts \in Nat /\ r.total_policies + 1 \in Nat /\ r.active_policies + 1 \in Nat
      <3>1. c \in Nat /\ f \in Nat
        BY <1>2
      <3>2. \A m, k \in Nat : m + k \in Nat /\ m + 1 \in Nat
        OBVIOUS
      <3> QED
        BY <2>0, <3>1, <3>2
    <2>2. PICK s : s = riskPool'
      OBVIOUS
    <2>3. s \in PoolRecord
      BY <1>6, <2>1, <2>2 DEF PoolRecord
    <2> QED
      BY <2>2, <2>3
  <1>8. x \in PolicyRecord /\ x["coverage_amount"] = c /\ x["paid"] = 0 /\ x.status = "Active"
    BY <1>1, <1>2, <1>5 DEF PolicyRecord, Cover!PolicyStatus
  <1>9. /\ policy' \in Seq(PolicyRecord) /\ DOMAIN policy' = DOMAIN policy \cup {n + 1} /\ n + 1 \notin DOMAIN policy
        /\ policy'[n + 1] = x /\ \A i \in DOMAIN policy : policy'[i] = policy[i]
    <2>1. policy \in Seq(PolicyRecord) /\ DOMAIN policy = 1 .. n /\ n \in Nat
      BY <1>1, CoverFacts DEF CoverInv, CoverTyped
    <2> QED
      BY <1>1, <1>2, <1>8, <2>1
  <1>10. poolBal' \in [Accounts -> Int] /\ poolBal'[Self] = poolBal[Self] + f
    <2>1. u # Self /\ u \in Accounts /\ Self \in Accounts /\ poolBal \in [Accounts -> Int]
      BY LedgerAssumption DEF Accounts, CoverInv, CoverTyped
    <2> QED
      BY <1>2, <2>1 DEF Cover!Pay
  <1>11. CoverTyped'
    BY <1>2, <1>5, <1>7, <1>9, <1>10 DEF CoverTyped
  <1>12. CoverStarted'
    BY <1>2 DEF CoverStarted
  <1>13. PICK q, A, k : q = policy' /\ A = Active /\ k = n + 1
    OBVIOUS
  <1>14. IsFiniteSet(A) /\ A \subseteq DOMAIN policy /\ k \notin A /\ Active' = A \cup {k}
    BY <1>8, <1>9, <1>13, CoverFacts DEF Active
  <1>15. Reserved'
    <2>1. \A i \in A : policy[i]["coverage_amount"] \in Int
      BY <1>14, CoverFacts
    <2>2. Differ(policy, q, "coverage_amount", A, k)
      BY <1>9, <1>13, <1>14, <2>1 DEF Differ
    <2>3. k \in DOMAIN q /\ q[k]["coverage_amount"] = c
      BY <1>8, <1>9, <1>13
    <2>4. FieldSum(q, "coverage_amount", A \cup {k}) = FieldSum(policy, "coverage_amount", A) + c - (IF k \in A THEN policy[k]["coverage_amount"] ELSE 0)
      BY <1>2, <2>2, <2>3, SumChanged
    <2>5. r.reserved_liquidity = FieldSum(policy, "coverage_amount", A) /\ r.active_policies = Cardinality(A)
          /\ r.reserved_liquidity <= r.total_liquidity /\ r.total_liquidity = poolBal[Self]
      BY <1>4, <1>13 DEF CoverInv, Reserved
    <2>6. r.reserved_liquidity \in Nat /\ r.total_liquidity \in Nat
      BY <1>5 DEF PoolRecord
    <2>7. FieldSum(q, "coverage_amount", A \cup {k}) = r.reserved_liquidity + c
      BY <1>2, <1>14, <2>4, <2>5, <2>6
    <2>8. Cardinality(A \cup {k}) = r.active_policies + 1
      BY <1>14, <2>5, FS_AddElement
    <2>9. r.reserved_liquidity + c <= r.total_liquidity + f
      BY <1>2, <1>4, <2>5, <2>6 DEF Cover!available_liquidity, Cover!saturating_sub
    <2> QED
      BY <1>6, <1>10, <1>13, <1>14, <2>5, <2>7, <2>8, <2>9 DEF Reserved
  <1>16. PaidTotal'
    <2>1. \A i \in DOMAIN policy' : PaidOnClaim(i)'
      BY <1>8, <1>9 DEF CoverInv, PaidTotal, PaidOnClaim
    <2>2. \A i \in DOMAIN policy : policy[i]["paid"] \in Int
      BY CoverFacts
    <2>3. Differ(policy, q, "paid", DOMAIN policy, k)
      BY <1>9, <1>13, <2>2, CoverFacts DEF Differ
    <2>4. k \in DOMAIN q /\ q[k]["paid"] = 0
      BY <1>8, <1>9, <1>13
    <2>5. FieldSum(q, "paid", DOMAIN policy \cup {k}) = FieldSum(policy, "paid", DOMAIN policy) + 0 - (IF k \in DOMAIN policy THEN policy[k]["paid"] ELSE 0)
      BY <2>3, <2>4, SumChanged
    <2>6. r.total_payouts = FieldSum(policy, "paid", DOMAIN policy) /\ r.total_payouts \in Nat
      BY <1>4, <1>5 DEF CoverInv, PaidTotal, PoolRecord
    <2>7. FieldSum(q, "paid", DOMAIN policy \cup {k}) = r.total_payouts
      BY <1>9, <1>13, <2>5, <2>6
    <2> QED
      BY <1>6, <1>9, <1>13, <2>1, <2>7 DEF PaidTotal
  <1> QED
    BY <1>11, <1>12, <1>15, <1>16 DEF CoverInv

LEMMA ActiveBounds ==
  ASSUME CoverInv, NEW i \in Active
  PROVE  /\ policy[i].coverage_amount \in Nat /\ policy[i].coverage_amount <= riskPool.reserved_liquidity
         /\ riskPool.active_policies >= 1
         /\ FieldSum(policy, "coverage_amount", Active \ {i}) = riskPool.reserved_liquidity - policy[i].coverage_amount
  <1>1. PICK A, R : A = Active /\ R = A \ {i}
    OBVIOUS
  <1>2. IsFiniteSet(A) /\ A \subseteq DOMAIN policy /\ IsFiniteSet(R) /\ R \subseteq DOMAIN policy
    BY <1>1, CoverFacts, FS_Subset
  <1>3. \A j \in A : policy[j]["coverage_amount"] \in Nat
    BY <1>2, CoverFacts
  <1>4. FieldSum(policy, "coverage_amount", A) = policy[i]["coverage_amount"] + FieldSum(policy, "coverage_amount", A \ {i})
    BY <1>1, <1>2, <1>3, FieldSumWithout
  <1>5. FieldSum(policy, "coverage_amount", R) \in Nat
    BY <1>1, <1>2, <1>3, FieldSumNatural
  <1>6. riskPool.reserved_liquidity = FieldSum(policy, "coverage_amount", A) /\ riskPool.active_policies = Cardinality(A)
    BY <1>1 DEF CoverInv, Reserved
  <1>7. Cardinality(A) >= 1
    BY <1>1, <1>2, FS_EmptySet, FS_CardinalityType
  <1> QED
    BY <1>1, <1>3, <1>4, <1>5, <1>6, <1>7

\* A policy ends with status st, paid z.
PoolAfter(c, z) ==
  riskPool' = [total_liquidity |-> riskPool.total_liquidity - z, reserved_liquidity |-> riskPool.reserved_liquidity - c,
               total_premiums_collected |-> riskPool.total_premiums_collected,
               total_payouts |-> riskPool.total_payouts + z, total_policies |-> riskPool.total_policies,
               active_policies |-> riskPool.active_policies - 1]

LEMMA EndKeeps ==
  ASSUME CoverInv, NEW i \in Active, NEW st \in {"Cancelled", "Expired", "Claimed"}, NEW z, NEW c,
         c = policy[i].coverage_amount, z = IF st = "Claimed" THEN c ELSE 0,
         policy' = [policy EXCEPT ![i] = [policyholder |-> policy[i].policyholder, coverage_amount |-> c, end_time |-> policy[i].end_time,
                                          trigger_condition |-> policy[i].trigger_condition, status |-> st, paid |-> z]],
         PoolAfter(c, z), poolBal' \in [Accounts -> Int], poolBal'[Self] = poolBal[Self] - z, UNCHANGED <<now, insuranceInit>>
  PROVE  CoverInv'
  <1>1. PICK x : x = [policyholder |-> policy[i].policyholder, coverage_amount |-> c, end_time |-> policy[i].end_time,
                      trigger_condition |-> policy[i].trigger_condition, status |-> st, paid |-> z]
    OBVIOUS
  <1>2. i \in DOMAIN policy /\ policy[i] \in PolicyRecord /\ policy[i].status = "Active" /\ c \in Nat /\ z \in Nat /\ z <= c
    BY CoverFacts, ActiveBounds DEF Active
  <1>3. x \in PolicyRecord /\ x["coverage_amount"] = c /\ x["paid"] = z /\ x.status = st
    BY <1>1, <1>2 DEF PolicyRecord, Cover!PolicyStatus
  <1>4. /\ DOMAIN policy' = DOMAIN policy /\ policy'[i] = x /\ \A j \in DOMAIN policy \ {i} : policy'[j] = policy[j]
        /\ policy' \in Seq(PolicyRecord)
    <2>1. policy \in Seq(PolicyRecord) /\ policy' = [policy EXCEPT ![i] = x]
      BY <1>1 DEF CoverInv, CoverTyped
    <2> QED
      BY <1>2, <1>3, <2>1
  <1>5. PICK r : r = riskPool
    OBVIOUS
  <1>6. r \in PoolRecord
    BY <1>5 DEF CoverInv, CoverTyped
  <1>7. /\ r.total_liquidity \in Nat /\ r.reserved_liquidity \in Nat /\ r.total_premiums_collected \in Nat /\ r.total_payouts \in Nat
        /\ r.total_policies \in Nat /\ r.active_policies \in Nat /\ c <= r.reserved_liquidity /\ r.active_policies >= 1
        /\ r.reserved_liquidity <= r.total_liquidity
    BY <1>5, <1>6, ActiveBounds DEF PoolRecord, CoverInv, Reserved
  <1>8. PICK s : s = riskPool'
    OBVIOUS
  <1>9. s = [total_liquidity |-> r.total_liquidity - z, reserved_liquidity |-> r.reserved_liquidity - c,
             total_premiums_collected |-> r.total_premiums_collected, total_payouts |-> r.total_payouts + z,
             total_policies |-> r.total_policies, active_policies |-> r.active_policies - 1]
    BY <1>5, <1>8 DEF PoolAfter
  <1>10. s \in PoolRecord
    <2>1. r.total_liquidity - z \in Nat /\ r.reserved_liquidity - c \in Nat /\ r.total_payouts + z \in Nat /\ r.active_policies - 1 \in Nat
      BY <1>2, <1>7
    <2> QED
      BY <1>7, <1>9, <2>1 DEF PoolRecord
  <1>11. CoverTyped'
    BY <1>4, <1>8, <1>10 DEF CoverInv, CoverTyped
  <1>12. CoverStarted'
    BY <1>2 DEF CoverInv, CoverStarted
  <1>13. PICK q, A : q = policy' /\ A = Active
    OBVIOUS
  <1>14. IsFiniteSet(A) /\ A \subseteq DOMAIN policy /\ i \in A /\ Active' = A \ {i}
    BY <1>3, <1>4, <1>13, CoverFacts DEF Active
  <1>15. Reserved'
    <2>1. \A j \in A : policy[j]["coverage_amount"] \in Int
      BY <1>14, CoverFacts
    <2>2. Differ(policy, q, "coverage_amount", A, i)
      BY <1>4, <1>13, <1>14, <2>1 DEF Differ
    <2>3. FieldSum(q, "coverage_amount", A \ {i}) = FieldSum(policy, "coverage_amount", A) - policy[i]["coverage_amount"]
      BY <1>14, <2>2, SumRemoved
    <2>4. r.reserved_liquidity = FieldSum(policy, "coverage_amount", A) /\ r.active_policies = Cardinality(A)
          /\ r.total_liquidity = poolBal[Self]
      BY <1>5, <1>13 DEF CoverInv, Reserved
    <2>5. Cardinality(A \ {i}) = r.active_policies - 1
      BY <1>14, <2>4, FS_RemoveElement
    <2>6. r.reserved_liquidity - c <= r.total_liquidity - z
      BY <1>2, <1>7
    <2> QED
      BY <1>8, <1>9, <1>13, <1>14, <2>3, <2>4, <2>5, <2>6 DEF Reserved
  <1>16. PaidTotal'
    <2>1. \A j \in DOMAIN policy' : PaidOnClaim(j)'
      BY <1>3, <1>4 DEF CoverInv, PaidTotal, PaidOnClaim
    <2>2. \A j \in DOMAIN policy : policy[j]["paid"] \in Int
      BY CoverFacts
    <2>3. Differ(policy, q, "paid", DOMAIN policy, i)
      BY <1>4, <1>13, <2>2, CoverFacts DEF Differ
    <2>4. i \in DOMAIN q /\ q[i]["paid"] = z /\ policy[i]["paid"] = 0
      BY <1>2, <1>3, <1>4, <1>13 DEF CoverInv, PaidTotal, PaidOnClaim
    <2>5. FieldSum(q, "paid", DOMAIN policy \cup {i}) = FieldSum(policy, "paid", DOMAIN policy) + z - (IF i \in DOMAIN policy THEN policy[i]["paid"] ELSE 0)
      BY <1>2, <2>3, <2>4, SumChanged
    <2>6. r.total_payouts = FieldSum(policy, "paid", DOMAIN policy)
      BY <1>5 DEF CoverInv, PaidTotal
    <2>7. DOMAIN policy \cup {i} = DOMAIN policy
      BY <1>2
    <2>8. FieldSum(q, "paid", DOMAIN policy) = r.total_payouts + z
      BY <1>2, <1>7, <2>4, <2>5, <2>6, <2>7
    <2> QED
      BY <1>4, <1>8, <1>9, <1>13, <2>1, <2>8 DEF PaidTotal
  <1> QED
    BY <1>11, <1>12, <1>15, <1>16 DEF CoverInv

\* Ending a policy without a payout.
LEMMA ReleaseKeeps ==
  ASSUME CoverInv, NEW i \in Active, NEW st \in {"Cancelled", "Expired"}, riskPool' = Cover!Released(i),
         policy' = [policy EXCEPT ![i].status = st], UNCHANGED <<now, insuranceInit, poolBal>>
  PROVE  CoverInv'
  <1>1. PICK c, r, y : c = policy[i].coverage_amount /\ r = riskPool /\ y = policy[i]
    OBVIOUS
  <1>2. r \in PoolRecord /\ y \in PolicyRecord /\ i \in DOMAIN policy
    BY <1>1, CoverFacts DEF CoverInv, CoverTyped, Active
  <1>3. c \in Nat /\ c <= r.reserved_liquidity /\ r.active_policies >= 1 /\ y.paid = 0 /\ y.status = "Active"
    BY <1>1, <1>2, ActiveBounds DEF Active, CoverInv, PaidTotal, PaidOnClaim
  <1>4. r.reserved_liquidity \in Nat /\ r.active_policies \in Nat /\ r.total_payouts \in Nat /\ r.total_liquidity \in Nat
    BY <1>2 DEF PoolRecord
  <1>5. riskPool' = [r EXCEPT !.reserved_liquidity = r.reserved_liquidity - c, !.active_policies = r.active_policies - 1]
    BY <1>1, <1>3, <1>4 DEF Cover!Released, Cover!saturating_sub
  <1>6. PoolAfter(c, 0)
    <2>1. riskPool' = [total_liquidity |-> r.total_liquidity, reserved_liquidity |-> r.reserved_liquidity - c,
                       total_premiums_collected |-> r.total_premiums_collected,
                       total_payouts |-> r.total_payouts, total_policies |-> r.total_policies,
                       active_policies |-> r.active_policies - 1]
      BY <1>2, <1>5 DEF PoolRecord
    <2>2. r.total_liquidity - 0 = r.total_liquidity /\ r.total_payouts + 0 = r.total_payouts
      BY <1>4
    <2> QED
      BY <1>1, <2>1, <2>2 DEF PoolAfter
  <1>7. policy' = [policy EXCEPT ![i] = [policyholder |-> y.policyholder, coverage_amount |-> c, end_time |-> y.end_time,
                                          trigger_condition |-> y.trigger_condition, status |-> st, paid |-> 0]]
    <2>1. policy' = [policy EXCEPT ![i] = [y EXCEPT !.status = st]]
      BY <1>1
    <2>2. [y EXCEPT !.status = st] = [policyholder |-> y.policyholder, coverage_amount |-> c, end_time |-> y.end_time,
                                      trigger_condition |-> y.trigger_condition, status |-> st, paid |-> 0]
      BY <1>1, <1>2, <1>3 DEF PolicyRecord
    <2> QED
      BY <2>1, <2>2
  <1>8. poolBal' \in [Accounts -> Int] /\ poolBal'[Self] = poolBal[Self] - 0
    BY DEF Accounts, CoverInv, CoverTyped
  <1>9. 0 = IF st = "Claimed" THEN c ELSE 0
    OBVIOUS
  <1> QED
    BY <1>1, <1>6, <1>7, <1>8, <1>9, EndKeeps

LEMMA TriggerKeeps ==
  ASSUME CoverInv, NEW i, NEW v, Cover!check_trigger(i, v)
  PROVE  CoverInv'
  <1>1. PICK c, r, y : c = policy[i].coverage_amount /\ r = riskPool /\ y = policy[i]
    OBVIOUS
  <1>2. /\ i \in Active /\ UNCHANGED <<now, insuranceInit>> /\ poolBal' = Cover!Pay(poolBal, Self, y.policyholder, c)
        /\ riskPool' = [Cover!Released(i) EXCEPT !.total_liquidity = Cover!saturating_sub(@, c), !.total_payouts = @ + c]
        /\ policy' = [policy EXCEPT ![i].status = "Claimed", ![i].paid = @ + c]
    BY <1>1 DEF Cover!check_trigger, Active
  <1>3. r \in PoolRecord /\ y \in PolicyRecord /\ i \in DOMAIN policy
    BY <1>1, <1>2, CoverFacts DEF CoverInv, CoverTyped, Active
  <1>4. c \in Nat /\ c <= r.reserved_liquidity /\ r.active_policies >= 1 /\ y.paid = 0 /\ y.status = "Active" /\ y.policyholder \in Users
    BY <1>1, <1>2, <1>3, ActiveBounds DEF Active, CoverInv, PaidTotal, PaidOnClaim, PolicyRecord
  <1>5. /\ r.reserved_liquidity \in Nat /\ r.active_policies \in Nat /\ r.total_payouts \in Nat /\ r.total_liquidity \in Nat
        /\ r.reserved_liquidity <= r.total_liquidity
    BY <1>1, <1>3 DEF PoolRecord, CoverInv, Reserved
  <1>6. PICK s : s = Cover!Released(i)
    OBVIOUS
  <1>7. s = [r EXCEPT !.reserved_liquidity = r.reserved_liquidity - c, !.active_policies = r.active_policies - 1]
    BY <1>1, <1>4, <1>5, <1>6 DEF Cover!Released, Cover!saturating_sub
  <1>8. s = [total_liquidity |-> r.total_liquidity, reserved_liquidity |-> r.reserved_liquidity - c,
             total_premiums_collected |-> r.total_premiums_collected,
             total_payouts |-> r.total_payouts, total_policies |-> r.total_policies,
             active_policies |-> r.active_policies - 1]
    BY <1>3, <1>7 DEF PoolRecord
  <1>9. PoolAfter(c, c)
    <2>1. Cover!saturating_sub(r.total_liquidity, c) = r.total_liquidity - c
      BY <1>4, <1>5 DEF Cover!saturating_sub
    <2>2. riskPool' = [s EXCEPT !.total_liquidity = Cover!saturating_sub(r.total_liquidity, c), !.total_payouts = r.total_payouts + c]
      BY <1>2, <1>6, <1>8
    <2>3. riskPool' = [s EXCEPT !.total_liquidity = r.total_liquidity - c, !.total_payouts = r.total_payouts + c]
      BY <2>1, <2>2
    <2> QED
      BY <1>1, <1>8, <2>3 DEF PoolAfter
  <1>10. policy' = [policy EXCEPT ![i] = [policyholder |-> y.policyholder, coverage_amount |-> c, end_time |-> y.end_time,
                                          trigger_condition |-> y.trigger_condition, status |-> "Claimed", paid |-> c]]
    <2>1. policy' = [policy EXCEPT ![i] = [[y EXCEPT !.status = "Claimed"] EXCEPT !.paid = @ + c]]
      BY <1>1, <1>2, <1>3
    <2>2. [[y EXCEPT !.status = "Claimed"] EXCEPT !.paid = @ + c]
            = [policyholder |-> y.policyholder, coverage_amount |-> c, end_time |-> y.end_time,
               trigger_condition |-> y.trigger_condition, status |-> "Claimed", paid |-> 0 + c]
      <3>1. PICK w : w = [y EXCEPT !.status = "Claimed"]
        OBVIOUS
      <3>2. w = [policyholder |-> y.policyholder, coverage_amount |-> c, end_time |-> y.end_time,
                 trigger_condition |-> y.trigger_condition, status |-> "Claimed", paid |-> 0]
        BY <1>1, <1>3, <1>4, <3>1 DEF PolicyRecord
      <3>3. [w EXCEPT !.paid = @ + c] = [policyholder |-> y.policyholder, coverage_amount |-> c, end_time |-> y.end_time,
                 trigger_condition |-> y.trigger_condition, status |-> "Claimed", paid |-> 0 + c]
        BY <3>2
      <3> QED
        BY <3>1, <3>3
    <2>3. 0 + c = c
      BY <1>4
    <2> QED
      BY <2>1, <2>2, <2>3
  <1>11. poolBal' \in [Accounts -> Int] /\ poolBal'[Self] = poolBal[Self] - c
    <2>1. PICK u : u = y.policyholder
      OBVIOUS
    <2>2. u # Self /\ u \in Accounts /\ Self \in Accounts /\ poolBal \in [Accounts -> Int]
      BY <1>4, <2>1, LedgerAssumption DEF Accounts, CoverInv, CoverTyped
    <2> QED
      BY <1>2, <1>4, <2>1, <2>2 DEF Cover!Pay
  <1> QED
    BY <1>1, <1>2, <1>9, <1>10, <1>11, EndKeeps

LEMMA CoverQuiet ==
  ASSUME CoverInv, UNCHANGED <<policy, poolBal, riskPool>>, now' \in Nat, insuranceInit' \/ UNCHANGED insuranceInit
  PROVE  CoverInv'
  <1>1. Active' = Active
    BY DEF Active
  <1>2. CoverTyped' /\ CoverStarted'
    BY DEF CoverInv, CoverTyped, CoverStarted
  <1>3. Reserved' /\ PaidTotal'
    BY <1>1 DEF CoverInv, Reserved, PaidTotal, PaidOnClaim
  <1> QED
    BY <1>2, <1>3 DEF CoverInv

LEMMA CoverKeeps ==
  ASSUME CoverConstants, CoverInv, Cover!InsuranceNext
  PROVE  CoverInv'
  <1>0. now \in Nat
    BY DEF CoverInv, CoverTyped
  <1>1. ASSUME Cover!InsuranceTick PROVE CoverInv'
    BY <1>0, <1>1, CoverQuiet DEF Cover!InsuranceTick, Cover!insuranceVars, Cover!CloseLedger
  <1>2. ASSUME Cover!init PROVE CoverInv'
    <2>1. riskPool' = riskPool
      BY <1>2 DEF Cover!init, CoverInv, CoverStarted
    <2> QED
      BY <1>0, <1>2, <2>1, CoverQuiet DEF Cover!init
  <1>3. ASSUME NEW p \in BOOLEAN, Cover!set_paused(p) PROVE CoverInv'
    BY <1>0, <1>3, CoverQuiet DEF Cover!set_paused
  <1>4. ASSUME NEW u \in Users, NEW i, Cover!cancel_policy(u, i) PROVE CoverInv'
    BY <1>4, ReleaseKeeps DEF Cover!cancel_policy, Active
  <1>5. ASSUME NEW i, Cover!expire_policy(i) PROVE CoverInv'
    BY <1>5, ReleaseKeeps DEF Cover!expire_policy, Active
  <1> QED
    BY <1>1, <1>2, <1>3, <1>4, <1>5, DepositKeeps, CoverWithdrawKeeps, CreatePolicyKeeps, TriggerKeeps DEF Cover!InsuranceNext

-----------------------------------------------------------------------------
\* Synthetic assets.
AssetRecord == [oracle_price : Int, total_minted : Int]
PositionsIn(a) == {k \in DOMAIN cdp : k[2] = a}
DebtOf(a) == FieldSum(cdp, "minted_amount", PositionsIn(a))
PositionOk(k) == "minted_amount" \in DOMAIN cdp[k] /\ cdp[k]["minted_amount"] \in Nat
SynthTyped ==
  /\ DOMAIN asset \subseteq SynthSymbols /\ \A a \in DOMAIN asset : asset[a] \in AssetRecord
  /\ IsFiniteSet(DOMAIN cdp) /\ \A k \in DOMAIN cdp : PositionOk(k)
  /\ registrations \in [SynthSymbols -> Nat] /\ forgotten \in [SynthSymbols -> Nat]
\* Before an asset is registered nobody owes it; after that its supply is owed.
Owed(a) ==
  /\ registrations[a] = 0 =>
       /\ a \notin DOMAIN asset /\ forgotten[a] = 0
       /\ \A k \in PositionsIn(a) : cdp[k]["minted_amount"] = 0
  /\ registrations[a] = 1 => a \in DOMAIN asset /\ asset[a].total_minted = DebtOf(a) + forgotten[a]
SynthInv == SynthTyped /\ \A a \in SynthSymbols : Owed(a)

LEMMA SynthBegins ==
  ASSUME Synthetics!SynthInit
  PROVE  SynthInv
  <1> USE DEF Synthetics!SynthInit, Synthetics!Empty
  <1>1. DOMAIN asset = {} /\ DOMAIN cdp = {}
    OBVIOUS
  <1>2. SynthTyped
    BY <1>1, FS_EmptySet DEF SynthTyped
  <1>3. \A a \in SynthSymbols : Owed(a)
    BY <1>1 DEF Owed, PositionsIn
  <1> QED
    BY <1>2, <1>3 DEF SynthInv

LEMMA SynthHolds ==
  ASSUME SynthInv
  PROVE  Synthetics!SupplyIsDebt
  <1>1. ASSUME NEW a PROVE Synthetics!Debt(a) = DebtOf(a)
    BY DEF Synthetics!Debt, DebtOf, PositionsIn, Synthetics!SumOver, FieldSum, Synthetics!MapThenSumSet,
           Synthetics!MapThenFoldSet, MapThenSumSet, MapThenFoldSet
  <1> QED
    BY <1>1 DEF SynthInv, SynthTyped, Owed, Synthetics!SupplyIsDebt

\* A step that changes one position, and the totals of its asset with it.
PositionChanged(x, m) ==
  /\ DOMAIN cdp' = DOMAIN cdp \cup {x} /\ \A k \in DOMAIN cdp \ {x} : cdp'[k] = cdp[k]
  /\ "minted_amount" \in DOMAIN cdp'[x] /\ cdp'[x]["minted_amount"] = m /\ m \in Nat
TotalChanged(a, t) ==
  /\ DOMAIN asset' = DOMAIN asset /\ \A b \in DOMAIN asset : asset'[b] \in AssetRecord
  /\ \A b \in DOMAIN asset \ {a} : asset'[b].total_minted = asset[b].total_minted
  /\ a \in DOMAIN asset => asset'[a].total_minted = asset[a].total_minted + t
ForgottenChanged(a, g) ==
  /\ forgotten' \in [SynthSymbols -> Nat] /\ forgotten'[a] = forgotten[a] + g
  /\ \A b \in SynthSymbols \ {a} : forgotten'[b] = forgotten[b]

LEMMA PositionKeeps ==
  ASSUME SynthInv, NEW u, NEW a \in SynthSymbols, NEW m, NEW t \in Int, NEW g \in Nat,
         PositionChanged(<<u, a>>, m), TotalChanged(a, t), ForgottenChanged(a, g),
         t = m - (IF <<u, a>> \in DOMAIN cdp THEN cdp[<<u, a>>]["minted_amount"] ELSE 0) + g,
         registrations[a] = 0 => m = 0 /\ g = 0, UNCHANGED registrations
  PROVE  SynthInv'
  <1>1. PICK x, q : x = <<u, a>> /\ q = cdp'
    OBVIOUS
  <1>2. x[2] = a /\ DOMAIN q = DOMAIN cdp \cup {x} /\ (\A k \in DOMAIN cdp \ {x} : q[k] = cdp[k]) /\ q[x]["minted_amount"] = m /\ m \in Nat
    BY <1>1 DEF PositionChanged
  <1>3. SynthTyped'
    <2>1. IsFiniteSet(DOMAIN cdp')
      BY <1>1, <1>2, FS_AddElement DEF SynthInv, SynthTyped
    <2>2. \A k \in DOMAIN cdp' : PositionOk(k)'
      BY <1>1, <1>2 DEF PositionChanged, PositionOk, SynthInv, SynthTyped
    <2> QED
      BY <2>1, <2>2 DEF SynthInv, SynthTyped, TotalChanged, ForgottenChanged
  <1>4. PICK o : o = IF x \in DOMAIN cdp THEN cdp[x]["minted_amount"] ELSE 0
    OBVIOUS
  <1>5. o \in Nat /\ t = m - o + g
    BY <1>1, <1>4 DEF SynthInv, SynthTyped, PositionOk
  <1>6. ASSUME NEW b PROVE /\ PositionsIn(b) \subseteq DOMAIN cdp /\ IsFiniteSet(PositionsIn(b))
                           /\ DebtOf(b) \in Nat
                           /\ \A k \in PositionsIn(b) : cdp[k]["minted_amount"] \in Nat
    <2>1. PositionsIn(b) \subseteq DOMAIN cdp /\ IsFiniteSet(PositionsIn(b))
      BY FS_Subset DEF PositionsIn, SynthInv, SynthTyped
    <2>2. \A k \in PositionsIn(b) : cdp[k]["minted_amount"] \in Nat
      BY <2>1 DEF SynthInv, SynthTyped, PositionOk
    <2> QED
      BY <2>1, <2>2, FieldSumNatural DEF DebtOf
  <1>7. DebtOf(a)' = DebtOf(a) + m - o
    <2>1. PICK S : S = PositionsIn(a)
      OBVIOUS
    <2>2. IsFiniteSet(S) /\ S \subseteq DOMAIN cdp /\ (\A k \in S : cdp[k]["minted_amount"] \in Int)
      BY <1>6, <2>1
    <2>3. PositionsIn(a)' = S \cup {x} /\ (x \in S <=> x \in DOMAIN cdp)
      BY <1>1, <1>2, <2>1 DEF PositionsIn
    <2>4. Differ(cdp, q, "minted_amount", S, x)
      BY <1>2, <2>2 DEF Differ
    <2>5. FieldSum(q, "minted_amount", S \cup {x}) = FieldSum(cdp, "minted_amount", S) + m - (IF x \in S THEN cdp[x]["minted_amount"] ELSE 0)
      BY <1>2, <2>4, SumChanged
    <2> QED
      BY <1>1, <1>4, <2>1, <2>3, <2>5 DEF DebtOf
  <1>8. ASSUME NEW b \in SynthSymbols, b # a PROVE DebtOf(b)' = DebtOf(b) /\ PositionsIn(b)' = PositionsIn(b) /\ \A k \in PositionsIn(b) : cdp'[k] = cdp[k]
    <2>1. PICK S : S = PositionsIn(b)
      OBVIOUS
    <2>2. PositionsIn(b)' = S /\ x \notin S
      BY <1>1, <1>2, <1>8, <2>1 DEF PositionsIn
    <2>3. IsFiniteSet(S) /\ S \subseteq DOMAIN cdp /\ S \subseteq DOMAIN q /\ \A k \in S : q[k] = cdp[k]
      BY <1>2, <1>6, <2>1, <2>2
    <2>4. FieldSum(cdp, "minted_amount", S) = FieldSum(q, "minted_amount", S)
      BY <2>3, FieldSumAgrees
    <2> QED
      BY <1>1, <2>1, <2>2, <2>3, <2>4 DEF DebtOf
  <1>9. ASSUME NEW b \in SynthSymbols PROVE Owed(b)'
    <2>1. Owed(b)
      BY DEF SynthInv
    <2>2. CASE b = a
      <3>1. CASE registrations[a] = 0
        <4>1. a \notin DOMAIN asset' /\ forgotten'[a] = 0
          BY <2>1, <2>2, <3>1 DEF Owed, TotalChanged, ForgottenChanged
        <4>2. \A k \in PositionsIn(a)' : cdp'[k]["minted_amount"] = 0
          <5>1. ASSUME NEW k \in PositionsIn(a)' PROVE q[k]["minted_amount"] = 0
            <6>1. CASE k = x
              BY <1>2, <3>1, <6>1
            <6>2. CASE k # x
              <7>1. k \in PositionsIn(a) /\ q[k] = cdp[k]
                BY <1>1, <1>2, <6>2 DEF PositionsIn
              <7> QED
                BY <2>1, <2>2, <3>1, <7>1 DEF Owed
            <6> QED
              BY <6>1, <6>2
          <5> QED
            BY <1>1, <5>1
        <4> QED
          BY <2>2, <3>1, <4>1, <4>2 DEF Owed
      <3>2. CASE registrations[a] = 1
        <4>1. a \in DOMAIN asset /\ asset[a].total_minted = DebtOf(a) + forgotten[a]
          BY <2>1, <2>2, <3>2 DEF Owed
        <4>2. a \in DOMAIN asset' /\ asset'[a].total_minted = asset[a].total_minted + t /\ forgotten'[a] = forgotten[a] + g
          BY <4>1 DEF TotalChanged, ForgottenChanged
        <4>3. forgotten[a] \in Nat /\ DebtOf(a) \in Nat
          BY <1>6 DEF SynthInv, SynthTyped
        <4>4. asset'[a].total_minted = DebtOf(a)' + forgotten'[a]
          BY <1>2, <1>5, <1>7, <4>1, <4>2, <4>3
        <4> QED
          BY <2>2, <3>2, <4>2, <4>4 DEF Owed
      <3>3. CASE registrations[a] # 0 /\ registrations[a] # 1
        BY <2>2, <3>3 DEF Owed
      <3> QED
        BY <3>1, <3>2, <3>3
    <2>3. CASE b # a
      <3>1. DebtOf(b)' = DebtOf(b) /\ PositionsIn(b)' = PositionsIn(b) /\ \A k \in PositionsIn(b) : cdp'[k] = cdp[k]
        BY <1>8, <2>3
      <3>2. forgotten'[b] = forgotten[b] /\ DOMAIN asset' = DOMAIN asset /\ (b \in DOMAIN asset => asset'[b].total_minted = asset[b].total_minted)
        BY <2>3 DEF ForgottenChanged, TotalChanged
      <3> QED
        BY <2>1, <3>1, <3>2 DEF Owed
    <2> QED
      BY <2>2, <2>3
  <1> QED
    BY <1>3, <1>9 DEF SynthInv

LEMMA Registered ==
  ASSUME SynthInv, NEW a \in DOMAIN asset
  PROVE  a \in SynthSymbols /\ registrations[a] # 0 /\ asset[a] \in AssetRecord /\ asset[a].total_minted \in Int
  BY DEF SynthInv, SynthTyped, Owed, AssetRecord

LEMMA NothingForgotten ==
  ASSUME SynthInv, NEW a \in SynthSymbols, UNCHANGED forgotten
  PROVE  ForgottenChanged(a, 0)
  BY DEF SynthInv, SynthTyped, ForgottenChanged

LEMMA TotalMoves ==
  ASSUME SynthInv, NEW a \in DOMAIN asset, NEW t \in Int,
         asset' = [asset EXCEPT ![a].total_minted = asset[a].total_minted + t]
  PROVE  TotalChanged(a, t)
  <1>1. PICK r : r = asset[a]
    OBVIOUS
  <1>2. r \in AssetRecord /\ r.oracle_price \in Int /\ r.total_minted + t \in Int
    BY <1>1, Registered DEF AssetRecord
  <1>3. asset' = [asset EXCEPT ![a] = [r EXCEPT !.total_minted = r.total_minted + t]]
    BY <1>1
  <1>4. [r EXCEPT !.total_minted = r.total_minted + t] = [oracle_price |-> r.oracle_price, total_minted |-> r.total_minted + t]
    BY <1>2 DEF AssetRecord
  <1>5. PICK s : s = [oracle_price |-> r.oracle_price, total_minted |-> r.total_minted + t]
    OBVIOUS
  <1>6. s \in AssetRecord /\ s.total_minted = r.total_minted + t
    BY <1>2, <1>5 DEF AssetRecord
  <1>7. asset' = [asset EXCEPT ![a] = s]
    BY <1>3, <1>4, <1>5
  <1>8. DOMAIN asset' = DOMAIN asset /\ asset'[a] = s /\ \A b \in DOMAIN asset \ {a} : asset'[b] = asset[b]
    BY <1>7
  <1> QED
    BY <1>1, <1>6, <1>8, Registered DEF TotalChanged

LEMMA TotalStays ==
  ASSUME SynthInv, NEW a, UNCHANGED asset
  PROVE  TotalChanged(a, 0)
  BY Registered DEF TotalChanged

LEMMA OpenKeeps ==
  ASSUME SynthConstants, SynthInv, NEW u \in Users, NEW a \in SynthSymbols, NEW x \in SynthAmounts, Synthetics!open_cdp(u, a, x)
  PROVE  SynthInv'
  <1>1. PICK k : k = <<u, a>>
    OBVIOUS
  <1>2. PICK g : g = IF k \in DOMAIN cdp THEN cdp[k]["minted_amount"] ELSE 0
    OBVIOUS
  <1>3. g \in Nat
    BY <1>2 DEF SynthInv, SynthTyped, PositionOk
  <1>4. UNCHANGED <<asset, registrations>>
    BY DEF Synthetics!open_cdp
  <1>5. PICK r : r = [collateral_amount |-> x, minted_amount |-> 0, collateral_ratio |-> 0, is_active |-> TRUE]
    OBVIOUS
  <1>6. cdp' = [j \in DOMAIN cdp \cup {k} |-> IF j = k THEN r ELSE cdp[j]]
    BY <1>1, <1>5 DEF Synthetics!open_cdp, Synthetics!Put
  <1>7. "minted_amount" \in DOMAIN r /\ r["minted_amount"] = 0
    BY <1>5
  <1>8. PositionChanged(k, 0)
    BY <1>6, <1>7 DEF PositionChanged
  <1>9. ForgottenChanged(a, g)
    <2>1. forgotten' = [forgotten EXCEPT ![a] = @ + g]
      BY <1>1, <1>2 DEF Synthetics!open_cdp, Synthetics!Has
    <2> QED
      BY <1>3, <2>1 DEF ForgottenChanged, SynthInv, SynthTyped
  <1>10. TotalChanged(a, 0)
    BY <1>4, TotalStays
  <1>11. 0 = 0 - g + g
    BY <1>3
  <1>12. registrations[a] = 0 => g = 0
    BY <1>1, <1>2 DEF SynthInv, Owed, PositionsIn
  <1>13. 0 = 0 - (IF <<u, a>> \in DOMAIN cdp THEN cdp[<<u, a>>]["minted_amount"] ELSE 0) + g
    BY <1>1, <1>2, <1>11
  <1>14. PositionChanged(<<u, a>>, 0) /\ 0 \in Int
    BY <1>1, <1>8
  <1> QED
    BY <1>3, <1>4, <1>9, <1>10, <1>12, <1>13, <1>14, PositionKeeps

LEMMA MintKeeps ==
  ASSUME SynthConstants, SynthInv, NEW u \in Users, NEW a \in SynthSymbols, NEW x \in SynthAmounts, Synthetics!mint(u, a, x)
  PROVE  SynthInv'
  <1>1. PICK k : k = <<u, a>>
    OBVIOUS
  <1>2. PICK o : o = cdp[k]["minted_amount"]
    OBVIOUS
  <1>3. k \in DOMAIN cdp /\ a \in DOMAIN asset /\ x > 0 /\ x \in Int /\ UNCHANGED <<registrations, forgotten>>
        /\ asset' = [asset EXCEPT ![a].total_minted = asset[a].total_minted + x]
    BY <1>1 DEF Synthetics!mint, Synthetics!Has, SynthConstants
  <1>4. o \in Nat /\ "minted_amount" \in DOMAIN cdp[k]
    BY <1>2, <1>3 DEF SynthInv, SynthTyped, PositionOk
  <1>5. \E r : cdp' = [cdp EXCEPT ![k].minted_amount = o + x, ![k].collateral_ratio = r]
    BY <1>1, <1>2 DEF Synthetics!mint
  <1>6. PositionChanged(k, o + x)
    <2>1. o + x \in Nat
      BY <1>3, <1>4
    <2> QED
      BY <1>3, <1>4, <1>5, <2>1 DEF PositionChanged
  <1>7. TotalChanged(a, x) /\ ForgottenChanged(a, 0) /\ registrations[a] # 0
    BY <1>3, TotalMoves, NothingForgotten, Registered
  <1>8. x = (o + x) - o + 0
    BY <1>3, <1>4
  <1> QED
    BY <1>1, <1>2, <1>3, <1>6, <1>7, <1>8, PositionKeeps

LEMMA BurnKeeps ==
  ASSUME SynthConstants, SynthInv, NEW u \in Users, NEW a \in SynthSymbols, NEW x \in SynthAmounts, Synthetics!burn(u, a, x)
  PROVE  SynthInv'
  <1>1. PICK k : k = <<u, a>>
    OBVIOUS
  <1>2. PICK o, t : o = cdp[k]["minted_amount"] /\ t = 0 - x
    OBVIOUS
  <1>3. k \in DOMAIN cdp /\ a \in DOMAIN asset /\ x > 0 /\ x \in Int /\ x <= o /\ UNCHANGED <<registrations, forgotten>>
        /\ asset' = [asset EXCEPT ![a].total_minted = asset[a].total_minted - x]
    BY <1>1, <1>2 DEF Synthetics!burn, Synthetics!Has, SynthConstants
  <1>4. o \in Nat /\ "minted_amount" \in DOMAIN cdp[k] /\ o - x \in Nat
    BY <1>2, <1>3 DEF SynthInv, SynthTyped, PositionOk
  <1>5. \E r : cdp' = [cdp EXCEPT ![k].minted_amount = o - x, ![k].collateral_ratio = r]
    BY <1>1, <1>2 DEF Synthetics!burn
  <1>6. PositionChanged(k, o - x)
    BY <1>3, <1>4, <1>5 DEF PositionChanged
  <1>7. t \in Int /\ asset[a].total_minted - x = asset[a].total_minted + t
    BY <1>2, <1>3, Registered
  <1>8. TotalChanged(a, t) /\ ForgottenChanged(a, 0) /\ registrations[a] # 0
    BY <1>3, <1>7, TotalMoves, NothingForgotten, Registered
  <1>9. t = (o - x) - o + 0
    BY <1>2, <1>3, <1>4
  <1> QED
    BY <1>1, <1>2, <1>3, <1>6, <1>7, <1>8, <1>9, PositionKeeps

LEMMA LiquidateKeeps ==
  ASSUME SynthInv, NEW u \in Users, NEW a \in SynthSymbols, Synthetics!liquidate(u, a)
  PROVE  SynthInv'
  <1>1. PICK k : k = <<u, a>>
    OBVIOUS
  <1>2. PICK o, t : o = cdp[k]["minted_amount"] /\ t = 0 - o
    OBVIOUS
  <1>3. k \in DOMAIN cdp /\ a \in DOMAIN asset /\ UNCHANGED <<registrations, forgotten>>
        /\ asset' = [asset EXCEPT ![a].total_minted = asset[a].total_minted - o]
        /\ cdp' = [cdp EXCEPT ![k].is_active = FALSE, ![k].minted_amount = 0, ![k].collateral_amount = 0]
    BY <1>1, <1>2 DEF Synthetics!liquidate, Synthetics!Has
  <1>4. o \in Nat /\ "minted_amount" \in DOMAIN cdp[k]
    BY <1>2, <1>3 DEF SynthInv, SynthTyped, PositionOk
  <1>6. PositionChanged(k, 0)
    BY <1>3, <1>4 DEF PositionChanged
  <1>7. t \in Int /\ asset[a].total_minted - o = asset[a].total_minted + t
    BY <1>2, <1>3, <1>4, Registered
  <1>8. TotalChanged(a, t) /\ ForgottenChanged(a, 0) /\ registrations[a] # 0
    BY <1>3, <1>7, TotalMoves, NothingForgotten, Registered
  <1>9. t = 0 - o + 0
    BY <1>2, <1>4
  <1> QED
    BY <1>1, <1>2, <1>3, <1>6, <1>7, <1>8, <1>9, PositionKeeps

\* A step that leaves every debt alone.
LEMMA DebtStays ==
  ASSUME SynthInv, NEW u \in Users, NEW a \in SynthSymbols, NEW o, <<u, a>> \in DOMAIN cdp, o = cdp[<<u, a>>]["minted_amount"],
         PositionChanged(<<u, a>>, o), UNCHANGED <<asset, registrations, forgotten>>
  PROVE  SynthInv'
  <1>1. o \in Nat
    BY DEF SynthInv, SynthTyped, PositionOk
  <1>2. TotalChanged(a, 0) /\ ForgottenChanged(a, 0)
    BY TotalStays, NothingForgotten
  <1>3. registrations[a] = 0 => o = 0
    BY DEF SynthInv, Owed, PositionsIn
  <1>4. 0 = o - (IF <<u, a>> \in DOMAIN cdp THEN cdp[<<u, a>>]["minted_amount"] ELSE 0) + 0
    BY <1>1
  <1>5. 0 \in Int /\ 0 \in Nat /\ registrations' = registrations
    OBVIOUS
  <1> QED
    BY <1>2, <1>3, <1>4, <1>5, PositionKeeps

LEMMA AddCollateralKeeps ==
  ASSUME SynthInv, NEW u \in Users, NEW a \in SynthSymbols, NEW x, Synthetics!add_collateral(u, a, x)
  PROVE  SynthInv'
  <1>1. PICK k, o : k = <<u, a>> /\ o = cdp[k]["minted_amount"]
    OBVIOUS
  <1>2. k \in DOMAIN cdp /\ UNCHANGED <<asset, registrations, forgotten>>
    BY <1>1 DEF Synthetics!add_collateral, Synthetics!Has
  <1>3. o \in Nat /\ "minted_amount" \in DOMAIN cdp[k]
    BY <1>1, <1>2 DEF SynthInv, SynthTyped, PositionOk
  <1>4. \E c, r : cdp' = [cdp EXCEPT ![k].collateral_amount = c, ![k].collateral_ratio = IF o > 0 THEN r ELSE @]
    BY <1>1 DEF Synthetics!add_collateral
  <1>5. PositionChanged(k, o)
    BY <1>1, <1>2, <1>3, <1>4 DEF PositionChanged
  <1> QED
    BY <1>1, <1>2, <1>5, DebtStays

LEMMA CloseKeeps ==
  ASSUME SynthInv, NEW u \in Users, NEW a \in SynthSymbols, Synthetics!close_cdp(u, a)
  PROVE  SynthInv'
  <1>1. PICK k, o : k = <<u, a>> /\ o = cdp[k]["minted_amount"]
    OBVIOUS
  <1>2. k \in DOMAIN cdp /\ UNCHANGED <<asset, registrations, forgotten>>
        /\ cdp' = [cdp EXCEPT ![k].is_active = FALSE, ![k].collateral_amount = 0]
    BY <1>1 DEF Synthetics!close_cdp, Synthetics!Has
  <1>3. o \in Nat /\ "minted_amount" \in DOMAIN cdp[k]
    BY <1>1, <1>2 DEF SynthInv, SynthTyped, PositionOk
  <1>5. PositionChanged(k, o)
    BY <1>1, <1>2, <1>3 DEF PositionChanged
  <1> QED
    BY <1>1, <1>2, <1>5, DebtStays

LEMMA PriceKeeps ==
  ASSUME SynthConstants, SynthInv, NEW a \in SynthSymbols, NEW price \in OraclePrices, Synthetics!update_price(a, price)
  PROVE  SynthInv'
  <1>1. a \in DOMAIN asset /\ asset' = [asset EXCEPT ![a].oracle_price = price] /\ UNCHANGED <<cdp, registrations, forgotten>> /\ price \in Int
    BY DEF Synthetics!update_price, Synthetics!Has, SynthConstants
  <1>2. PICK r, s : r = asset[a] /\ s = [oracle_price |-> price, total_minted |-> r.total_minted]
    OBVIOUS
  <1>3. r \in AssetRecord /\ r.total_minted \in Int
    BY <1>1, <1>2, Registered
  <1>4. s \in AssetRecord /\ s.total_minted = r.total_minted /\ [r EXCEPT !.oracle_price = price] = s
    BY <1>1, <1>2, <1>3 DEF AssetRecord
  <1>5. asset' = [asset EXCEPT ![a] = s]
    BY <1>1, <1>2, <1>4
  <1>6. /\ DOMAIN asset' = DOMAIN asset
        /\ \A b \in DOMAIN asset : asset'[b] \in AssetRecord /\ asset'[b].total_minted = asset[b].total_minted
    BY <1>1, <1>2, <1>4, <1>5, Registered
  <1>7. SynthTyped'
    BY <1>1, <1>6 DEF SynthInv, SynthTyped, PositionOk
  <1>8. ASSUME NEW b \in SynthSymbols PROVE Owed(b)'
    <2>1. PositionsIn(b)' = PositionsIn(b) /\ DebtOf(b)' = DebtOf(b)
      BY <1>1 DEF PositionsIn, DebtOf
    <2>2. Owed(b)
      BY DEF SynthInv
    <2> QED
      BY <1>1, <1>6, <2>1, <2>2 DEF Owed
  <1> QED
    BY <1>7, <1>8 DEF SynthInv

LEMMA RegisterKeeps ==
  ASSUME SynthInv, NEW a \in SynthSymbols, Synthetics!register_asset(a)
  PROVE  SynthInv'
  <1>1. PICK s : s = [oracle_price |-> 0, total_minted |-> 0]
    OBVIOUS
  <1>2. /\ asset' = [b \in DOMAIN asset \cup {a} |-> IF b = a THEN s ELSE asset[b]]
        /\ registrations' = [registrations EXCEPT ![a] = @ + 1] /\ UNCHANGED <<cdp, forgotten>>
    BY <1>1 DEF Synthetics!register_asset, Synthetics!Put
  <1>3. s \in AssetRecord /\ s.total_minted = 0
    BY <1>1 DEF AssetRecord
  <1>4. DOMAIN asset' = DOMAIN asset \cup {a} /\ asset'[a] = s /\ \A b \in DOMAIN asset \ {a} : asset'[b] = asset[b]
    BY <1>2
  <1>5. registrations' \in [SynthSymbols -> Nat] /\ registrations'[a] = registrations[a] + 1
        /\ registrations[a] \in Nat /\ \A b \in SynthSymbols \ {a} : registrations'[b] = registrations[b]
    BY <1>2 DEF SynthInv, SynthTyped
  <1>6. SynthTyped'
    BY <1>2, <1>3, <1>4, <1>5 DEF SynthInv, SynthTyped, PositionOk
  <1>7. ASSUME NEW b \in SynthSymbols, b # a PROVE Owed(b)'
    BY <1>2, <1>4, <1>5, <1>7 DEF SynthInv, Owed, PositionsIn, DebtOf
  <1>8. Owed(a)'
    <2>1. CASE registrations[a] # 0
      BY <1>5, <2>1 DEF Owed
    <2>2. CASE registrations[a] = 0
      <3>1. forgotten[a] = 0 /\ \A k \in PositionsIn(a) : cdp[k]["minted_amount"] = 0
        BY <2>2 DEF SynthInv, Owed
      <3>2. PICK S, F : S = PositionsIn(a) /\ F = Field(cdp, "minted_amount")
        OBVIOUS
      <3>3. IsFiniteSet(S) /\ S \subseteq DOMAIN cdp
        BY <3>2, FS_Subset DEF PositionsIn, SynthInv, SynthTyped
      <3>4. \A k \in S : F[k] = 0
        BY <3>1, <3>2, <3>3 DEF Field
      <3>5. DebtOf(a) = 0
        BY <3>2, <3>3, <3>4, FieldSumIsTotal, ZeroTotal DEF DebtOf
      <3>6. DebtOf(a)' = 0
        BY <1>2, <3>5 DEF DebtOf, PositionsIn
      <3>7. registrations'[a] = 1
        BY <1>5, <2>2
      <3> QED
        BY <1>2, <1>3, <1>4, <3>1, <3>6, <3>7 DEF Owed
    <2> QED
      BY <2>1, <2>2
  <1> QED
    BY <1>6, <1>7, <1>8 DEF SynthInv

LEMMA SynthKeeps ==
  ASSUME SynthConstants, SynthInv, Synthetics!SynthNext
  PROVE  SynthInv'
  <1>1. ASSUME Synthetics!initialize PROVE SynthInv'
    <2>1. UNCHANGED <<asset, cdp, registrations, forgotten>>
      BY <1>1 DEF Synthetics!initialize
    <2> QED
      BY <2>1 DEF SynthInv, SynthTyped, PositionOk, Owed, PositionsIn, DebtOf
  <1> QED
    BY <1>1, RegisterKeeps, PriceKeeps, OpenKeeps, MintKeeps, BurnKeeps, AddCollateralKeeps, LiquidateKeeps, CloseKeeps
    DEF Synthetics!SynthNext

-----------------------------------------------------------------------------
\* Vesting.
GrantRecord ==
  [beneficiary : Users, amount : Nat, start_time : Int, cliff : Int, duration : Int,
   claimed : BOOLEAN, revoked : BOOLEAN, revoke_time : Int]
GrantSettled(g) ==
  /\ paidFor[g] \in Nat /\ paidFor[g] <= sched[g].amount
  /\ ~sched[g].claimed => paidFor[g] = 0
  /\ sched[g].revoked => ~sched[g].claimed
VestingInv ==
  /\ now \in Nat /\ sched \in Seq(GrantRecord) /\ paidFor \in Seq(Nat) /\ Len(paidFor) = Len(sched)
  /\ \A g \in DOMAIN sched : GrantSettled(g)

LEMMA VestingBegins ==
  ASSUME Grants!VestingInit
  PROVE  DOMAIN sched = {} /\ (now \in Nat => VestingInv)
  <1>1. sched = <<>> /\ paidFor = <<>> /\ DOMAIN sched = {}
    BY DEF Grants!VestingInit
  <1> QED
    BY <1>1 DEF VestingInv

LEMMA VestingHolds ==
  ASSUME VestingInv
  PROVE  Grants!GrantPaidOnce
  BY DEF VestingInv, GrantSettled, Grants!GrantPaidOnce

LEMMA GrantFacts ==
  ASSUME VestingInv
  PROVE  /\ DOMAIN sched = 1 .. Len(sched) /\ Len(sched) \in Nat /\ DOMAIN paidFor = DOMAIN sched
         /\ \A g \in DOMAIN sched : sched[g] \in GrantRecord /\ paidFor[g] \in Nat
  BY DEF VestingInv

LEMMA VestedWithin ==
  ASSUME VestingInv, NEW g \in DOMAIN sched
  PROVE  Grants!calculate_vested_amount(sched[g], now) \in 0 .. sched[g].amount
  <1>1. PICK s : s = sched[g]
    OBVIOUS
  <1>2. PICK a, st, c, d : a = s.amount /\ st = s.start_time /\ c = s.cliff /\ d = s.duration
    OBVIOUS
  <1>3. a \in Nat /\ st \in Int /\ c \in Int /\ d \in Int /\ now \in Int
    <2>1. s \in GrantRecord
      BY <1>1, GrantFacts
    <2>2. now \in Nat
      BY DEF VestingInv
    <2> QED
      BY <1>2, <2>1, <2>2 DEF GrantRecord
  <1>4. Grants!calculate_vested_amount(s, now) =
          IF now < st + c THEN 0 ELSE IF now >= st + d THEN a ELSE (a * (now - (st + c))) \div (d - c)
    BY <1>2 DEF Grants!calculate_vested_amount
  <1>5. CASE ~(now < st + c) /\ ~(now >= st + d)
    <2>1. PICK x, y : x = now - (st + c) /\ y = d - c
      OBVIOUS
    <2>2. x \in Nat /\ y \in Nat /\ x <= y /\ y > 0
      BY <1>3, <1>5, <2>1
    <2>3. a * x \in Nat /\ a * x <= a * y /\ a * y \in Nat
      BY <1>3, <2>2
    <2>4. PICK z : z = (a * x) \div y
      OBVIOUS
    <2>5. z \in Int /\ z * y <= a * x /\ z >= 0
      BY <2>2, <2>3, <2>4
    <2>6. z * y <= a * y
      <3>1. z * y \in Int
        BY <2>2, <2>5
      <3> QED
        BY <2>3, <2>5, <3>1
    <2>7. z <= a
      BY <1>3, <2>2, <2>5, <2>6
    <2>8. Grants!calculate_vested_amount(s, now) = z
      BY <1>4, <1>5, <2>1, <2>4
    <2> QED
      BY <1>1, <1>2, <1>3, <2>5, <2>7, <2>8
  <1>6. CASE now < st + c \/ now >= st + d
    BY <1>1, <1>2, <1>3, <1>4, <1>6
  <1> QED
    BY <1>5, <1>6

LEMMA GrantKeeps ==
  ASSUME VestingConstants, VestingInv, NEW u \in Users, NEW a \in GrantAmounts, NEW t \in Terms, Grants!grant_vesting(u, a, t)
  PROVE  VestingInv'
  <1>1. PICK x, n : n = Len(sched) /\ x = [beneficiary |-> u, amount |-> a, start_time |-> t.start,
           cliff |-> t.cliff, duration |-> t.duration, claimed |-> FALSE, revoked |-> FALSE, revoke_time |-> 0]
    OBVIOUS
  <1>2. a > 0 /\ a \in Int /\ sched' = Append(sched, x) /\ paidFor' = Append(paidFor, 0) /\ now' = now
    BY <1>1 DEF Grants!grant_vesting, VestingConstants
  <1>3. x \in GrantRecord /\ x.claimed = FALSE /\ x.revoked = FALSE /\ x.amount = a
    BY <1>1, <1>2 DEF GrantRecord, VestingConstants
  <1>4. /\ sched' \in Seq(GrantRecord) /\ DOMAIN sched' = DOMAIN sched \cup {n + 1}
        /\ sched'[n + 1] = x /\ (\A g \in DOMAIN sched : sched'[g] = sched[g]) /\ Len(sched') = n + 1
    <2>1. sched \in Seq(GrantRecord) /\ DOMAIN sched = 1 .. n /\ n \in Nat
      BY <1>1, GrantFacts DEF VestingInv
    <2> QED
      BY <1>1, <1>2, <1>3, <2>1
  <1>5. /\ paidFor' \in Seq(Nat) /\ Len(paidFor') = n + 1
        /\ paidFor'[n + 1] = 0 /\ \A g \in DOMAIN sched : paidFor'[g] = paidFor[g]
    <2>1. paidFor \in Seq(Nat) /\ Len(paidFor) = n /\ DOMAIN sched = 1 .. n /\ n \in Nat
      BY <1>1, GrantFacts DEF VestingInv
    <2> QED
      BY <1>2, <2>1
  <1>6. ASSUME NEW g \in DOMAIN sched' PROVE GrantSettled(g)'
    BY <1>2, <1>3, <1>4, <1>5 DEF VestingInv, GrantSettled
  <1> QED
    BY <1>2, <1>4, <1>5, <1>6 DEF VestingInv

\* A step after which each grant is as it was, or is newly claimed and paid what
\* has vested.
LEMMA ClaimsKeep ==
  ASSUME VestingInv, now' = now, sched' \in Seq(GrantRecord), Len(sched') = Len(sched),
         paidFor' \in Seq(Nat), Len(paidFor') = Len(sched),
         \A g \in DOMAIN sched :
           /\ sched'[g].amount = sched[g].amount /\ sched'[g].revoked = sched[g].revoked
           /\ \/ paidFor'[g] = paidFor[g] /\ sched'[g].claimed = sched[g].claimed
              \/ /\ ~sched[g].claimed /\ ~sched[g].revoked /\ sched'[g].claimed
                 /\ paidFor'[g] = paidFor[g] + Grants!calculate_vested_amount(sched[g], now)
  PROVE  VestingInv'
  <1>1. DOMAIN sched' = DOMAIN sched
    BY GrantFacts
  <1>2. ASSUME NEW g \in DOMAIN sched PROVE GrantSettled(g)'
    <2>1. GrantSettled(g) /\ sched[g] \in GrantRecord
      BY GrantFacts DEF VestingInv
    <2>2. PICK v : v = Grants!calculate_vested_amount(sched[g], now)
      OBVIOUS
    <2>3. v \in 0 .. sched[g].amount /\ sched[g].amount \in Nat
      BY <2>1, <2>2, VestedWithin DEF GrantRecord
    <2>4. CASE paidFor'[g] = paidFor[g] /\ sched'[g].claimed = sched[g].claimed
      BY <2>1, <2>4 DEF GrantSettled
    <2>5. CASE ~sched[g].claimed /\ ~sched[g].revoked /\ sched'[g].claimed /\ paidFor'[g] = paidFor[g] + v
      BY <2>1, <2>3, <2>5 DEF GrantSettled
    <2> QED
      BY <2>2, <2>4, <2>5
  <1> QED
    BY <1>1, <1>2 DEF VestingInv

LEMMA ClaimGrantKeeps ==
  ASSUME VestingInv, NEW u, NEW g, Grants!claim(g, u)
  PROVE  VestingInv'
  <1>1. PICK v, s : v = Grants!calculate_vested_amount(sched[g], now) /\ s = sched[g]
    OBVIOUS
  <1>2. /\ g \in DOMAIN sched /\ ~s.claimed /\ ~s.revoked /\ now' = now
        /\ sched' = [sched EXCEPT ![g].claimed = TRUE] /\ paidFor' = [paidFor EXCEPT ![g] = @ + v]
    BY <1>1 DEF Grants!claim, Grants!claimable, Grants!claimable_amount
  <1>3. s \in GrantRecord /\ v \in Nat /\ paidFor[g] \in Nat
    BY <1>1, <1>2, VestedWithin, GrantFacts DEF GrantRecord
  <1>4. PICK w : w = [s EXCEPT !.claimed = TRUE]
    OBVIOUS
  <1>5. w \in GrantRecord /\ w.amount = s.amount /\ w.revoked = s.revoked /\ w.claimed = TRUE
    BY <1>3, <1>4 DEF GrantRecord
  <1>6. sched' = [sched EXCEPT ![g] = w]
    BY <1>1, <1>2, <1>4
  <1>7. sched' \in Seq(GrantRecord) /\ Len(sched') = Len(sched) /\ sched'[g] = w /\ \A h \in DOMAIN sched \ {g} : sched'[h] = sched[h]
    <2>1. PICK R : R = GrantRecord
      OBVIOUS
    <2>2. sched \in Seq(R) /\ w \in R /\ g \in DOMAIN sched
      BY <1>2, <1>5, <2>1 DEF VestingInv
    <2>3. sched' \in Seq(R) /\ Len(sched') = Len(sched) /\ sched'[g] = w /\ \A h \in DOMAIN sched \ {g} : sched'[h] = sched[h]
      BY <1>6, <2>2
    <2> QED
      BY <2>1, <2>3
  <1>8. paidFor' \in Seq(Nat) /\ Len(paidFor') = Len(sched) /\ paidFor'[g] = paidFor[g] + v /\ \A h \in DOMAIN sched \ {g} : paidFor'[h] = paidFor[h]
    BY <1>2, <1>3, GrantFacts DEF VestingInv
  <1> QED
    BY <1>1, <1>2, <1>5, <1>7, <1>8, ClaimsKeep

LEMMA BatchKeeps ==
  ASSUME DistinctBatches, VestingInv, NEW u, NEW ids \in ClaimBatches, Grants!batch_claim(ids, u)
  PROVE  VestingInv'
  <1> DEFINE V(g) == Grants!calculate_vested_amount(sched[g], now)
             At(g) == {i \in DOMAIN ids : ids[i] = g}
             w(g) == [sched[g] EXCEPT !.claimed = @ \/ \E i \in DOMAIN ids : ids[i] = g]
  <1>1. now' = now /\ sched' = [g \in DOMAIN sched |-> w(g)]
        /\ \A i \in DOMAIN ids : ids[i] \in DOMAIN sched => ~sched[ids[i]].claimed /\ ~sched[ids[i]].revoked
    BY DEF Grants!batch_claim, Grants!claimable
  <1>2. paidFor' = [g \in DOMAIN sched |-> paidFor[g] + V(g) * Cardinality(At(g))]
    BY DEF Grants!batch_claim, Grants!claimable_amount, Grants!Cardinality, Cardinality
  <1>3. ASSUME NEW g \in DOMAIN sched
        PROVE  /\ w(g) \in GrantRecord /\ w(g).amount = sched[g].amount /\ w(g).revoked = sched[g].revoked
               /\ w(g).claimed = (sched[g].claimed \/ At(g) # {})
    <2>1. sched[g] \in GrantRecord
      BY GrantFacts
    <2>2. PICK s, b : s = sched[g] /\ b = (s.claimed \/ \E i \in DOMAIN ids : ids[i] = g)
      OBVIOUS
    <2>3. w(g) = [s EXCEPT !.claimed = b] /\ b \in BOOLEAN
      BY <2>2
    <2>4. w(g) \in GrantRecord /\ w(g).amount = s.amount /\ w(g).revoked = s.revoked /\ w(g).claimed = b
      BY <2>1, <2>2, <2>3 DEF GrantRecord
    <2> QED
      BY <2>2, <2>4
  <1>4. ASSUME NEW g \in DOMAIN sched
        PROVE  \/ At(g) = {} /\ Cardinality(At(g)) = 0
               \/ At(g) # {} /\ Cardinality(At(g)) = 1
    <2>1. CASE At(g) = {}
      BY <2>1, FS_EmptySet
    <2>2. CASE At(g) # {}
      <3>1. PICK i \in DOMAIN ids : ids[i] = g
        BY <2>2
      <3>2. At(g) = {i}
        BY <3>1 DEF DistinctBatches
      <3> QED
        BY <3>2, FS_Singleton
    <2> QED
      BY <2>1, <2>2
  <1>5. ASSUME NEW g \in DOMAIN sched PROVE V(g) \in Nat /\ paidFor[g] \in Nat
    BY VestedWithin, GrantFacts DEF GrantRecord
  <1> HIDE DEF V, At, w
  <1>6. DOMAIN sched = 1 .. Len(sched) /\ Len(sched) \in Nat
    BY GrantFacts
  <1>7. sched' \in Seq(GrantRecord) /\ Len(sched') = Len(sched) /\ \A g \in DOMAIN sched : sched'[g] = w(g)
    <2>1. sched' \in [1 .. Len(sched) -> GrantRecord]
      BY <1>1, <1>3, <1>6
    <2> QED
      BY <1>1, <1>6, <2>1
  <1>8. ASSUME NEW g \in DOMAIN sched PROVE V(g) * Cardinality(At(g)) = IF At(g) = {} THEN 0 ELSE V(g)
    BY <1>4, <1>5
  <1>9. paidFor' \in Seq(Nat) /\ Len(paidFor') = Len(sched)
        /\ \A g \in DOMAIN sched : paidFor'[g] = paidFor[g] + IF At(g) = {} THEN 0 ELSE V(g)
    <2>1. \A g \in DOMAIN sched : paidFor'[g] = paidFor[g] + IF At(g) = {} THEN 0 ELSE V(g)
      BY <1>2, <1>8
    <2>2. paidFor' \in [1 .. Len(sched) -> Nat]
      BY <1>2, <1>5, <1>6, <2>1
    <2> QED
      BY <1>6, <2>1, <2>2
  <1>10. ASSUME NEW g \in DOMAIN sched, At(g) # {} PROVE ~sched[g].claimed /\ ~sched[g].revoked
    BY <1>1, <1>10 DEF At
  <1>11. \A g \in DOMAIN sched :
           /\ sched'[g].amount = sched[g].amount /\ sched'[g].revoked = sched[g].revoked
           /\ \/ paidFor'[g] = paidFor[g] /\ sched'[g].claimed = sched[g].claimed
              \/ /\ ~sched[g].claimed /\ ~sched[g].revoked /\ sched'[g].claimed
                 /\ paidFor'[g] = paidFor[g] + V(g)
    <2>1. TAKE g \in DOMAIN sched
    <2>2. sched[g].claimed \in BOOLEAN
      BY GrantFacts DEF GrantRecord
    <2>3. CASE At(g) = {}
      BY <1>3, <1>5, <1>7, <1>9, <2>2, <2>3
    <2>4. CASE At(g) # {}
      BY <1>3, <1>7, <1>9, <1>10, <2>4
    <2> QED
      BY <2>3, <2>4
  <1> USE DEF V
  <1> QED
    BY <1>1, <1>7, <1>9, <1>11, ClaimsKeep

LEMMA RevokeKeeps ==
  ASSUME VestingInv, NEW g, NEW d, Grants!revoke(g, d)
  PROVE  VestingInv'
  <1>1. PICK s : s = sched[g]
    OBVIOUS
  <1>2. /\ g \in DOMAIN sched /\ ~s.claimed /\ ~s.revoked /\ UNCHANGED <<now, paidFor>>
        /\ sched' = [sched EXCEPT ![g].revoked = TRUE, ![g].revoke_time = now]
    BY <1>1 DEF Grants!revoke
  <1>3. s \in GrantRecord /\ now \in Nat
    BY <1>1, <1>2, GrantFacts DEF VestingInv
  <1>4. PICK w : w = [[s EXCEPT !.revoked = TRUE] EXCEPT !.revoke_time = now]
    OBVIOUS
  <1>5. w \in GrantRecord /\ w.amount = s.amount /\ w.revoked = TRUE /\ w.claimed = s.claimed
    <2>1. w = [beneficiary |-> s.beneficiary, amount |-> s.amount, start_time |-> s.start_time, cliff |-> s.cliff,
               duration |-> s.duration, claimed |-> s.claimed, revoked |-> TRUE, revoke_time |-> now]
      BY <1>3, <1>4 DEF GrantRecord
    <2>2. /\ s.beneficiary \in Users /\ s.amount \in Nat /\ s.start_time \in Int /\ s.cliff \in Int
          /\ s.duration \in Int /\ s.claimed \in BOOLEAN /\ now \in Int
      BY <1>3 DEF GrantRecord
    <2> QED
      BY <2>1, <2>2 DEF GrantRecord
  <1>6. sched' = [sched EXCEPT ![g] = w]
    BY <1>1, <1>2, <1>4
  <1>7. sched' \in Seq(GrantRecord) /\ Len(sched') = Len(sched) /\ sched'[g] = w /\ \A h \in DOMAIN sched \ {g} : sched'[h] = sched[h]
    <2>1. PICK R : R = GrantRecord
      OBVIOUS
    <2>2. sched \in Seq(R) /\ w \in R /\ g \in DOMAIN sched
      BY <1>2, <1>5, <2>1 DEF VestingInv
    <2>3. sched' \in Seq(R) /\ Len(sched') = Len(sched) /\ sched'[g] = w /\ \A h \in DOMAIN sched \ {g} : sched'[h] = sched[h]
      BY <1>6, <2>2
    <2> QED
      BY <2>1, <2>3
  <1>8. DOMAIN sched' = DOMAIN sched
    BY <1>6
  <1>9. ASSUME NEW h \in DOMAIN sched PROVE GrantSettled(h)'
    BY <1>1, <1>2, <1>5, <1>7 DEF VestingInv, GrantSettled
  <1> QED
    BY <1>2, <1>7, <1>8, <1>9 DEF VestingInv

LEMMA VestingKeeps ==
  ASSUME VestingConstants, DistinctBatches, VestingInv, Grants!VestingNext
  PROVE  VestingInv'
  <1>1. ASSUME UNCHANGED <<sched, paidFor>>, now' \in {now, now + 1} PROVE VestingInv'
    BY <1>1 DEF VestingInv, GrantSettled
  <1>2. ASSUME Grants!VestingTick \/ Grants!init PROVE VestingInv'
    BY <1>1, <1>2 DEF Grants!VestingTick, Grants!CloseLedger, Grants!vestingVars, Grants!init
  <1> QED
    BY <1>2, GrantKeeps, ClaimGrantKeeps, BatchKeeps, RevokeKeeps DEF Grants!VestingNext

-----------------------------------------------------------------------------
\* Academy badges.
BadgeRecord ==
  [type : BadgeTypes, discount : Int, earned_at : Nat, redeemed_count : Nat, max_redemptions : Nat,
   expiry : Nat, active : BOOLEAN, since : Nat]
Redeemed(u) == {j \in badge[u].since + 1 .. Len(redeemed) : redeemed[j].user = u}
Before(u, j) == {i \in Redeemed(u) : i < j}
\* The entry of the audit trail for redemption j of a user's badge.
Recorded(u, j) ==
  /\ <<u, Cardinality(Before(u, j))>> \in DOMAIN redemption
  /\ redemption[<<u, Cardinality(Before(u, j))>>].hash = redeemed[j].hash
  /\ badge[u].expiry > 0 => redemption[<<u, Cardinality(Before(u, j))>>].timestamp <= badge[u].expiry
BadgeKept(u) ==
  /\ badge[u] \in BadgeRecord
  /\ badge[u].since <= Len(redeemed)
  /\ Cardinality(Redeemed(u)) = badge[u].redeemed_count
  /\ badge[u].max_redemptions > 0 => badge[u].redeemed_count <= badge[u].max_redemptions
  /\ \A j \in Redeemed(u) : Recorded(u, j)
HashesUsed ==
  /\ \A i \in DOMAIN redeemed : redeemed[i].hash \in usedTx
  /\ \A i, j \in DOMAIN redeemed : redeemed[i].hash = redeemed[j].hash => i = j
AcademyInv ==
  /\ now \in Nat /\ redeemed \in Seq([user : Users, hash : TxHashes])
  /\ \A t \in DOMAIN badgeType : badgeType[t] \in BadgeTerms
  /\ HashesUsed /\ \A u \in DOMAIN badge : BadgeKept(u)

LEMMA AcademyBegins ==
  ASSUME Academy!AcademyInit
  PROVE  Academy!RedemptionsOnRecord /\ (now \in Nat => AcademyInv)
  <1>1. DOMAIN badge = {} /\ DOMAIN badgeType = {} /\ redeemed = <<>> /\ DOMAIN redeemed = {}
    BY DEF Academy!AcademyInit, Academy!Empty
  <1> QED
    BY <1>1 DEF AcademyInv, HashesUsed, Academy!RedemptionsOnRecord

LEMMA AcademyHolds ==
  ASSUME AcademyInv
  PROVE  Academy!RedemptionsOnRecord
  <1>1. ASSUME NEW S PROVE Academy!Cardinality(S) = Cardinality(S)
    BY DEF Academy!Cardinality, Cardinality
  <1>2. ASSUME NEW u PROVE Academy!RedeemedWith(u) = Redeemed(u)
    BY DEF Academy!RedeemedWith, Redeemed
  <1>3. ASSUME NEW u, NEW j PROVE Academy!Earlier(u, j) = Cardinality(Before(u, j))
    BY <1>1, <1>2 DEF Academy!Earlier, Before
  <1>4. ASSUME NEW u \in DOMAIN badge, NEW j \in Redeemed(u)
        PROVE  /\ Academy!Has(redemption, <<u, Academy!Earlier(u, j)>>)
               /\ redemption[<<u, Academy!Earlier(u, j)>>].hash = redeemed[j].hash
               /\ badge[u].expiry > 0 => redemption[<<u, Academy!Earlier(u, j)>>].timestamp <= badge[u].expiry
    BY <1>3 DEF AcademyInv, BadgeKept, Recorded, Academy!Has
  <1>5. \A u \in DOMAIN badge : /\ Academy!Cardinality(Academy!RedeemedWith(u)) = badge[u].redeemed_count
                                /\ badge[u].max_redemptions > 0 => badge[u].redeemed_count <= badge[u].max_redemptions
    BY <1>1, <1>2 DEF AcademyInv, BadgeKept
  <1>6. \A i, j \in DOMAIN redeemed : redeemed[i].hash = redeemed[j].hash => i = j
    BY DEF AcademyInv, HashesUsed
  <1> QED
    BY <1>2, <1>4, <1>5, <1>6 DEF Academy!RedemptionsOnRecord

LEMMA RedeemedFinite ==
  ASSUME AcademyInv, NEW u \in DOMAIN badge
  PROVE  /\ IsFiniteSet(Redeemed(u)) /\ badge[u].since \in Nat /\ Len(redeemed) \in Nat
         /\ Redeemed(u) \subseteq 1 .. Len(redeemed) /\ DOMAIN redeemed = 1 .. Len(redeemed)
  <1>1. badge[u].since \in Nat /\ Len(redeemed) \in Nat /\ DOMAIN redeemed = 1 .. Len(redeemed)
    BY DEF AcademyInv, BadgeKept, BadgeRecord
  <1>2. Redeemed(u) \subseteq 1 .. Len(redeemed)
    BY <1>1 DEF Redeemed
  <1>3. PICK n : n = Len(redeemed)
    OBVIOUS
  <1>4. IsFiniteSet(1 .. n)
    <2>1. n \in Int /\ 1 \in Int
      BY <1>1, <1>3
    <2> QED
      BY <2>1, FS_Interval
  <1>5. Redeemed(u) \in SUBSET (1 .. n)
    BY <1>2, <1>3
  <1>6. IsFiniteSet(Redeemed(u))
    BY <1>4, <1>5, FS_Subset
  <1> QED
    BY <1>1, <1>2, <1>6

\* A badge that a step leaves alone, or only deactivates.
LEMMA BadgeStays ==
  ASSUME AcademyInv, NEW u \in DOMAIN badge, badge'[u] \in BadgeRecord,
         badge'[u].since = badge[u].since, badge'[u].redeemed_count = badge[u].redeemed_count,
         badge'[u].max_redemptions = badge[u].max_redemptions, badge'[u].expiry = badge[u].expiry,
         UNCHANGED <<redeemed, redemption>>
  PROVE  BadgeKept(u)'
  <1>1. Redeemed(u)' = Redeemed(u) /\ \A j : Before(u, j)' = Before(u, j)
    BY DEF Redeemed, Before
  <1>2. BadgeKept(u)
    BY DEF AcademyInv
  <1>3. ASSUME NEW j \in Redeemed(u) PROVE Recorded(u, j)'
    BY <1>1, <1>2 DEF BadgeKept, Recorded
  <1> QED
    BY <1>1, <1>2, <1>3 DEF BadgeKept

LEMMA AcademyQuiet ==
  ASSUME AcademyInv, now' \in {now, now + 1}, UNCHANGED <<badge, redemption, usedTx, redeemed>>,
         \A t \in DOMAIN badgeType' : badgeType'[t] \in BadgeTerms
  PROVE  AcademyInv'
  <1>1. ASSUME NEW u \in DOMAIN badge PROVE BadgeKept(u)'
    BY BadgeStays DEF AcademyInv, BadgeKept
  <1>2. HashesUsed'
    BY DEF AcademyInv, HashesUsed
  <1> QED
    BY <1>1, <1>2 DEF AcademyInv

LEMMA MintBadgeKeeps ==
  ASSUME AcademyConstants, AcademyInv, NEW u \in Users, NEW t \in BadgeTypes, Academy!mint_badge(u, t)
  PROVE  AcademyInv'
  <1>1. PICK terms : terms = badgeType[t]
    OBVIOUS
  <1>2. t \in DOMAIN badgeType /\ UNCHANGED <<now, badgeType, redemption, usedTx, redeemed>>
    BY DEF Academy!mint_badge, Academy!Has
  <1>3. terms \in [discount : Int, max_redemptions : Nat, validity : Nat] /\ now \in Nat /\ Len(redeemed) \in Nat
    BY <1>1, <1>2 DEF AcademyInv, AcademyConstants
  <1>4. PICK e : e = IF terms.validity > 0 THEN now + terms.validity ELSE 0
    OBVIOUS
  <1>5. PICK b : b = [type |-> t, discount |-> terms.discount, earned_at |-> now, redeemed_count |-> 0,
                      max_redemptions |-> terms.max_redemptions, expiry |-> e, active |-> TRUE, since |-> Len(redeemed)]
    OBVIOUS
  <1>6. badge' = [v \in DOMAIN badge \cup {u} |-> IF v = u THEN b ELSE badge[v]]
    BY <1>1, <1>4, <1>5 DEF Academy!mint_badge, Academy!Put
  <1>7. b \in BadgeRecord /\ b.since = Len(redeemed) /\ b.redeemed_count = 0 /\ b.max_redemptions \in Nat
    BY <1>3, <1>4, <1>5 DEF BadgeRecord
  <1>8. DOMAIN badge' = DOMAIN badge \cup {u} /\ badge'[u] = b /\ \A v \in DOMAIN badge \ {u} : badge'[v] = badge[v]
    BY <1>6
  <1>9. BadgeKept(u)'
    <2>1. Redeemed(u)' = {}
      BY <1>2, <1>3, <1>7, <1>8 DEF Redeemed
    <2> QED
      BY <1>2, <1>3, <1>7, <1>8, <2>1, FS_EmptySet DEF BadgeKept
  <1>10. ASSUME NEW v \in DOMAIN badge \ {u} PROVE BadgeKept(v)'
    <2>1. badge'[v] = badge[v] /\ badge[v] \in BadgeRecord
      BY <1>8 DEF AcademyInv, BadgeKept
    <2> QED
      BY <1>2, <2>1, BadgeStays
  <1>11. HashesUsed'
    BY <1>2 DEF AcademyInv, HashesUsed
  <1> QED
    BY <1>2, <1>8, <1>9, <1>10, <1>11 DEF AcademyInv

LEMMA RevokeBadgeKeeps ==
  ASSUME AcademyInv, NEW u \in Users, Academy!revoke_badge(u)
  PROVE  AcademyInv'
  <1>1. u \in DOMAIN badge /\ badge' = [badge EXCEPT ![u].active = FALSE] /\ UNCHANGED <<now, badgeType, redemption, usedTx, redeemed>>
    BY DEF Academy!revoke_badge, Academy!Has
  <1>2. PICK b : b = badge[u]
    OBVIOUS
  <1>3. b \in BadgeRecord
    BY <1>1, <1>2 DEF AcademyInv, BadgeKept
  <1>4. PICK c : c = [b EXCEPT !.active = FALSE]
    OBVIOUS
  <1>5. c \in BadgeRecord /\ c.since = b.since /\ c.redeemed_count = b.redeemed_count /\ c.max_redemptions = b.max_redemptions /\ c.expiry = b.expiry
    BY <1>3, <1>4 DEF BadgeRecord
  <1>6. badge' = [badge EXCEPT ![u] = c]
    BY <1>1, <1>2, <1>4
  <1>7. DOMAIN badge' = DOMAIN badge /\ badge'[u] = c /\ \A v \in DOMAIN badge \ {u} : badge'[v] = badge[v]
    BY <1>1, <1>6
  <1>8. ASSUME NEW v \in DOMAIN badge PROVE BadgeKept(v)'
    <2>1. badge[v] \in BadgeRecord
      BY DEF AcademyInv, BadgeKept
    <2> QED
      BY <1>1, <1>2, <1>5, <1>7, <2>1, BadgeStays
  <1>9. HashesUsed'
    BY <1>1 DEF AcademyInv, HashesUsed
  <1> QED
    BY <1>1, <1>7, <1>8, <1>9 DEF AcademyInv

LEMMA RedeemKeeps ==
  ASSUME AcademyInv, NEW u \in Users, NEW h \in TxHashes, Academy!redeem_badge(u, h)
  PROVE  AcademyInv'
  <1>1. PICK b, n, r, x : /\ b = badge[u] /\ n = Len(redeemed) /\ x = [user |-> u, hash |-> h]
                          /\ r = [type |-> b.type, timestamp |-> now, discount |-> b.discount, hash |-> h]
    OBVIOUS
  <1>2. /\ h \notin usedTx /\ u \in DOMAIN badge /\ Academy!Usable(b) /\ UNCHANGED <<now, badgeType>>
        /\ usedTx' = usedTx \cup {h} /\ redeemed' = Append(redeemed, x)
        /\ badge' = [badge EXCEPT ![u].redeemed_count = @ + 1]
    BY <1>1 DEF Academy!redeem_badge, Academy!Has
  <1>3. redemption' = [k \in DOMAIN redemption \cup {<<u, b.redeemed_count>>} |-> IF k = <<u, b.redeemed_count>> THEN r ELSE redemption[k]]
    BY <1>1 DEF Academy!redeem_badge, Academy!Put
  <1>4. /\ redeemed' \in Seq([user : Users, hash : TxHashes]) /\ Len(redeemed') = n + 1 /\ DOMAIN redeemed' = 1 .. n + 1
        /\ redeemed'[n + 1] = x /\ (\A j \in 1 .. n : redeemed'[j] = redeemed[j]) /\ n \in Nat /\ DOMAIN redeemed = 1 .. n
    <2>1. PICK R : R = [user : Users, hash : TxHashes]
      OBVIOUS
    <2>2. redeemed \in Seq(R) /\ x \in R
      BY <1>1, <2>1 DEF AcademyInv
    <2> QED
      BY <1>1, <1>2, <2>1, <2>2
  <1>5. BadgeKept(u) /\ b \in BadgeRecord /\ b.since \in Nat /\ b.redeemed_count \in Nat /\ b.since <= n
    BY <1>1, <1>2 DEF AcademyInv, BadgeKept, BadgeRecord
  <1>6. PICK c : c = [b EXCEPT !.redeemed_count = @ + 1]
    OBVIOUS
  <1>7. /\ c \in BadgeRecord /\ c.since = b.since /\ c.redeemed_count = b.redeemed_count + 1
        /\ c.max_redemptions = b.max_redemptions /\ c.expiry = b.expiry
    <2>1. c = [type |-> b.type, discount |-> b.discount, earned_at |-> b.earned_at, redeemed_count |-> b.redeemed_count + 1,
               max_redemptions |-> b.max_redemptions, expiry |-> b.expiry, active |-> b.active, since |-> b.since]
      BY <1>5, <1>6 DEF BadgeRecord
    <2>2. /\ b.type \in BadgeTypes /\ b.discount \in Int /\ b.earned_at \in Nat /\ b.redeemed_count + 1 \in Nat
          /\ b.max_redemptions \in Nat /\ b.expiry \in Nat /\ b.active \in BOOLEAN /\ b.since \in Nat
      BY <1>5 DEF BadgeRecord
    <2> QED
      BY <2>1, <2>2 DEF BadgeRecord
  <1>8. DOMAIN badge' = DOMAIN badge /\ badge'[u] = c /\ \A v \in DOMAIN badge \ {u} : badge'[v] = badge[v]
    BY <1>1, <1>2, <1>6
  <1>9. HashesUsed'
    <2>1. x.hash = h
      BY <1>1
    <2>2. \A i \in 1 .. n : redeemed[i].hash \in usedTx /\ redeemed[i].hash # h
      BY <1>2, <1>4 DEF AcademyInv, HashesUsed
    <2>3. \A i \in DOMAIN redeemed' : i \in 1 .. n \/ i = n + 1
      BY <1>4
    <2>4. \A i \in DOMAIN redeemed' : redeemed'[i].hash \in usedTx'
      BY <1>2, <1>4, <2>1, <2>2, <2>3
    <2>5. \A i, j \in DOMAIN redeemed' : redeemed'[i].hash = redeemed'[j].hash => i = j
      BY <1>4, <2>1, <2>2, <2>3 DEF AcademyInv, HashesUsed
    <2> QED
      BY <2>4, <2>5 DEF HashesUsed
  <1>10. PICK S : S = Redeemed(u)
    OBVIOUS
  <1>11. IsFiniteSet(S) /\ S \subseteq 1 .. n /\ Cardinality(S) = b.redeemed_count
    BY <1>1, <1>2, <1>5, <1>10, RedeemedFinite DEF BadgeKept
  <1>12. Redeemed(u)' = S \cup {n + 1} /\ n + 1 \notin S
    <2>1. x.user = u
      BY <1>1
    <2>2. Redeemed(u)' = {j \in b.since + 1 .. n + 1 : redeemed'[j].user = u}
      BY <1>4, <1>7, <1>8 DEF Redeemed
    <2>3. S = {j \in b.since + 1 .. n : redeemed[j].user = u}
      BY <1>1, <1>10 DEF Redeemed
    <2>4. \A j \in b.since + 1 .. n + 1 : j \in b.since + 1 .. n \/ j = n + 1
      BY <1>4, <1>5
    <2>5. n + 1 \in b.since + 1 .. n + 1 /\ \A j \in b.since + 1 .. n : j \in b.since + 1 .. n + 1 /\ j \in 1 .. n /\ j # n + 1
      BY <1>4, <1>5
    <2> QED
      BY <1>4, <2>1, <2>2, <2>3, <2>4, <2>5
  <1>13. ASSUME NEW j \in S PROVE Recorded(u, j)'
    <2>1. Before(u, j)' = Before(u, j) /\ Before(u, j) \subseteq S /\ j \notin Before(u, j) /\ j \in 1 .. n
      BY <1>4, <1>10, <1>11, <1>12, <1>13 DEF Before
    <2>2. Cardinality(Before(u, j)) # b.redeemed_count
      BY <1>11, <1>13, <2>1, FS_Subset
    <2>3. Recorded(u, j)
      BY <1>5, <1>10, <1>13 DEF BadgeKept
    <2>4. PICK k : k = <<u, Cardinality(Before(u, j))>>
      OBVIOUS
    <2>5. k # <<u, b.redeemed_count>>
      BY <2>2, <2>4
    <2>6. k \in DOMAIN redemption /\ redemption[k].hash = redeemed[j].hash /\ (b.expiry > 0 => redemption[k].timestamp <= b.expiry)
      BY <1>1, <2>3, <2>4 DEF Recorded
    <2>7. k \in DOMAIN redemption' /\ redemption'[k] = redemption[k]
      BY <1>3, <2>5, <2>6
    <2>8. redeemed'[j] = redeemed[j] /\ badge'[u].expiry = b.expiry
      BY <1>4, <1>7, <1>8, <2>1
    <2> QED
      BY <2>1, <2>4, <2>6, <2>7, <2>8 DEF Recorded
  <1>14. Recorded(u, n + 1)'
    <2>1. Before(u, n + 1)' = S
      <3>1. \A i \in S : i < n + 1
        BY <1>4, <1>11
      <3>2. ~(n + 1 < n + 1)
        BY <1>4
      <3> QED
        BY <1>12, <3>1, <3>2 DEF Before
    <2>2. PICK k : k = <<u, b.redeemed_count>>
      OBVIOUS
    <2>3. k \in DOMAIN redemption' /\ redemption'[k] = r
      BY <1>3, <2>2
    <2>4. r.hash = h /\ r.timestamp = now /\ redeemed'[n + 1].hash = h
      BY <1>1, <1>4
    <2>5. b.expiry > 0 => now <= b.expiry
      BY <1>2 DEF Academy!Usable
    <2> QED
      BY <1>7, <1>8, <1>11, <2>1, <2>2, <2>3, <2>4, <2>5 DEF Recorded
  <1>15. BadgeKept(u)'
    <2>1. Cardinality(S \cup {n + 1}) = b.redeemed_count + 1
      BY <1>11, <1>12, FS_AddElement
    <2>2. b.max_redemptions > 0 => b.redeemed_count + 1 <= b.max_redemptions
      <3>1. b.max_redemptions \in Nat
        BY <1>5 DEF BadgeRecord
      <3> QED
        BY <1>2, <1>5, <3>1 DEF Academy!Usable
    <2>3. c.since <= Len(redeemed')
      BY <1>4, <1>5, <1>7
    <2> QED
      BY <1>7, <1>8, <1>12, <1>13, <1>14, <2>1, <2>2, <2>3 DEF BadgeKept
  <1>16. ASSUME NEW v \in DOMAIN badge \ {u} PROVE BadgeKept(v)'
    <2>1. BadgeKept(v) /\ badge'[v] = badge[v] /\ badge[v].since \in Nat /\ badge[v].since <= n
      BY <1>1, <1>8 DEF AcademyInv, BadgeKept, BadgeRecord
    <2>2. x.user # v
      BY <1>1
    <2>3. PICK s : s = badge[v].since
      OBVIOUS
    <2>4. Redeemed(v)' = Redeemed(v) /\ Redeemed(v) \subseteq 1 .. n
      <3>1. Redeemed(v)' = {j \in s + 1 .. n + 1 : redeemed'[j].user = v} /\ Redeemed(v) = {j \in s + 1 .. n : redeemed[j].user = v}
        BY <1>1, <1>4, <2>1, <2>3 DEF Redeemed
      <3>2. \A j \in s + 1 .. n + 1 : j \in s + 1 .. n \/ j = n + 1
        BY <1>4, <2>1, <2>3
      <3>3. \A j \in s + 1 .. n : j \in s + 1 .. n + 1 /\ j \in 1 .. n
        BY <1>4, <2>1, <2>3
      <3> QED
        BY <1>4, <2>2, <3>1, <3>2, <3>3
    <2>5. ASSUME NEW j \in Redeemed(v) PROVE Recorded(v, j)'
      <3>1. Recorded(v, j) /\ Before(v, j)' = Before(v, j) /\ j \in 1 .. n
        BY <2>1, <2>4 DEF BadgeKept, Before
      <3>2. PICK k : k = <<v, Cardinality(Before(v, j))>>
        OBVIOUS
      <3>3. k # <<u, b.redeemed_count>>
        BY <3>2
      <3>4. k \in DOMAIN redemption' /\ redemption'[k] = redemption[k]
        BY <1>3, <3>1, <3>2, <3>3 DEF Recorded
      <3>5. redeemed'[j] = redeemed[j]
        BY <1>4, <3>1
      <3> QED
        BY <2>1, <3>1, <3>2, <3>4, <3>5 DEF Recorded
    <2>6. s <= Len(redeemed')
      BY <1>4, <2>1, <2>3
    <2> QED
      BY <2>1, <2>3, <2>4, <2>5, <2>6 DEF BadgeKept
  <1>17. \A v \in DOMAIN badge' : BadgeKept(v)'
    BY <1>8, <1>15, <1>16
  <1> QED
    BY <1>2, <1>4, <1>9, <1>17 DEF AcademyInv

LEMMA AcademyKeeps ==
  ASSUME AcademyConstants, AcademyInv, Academy!AcademyNext
  PROVE  AcademyInv'
  <1>0. \A t \in DOMAIN badgeType : badgeType[t] \in BadgeTerms
    BY DEF AcademyInv
  <1>1. ASSUME NEW t \in BadgeTypes, NEW terms \in BadgeTerms, Academy!create_badge_type(t, terms) PROVE AcademyInv'
    <2>1. \A s \in DOMAIN badgeType' : badgeType'[s] \in BadgeTerms
      BY <1>0, <1>1 DEF Academy!create_badge_type, Academy!Put
    <2> QED
      BY <1>1, <2>1, AcademyQuiet DEF Academy!create_badge_type
  <1>2. ASSUME NEW l, Academy!set_badge_pause_level(l) PROVE AcademyInv'
    BY <1>0, <1>2, AcademyQuiet DEF Academy!set_badge_pause_level
  <1>3. ASSUME NEW f, Academy!pause_badge_function(f) \/ Academy!unpause_badge_function(f) PROVE AcademyInv'
    BY <1>0, <1>3, AcademyQuiet DEF Academy!pause_badge_function, Academy!unpause_badge_function
  <1>4. ASSUME Academy!CloseLedger /\ UNCHANGED Academy!academyVars PROVE AcademyInv'
    BY <1>0, <1>4, AcademyQuiet DEF Academy!CloseLedger, Academy!academyVars
  <1> QED
    BY <1>1, <1>2, <1>3, <1>4, MintBadgeKeeps, RevokeBadgeKeeps, RedeemKeeps DEF Academy!AcademyNext

-----------------------------------------------------------------------------
\* The bridge's limit.
DepositRecord == [amount : Nat, at : Nat]
LimitRecord == [limit : Nat, current_usage : Nat, last_update : Nat]
After(D, t) == {i \in DOMAIN D : D[i].at >= t}
Within(D, s, t) == {i \in DOMAIN D : D[i].at >= s /\ D[i].at < t}
Amount(D, S) == FieldSum(D, "amount", S)
\* The present window has the usage that is recorded, the one before it kept
\* within the limit, and nothing is later than the present window.
Tracked(D, r) ==
  /\ \A i \in DOMAIN D : D[i].at < r.last_update + BridgeWindow
  /\ r.current_usage = Amount(D, After(D, r.last_update)) /\ r.current_usage <= r.limit
  /\ \A s \in Int : s + BridgeWindow > r.last_update => Amount(D, Within(D, s, r.last_update)) <= r.limit
SpansWithin(D, r) == \A s \in Int : Amount(D, Within(D, s, s + BridgeWindow)) <= 2 * r.limit
LimitTyped(D, r, t) ==
  /\ D \in Seq(DepositRecord) /\ r \in LimitRecord /\ r.last_update <= t
  /\ \A i \in DOMAIN D : D[i].at <= t
LimitKept(D, r, t) == LimitTyped(D, r, t) /\ (BridgeWindow > 0 => Tracked(D, r)) /\ SpansWithin(D, r)

\* E agrees with D on the places of S, and has the amount n at another place y.
AddsTo(D, E, S, y, n) ==
  /\ IsFiniteSet(S) /\ S \subseteq DOMAIN D /\ S \subseteq DOMAIN E /\ y \in DOMAIN E /\ y \notin S
  /\ n \in Nat /\ E[y]["amount"] = n
  /\ \A i \in S : D[i]["amount"] = E[i]["amount"] /\ D[i]["amount"] \in Nat

LEMMA AmountAdded ==
  ASSUME NEW D, NEW E, NEW S, NEW y, NEW n, AddsTo(D, E, S, y, n)
  PROVE  Amount(E, S) = Amount(D, S) /\ Amount(E, S \cup {y}) = Amount(D, S) + n /\ Amount(D, S) \in Nat
  <1> USE DEF AddsTo
  <1>1. PICK f : f = "amount"
    OBVIOUS
  <1>2. (\A i \in S : D[i][f] = E[i][f]) /\ (\A i \in S : D[i][f] \in Nat) /\ (\A i \in S : D[i][f] = E[i][f] /\ D[i][f] \in Int)
    BY <1>1
  <1>3. E[y][f] = n /\ E[y][f] \in Int
    BY <1>1
  <1>4. FieldSum(D, f, S) = FieldSum(E, f, S)
    BY <1>2, FieldSumAgrees
  <1>5. FieldSum(D, f, S) \in Nat
    BY <1>2, FieldSumNatural
  <1>6. FieldSum(E, f, S \cup {y}) = FieldSum(D, f, S) + E[y][f]
    BY <1>2, <1>3, FieldSumAdd
  <1> QED
    BY <1>1, <1>3, <1>4, <1>5, <1>6 DEF Amount

LEMMA NewLimit ==
  ASSUME NaturalFlow, NEW l \in Nat, NEW t \in Nat
  PROVE  LimitKept(<<>>, [limit |-> l, current_usage |-> 0, last_update |-> t], t)
  <1>1. PICK D, r : D = <<>> /\ r = [limit |-> l, current_usage |-> 0, last_update |-> t]
    OBVIOUS
  <1>2. DOMAIN D = {} /\ D \in Seq(DepositRecord) /\ r \in LimitRecord /\ r.limit = l /\ r.current_usage = 0 /\ r.last_update = t
    BY <1>1 DEF LimitRecord
  <1>3. \A s, u : Within(D, s, u) = {} /\ After(D, s) = {}
    BY <1>2 DEF Within, After
  <1>4. Amount(D, {}) = 0
    BY FieldSumEmpty DEF Amount
  <1>5. Tracked(D, r)
    <2>1. ASSUME NEW s \in Int PROVE Amount(D, Within(D, s, r.last_update)) <= r.limit
      <3>1. Amount(D, Within(D, s, r.last_update)) = 0
        BY <1>3, <1>4
      <3> QED
        BY <1>2, <3>1
    <2>2. Amount(D, After(D, r.last_update)) = 0
      BY <1>3, <1>4
    <2>3. r.current_usage <= r.limit
      BY <1>2
    <2> QED
      BY <1>2, <2>1, <2>2, <2>3 DEF Tracked
  <1>6. SpansWithin(D, r)
    <2>1. ASSUME NEW s \in Int PROVE Amount(D, Within(D, s, s + BridgeWindow)) <= 2 * r.limit
      <3>1. Amount(D, Within(D, s, s + BridgeWindow)) = 0
        BY <1>3, <1>4
      <3> QED
        BY <1>2, <3>1
    <2> QED
      BY <2>1 DEF SpansWithin
  <1> QED
    BY <1>1, <1>2, <1>5, <1>6 DEF LimitKept, LimitTyped

LEMMA LaterLimit ==
  ASSUME NEW D, NEW r, NEW t \in Nat, LimitKept(D, r, t)
  PROVE  LimitKept(D, r, t + 1)
  <1>1. D \in Seq(DepositRecord) /\ r \in LimitRecord /\ r.last_update <= t /\ r.last_update \in Nat
    BY DEF LimitKept, LimitTyped, LimitRecord
  <1>2. ASSUME NEW i \in DOMAIN D PROVE D[i].at <= t /\ D[i].at \in Nat
    <2>1. PICK R : R = DepositRecord
      OBVIOUS
    <2>2. D[i] \in R
      BY <1>1, <2>1
    <2> QED
      BY <2>1, <2>2 DEF LimitKept, LimitTyped, DepositRecord
  <1>3. LimitTyped(D, r, t + 1)
    BY <1>1, <1>2 DEF LimitTyped
  <1> QED
    BY <1>3 DEF LimitKept

\* A deposit that the limit admits.
LEMMA DepositWithin ==
  ASSUME NaturalFlow, NEW D, NEW r, NEW t \in Nat, LimitKept(D, r, t), NEW n \in Nat, NEW used, NEW lu, NEW E, NEW q,
         \/ t >= r.last_update + BridgeWindow /\ used = 0 /\ lu = t
         \/ ~(t >= r.last_update + BridgeWindow) /\ used = r.current_usage /\ lu = r.last_update,
         used + n <= r.limit,
         E = Append(D, [amount |-> n, at |-> t]),
         q = [limit |-> r.limit, current_usage |-> used + n, last_update |-> lu]
  PROVE  LimitKept(E, q, t)
  <1> USE DEF NaturalFlow
  <1>1. PICK m, x, W : m = Len(D) /\ x = [amount |-> n, at |-> t] /\ W = BridgeWindow
    OBVIOUS
  <1>2. D \in Seq(DepositRecord) /\ m \in Nat /\ DOMAIN D = 1 .. m /\ x \in DepositRecord /\ W \in Nat
    BY <1>1 DEF LimitKept, LimitTyped, DepositRecord
  <1>3. /\ E \in Seq(DepositRecord) /\ DOMAIN E = DOMAIN D \cup {m + 1} /\ m + 1 \notin DOMAIN D
        /\ E[m + 1] = x /\ \A i \in DOMAIN D : E[i] = D[i]
    <2>1. PICK R : R = DepositRecord
      OBVIOUS
    <2>2. D \in Seq(R) /\ x \in R
      BY <1>2, <2>1
    <2> QED
      BY <1>1, <1>2, <2>1, <2>2
  <1>4. x.at = t /\ x["amount"] = n
    BY <1>1
  <1>5. IsFiniteSet(DOMAIN D) /\ IsFiniteSet(DOMAIN E)
    <2>1. IsFiniteSet(DOMAIN D)
      BY <1>2, FS_Interval
    <2> QED
      BY <1>3, <2>1, FS_AddElement
  <1>6. ASSUME NEW i \in DOMAIN D PROVE D[i].at \in Nat /\ D[i].at <= t /\ D[i]["amount"] \in Nat
    <2>1. PICK R : R = DepositRecord
      OBVIOUS
    <2>2. D[i] \in R
      BY <1>2, <2>1
    <2> QED
      BY <2>1, <2>2 DEF LimitKept, LimitTyped, DepositRecord
  <1>7. \A i \in DOMAIN E : E[i].at \in Nat /\ E[i].at <= t /\ E[i]["amount"] \in Nat
    BY <1>3, <1>4, <1>6
  <1>8. r \in LimitRecord /\ r.last_update \in Nat /\ r.current_usage \in Nat /\ r.limit \in Nat /\ r.last_update <= t
    BY DEF LimitKept, LimitTyped, LimitRecord
  <1>9. used \in Nat /\ lu \in Nat /\ lu <= t /\ r.last_update <= lu
    BY <1>2, <1>8
  <1>10. q \in LimitRecord /\ q.limit = r.limit /\ q.current_usage = used + n /\ q.last_update = lu
    BY <1>8, <1>9 DEF LimitRecord
  <1>11. LimitTyped(E, q, t)
    BY <1>3, <1>7, <1>9, <1>10 DEF LimitTyped
  <1>12. ASSUME NEW S \in SUBSET DOMAIN D
         PROVE  Amount(E, S) = Amount(D, S) /\ Amount(E, S \cup {m + 1}) = Amount(D, S) + n /\ Amount(D, S) \in Nat
    <2>1. IsFiniteSet(S)
      BY <1>5, FS_Subset
    <2>2. AddsTo(D, E, S, m + 1, n)
      BY <1>3, <1>4, <1>6, <2>1 DEF AddsTo
    <2> QED
      BY <2>2, AmountAdded
  <1>13. ASSUME NEW s PROVE Within(E, s, lu) = Within(D, s, lu) /\ Within(D, s, lu) \subseteq DOMAIN D
    <2>1. ~(t < lu)
      BY <1>9
    <2> QED
      BY <1>3, <1>4, <2>1 DEF Within
  <1>14. CASE W > 0
    <2>1. Tracked(D, r)
      BY <1>1, <1>14 DEF LimitKept
    <2>2. ASSUME NEW i \in DOMAIN E PROVE E[i].at < lu + W
      <3>1. CASE t >= r.last_update + W
        <4>1. lu = t
          BY <1>1, <3>1
        <4> QED
          BY <1>2, <1>7, <1>14, <2>2, <4>1
      <3>2. CASE ~(t >= r.last_update + W)
        <4>1. lu = r.last_update
          BY <1>1, <3>2
        <4> QED
          BY <1>2, <1>7, <1>8, <2>2, <3>2, <4>1
      <3> QED
        BY <3>1, <3>2
    <2>3. After(E, lu) = After(D, lu) \cup {m + 1} /\ After(D, lu) \subseteq DOMAIN D
      BY <1>3, <1>4, <1>9 DEF After
    <2>4. Amount(D, After(D, lu)) = used
      <3>1. CASE t >= r.last_update + W
        <4>1. lu = t /\ used = 0
          BY <1>1, <3>1
        <4>2. \A i \in DOMAIN D : D[i].at < r.last_update + W
          BY <1>1, <2>1 DEF Tracked
        <4>3. \A i \in DOMAIN D : ~(D[i].at >= lu)
          BY <1>2, <1>6, <1>8, <3>1, <4>1, <4>2
        <4>4. After(D, lu) = {}
          BY <4>3 DEF After
        <4> QED
          BY <4>1, <4>4, FieldSumEmpty DEF Amount
      <3>2. CASE ~(t >= r.last_update + W)
        <4>1. lu = r.last_update /\ used = r.current_usage
          BY <1>1, <3>2
        <4> QED
          BY <2>1, <4>1 DEF Tracked
      <3> QED
        BY <3>1, <3>2
    <2>5. Amount(E, After(E, lu)) = used + n
      BY <1>12, <2>3, <2>4
    <2>6. ASSUME NEW s \in Int, s + W > lu PROVE Amount(E, Within(E, s, lu)) <= r.limit
      <3>1. Amount(E, Within(E, s, lu)) = Amount(D, Within(D, s, lu))
        BY <1>12, <1>13
      <3>2. CASE t >= r.last_update + W
        <4>1. lu = t /\ s > r.last_update
          BY <1>1, <1>2, <1>8, <2>6, <3>2
        <4>2. PICK A : A = After(D, r.last_update)
          OBVIOUS
        <4>3. A \subseteq DOMAIN D /\ Within(D, s, lu) \subseteq A
          <5>1. \A i \in DOMAIN D : D[i].at >= s => D[i].at >= r.last_update
            BY <1>6, <1>8, <2>6, <4>1
          <5> QED
            BY <4>2, <5>1 DEF After, Within
        <4>4. Amount(D, Within(D, s, lu)) <= Amount(D, A)
          BY <1>5, <1>6, <4>3, SumWithin DEF Amount
        <4>5. Amount(D, A) = r.current_usage /\ r.current_usage <= r.limit
          BY <2>1, <4>2 DEF Tracked
        <4>6. Amount(D, Within(D, s, lu)) \in Nat
          BY <1>12, <1>13
        <4> QED
          BY <1>8, <3>1, <4>4, <4>5, <4>6
      <3>3. CASE ~(t >= r.last_update + W)
        <4>1. lu = r.last_update
          BY <1>1, <3>3
        <4>2. Amount(D, Within(D, s, r.last_update)) <= r.limit
          BY <1>1, <2>1, <2>6, <4>1 DEF Tracked
        <4> QED
          BY <3>1, <4>1, <4>2
      <3> QED
        BY <3>2, <3>3
    <2>7. Tracked(E, q)
      BY <1>1, <1>10, <2>2, <2>5, <2>6 DEF Tracked
    <2>8. ASSUME NEW s \in Int PROVE Amount(E, Within(E, s, s + W)) <= 2 * r.limit
      <3>1. CASE s + W > lu
        <4>1. PICK S, A, B : S = Within(E, s, s + W) /\ A = Within(E, s, lu) /\ B = After(E, lu)
          OBVIOUS
        <4>2. A \subseteq DOMAIN E /\ B \subseteq DOMAIN E /\ S \subseteq A \cup B
          <5>1. \A i \in DOMAIN E : E[i].at < lu \/ E[i].at >= lu
            BY <1>7, <1>9
          <5> QED
            BY <4>1, <5>1 DEF Within, After
        <4>3. Amount(E, S) <= Amount(E, A) + Amount(E, B)
          BY <1>5, <1>7, <4>2, SumCovered DEF Amount
        <4>4. Amount(E, A) <= r.limit /\ Amount(E, B) = used + n /\ used + n <= r.limit
          BY <2>5, <2>6, <2>8, <3>1, <4>1
        <4>5. Amount(E, A) \in Nat
          BY <1>12, <1>13, <4>1
        <4>6. Amount(E, S) \in Nat
          <5>1. IsFiniteSet(S) /\ S \subseteq DOMAIN E /\ \A i \in S : E[i]["amount"] \in Nat
            BY <1>5, <1>7, <4>1, FS_Subset DEF Within
          <5> QED
            BY <5>1, FieldSumNatural DEF Amount
        <4> QED
          BY <1>8, <1>9, <4>1, <4>3, <4>4, <4>5, <4>6
      <3>2. CASE ~(s + W > lu)
        <4>1. ~(t < s + W)
          BY <1>2, <1>9, <2>8, <3>2
        <4>2. Within(E, s, s + W) = Within(D, s, s + W) /\ Within(D, s, s + W) \subseteq DOMAIN D
          BY <1>3, <1>4, <4>1 DEF Within
        <4>3. Amount(D, Within(D, s, s + W)) <= 2 * r.limit
          BY <1>1, <2>8 DEF LimitKept, SpansWithin
        <4> QED
          BY <1>12, <4>2, <4>3
      <3> QED
        BY <3>1, <3>2
    <2>9. SpansWithin(E, q)
      BY <1>1, <1>10, <2>8 DEF SpansWithin
    <2> QED
      BY <1>11, <2>7, <2>9 DEF LimitKept
  <1>15. CASE W = 0
    <2>1. ASSUME NEW s \in Int PROVE Within(E, s, s + W) = {}
      <3>1. \A i \in DOMAIN E : ~(E[i].at >= s /\ E[i].at < s + W)
        BY <1>7, <1>15, <2>1
      <3> QED
        BY <3>1 DEF Within
    <2>2. Amount(E, {}) = 0
      BY FieldSumEmpty DEF Amount
    <2>3. ASSUME NEW s \in Int PROVE Amount(E, Within(E, s, s + BridgeWindow)) <= 2 * q.limit
      <3>1. Amount(E, Within(E, s, s + BridgeWindow)) = 0
        BY <1>1, <2>1, <2>2
      <3> QED
        BY <1>8, <1>10, <3>1
    <2>4. SpansWithin(E, q)
      BY <2>3 DEF SpansWithin
    <2> QED
      BY <1>1, <1>11, <1>15, <2>4 DEF LimitKept
  <1> QED
    BY <1>2, <1>14, <1>15

-----------------------------------------------------------------------------
FlowInv ==
  /\ now \in Nat /\ DOMAIN rl \subseteq Assets /\ DOMAIN deposited = Assets
  /\ \A a \in DOMAIN rl : LimitKept(deposited[a], rl[a], now)

LEMMA FlowBegins ==
  ASSUME CrossChainInit
  PROVE  DOMAIN rl = {} /\ (now \in Nat => FlowInv)
  <1>1. DOMAIN rl = {} /\ DOMAIN deposited = Assets
    BY DEF CrossChainInit, Empty
  <1> QED
    BY <1>1 DEF FlowInv

LEMMA FlowHolds ==
  ASSUME FlowInv
  PROVE  FlowBounded
  <1>1. ASSUME NEW a \in DOMAIN rl, NEW s \in Time
        PROVE  SumOver({i \in DOMAIN deposited[a] : deposited[a][i].at >= s /\ deposited[a][i].at < s + BridgeWindow},
                       LAMBDA i : deposited[a][i].amount) <= 2 * rl[a].limit
    <2>1. PICK D : D = deposited[a]
      OBVIOUS
    <2>2. s \in Int
      BY LedgerAssumption DEF Time
    <2>3. Amount(D, Within(D, s, s + BridgeWindow)) <= 2 * rl[a].limit
      BY <2>1, <2>2 DEF FlowInv, LimitKept, SpansWithin
    <2>4. SumOver({i \in DOMAIN D : D[i].at >= s /\ D[i].at < s + BridgeWindow}, LAMBDA i : D[i].amount)
            = Amount(D, Within(D, s, s + BridgeWindow))
      BY DEF SumOver, Amount, Within, FieldSum
    <2> QED
      BY <2>1, <2>3, <2>4
  <1> QED
    BY <1>1 DEF FlowBounded

LEMMA FlowKeeps ==
  ASSUME NaturalFlow, FlowInv, BridgeNext
  PROVE  FlowInv'
  <1>1. ASSUME UNCHANGED <<rl, deposited>>, now' \in {now, now + 1} PROVE FlowInv'
    <2>1. ASSUME NEW a \in DOMAIN rl PROVE LimitKept(deposited[a], rl[a], now')
      BY LaterLimit, <1>1 DEF FlowInv
    <2> QED
      BY <1>1, <2>1 DEF FlowInv
  <1>2. ASSUME NEW a \in Assets, NEW n \in BridgeAmounts, deposit(a, n) PROVE FlowInv'
    <2>1. CASE ~Has(rl, a)
      BY <1>1, <1>2, <2>1 DEF deposit, check_rate_limit
    <2>2. CASE Has(rl, a)
      <3>1. PICK r, D, lu, used : /\ r = rl[a] /\ D = deposited[a]
                                  /\ lu = (IF now >= r.last_update + BridgeWindow THEN now ELSE r.last_update)
                                  /\ used = (IF now >= r.last_update + BridgeWindow THEN 0 ELSE r.current_usage)
        OBVIOUS
      <3>2. a \in DOMAIN rl /\ a \in DOMAIN deposited /\ LimitKept(D, r, now) /\ now \in Nat /\ n \in Nat /\ now' = now /\ r \in LimitRecord
        BY <1>2, <2>2, <3>1 DEF Has, FlowInv, NaturalFlow, LimitKept, LimitTyped, deposit
      <3>3. PICK E, q : E = Append(D, [amount |-> n, at |-> now]) /\ q = [limit |-> r.limit, current_usage |-> used + n, last_update |-> lu]
        OBVIOUS
      <3>4. used + n <= r.limit /\ rl' = [rl EXCEPT ![a] = q]
        BY <1>2, <2>2, <3>1, <3>3 DEF deposit, check_rate_limit
      <3>5. deposited' = [deposited EXCEPT ![a] = E]
        BY <1>2, <2>2, <3>1, <3>3 DEF deposit
      <3>6. \/ now >= r.last_update + BridgeWindow /\ used = 0 /\ lu = now
            \/ ~(now >= r.last_update + BridgeWindow) /\ used = r.current_usage /\ lu = r.last_update
        BY <3>1
      <3>7. LimitKept(E, q, now)
        BY <3>2, <3>3, <3>4, <3>6, DepositWithin
      <3>8. ASSUME NEW b \in DOMAIN rl' PROVE LimitKept(deposited'[b], rl'[b], now')
        BY <3>2, <3>4, <3>5, <3>7 DEF FlowInv
      <3> QED
        BY <3>2, <3>4, <3>5, <3>8 DEF FlowInv
    <2> QED
      BY <2>1, <2>2
  <1>3. ASSUME NEW a \in Assets, NEW l \in BridgeLimits, set_rate_limit(a, l) PROVE FlowInv'
    <2>1. PICK q : q = [limit |-> l, current_usage |-> 0, last_update |-> now]
      OBVIOUS
    <2>2. /\ rl' = [b \in DOMAIN rl \cup {a} |-> IF b = a THEN q ELSE rl[b]]
          /\ deposited' = [deposited EXCEPT ![a] = <<>>] /\ now' = now /\ now \in Nat /\ l \in Nat /\ a \in DOMAIN deposited
      BY <1>3, <2>1 DEF set_rate_limit, Put, FlowInv, NaturalFlow
    <2>3. LimitKept(<<>>, q, now)
      BY <2>1, <2>2, NewLimit
    <2>4. ASSUME NEW b \in DOMAIN rl' PROVE LimitKept(deposited'[b], rl'[b], now')
      BY <2>2, <2>3 DEF FlowInv
    <2> QED
      BY <1>3, <2>2, <2>4 DEF FlowInv
  <1>4. ASSUME NEW u, NEW c, NEW n, NEW s, withdraw(u, c, n, s) PROVE FlowInv'
    BY <1>1, <1>4 DEF withdraw
  <1>5. ASSUME NEW v, add_validator(v) \/ remove_validator(v) PROVE FlowInv'
    BY <1>1, <1>5 DEF add_validator, remove_validator
  <1>6. ASSUME NEW p, set_paused(p) PROVE FlowInv'
    BY <1>1, <1>6 DEF set_paused
  <1>7. ASSUME CloseLedger, UNCHANGED crossChainVars PROVE FlowInv'
    BY <1>1, <1>7 DEF CloseLedger, crossChainVars
  <1> QED
    BY <1>2, <1>3, <1>4, <1>5, <1>6, <1>7 DEF BridgeNext
=============================================================================
