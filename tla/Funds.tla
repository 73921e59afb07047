-------------------------------- MODULE Funds --------------------------------
(***************************************************************************)
(* The contracts that hold tokens or hand something out, side by side:     *)
(* staking, liquidity mining, vesting, insurance, synthetic assets, the    *)
(* academy's badges and the bridge (module CrossChain).                    *)
(***************************************************************************)
EXTENDS CrossChain

\* The constants of the contracts, under the names they have there.  Where two
\* contracts use one name for different things, each has one of its own.
CONSTANTS
  StakingTime, YearLength, StakeAmounts, StakeFunds, StakePools,
  MiningTime, PairIds, Emissions, LpAmounts, MiningFunds,
  VestingTime, GrantAmounts, Terms, MinRevokeDelay, RevokeDelays, ClaimBatches,
  MaxBatchClaims, VestingFunds, MaxGrants,
  CoverTime, LiquidityAmounts, Threshold, OracleValues, InsuranceFunds, MaxPolicies, Policies,
  SynthTime, SynthSymbols, SynthAmounts, OraclePrices, PriceUnit, RatioUnit, MinCratio, LiqCratio,
  MaxRatio, MaxSynthMinted,
  AcademyTime, BadgeTypes, MaxDiscount, TxHashes, MaxBadgesMinted, BadgeTerms, BadgeBreaker,
  I128Max, OverflowChecks

VARIABLES
  rewardToken, userStake, stakeBal, rewardBal, accrued, rewarded,
  miningInit, pairs, lpStake, total_lp, locked, lpBal, miningBal, emitted,
  vestingInit, sched, vestingBal, paidFor,
  insuranceInit, paused, riskPool, policy, provided, poolBal,
  synthInit, asset, cdp, registrations, forgotten,
  badge, badgeType, badgesMinted, redemption, usedTx, badgeBreaker, redeemed

stakingVars == <<rewardToken, userStake, stakeBal, rewardBal, accrued, rewarded>>
miningVars == <<miningInit, pairs, lpStake, total_lp, locked, lpBal, miningBal, emitted>>
vestingVars == <<vestingInit, sched, vestingBal, paidFor>>
insuranceVars == <<insuranceInit, paused, riskPool, policy, provided, poolBal>>
synthVars == <<synthInit, asset, cdp, registrations, forgotten>>
academyVars == <<badge, badgeType, badgesMinted, redemption, usedTx, badgeBreaker, redeemed>>

Staking == INSTANCE StakingRewards WITH MaxTime <- StakingTime
Mining == INSTANCE LiquidityMining WITH MaxTime <- MiningTime
Grants == INSTANCE Vesting WITH MaxTime <- VestingTime
Cover == INSTANCE Insurance WITH pool <- riskPool, MaxTime <- CoverTime
Synthetics == INSTANCE SyntheticAssets WITH
  MaxTime <- SynthTime, Assets <- SynthSymbols, MaxMinted <- MaxSynthMinted
Academy == INSTANCE AcademyRewards WITH MaxTime <- AcademyTime, MaxMinted <- MaxBadgesMinted

-----------------------------------------------------------------------------
\* What the types of the code say of the constants: amounts and prices are i128
\* and may be negative until a call refuses them; rates, durations and the
\* funds that exist may not.
StakingConstants ==
  /\ StakeAmounts \subseteq Int /\ StakeFunds \in Nat /\ YearLength \in Nat /\ YearLength > 0
  /\ \A p \in DOMAIN StakePools : StakePools[p].apy_bps \in Nat
MiningConstants == MiningFunds \in Nat /\ LpAmounts \subseteq Int /\ Emissions \subseteq Int
VestingConstants ==
  GrantAmounts \subseteq Int /\ \A t \in Terms : t.start \in Int /\ t.cliff \in Int /\ t.duration \in Int
CoverConstants ==
  /\ LiquidityAmounts \subseteq Int /\ InsuranceFunds \in Nat
  /\ \A p \in Policies : p.coverage \in Int /\ p.premium \in Int /\ p.duration \in Nat
SynthConstants == SynthAmounts \subseteq Int /\ OraclePrices \subseteq Int
AcademyConstants == BadgeTerms \subseteq [discount : Int, max_redemptions : Nat, validity : Nat]

ASSUME FundsAssumption ==
  /\ StakingConstants /\ MiningConstants /\ VestingConstants
  /\ CoverConstants /\ SynthConstants /\ AcademyConstants

\* Two things the code does not see to, which the callers decide: no batch of
\* claims lists a grant twice (batch_claim pays it as often as it is listed),
\* and no deposit over the bridge, and no limit, is negative.
DistinctBatches == \A ids \in ClaimBatches : \A i, j \in DOMAIN ids : ids[i] = ids[j] => i = j
NaturalFlow == BridgeAmounts \subseteq Nat /\ BridgeLimits \subseteq Nat /\ BridgeWindow \in Nat

-----------------------------------------------------------------------------
\* What the contracts owe is there.  The staking contract holds every stake when
\* rewards are another token, the mining contract every LP token it recorded,
\* the insurance pool the coverage of its active policies, and the supply of a
\* synthetic asset is the debt of its positions: no order of deposits,
\* penalties, withdrawals, payouts and liquidations lets one user's exit take
\* what another is owed.
CustodyBacked ==
  /\ Staking!StakesBacked /\ Mining!LpBacked
  /\ Cover!CoverageReserved /\ Synthetics!SupplyIsDebt

\* Nothing is given twice.  No moment of a stake is rewarded twice, a pair emits
\* no more than its rate allows, a grant and a policy pay once, a badge is
\* redeemed within its terms and a transaction once, and deposits over the
\* bridge stay within twice the limit in every span of a window.
GivenOnce ==
  /\ Staking!RewardsEarnedOnce /\ Mining!EmissionsBounded /\ Grants!GrantPaidOnce
  /\ Cover!PolicyPaidOnce /\ Academy!RedemptionsOnRecord
  /\ FlowBounded
=============================================================================
