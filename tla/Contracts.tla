----------------------------- MODULE Contracts ------------------------------
(***************************************************************************)
(* The contracts other than trading, side by side.                         *)
(* They share no storage: the state of one is its own, and the token       *)
(* contracts they call are modelled inside each.  A behaviour is therefore *)
(* a behaviour of one contract, chosen at the start, while the others stay *)
(* as they were deployed.                                                  *)
(***************************************************************************)
EXTENDS ACL, Funds, MultisigTreasury

CONSTANTS
  MailTime, PayloadLens, MAX_MESSAGE_LENGTH, MsgRateLimits, MsgBreaker,
  AmmTime, PoolKeys, Q64, TickTable, TickStep, FeeTiers, Bps, MaxPremium, VolDivisor,
  OraclePeriods, OraclePeriod, HedgeThreshold, HedgeRatio, IlScale, InitPrices, PoolTiers,
  TickRanges, LiqAmounts, Removals, SwapAmounts, AmmFunds, MaxPositions, MaxVolume, MaxGrowth,
  RegistryTime, Deposits, VoteAmounts, Period, MaxListings, MaxChallenges, MaxVotes,
  IdentityTime, Keys, MethodIds, ServiceIds, Expiries, MaxMethods, MaxServices, MaxCredentials,
  MaxHubs, MaxEntries, MaxPermissions, MaxDisclosures

\* The stake of a vote is an integer.
ASSUME RegistryAssumption == VoteAmounts \subseteq Int

VARIABLES
  msgs, inbox, sent, unread, stats, nonces, msgLimit, msgBreaker, enc_keys,
  ammPool, tfee, position, own_pos, pos_cnt, vol_hist, ammPaused, ammBal,
  numbered, L_COUNT, C_COUNT, voteStake,
  didAdmin, dids, did_cnt,
  creds, vc_cnt, revocatn,
  hubs, own_hub, hub_cnt, disclosrs, revokedPerm,
  contract  \* the contract that is called

messagingVars == <<msgs, inbox, sent, unread, stats, nonces, msgLimit, msgBreaker, enc_keys>>
ammVars == <<ammPool, tfee, position, own_pos, pos_cnt, vol_hist, ammPaused, ammBal>>
tcrVars == <<numbered, L_COUNT, C_COUNT, voteStake>>
didVars == <<didAdmin, dids, did_cnt>>
vcVars == <<creds, vc_cnt, revocatn>>
hubVars == <<hubs, own_hub, hub_cnt, disclosrs, revokedPerm>>

Mail == INSTANCE Messaging WITH MaxTime <- MailTime
Amm == INSTANCE AMM WITH pool <- ammPool, MaxTime <- AmmTime
Registry == INSTANCE TCR WITH MaxTime <- RegistryTime
Ids == INSTANCE Identity WITH MaxTime <- IdentityTime

-----------------------------------------------------------------------------
Contracts == {"staking", "mining", "vesting", "insurance", "synthetics",
              "acl", "messaging", "amm", "academy", "router",
              "bridge", "registry", "did", "credentials", "hub", "treasury"}

contractVars ==
  <<now, contract, stakingVars, miningVars, vestingVars, insuranceVars,
    synthVars, aclVars, messagingVars, ammVars,
    academyVars, routerVars, bridgeVars, tcrVars,
    didVars, vcVars, hubVars, treasuryVars>>

ContractsInit ==
  /\ now = 0 /\ contract \in Contracts
  /\ Staking!StakingInit /\ Mining!MiningInit /\ Grants!VestingInit /\ Cover!InsuranceInit
  /\ Synthetics!SynthInit /\ AclInit /\ Mail!MessagingInit /\ Amm!AmmInit
  /\ Academy!AcademyInit /\ CrossChainInit /\ Registry!TcrInit /\ Ids!IdentityInit
  /\ TreasuryInit

\* What a call of one contract leaves alone.
OthersUnchanged ==
  /\ UNCHANGED contract
  /\ contract # "staking" => UNCHANGED stakingVars
  /\ contract # "mining" => UNCHANGED miningVars
  /\ contract # "vesting" => UNCHANGED vestingVars
  /\ contract # "insurance" => UNCHANGED insuranceVars
  /\ contract # "synthetics" => UNCHANGED synthVars
  /\ contract # "acl" => UNCHANGED aclVars
  /\ contract # "messaging" => UNCHANGED messagingVars
  /\ contract # "amm" => UNCHANGED ammVars
  /\ contract # "academy" => UNCHANGED academyVars
  /\ contract # "router" => UNCHANGED routerVars
  /\ contract # "bridge" => UNCHANGED bridgeVars
  /\ contract # "registry" => UNCHANGED tcrVars
  /\ contract # "did" => UNCHANGED didVars
  /\ contract # "credentials" => UNCHANGED vcVars
  /\ contract # "hub" => UNCHANGED hubVars
  /\ contract # "treasury" => UNCHANGED treasuryVars

ContractsNext ==
  \/ contract = "staking" /\ Staking!StakingNext /\ OthersUnchanged
  \/ contract = "mining" /\ Mining!MiningNext /\ OthersUnchanged
  \/ contract = "vesting" /\ Grants!VestingNext /\ OthersUnchanged
  \/ contract = "insurance" /\ Cover!InsuranceNext /\ OthersUnchanged
  \/ contract = "synthetics" /\ Synthetics!SynthNext /\ OthersUnchanged
  \/ contract = "acl" /\ AclNext /\ OthersUnchanged
  \/ contract = "messaging" /\ Mail!MessagingNext /\ OthersUnchanged
  \/ contract = "amm" /\ Amm!AmmNext /\ OthersUnchanged
  \/ contract = "academy" /\ Academy!AcademyNext /\ OthersUnchanged
  \/ contract = "router" /\ RouterNext /\ OthersUnchanged
  \/ contract = "bridge" /\ BridgeNext /\ OthersUnchanged
  \/ contract = "registry" /\ Registry!TcrNext /\ OthersUnchanged
  \/ contract = "did" /\ Ids!DidNext /\ OthersUnchanged
  \/ contract = "credentials" /\ Ids!VcNext /\ OthersUnchanged
  \/ contract = "hub" /\ Ids!HubNext /\ OthersUnchanged
  \/ contract = "treasury" /\ TreasuryNext /\ OthersUnchanged

ContractsSpec == ContractsInit /\ [][ContractsNext]_contractVars

-----------------------------------------------------------------------------
\* Two records of one fact agree: the AMM's owner index and its positions, the
\* registry's tallies and the stakes behind them, the message counters, the
\* listings and the order of ids, a DID document's methods and the methods it
\* authenticates with.
RecordsAgree ==
  /\ Amm!PositionsIndexed /\ Registry!VotesAreStakes
  /\ Mail!MailboxesAgree /\ Mail!IdsFollowTime
  /\ Ids!AuthenticationFollowsMethods

\* No step of the AMM moves the price of a pool by more than one tick, although
\* the tick is recomputed from the price by a rounding interpolation.
OneTickPerSwap == [][Amm!OneTickPerSwap]_contractVars
=============================================================================
