SPECIFICATION ContractsSpec
CONSTANTS
  u1 = u1
  u2 = u2
  Users = {u1, u2}
  Self = self
  MaxTime = 3
  k1 = k1
  m1 = m1
  m2 = m2
  s1 = s1
  a1 = a1
  t1 = t1
  t2 = t2
  AclUsers = {"root", "guest"}
  Admin = "root"
  Roles = {"admin", "ops", "aud"}
  Permissions = {"manage_acl"}
  MaxRoleDepth = 2
  Payloads = {"p1", "p2"}
  Proofs = {"r1", "r2"}
  MinValidatorStake = 4
  StakedAmounts = {3, 4}
  SlashPercentages = {50, 150}
  Chains = {1, 2}
  BridgeNonces = {1}
  Assets = {a1}
  BridgeAmounts = {1, 2}
  BridgeLimits = {2}
  BridgeWindow = 2
  ValidatorThreshold = 2
  SignatureCounts = {1, 2}
  MaxMessages = 2
  MaxValidators = 2
  MaxDeposits = 3
  Owners = {u1, u2}
  Required = 2
  DayLength = 1
  WeekLength = 2
  Payments <- TreasuryPayments
  InitialLimits <- DeployedLimits
  LimitSettings <- TreasurySettings
  Receipts = {1}
  MaxBalance = 2
  MaxTransactions = 2
  StakingTime = 2
  YearLength = 5
  StakeAmounts = {0, 5}
  StakeFunds = 10
  StakePools <- StakePoolsDeployed
  MiningTime = 3
  PairIds = {1, 2}
  Emissions = {0, 1}
  LpAmounts = {0, 1}
  MiningFunds = 2
  VestingTime = 4
  GrantAmounts = {0, 2, 3}
  Terms <- GrantTerms
  MinRevokeDelay = 1
  RevokeDelays = {0, 1, 2}
  ClaimBatches <- GrantBatches
  MaxBatchClaims = 2
  VestingFunds = 5
  MaxGrants = 2
  CoverTime = 2
  LiquidityAmounts = {0, 1, 2}
  Threshold = 1
  OracleValues = {0, 1, 2}
  InsuranceFunds = 3
  MaxPolicies = 2
  Policies <- PoliciesOffered
  SynthTime = 2
  SynthSymbols = {"gold"}
  SynthAmounts = {0, 1, 2}
  OraclePrices = {1, 6}
  PriceUnit = 2
  RatioUnit = 2
  MinCratio = 3
  LiqCratio = 2
  MaxRatio = 9
  MaxSynthMinted = 2
  MailTime = 2
  PayloadLens = {0, 1, 5}
  MAX_MESSAGE_LENGTH = 4
  MsgRateLimits <- MessageLimits
  MsgBreaker <- MessageBreaker
  AmmTime = 1
  PoolKeys <- PoolPairs
  Q64 = 10
  TickTable <- PriceTable
  TickStep = 2
  FeeTiers = {5}
  Bps = 20
  MaxPremium = 3
  VolDivisor = 1
  OraclePeriods = 2
  OraclePeriod = 1
  HedgeThreshold = 2
  HedgeRatio = 5
  IlScale = 100
  InitPrices = {10}
  PoolTiers = {5, 6}
  TickRanges <- PositionRanges
  LiqAmounts = {6}
  Removals = {11}
  SwapAmounts = {4}
  AmmFunds = 8
  MaxPositions = 2
  MaxVolume = 3
  MaxGrowth = 2
  AcademyTime = 2
  BadgeTypes = {1}
  MaxDiscount = 10
  TxHashes = {t1, t2}
  MaxBadgesMinted = 2
  BadgeTerms <- TermsOfBadges
  BadgeBreaker <- BreakerOfBadges
  RegistryTime = 2
  Deposits = {1}
  VoteAmounts = {1, 2}
  Period = 1
  MaxListings = 2
  MaxChallenges = 2
  MaxVotes = 3
  IdentityTime = 2
  Keys = {k1}
  MethodIds = {m1, m2}
  ServiceIds = {s1}
  Expiries = {0, 1}
  MaxMethods = 2
  MaxServices = 1
  MaxCredentials = 2
  MaxHubs = 1
  MaxEntries = 1
  MaxPermissions = 1
  MaxDisclosures = 1
  I128Max = 100
  OverflowChecks = FALSE
SYMMETRY Symmetry
CONSTRAINT FewSettings
INVARIANTS CustodyBacked  RecordsAgree AdminKeepsControl NoReplay TreasuryKept
 
CHECK_DEADLOCK FALSE
