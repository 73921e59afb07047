SPECIFICATION Spec
CONSTANTS
  t1 = t1
  t2 = t2
  p1 = p1
  Traders = {t1}
  Pairs = {p1}
  Prices = {0, 1, 2}
  Amounts = {0, 1, 2}
  Sides = {"Buy", "Sell"}
  Tifs = {"Gtc", "Ioc", "Fok"}
  Batches <- BookBatches
  MaxBatchSize = 2
  Fees <- PositiveOrNegativeFee
  Wallet = 2
  Funcs = {"trade"}
  RateLimits <- BookLimits
  DefaultRateLimit <- Unlimited
  CbConfigs <- BookBreakers
  Calls = {"create_limit_order", "cancel_order", "batch_trade"}
  I128Max = 15
  OverflowChecks = TRUE
  MaxTime = 0
  MaxOrders = 4
  MaxTrades = 1
INVARIANTS
  TypeOK
  BookMatchesOrders
  NoCrossedBook
  FillConservation
  FillOrKillPrediction
  LedgerBalances
PROPERTY
  PriceTimePriority
CHECK_DEADLOCK FALSE
