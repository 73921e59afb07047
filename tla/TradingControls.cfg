SPECIFICATION Spec
CONSTANTS
  t1 = t1
  t2 = t2
  p1 = p1
  Traders = {t1, t2}
  Pairs = {p1}
  Prices = {1}
  Amounts = {1}
  Sides = {"Buy"}
  Tifs = {"Gtc"}
  Batches <- ControlBatches
  MaxBatchSize = 2
  Fees <- PositiveOrNegativeFee
  Wallet = 3
  Funcs = {"trade"}
  RateLimits <- ControlLimits
  DefaultRateLimit <- SmallLimit
  CbConfigs <- ControlBreakers
  Calls = {"trade", "batch_trade", "create_limit_order", 
           "set_rate_limit_config", "set_premium_user", "set_pause_level",
           "pause_function", "unpause_function"}
  I128Max = 3
  OverflowChecks = TRUE
  MaxTime = 2
  MaxOrders = 1
  MaxTrades = 3
PROPERTIES
  RateLimitHolds
  BreakerArmed
SYMMETRY ControlSymmetry
CHECK_DEADLOCK FALSE
