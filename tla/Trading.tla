------------------------------ MODULE Trading ------------------------------
(***************************************************************************)
(* The trading contract (Contracts/contracts/trading/src/lib.rs): direct   *)
(* and batch trades, limit orders, and the administrator's controls, over  *)
(* the order book, the rate limiter and the circuit breaker.               *)
(*                                                                         *)
(* A Soroban invocation that returns an error or panics is rolled back, so *)
(* a call is one atomic step whose guard is the conjunction of all its     *)
(* checks, and a refused call is not a step.  Administrator calls are made *)
(* by an account that passes the permission check.                         *)
(***************************************************************************)
EXTENDS OrderBook, RateLimiter, CircuitBreaker

CONSTANTS
  Pairs,         \* trading pairs
  Prices,        \* prices a caller may pass
  Amounts,       \* amounts a caller may pass
  Sides,         \* sides a caller may pass; is_buy is side = "Buy"
  Tifs,          \* times in force a caller may pass
  Batches,       \* order vectors a caller may pass to batch_trade
  MaxBatchSize,  \* MAX_BATCH_SIZE
  Fees,          \* fees per trade a caller may pass
  Wallet,        \* what each trader holds of the fee token at the start
  Funcs,         \* function names an administrator may pause
  RateLimits,    \* rate-limit settings an administrator may pass
  DefaultRateLimit, \* the setting init stores
  CbConfigs,     \* breaker settings init may be given
  Calls,         \* bound: the entry points that are called
  MaxOrders,     \* bound: orders created
  MaxTrades      \* bound: trades recorded before a call

ASSUME TradingAssumption ==
  /\ Prices \subseteq Int /\ Amounts \subseteq Int /\ Fees \subseteq Int
  /\ Sides \subseteq OrderSide /\ Tifs \subseteq TimeInForce
  /\ Batches \subseteq Seq([pair : Pairs, amount : Int, price : Int, is_buy : BOOLEAN])
  /\ {MaxBatchSize, Wallet, MaxOrders, MaxTrades} \subseteq Nat
  /\ RateLimits \subseteq [window_secs : Nat, user_limit : Nat, global_limit : Nat,
                           premium_user_limit : Nat]
  /\ DefaultRateLimit \in RateLimits
  /\ CbConfigs # {}
  /\ CbConfigs \subseteq [max_volume_per_period : Int, max_tx_count_per_period : Nat,
                          period_duration : Nat]

VARIABLES
  now,           \* env.ledger().timestamp()
  initialized,   \* storage key INIT
  rl_cfg,        \* storage key RL_CFG
  premium,       \* storage key PREM: the users mapped to true
  usage,         \* storage keys "rlu" and "rlg"
  cb_config,     \* storage key "cb_config"
  cb_state,      \* storage key "cb_state"
  paused_funcs,  \* storage key "cb_p_fns"
  orders,        \* storage keys ("order", id), ids 1 .. ORDER_COUNT
  obook,         \* storage keys ("obook", pair, side)
  trades,        \* storage keys ("trade", id), ids 1 .. TRADE_COUNT
  stats,         \* storage key STATS
  wallet,        \* the traders' balances in the fee token's contract
  matched,       \* the OrderMatched events
  admitted       \* history: the calls admitted since the rate limit was set

controls == <<rl_cfg, premium, cb_config, paused_funcs>>
vars == <<now, initialized, controls, usage, cb_state, orders, obook, trades,
          stats, wallet, matched, admitted>>

-----------------------------------------------------------------------------
TypeOK ==
  /\ now \in 0 .. MaxTime
  /\ initialized \in BOOLEAN
  /\ rl_cfg \in RateLimits
  /\ premium \subseteq Traders
  /\ usage.user \in [Traders -> [0 .. MaxTime -> Nat]]
  /\ usage.global \in [0 .. MaxTime -> Nat]
  /\ cb_config \in CbConfigs
  /\ cb_state.pause_level \in PauseLevel
  /\ cb_state.current_period_start \in 0 .. MaxTime
  /\ cb_state.last_trigger_timestamp \in 0 .. MaxTime
  /\ paused_funcs \subseteq Funcs
  /\ \A i \in DOMAIN orders :
       /\ orders[i].owner \in Traders /\ orders[i].pair \in Pairs
       /\ orders[i].status \in OrderStatus
       /\ orders[i].remaining \in 0 .. orders[i].amount
       /\ orders[i].timestamp \in 0 .. now
  /\ \A p \in Pairs, side \in OrderSide : ToSet(obook[p][side]) \subseteq DOMAIN orders
  /\ \A i \in DOMAIN trades : trades[i].timestamp \in 0 .. now
  /\ wallet \in [Traders -> 0 .. Wallet]

-----------------------------------------------------------------------------
(* Before init the rate limit reads as unlimited and the breaker as not    *)
(* paused, but no call that looks at them gets past require_initialized.   *)

Init ==
  /\ now = 0
  /\ initialized = FALSE
  /\ rl_cfg = DefaultRateLimit
  /\ premium = {}
  /\ usage = NoUsage
  /\ cb_config = CHOOSE config \in CbConfigs : TRUE
  /\ cb_state = cb_init(0)
  /\ paused_funcs = {}
  /\ orders = <<>>
  /\ obook = [p \in Pairs |-> [side \in OrderSide |-> <<>>]]
  /\ trades = <<>>
  /\ stats = [total_trades |-> 0, total_volume |-> 0]
  /\ wallet = [t \in Traders |-> Wallet]
  /\ matched = <<>>
  /\ admitted = <<>>

Tick ==
  /\ now < MaxTime
  /\ now' = now + 1
  /\ UNCHANGED <<initialized, controls, usage, cb_state, orders, obook, trades,
                 stats, wallet, matched, admitted>>

init(config) ==
  /\ ~ initialized
  /\ initialized' = TRUE
  /\ rl_cfg' = DefaultRateLimit
  /\ premium' = {}
  /\ cb_config' = config
  /\ cb_state' = cb_init(now)
  /\ stats' = [total_trades |-> 0, total_volume |-> 0]
  /\ UNCHANGED <<now, paused_funcs, usage, orders, obook, trades, wallet,
                 matched, admitted>>

-----------------------------------------------------------------------------
(* Trades                                                                  *)

\* What every trading call passes first: ensure_tradeable.
Admit(trader) ==
  /\ initialized
  /\ WithinRateLimit(rl_cfg, premium, usage, now, trader)
  /\ usage' = Consume(rl_cfg, usage, now, trader)
  /\ require_trade_not_paused(cb_state, paused_funcs, "trade")

Logged(trader) == admitted' = Append(admitted, [trader |-> trader, time |-> now])

\* A direct trade, or one side of a match.  "via" is history: who recorded it.
TradeRecord(trader, pair, amount, price, is_buy, via) ==
  [ trader |-> trader, pair |-> pair, price |-> price, timestamp |-> now,
    signed_amount |-> IF is_buy THEN amount ELSE -amount, via |-> via ]

\* A bug this module must not have: only one side of a match counts as volume.
Volume_once(records) ==
  MapThenSumSet(LAMBDA i : IF records[i].signed_amount > 0 THEN records[i].signed_amount
                           ELSE 0, DOMAIN records)

\* The amounts of some trades; what a trade adds to the volume is its amount
\* whatever its direction.
Volume(records) ==
  MapThenSumSet(LAMBDA i : IF records[i].signed_amount > 0 THEN records[i].signed_amount
                           ELSE -records[i].signed_amount, DOMAIN records)

\* record_trade for each record in turn.
RecordTrades(records) ==
  /\ PlusSurvives(stats.total_volume, Volume(records))
  /\ trades' = trades \o records
  /\ stats' = [ total_trades |-> stats.total_trades + Len(records),
                total_volume |-> Plus(stats.total_volume, Volume(records)) ]

\* FeeManager::collect_fee: a negative fee is an error, a transfer beyond the
\* balance panics.  The recipient's balance is not kept.
collect_fee(trader, fee, count) ==
  /\ fee >= 0 /\ fee * count <= wallet[trader]
  /\ wallet' = [wallet EXCEPT ![trader] = @ - fee * count]

trade(trader, pair, amount, price, is_buy, fee) ==
  /\ "trade" \in Calls /\ Len(trades) < MaxTrades
  /\ amount > 0 /\ price > 0
  /\ Admit(trader) /\ Logged(trader)
  /\ track_survives(cb_state, cb_config, now, amount)
  /\ cb_state' = track_activity(cb_state, cb_config, now, amount)
  /\ collect_fee(trader, fee, 1)
  /\ RecordTrades(<<TradeRecord(trader, pair, amount, price, is_buy, "trade")>>)
  /\ UNCHANGED <<now, initialized, controls, orders, obook, matched>>

\* batch_trade and trade_batch: prices are not looked at, nor is the activity
\* tracked.  An empty batch returns at once and changes nothing.
batch_trade(trader, batch, fee) ==
  /\ "batch_trade" \in Calls /\ Len(trades) < MaxTrades
  /\ batch # <<>> /\ Len(batch) <= MaxBatchSize
  /\ \A i \in DOMAIN batch : batch[i].amount > 0
  /\ Admit(trader) /\ Logged(trader)
  /\ collect_fee(trader, fee, Len(batch))
  /\ RecordTrades([i \in DOMAIN batch |->
                     TradeRecord(trader, batch[i].pair, batch[i].amount,
                                 batch[i].price, batch[i].is_buy, "batch_trade")])
  /\ UNCHANGED <<now, initialized, controls, cb_state, orders, obook, matched>>

-----------------------------------------------------------------------------
(* Limit orders                                                            *)

\* The two trades of each match: the taker's, then the maker's.
MatchTrades(order, fills) ==
  [ k \in 1 .. 2 * Len(fills) |->
      LET fill  == fills[(k + 1) \div 2]
          party == IF k % 2 = 1 THEN order ELSE orders[fill.maker]
      IN  TradeRecord(party.owner, party.pair, fill.amount, fill.price,
                      party.side = "Buy", "match") ]

\* What is left of an immediate-or-cancel order is cancelled.
Settle(order) ==
  IF order.tif = "Ioc" /\ order.remaining > 0
  THEN [order EXCEPT !.status = "Cancelled"] ELSE order

Rests(order) == order.tif = "Gtc" /\ order.remaining > 0

\* What is left of a good-til-cancelled order joins its side of the book.
Resting(ids, order, id) == IF Rests(order) THEN Append(ids, id) ELSE ids

create_limit_order(trader, pair, side, price, amount, tif) ==
  LET order == NewOrder(trader, pair, side, price, amount, tif, now)
      ids   == obook[pair][Opposite(side)]
      m     == match_limit_order(order, orders, ids)
      taker == m.incoming
      id    == Len(orders) + 1
  IN  /\ "create_limit_order" \in Calls /\ Len(orders) < MaxOrders
      /\ Admit(trader) /\ Logged(trader)
      /\ amount > 0 /\ price > 0
      /\ tif = "Fok" => available_fill_for_order(order, ids, orders) >= amount
      /\ tif = "Fok" => taker.remaining <= 0
      /\ orders' = Append(m.orders, Settle(taker))
      /\ obook' = [obook EXCEPT ![pair][Opposite(side)] = m.ids,
                                ![pair][side] = Resting(obook[pair][side], taker, id)]
      /\ RecordTrades(MatchTrades(order, m.matched))
      /\ matched' = matched \o [k \in DOMAIN m.matched |->
                                  [maker |-> m.matched[k].maker, taker |-> id,
                                   amount |-> m.matched[k].amount,
                                   price |-> m.matched[k].price]]
      /\ UNCHANGED <<now, initialized, controls, cb_state, wallet>>

\* Neither the rate limit nor a pause stops an owner from cancelling.
cancel_order(trader, id) ==
  /\ "cancel_order" \in Calls
  /\ initialized
  /\ id \in DOMAIN orders
  /\ orders[id].owner = trader
  /\ IsOpen(orders[id])
  /\ orders' = [orders EXCEPT ![id].status = "Cancelled"]
  /\ obook' = [obook EXCEPT ![orders[id].pair][orders[id].side] =
                 remove_order_from_book(@, id)]
  /\ UNCHANGED <<now, initialized, controls, usage, cb_state, trades, stats,
                 wallet, matched, admitted>>

-----------------------------------------------------------------------------
(* Administration                                                          *)

AdminCall(name) == name \in Calls /\ initialized

set_rate_limit_config(cfg) ==
  /\ AdminCall("set_rate_limit_config")
  /\ ValidConfig(cfg)
  /\ rl_cfg' = cfg
  /\ admitted' = <<>>
  /\ UNCHANGED <<now, initialized, premium, cb_config, paused_funcs, usage,
                 cb_state, orders, obook, trades, stats, wallet, matched>>

set_premium_user(user, is_premium) ==
  /\ AdminCall("set_premium_user")
  /\ premium' = IF is_premium THEN premium \cup {user} ELSE premium \ {user}
  /\ UNCHANGED <<now, initialized, rl_cfg, cb_config, paused_funcs, usage,
                 cb_state, orders, obook, trades, stats, wallet, matched, admitted>>

\* set_pause_level; pause is level Full and unpause level None.
set_pause_level(level) ==
  /\ AdminCall("set_pause_level")
  /\ cb_state' = set_trade_pause_level(cb_state, level)
  /\ UNCHANGED <<now, initialized, controls, usage, orders, obook, trades, stats,
                 wallet, matched, admitted>>

pause_function(func) ==
  /\ AdminCall("pause_function")
  /\ paused_funcs' = paused_funcs \cup {func}
  /\ cb_state' = pause_trade_function(cb_state)
  /\ UNCHANGED <<now, initialized, rl_cfg, premium, cb_config, usage, orders,
                 obook, trades, stats, wallet, matched, admitted>>

unpause_function(func) ==
  /\ AdminCall("unpause_function")
  /\ paused_funcs' = paused_funcs \ {func}
  /\ UNCHANGED <<now, initialized, rl_cfg, premium, cb_config, usage, cb_state,
                 orders, obook, trades, stats, wallet, matched, admitted>>

Next ==
  \/ Tick
  \/ \E config \in CbConfigs : init(config)
  \/ \E t \in Traders :
       \/ \E p \in Pairs, a \in Amounts, x \in Prices, s \in Sides, f \in Fees :
            trade(t, p, a, x, s = "Buy", f)
       \/ \E batch \in Batches, f \in Fees : batch_trade(t, batch, f)
       \/ \E p \in Pairs, s \in Sides, x \in Prices, a \in Amounts, tif \in Tifs :
            create_limit_order(t, p, s, x, a, tif)
       \/ \E id \in DOMAIN orders : cancel_order(t, id)
       \/ \E b \in BOOLEAN : set_premium_user(t, b)
  \/ \E cfg \in RateLimits : set_rate_limit_config(cfg)
  \/ \E level \in PauseLevel : set_pause_level(level)
  \/ \E f \in Funcs : pause_function(f) \/ unpause_function(f)

Spec == Init /\ [][Next]_vars

-----------------------------------------------------------------------------
(* Properties of the order book                                            *)

\* The stored book and the stored orders tell the same story: each side lists
\* exactly the open orders of its pair and side, oldest first and none twice,
\* and only a good-til-cancelled order with something left is open.  Matching,
\* cancelling and the three times in force each maintain both by hand.
BookMatchesOrders ==
  /\ \A p \in Pairs, side \in OrderSide :
       LET ids == obook[p][side]
       IN  /\ ToSet(ids) = {i \in DOMAIN orders : /\ orders[i].pair = p
                                                 /\ orders[i].side = side
                                                 /\ IsOpen(orders[i])}
           /\ \A i, j \in DOMAIN ids : i < j => ids[i] < ids[j]
  /\ \A i \in DOMAIN orders :
       IsOpen(orders[i]) => orders[i].tif = "Gtc" /\ orders[i].remaining > 0

\* Matching leaves nothing that could still trade: on no pair does a resting
\* buy reach the price of a resting sell.
NoCrossedBook ==
  \A p \in Pairs :
    \A b \in ToSet(obook[p]["Buy"]), s \in ToSet(obook[p]["Sell"]) :
      orders[b].price < orders[s].price

\* What is missing from an order's remaining amount is what the OrderMatched
\* events filled, its status says so, and every match happened at the maker's
\* price, within the taker's limit.
FillConservation ==
  /\ \A id \in DOMAIN orders :
       LET fills == {k \in DOMAIN matched : id \in {matched[k].maker, matched[k].taker}}
       IN  /\ orders[id].amount - orders[id].remaining
                = MapThenSumSet(LAMBDA k : matched[k].amount, fills)
           /\ orders[id].status = "Filled" <=> orders[id].remaining = 0
           /\ orders[id].status = "Open" => fills = {}
  /\ \A k \in DOMAIN matched :
       LET maker == orders[matched[k].maker]
           taker == orders[matched[k].taker]
       IN  /\ matched[k].price = maker.price
           /\ IF taker.side = "Buy" THEN matched[k].price <= taker.price
                                    ELSE matched[k].price >= taker.price

\* The check before a fill-or-kill order is matched predicts the matching, for
\* every order that could arrive now: what it counts as available is enough
\* exactly when the matching leaves nothing, so the check afterwards never fires
\* and no order that could be filled is refused.
FillOrKillPrediction ==
  \A t \in Traders, p \in Pairs, side \in Sides, price \in Prices, amount \in {a \in Amounts : a > 0} :
    LET order == NewOrder(t, p, side, price, amount, "Fok", now)
        ids   == obook[p][Opposite(side)]
    IN  available_fill_for_order(order, ids, orders) >= amount
          <=> match_limit_order(order, orders, ids).incoming.remaining = 0

\* Price-time priority: no step fills a resting order while a better one, of a
\* better price or of the same price and older, keeps something unfilled.
FillsBestFirst ==
  \A p \in Pairs, side \in OrderSide :
    \A i, j \in ToSet(obook[p][side]) :
      LET better == \/ side = "Buy"  /\ orders[i].price > orders[j].price
                    \/ side = "Sell" /\ orders[i].price < orders[j].price
                    \/ orders[i].price = orders[j].price /\ i < j
      IN  better /\ orders'[j].remaining < orders[j].remaining
            => orders'[i].remaining = 0
PriceTimePriority == [][FillsBestFirst]_vars

-----------------------------------------------------------------------------
(* Properties of the ledger and of the controls                            *)

Direct(t) == {i \in DOMAIN trades : trades[i].trader = t /\ trades[i].via # "match"}

Size(record) == IF record.signed_amount < 0 THEN -record.signed_amount
                                            ELSE record.signed_amount

\* The volume of some of the recorded trades.
VolumeOf(records, set) == MapThenSumSet(LAMBDA i : Size(records[i]), set)

\* The statistics count every direct trade once and every match twice, the two
\* sides of the matches cancel out, and each direct trade, alone or in a batch,
\* was paid for exactly once (where Fees has one fee that is not negative).
LedgerBalances ==
  LET direct == UNION {Direct(t) : t \in Traders}
  IN  /\ stats.total_trades = Len(trades)
      /\ stats.total_volume = VolumeOf(trades, direct)
           + 2 * MapThenSumSet(LAMBDA k : matched[k].amount, DOMAIN matched)
      /\ 0 = MapThenSumSet(LAMBDA i : trades[i].signed_amount, DOMAIN trades \ direct)
      /\ \A t \in Traders, fee \in Fees :
           fee >= 0 => Wallet - wallet[t] = fee * Cardinality(Direct(t))

\* The last call of a log is within the trader's and the contract's limit among
\* the calls of its window.
WithinLimits(log, cfg, prem) ==
  LET call   == Last(log)
      window == {i \in DOMAIN log : Window(cfg, log[i].time) = Window(cfg, call.time)}
      own    == {i \in window : log[i].trader = call.trader}
  IN  /\ Cardinality(own) <= AllowedUserLimit(cfg, prem, call.trader)
      /\ Cardinality(window) <= cfg.global_limit

\* However calls of different kinds and traders follow each other, and whoever
\* is or was premium, a call that is admitted is within the trader's and the
\* contract's limit among the calls of the same window, counted since the
\* limits were last set.
RateLimitHolds ==
  [][Len(admitted') = Len(admitted) + 1 => WithinLimits(admitted', rl_cfg, premium)]_vars

\* The recorded direct trades of the breaker's current period.
InPeriod(records, state, config) ==
  {i \in DOMAIN records : /\ records[i].timestamp >= state.current_period_start
                          /\ records[i].timestamp
                               < state.current_period_start + config.period_duration}

\* Has a set of trades reached one of the thresholds?
Anomalous(records, set, config) ==
  \/ VolumeOf(records, set) >= config.max_volume_per_period
  \/ Cardinality(set) >= config.max_tx_count_per_period

\* A trade() that finds the contract unpaused pauses it exactly when the trades
\* made by trade() in the period, itself included, reach a threshold: also
\* after an administrator lifted a pause in mid-period, and across the lazy
\* restart of the period.
TripsExactly ==
  /\ Len(trades') = Len(trades) + 1 /\ Last(trades').via = "trade"
  /\ cb_state.pause_level = "None"
  => LET period == {i \in InPeriod(trades', cb_state', cb_config) : trades'[i].via = "trade"}
     IN  /\ Len(trades') \in period
         /\ cb_state'.pause_level = "Full" <=> Anomalous(trades', period, cb_config)
BreakerArmed == [][TripsExactly]_vars

\* "If either threshold is exceeded, the contract automatically enters Full
\* Pause mode" (CIRCUIT_BREAKER_RECOVERY.md), where no administrator interferes.
AutomaticPause ==
  Anomalous(trades, InPeriod(trades, cb_state, cb_config), cb_config)
    => cb_state.pause_level = "Full"
=============================================================================
