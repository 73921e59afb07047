--------------------------- MODULE TradingProofs ---------------------------
(***************************************************************************)
(* Proofs about Trading, for any traders, pairs, orders, limits and times. *)
(*                                                                         *)
(* The rate limiter never looks at the calls it admitted: it keeps one     *)
(* counter per window and trader and one per window.  RateInv ties the     *)
(* counters to the calls; the limits then follow from its checks.          *)
(*                                                                         *)
(* The order book is kept twice, as the orders and as the ids of each      *)
(* side, and matching changes both in a loop.  MatchInv is the loop's      *)
(* invariant and BookInv that of the stored book; the least-number         *)
(* principle stands for induction over the iterations.  FillInv adds the   *)
(* account of the OrderMatched events.                                     *)
(*                                                                         *)
(* From these follow the types of the state; BreakerInv, which ties the    *)
(* breaker's sums to the recorded trades of its period, and with it when   *)
(* the breaker trips; and LedgerInv, which ties the statistics and the     *)
(* balances to the recorded trades and the events.                         *)
(***************************************************************************)
EXTENDS Trading, ProofBasics

-----------------------------------------------------------------------------
(* Part 1: the rate limiter.                                                *)

Call == [trader : Traders, time : 0 .. MaxTime]
UsageType == [user : [Traders -> [0 .. MaxTime -> Nat]], global : [0 .. MaxTime -> Nat]]

\* The calls of a log that fall into window w, and those of one trader.
InWindow(cfg, log, w) == {i \in DOMAIN log : Window(cfg, log[i].time) = w}
OwnInWindow(cfg, log, w, t) == {i \in InWindow(cfg, log, w) : log[i].trader = t}

\* The counters cover the calls of their window.  (Not exactly: a new setting
\* starts a new log but keeps the counters of the old windows.)
Covered(cfg, log, use) ==
  \A w \in 0 .. MaxTime :
    /\ Cardinality(InWindow(cfg, log, w)) <= use.global[w]
    /\ \A t \in Traders : Cardinality(OwnInWindow(cfg, log, w, t)) <= use.user[t][w]

RateInv ==
  /\ now \in 0 .. MaxTime
  /\ rl_cfg \in RateLimits
  /\ usage \in UsageType
  /\ admitted \in Seq(Call)
  /\ ~initialized => admitted = <<>>
  /\ Covered(rl_cfg, admitted, usage)

-----------------------------------------------------------------------------
\* The sets that are counted are finite.
LEMMA WindowsFinite ==
  ASSUME NEW cfg, NEW log \in Seq(Call), NEW w, NEW t
  PROVE  /\ IsFiniteSet(InWindow(cfg, log, w)) /\ IsFiniteSet(OwnInWindow(cfg, log, w, t))
         /\ Cardinality(InWindow(cfg, log, w)) \in Nat
         /\ Cardinality(OwnInWindow(cfg, log, w, t)) \in Nat
  <1>1. IsFiniteSet(1 .. Len(log))
    BY FS_Interval
  <1>2. InWindow(cfg, log, w) \subseteq 1 .. Len(log)
    BY DEF InWindow
  <1>3. OwnInWindow(cfg, log, w, t) \subseteq 1 .. Len(log)
    BY <1>2 DEF OwnInWindow
  <1> QED
    BY <1>1, <1>2, <1>3, FS_Subset, FS_CardinalityType

\* No call is counted in an empty log.
LEMMA EmptyLog ==
  ASSUME NEW cfg, NEW use \in UsageType PROVE Covered(cfg, <<>>, use)
  <1>1. Cardinality({}) = 0
    BY FS_EmptySet
  <1>2. \A w, t : InWindow(cfg, <<>>, w) = {} /\ OwnInWindow(cfg, <<>>, w, t) = {}
    BY DEF InWindow, OwnInWindow
  <1>3. \A w \in 0 .. MaxTime :
          use.global[w] \in Nat /\ \A t \in Traders : use.user[t][w] \in Nat
    BY DEF UsageType
  <1>4. \A n \in Nat : 0 <= n
    OBVIOUS
  <1> QED
    BY <1>1, <1>2, <1>3, <1>4 DEF Covered

\* One more call raises the count of its window by one and no other,
LEMMA OneMoreCall ==
  ASSUME NEW cfg, NEW log \in Seq(Call), NEW c \in Call, NEW w
  PROVE  Cardinality(InWindow(cfg, Append(log, c), w))
           = Cardinality(InWindow(cfg, log, w)) + (IF Window(cfg, c.time) = w THEN 1 ELSE 0)
  <1>1. PICK new, n : new = Append(log, c) /\ n = Len(log) + 1
    OBVIOUS
  <1>2. /\ new \in Seq(Call) /\ DOMAIN new = DOMAIN log \cup {n} /\ n \notin DOMAIN log
        /\ new[n] = c /\ \A i \in DOMAIN log : new[i] = log[i]
    BY <1>1
  <1>3. InWindow(cfg, new, w) = InWindow(cfg, log, w) \cup (IF Window(cfg, c.time) = w THEN {n} ELSE {})
    BY <1>2 DEF InWindow
  <1>4. /\ IsFiniteSet(InWindow(cfg, log, w)) /\ n \notin InWindow(cfg, log, w)
        /\ Cardinality(InWindow(cfg, log, w)) \in Nat
    <2>1. PICK t : t = c.trader
      OBVIOUS
    <2>2. /\ IsFiniteSet(InWindow(cfg, log, w)) /\ IsFiniteSet(OwnInWindow(cfg, log, w, t))
          /\ Cardinality(InWindow(cfg, log, w)) \in Nat
      BY WindowsFinite
    <2> QED
      BY <1>2, <2>2 DEF InWindow
  <1>5. CASE Window(cfg, c.time) = w
    <2>1. InWindow(cfg, new, w) = InWindow(cfg, log, w) \cup {n}
      BY <1>3, <1>5
    <2>2. Cardinality(InWindow(cfg, new, w)) = Cardinality(InWindow(cfg, log, w)) + 1
      BY <1>4, <2>1, FS_AddElement
    <2> QED
      BY <1>1, <1>5, <2>2
  <1>6. CASE Window(cfg, c.time) # w
    <2>1. InWindow(cfg, new, w) = InWindow(cfg, log, w)
      BY <1>3, <1>6
    <2> QED
      BY <1>1, <1>4, <1>6, <2>1
  <1> QED
    BY <1>5, <1>6

\* and the count of its trader there.
LEMMA OneMoreOwnCall ==
  ASSUME NEW cfg, NEW log \in Seq(Call), NEW c \in Call, NEW w, NEW t
  PROVE  Cardinality(OwnInWindow(cfg, Append(log, c), w, t))
           = Cardinality(OwnInWindow(cfg, log, w, t))
               + (IF Window(cfg, c.time) = w /\ c.trader = t THEN 1 ELSE 0)
  <1>1. PICK new, n : new = Append(log, c) /\ n = Len(log) + 1
    OBVIOUS
  <1>2. /\ new \in Seq(Call) /\ DOMAIN new = DOMAIN log \cup {n} /\ n \notin DOMAIN log
        /\ new[n] = c /\ \A i \in DOMAIN log : new[i] = log[i]
    BY <1>1
  <1>3. OwnInWindow(cfg, new, w, t)
          = OwnInWindow(cfg, log, w, t)
              \cup (IF Window(cfg, c.time) = w /\ c.trader = t THEN {n} ELSE {})
    BY <1>2 DEF InWindow, OwnInWindow
  <1>4. /\ IsFiniteSet(OwnInWindow(cfg, log, w, t)) /\ n \notin OwnInWindow(cfg, log, w, t)
        /\ Cardinality(OwnInWindow(cfg, log, w, t)) \in Nat
    <2>1. n \notin OwnInWindow(cfg, log, w, t)
      BY <1>2 DEF InWindow, OwnInWindow
    <2> QED
      BY <2>1, WindowsFinite
  <1>5. CASE Window(cfg, c.time) = w /\ c.trader = t
    <2>1. OwnInWindow(cfg, new, w, t) = OwnInWindow(cfg, log, w, t) \cup {n}
      BY <1>3, <1>5
    <2>2. Cardinality(OwnInWindow(cfg, new, w, t)) = Cardinality(OwnInWindow(cfg, log, w, t)) + 1
      BY <1>4, <2>1, FS_AddElement
    <2> QED
      BY <1>1, <1>5, <2>2
  <1>6. CASE ~(Window(cfg, c.time) = w /\ c.trader = t)
    <2>1. OwnInWindow(cfg, new, w, t) = OwnInWindow(cfg, log, w, t)
      BY <1>3, <1>6
    <2> QED
      BY <1>1, <1>4, <1>6, <2>1
  <1> QED
    BY <1>5, <1>6

\* The window of a time is one of those that have a counter.
LEMMA WindowType ==
  ASSUME NEW cfg \in RateLimits, ValidConfig(cfg), NEW time \in 0 .. MaxTime
  PROVE  Window(cfg, time) \in 0 .. MaxTime
  <1>1. cfg.window_secs \in Nat /\ cfg.window_secs >= 1 /\ MaxTime \in Nat
    BY TradingAssumption, MaxTimeAssumption DEF ValidConfig
  <1>2. \A a, b \in Nat : b >= 1 => a \div b \in 0 .. a
    OBVIOUS
  <1> QED
    BY <1>1, <1>2 DEF Window

\* A call that check_and_consume_trade_rate_limit admits is counted, and within
\* the limits of its window.
LEMMA Admission ==
  ASSUME NEW cfg \in RateLimits, NEW log \in Seq(Call), NEW use \in UsageType, NEW prem,
         NEW t \in Traders, NEW time \in 0 .. MaxTime, Covered(cfg, log, use),
         WithinRateLimit(cfg, prem, use, time, t),
         NEW c, c = [trader |-> t, time |-> time], NEW w, w = Window(cfg, time)
  PROVE  /\ c \in Call
         /\ Consume(cfg, use, time, t) \in UsageType
         /\ Covered(cfg, Append(log, c), Consume(cfg, use, time, t))
         /\ Cardinality(InWindow(cfg, Append(log, c), w)) <= cfg.global_limit
         /\ Cardinality(OwnInWindow(cfg, Append(log, c), w, t)) <= AllowedUserLimit(cfg, prem, t)
  <1>1. w \in 0 .. MaxTime
    BY WindowType DEF WithinRateLimit
  <1>2. c \in Call /\ c.trader = t /\ c.time = time /\ Window(cfg, c.time) = w
    BY DEF Call
  <1>3. PICK more : more = Consume(cfg, use, time, t)
    OBVIOUS
  <1>4. PICK users, global, own : /\ users = use.user /\ global = use.global /\ own = users[t]
    OBVIOUS
  <1>5. /\ users \in [Traders -> [0 .. MaxTime -> Nat]] /\ global \in [0 .. MaxTime -> Nat]
        /\ own \in [0 .. MaxTime -> Nat]
    BY <1>4 DEF UsageType
  <1>6. /\ more.user = [users EXCEPT ![t] = [own EXCEPT ![w] = own[w] + 1]]
        /\ more.global = [global EXCEPT ![w] = global[w] + 1]
        /\ more = [user |-> more.user, global |-> more.global]
    <2>1. use = [user |-> users, global |-> global]
      BY <1>4 DEF UsageType
    <2> QED
      BY <1>3, <1>4, <2>1 DEF Consume
  <1>7. /\ more \in UsageType
        /\ more.global[w] = global[w] + 1 /\ more.user[t][w] = own[w] + 1
        /\ \A v \in 0 .. MaxTime : v # w => more.global[v] = global[v] /\ more.user[t][v] = own[v]
        /\ \A u \in Traders : u # t => more.user[u] = users[u]
    <2>1. /\ [own EXCEPT ![w] = own[w] + 1] \in [0 .. MaxTime -> Nat]
          /\ [global EXCEPT ![w] = global[w] + 1] \in [0 .. MaxTime -> Nat]
      BY <1>1, <1>5
    <2>2. /\ more.user \in [Traders -> [0 .. MaxTime -> Nat]]
          /\ more.global \in [0 .. MaxTime -> Nat]
          /\ more.user[t] = [own EXCEPT ![w] = own[w] + 1]
          /\ \A u \in Traders : u # t => more.user[u] = users[u]
      BY <1>5, <1>6, <2>1
    <2>3. more \in UsageType
      BY <1>6, <2>2 DEF UsageType
    <2> QED
      BY <1>1, <1>5, <1>6, <2>2, <2>3
  <1>8. ASSUME NEW v \in 0 .. MaxTime
        PROVE  /\ Cardinality(InWindow(cfg, Append(log, c), v)) <= more.global[v]
               /\ \A u \in Traders :
                    Cardinality(OwnInWindow(cfg, Append(log, c), v, u)) <= more.user[u][v]
    <2>1. /\ use.global[v] \in Nat /\ Cardinality(InWindow(cfg, log, v)) \in Nat
          /\ Cardinality(InWindow(cfg, log, v)) <= use.global[v]
      BY WindowsFinite DEF Covered, UsageType
    <2>2. Cardinality(InWindow(cfg, Append(log, c), v)) <= more.global[v]
      <3>1. /\ w = v => Cardinality(InWindow(cfg, Append(log, c), v))
                          = Cardinality(InWindow(cfg, log, v)) + 1
            /\ w # v => Cardinality(InWindow(cfg, Append(log, c), v))
                          = Cardinality(InWindow(cfg, log, v)) + 0
        BY <1>2, OneMoreCall
      <3>2. CASE w = v
        BY <1>4, <1>7, <2>1, <3>1, <3>2
      <3>3. CASE w # v
        BY <1>4, <1>7, <2>1, <3>1, <3>3
      <3> QED
        BY <3>2, <3>3
    <2>3. ASSUME NEW u \in Traders
          PROVE  Cardinality(OwnInWindow(cfg, Append(log, c), v, u)) <= more.user[u][v]
      <3>1. /\ use.user[u][v] \in Nat /\ Cardinality(OwnInWindow(cfg, log, v, u)) \in Nat
            /\ Cardinality(OwnInWindow(cfg, log, v, u)) <= use.user[u][v]
        BY WindowsFinite DEF Covered, UsageType
      <3>2. Cardinality(OwnInWindow(cfg, Append(log, c), v, u))
              = Cardinality(OwnInWindow(cfg, log, v, u)) + (IF w = v /\ t = u THEN 1 ELSE 0)
        BY <1>2, OneMoreOwnCall
      <3>3. CASE w = v /\ t = u
        BY <1>4, <1>7, <3>1, <3>2, <3>3
      <3>4. CASE ~(w = v /\ t = u)
        <4>1. more.user[u][v] = use.user[u][v]
          BY <1>4, <1>7, <3>4
        <4> QED
          BY <3>1, <3>2, <3>4, <4>1
      <3> QED
        BY <3>3, <3>4
    <2> QED
      BY <2>2, <2>3
  <1>9. Covered(cfg, Append(log, c), more)
    BY <1>8 DEF Covered
  <1>10. use.global[w] \in Nat /\ use.user[t][w] \in Nat
    BY <1>1 DEF UsageType
  <1>11. use.global[w] < cfg.global_limit /\ use.user[t][w] < AllowedUserLimit(cfg, prem, t)
    BY DEF WithinRateLimit
  <1>12. /\ Cardinality(InWindow(cfg, log, w)) \in Nat
         /\ Cardinality(OwnInWindow(cfg, log, w, t)) \in Nat
         /\ Cardinality(InWindow(cfg, log, w)) <= use.global[w]
         /\ Cardinality(OwnInWindow(cfg, log, w, t)) <= use.user[t][w]
    BY <1>1, WindowsFinite DEF Covered
  <1>13. cfg.global_limit \in Nat /\ AllowedUserLimit(cfg, prem, t) \in Nat
    BY TradingAssumption DEF AllowedUserLimit
  <1>14. /\ Cardinality(InWindow(cfg, Append(log, c), w)) = Cardinality(InWindow(cfg, log, w)) + 1
         /\ Cardinality(OwnInWindow(cfg, Append(log, c), w, t))
              = Cardinality(OwnInWindow(cfg, log, w, t)) + 1
    BY <1>2, OneMoreCall, OneMoreOwnCall
  <1>15. Cardinality(InWindow(cfg, Append(log, c), w)) <= cfg.global_limit
    BY <1>10, <1>11, <1>12, <1>13, <1>14
  <1>16. Cardinality(OwnInWindow(cfg, Append(log, c), w, t)) <= AllowedUserLimit(cfg, prem, t)
    BY <1>10, <1>11, <1>12, <1>13, <1>14
  <1> QED
    BY <1>2, <1>3, <1>7, <1>9, <1>15, <1>16

-----------------------------------------------------------------------------
\* What the calls that are not admitted by the limiter leave alone.
Untouched == UNCHANGED <<rl_cfg, usage, admitted>>

\* Every call is admitted by the limiter, or leaves it alone, or sets it.
LEMMA KindsOfStep ==
  ASSUME Next
  PROVE  \/ \E t \in Traders :
               /\ Admit(t) /\ Logged(t)
               /\ UNCHANGED <<now, initialized, rl_cfg, premium>>
         \/ Untouched /\ now' \in {now, now + 1} /\ (now' # now => now < MaxTime)
              /\ initialized' = initialized
         \/ \E cfg \in RateLimits :
               /\ rl_cfg' = cfg /\ admitted' = <<>> /\ UNCHANGED <<now, usage>> /\ initialized
               /\ initialized'
         \/ /\ ~initialized /\ rl_cfg' = DefaultRateLimit /\ UNCHANGED <<now, usage, admitted>>
  <1>1. CASE Tick
    BY <1>1 DEF Tick, Untouched, controls
  <1>2. ASSUME NEW config \in CbConfigs, init(config)
        PROVE ~initialized /\ rl_cfg' = DefaultRateLimit /\ UNCHANGED <<now, usage, admitted>>
    BY <1>2 DEF init
  <1>3. ASSUME NEW t \in Traders, NEW p \in Pairs, NEW a \in Amounts, NEW x \in Prices,
               NEW s \in Sides, NEW f \in Fees, trade(t, p, a, x, s = "Buy", f)
        PROVE  Admit(t) /\ Logged(t) /\ UNCHANGED <<now, initialized, rl_cfg, premium>>
    BY <1>3 DEF trade, controls
  <1>4. ASSUME NEW t \in Traders, NEW batch \in Batches, NEW f \in Fees, batch_trade(t, batch, f)
        PROVE  Admit(t) /\ Logged(t) /\ UNCHANGED <<now, initialized, rl_cfg, premium>>
    BY <1>4 DEF batch_trade, controls
  <1>5. ASSUME NEW t \in Traders, NEW p \in Pairs, NEW s \in Sides, NEW x \in Prices,
               NEW a \in Amounts, NEW tif \in Tifs, create_limit_order(t, p, s, x, a, tif)
        PROVE  Admit(t) /\ Logged(t) /\ UNCHANGED <<now, initialized, rl_cfg, premium>>
    BY <1>5 DEF create_limit_order, controls
  <1>6. ASSUME NEW t \in Traders, NEW id \in DOMAIN orders, cancel_order(t, id)
        PROVE  Untouched /\ now' = now /\ initialized' = initialized
    BY <1>6 DEF cancel_order, controls, Untouched
  <1>7. ASSUME NEW t \in Traders, NEW b \in BOOLEAN, set_premium_user(t, b)
        PROVE  Untouched /\ now' = now /\ initialized' = initialized
    BY <1>7 DEF set_premium_user, Untouched
  <1>8. ASSUME NEW cfg \in RateLimits, set_rate_limit_config(cfg)
        PROVE  /\ rl_cfg' = cfg /\ admitted' = <<>> /\ UNCHANGED <<now, usage>> /\ initialized
               /\ initialized'
    BY <1>8 DEF set_rate_limit_config, AdminCall
  <1>9. ASSUME NEW level \in PauseLevel, set_pause_level(level)
        PROVE  Untouched /\ now' = now /\ initialized' = initialized
    BY <1>9 DEF set_pause_level, controls, Untouched
  <1>10. ASSUME NEW f \in Funcs, pause_function(f) \/ unpause_function(f)
         PROVE  Untouched /\ now' = now /\ initialized' = initialized
    BY <1>10 DEF pause_function, unpause_function, Untouched
  <1> QED
    BY <1>1, <1>2, <1>3, <1>4, <1>5, <1>6, <1>7, <1>8, <1>9, <1>10 DEF Next

\* One call.
LEMMA AdmitKeeps ==
  ASSUME RateInv, NEW t \in Traders, Admit(t), Logged(t),
         UNCHANGED <<now, initialized, rl_cfg, premium>>
  PROVE  RateInv' /\ WithinLimits(admitted', rl_cfg, premium)
  <1>1. PICK c : c = [trader |-> t, time |-> now]
    OBVIOUS
  <1>2. PICK w : w = Window(rl_cfg, now)
    OBVIOUS
  <1>3. /\ rl_cfg \in RateLimits /\ admitted \in Seq(Call) /\ usage \in UsageType
        /\ now \in 0 .. MaxTime /\ Covered(rl_cfg, admitted, usage)
    BY DEF RateInv
  <1>4. /\ WithinRateLimit(rl_cfg, premium, usage, now, t) /\ initialized
        /\ usage' = Consume(rl_cfg, usage, now, t) /\ admitted' = Append(admitted, c)
    BY <1>1 DEF Admit, Logged
  <1>5. /\ c \in Call /\ usage' \in UsageType /\ Covered(rl_cfg, admitted', usage')
        /\ Cardinality(InWindow(rl_cfg, admitted', w)) <= rl_cfg.global_limit
        /\ Cardinality(OwnInWindow(rl_cfg, admitted', w, t)) <= AllowedUserLimit(rl_cfg, premium, t)
    BY <1>1, <1>2, <1>3, <1>4, Admission
  <1>6. admitted' \in Seq(Call) /\ Last(admitted') = c /\ c.trader = t /\ c.time = now
    BY <1>1, <1>3, <1>4, <1>5 DEF Last
  <1>7. RateInv'
    BY <1>3, <1>4, <1>5, <1>6 DEF RateInv
  <1>8. WithinLimits(admitted', rl_cfg, premium)
    BY <1>2, <1>5, <1>6 DEF WithinLimits, InWindow, OwnInWindow
  <1> QED
    BY <1>7, <1>8

\* Every step keeps the counters right and admits a call only within its limits.
LEMMA RateStep ==
  ASSUME RateInv, [Next]_vars
  PROVE  /\ RateInv'
         /\ Len(admitted') = Len(admitted) + 1 => WithinLimits(admitted', rl_cfg, premium)
  <1>0. admitted \in Seq(Call) /\ Len(admitted) \in Nat /\ MaxTime \in Nat
    BY MaxTimeAssumption DEF RateInv
  <1>1. CASE UNCHANGED vars
    BY <1>0, <1>1 DEF vars, controls, RateInv
  <1>2. ASSUME NEW t \in Traders, Admit(t), Logged(t),
               UNCHANGED <<now, initialized, rl_cfg, premium>>
        PROVE  RateInv' /\ WithinLimits(admitted', rl_cfg, premium)
    BY <1>2, AdmitKeeps
  <1>3. CASE Untouched /\ now' \in {now, now + 1} /\ (now' # now => now < MaxTime)
              /\ initialized' = initialized
    <2>1. now' \in 0 .. MaxTime
      BY <1>0, <1>3 DEF RateInv
    <2> QED
      BY <1>0, <1>3, <2>1 DEF RateInv, Untouched
  <1>4. ASSUME NEW cfg \in RateLimits, rl_cfg' = cfg, admitted' = <<>>, UNCHANGED <<now, usage>>,
               initialized, initialized'
        PROVE  RateInv' /\ Len(admitted') # Len(admitted) + 1
    <2>1. Covered(rl_cfg', admitted', usage')
      BY <1>4, EmptyLog DEF RateInv
    <2> QED
      BY <1>0, <1>4, <2>1 DEF RateInv
  <1>5. CASE ~initialized /\ rl_cfg' = DefaultRateLimit /\ UNCHANGED <<now, usage, admitted>>
    <2>1. Covered(rl_cfg', admitted', usage')
      BY <1>5, EmptyLog DEF RateInv
    <2> QED
      BY <1>0, <1>5, <2>1, TradingAssumption DEF RateInv
  <1> QED
    BY <1>1, <1>2, <1>3, <1>4, <1>5, KindsOfStep

\* The counters cover the admitted calls in every state.
THEOREM CallsCounted == Spec => []RateInv
  <1>1. Init => RateInv
    <2> SUFFICES ASSUME Init PROVE RateInv
      OBVIOUS
    <2>1. usage \in UsageType
      BY DEF Init, NoUsage, UsageType
    <2>2. Covered(rl_cfg, admitted, usage)
      BY <2>1, EmptyLog DEF Init
    <2> QED
      BY <2>1, <2>2, TradingAssumption, MaxTimeAssumption DEF Init, RateInv
  <1>2. RateInv /\ [Next]_vars => RateInv'
    BY RateStep
  <1> QED
    BY <1>1, <1>2, PTL DEF Spec

\* No admitted call exceeds the trader's or the contract's limit among the calls
\* of its window, however calls of all kinds and traders follow each other.
THEOREM RateLimitsRespected == Spec => RateLimitHolds
  <1>1. RateInv /\ [Next]_vars =>
          [Len(admitted') = Len(admitted) + 1 => WithinLimits(admitted', rl_cfg, premium)]_vars
    BY RateStep
  <1>2. Spec => [][Len(admitted') = Len(admitted) + 1
                     => WithinLimits(admitted', rl_cfg, premium)]_vars
    BY <1>1, CallsCounted, PTL DEF Spec
  <1> QED
    BY <1>2 DEF RateLimitHolds

-----------------------------------------------------------------------------
(* Part 2: the order book.                                                  *)

\* A side of the book: ids in ascending order.
Ascending(q) == q \in Seq(Nat) /\ \A i, j \in DOMAIN q : i < j => q[i] < q[j]

-----------------------------------------------------------------------------
(* The loop of remove_order_from_book.                                      *)
Kept(f, ids, id, n) == IF ids[n] = id THEN f[n - 1] ELSE Append(f[n - 1], ids[n])
Copies(f, ids, id, k) == f = [n \in 0 .. k |-> IF n = 0 THEN <<>> ELSE Kept(f, ids, id, n)]

\* The recursive function behind the copy exists.
LEMMA CopyExists ==
  ASSUME NEW ids, NEW id, NEW n \in Nat
  PROVE  \E f : Copies(f, ids, id, n)
  <1> DEFINE T == {k \in Nat : ~\E f : Copies(f, ids, id, k)}
  <1>1. SUFFICES ASSUME T # {} PROVE FALSE
    OBVIOUS
  <1>2. PICK k \in T : \A m \in T : k <= m
    <2> T \subseteq Nat
      OBVIOUS
    <2> HIDE DEF T
    <2> QED
      BY <1>1, LeastNumber
  <1>3. k \in Nat /\ ~\E f : Copies(f, ids, id, k)
    BY <1>2
  <1>4. CASE k = 0
    <2> DEFINE f == [d \in 0 .. 0 |-> <<>>]
    <2>1. Copies(f, ids, id, 0)
      BY DEF Copies
    <2> QED
      BY <1>3, <1>4, <2>1
  <1>5. CASE k # 0
    <2>1. k - 1 \in Nat /\ ~(k <= k - 1)
      BY <1>3, <1>5
    <2>2. k - 1 \notin T
      BY <1>2, <2>1
    <2>3. PICK g : Copies(g, ids, id, k - 1)
      BY <2>1, <2>2
    <2> DEFINE f == [d \in 0 .. k |-> IF d = k THEN Kept(g, ids, id, k) ELSE g[d]]
    <2>4. \A d \in 0 .. k - 1 : f[d] = g[d] /\ g[d] = IF d = 0 THEN <<>> ELSE Kept(g, ids, id, d)
      BY <1>3, <2>3 DEF Copies
    <2>5. ASSUME NEW d \in 1 .. k PROVE f[d] = Kept(f, ids, id, d)
      <3>1. f[d - 1] = g[d - 1]
        BY <1>3, <2>4
      <3>2. f[d] = Kept(g, ids, id, d)
        BY <1>3, <2>4
      <3> HIDE DEF f
      <3> QED
        BY <3>1, <3>2 DEF Kept
    <2>6. f[0] = <<>>
      <3>1. 0 \in 0 .. k - 1
        BY <2>1
      <3> HIDE DEF f
      <3> QED
        BY <2>4, <3>1
    <2>7. f = [d \in 0 .. k |-> f[d]]
      OBVIOUS
    <2>8. ASSUME NEW d \in 0 .. k PROVE f[d] = IF d = 0 THEN <<>> ELSE Kept(f, ids, id, d)
      <3> HIDE DEF f
      <3> QED
        BY <1>3, <2>5, <2>6
    <2>9. Copies(f, ids, id, k)
      <3> HIDE DEF f
      <3> QED
        BY <2>7, <2>8 DEF Copies
    <2> QED
      BY <1>3, <2>9
  <1> QED
    BY <1>4, <1>5

\* What the loop has copied after n iterations: the first n ids but for id.
CopyOk(u, ids, id, n) ==
  /\ Ascending(u) /\ Len(u) <= n
  /\ \A x : (\E i \in DOMAIN u : u[i] = x) <=> x # id /\ \E k \in 1 .. n : ids[k] = x
  /\ (\E k \in 1 .. n : ids[k] = id) => Len(u) < n

\* One iteration of the copy.
LEMMA CopyGrows ==
  ASSUME NEW ids, Ascending(ids), NEW id, NEW n \in Nat, n + 1 <= Len(ids),
         NEW u, CopyOk(u, ids, id, n)
  PROVE  CopyOk(IF ids[n + 1] = id THEN u ELSE Append(u, ids[n + 1]), ids, id, n + 1)
  <1>1. /\ ids \in Seq(Nat) /\ u \in Seq(Nat) /\ n + 1 \in DOMAIN ids /\ 1 .. n \subseteq DOMAIN ids
        /\ 1 .. n + 1 = (1 .. n) \cup {n + 1} /\ ids[n + 1] \in Nat /\ Len(u) \in Nat
    BY DEF Ascending, CopyOk
  <1>2. CASE ids[n + 1] = id
    <2>1. \A y : (\E k \in 1 .. n + 1 : ids[k] = y) <=> (\E k \in 1 .. n : ids[k] = y) \/ y = id
      BY <1>1, <1>2
    <2>2. /\ Ascending(u) /\ Len(u) < n + 1
          /\ \A x : (\E i \in DOMAIN u : u[i] = x) <=> x # id /\ \E k \in 1 .. n + 1 : ids[k] = x
      <3>1. /\ Ascending(u) /\ Len(u) <= n
            /\ \A x : (\E i \in DOMAIN u : u[i] = x) <=> x # id /\ \E k \in 1 .. n : ids[k] = x
        BY DEF CopyOk
      <3>2. Len(u) < n + 1
        BY <1>1, <3>1
      <3> QED
        BY <2>1, <3>1, <3>2
    <2>3. CopyOk(u, ids, id, n + 1)
      BY <1>1, <2>2 DEF CopyOk
    <2> QED
      BY <1>2, <2>3
  <1>3. CASE ids[n + 1] # id
    <2>1. PICK x, v : x = ids[n + 1] /\ v = Append(u, x)
      OBVIOUS
    <2>2. /\ v \in Seq(Nat) /\ Len(v) = Len(u) + 1 /\ DOMAIN v = DOMAIN u \cup {Len(u) + 1}
          /\ v[Len(u) + 1] = x /\ \A i \in DOMAIN u : v[i] = u[i] /\ i < Len(u) + 1 /\ u[i] \in Nat
      BY <1>1, <2>1
    <2>3. \A i \in DOMAIN u : u[i] < x
      <3>1. SUFFICES ASSUME NEW i \in DOMAIN u PROVE u[i] < x
        OBVIOUS
      <3>2. PICK k \in 1 .. n : ids[k] = u[i]
        BY DEF CopyOk
      <3> QED
        BY <1>1, <2>1, <3>2 DEF Ascending
    <2>4. Ascending(v)
      <3>1. SUFFICES ASSUME NEW i \in DOMAIN v, NEW j \in DOMAIN v, i < j PROVE v[i] < v[j]
        BY <2>2 DEF Ascending
      <3>2. i \in Int /\ j \in Int /\ i \in DOMAIN u
        <4>1. DOMAIN u = 1 .. Len(u)
          BY <1>1
        <4>2. DOMAIN v = 1 .. (Len(u) + 1)
          <5>1. v \in Seq(Nat) /\ Len(v) = Len(u) + 1
            BY <2>2
          <5> QED
            BY <5>1
        <4> QED
          BY <1>1, <3>1, <4>1, <4>2
      <3>3. CASE j \in DOMAIN u
        BY <2>2, <3>1, <3>2, <3>3 DEF CopyOk, Ascending
      <3>4. CASE j = Len(u) + 1
        BY <2>2, <2>3, <3>2, <3>4
      <3> QED
        BY <2>2, <3>3, <3>4
    <2>5. \A y : (\E i \in DOMAIN v : v[i] = y) <=> y # id /\ \E k \in 1 .. n + 1 : ids[k] = y
      <3>1. SUFFICES ASSUME NEW y
                     PROVE  (\E i \in DOMAIN v : v[i] = y) <=> y # id /\ \E k \in 1 .. n + 1 : ids[k] = y
        OBVIOUS
      <3>2. (\E i \in DOMAIN v : v[i] = y) <=> (\E i \in DOMAIN u : u[i] = y) \/ y = x
        BY <2>2
      <3>3. (\E k \in 1 .. n + 1 : ids[k] = y) <=> (\E k \in 1 .. n : ids[k] = y) \/ y = x
        BY <1>1, <2>1
      <3>4. (\E i \in DOMAIN u : u[i] = y) <=> y # id /\ \E k \in 1 .. n : ids[k] = y
        BY DEF CopyOk
      <3> QED
        BY <1>3, <2>1, <3>2, <3>3, <3>4
    <2>6. Len(v) <= n + 1 /\ ((\E k \in 1 .. n + 1 : ids[k] = id) => Len(v) < n + 1)
      BY <1>1, <1>3, <2>2 DEF CopyOk
    <2> QED
      BY <1>3, <2>1, <2>4, <2>5, <2>6 DEF CopyOk
  <1> QED
    BY <1>2, <1>3

\* Removing an id leaves the others, in their order, and shortens the side.
LEMMA RemoveKeepsOthers ==
  ASSUME NEW ids, Ascending(ids), NEW id, NEW r, r = remove_order_from_book(ids, id)
  PROVE  /\ Ascending(r) /\ ToSet(r) = ToSet(ids) \ {id}
         /\ id \in ToSet(ids) => Len(r) < Len(ids)
  <1>1. ids \in Seq(Nat) /\ Len(ids) \in Nat /\ DOMAIN ids = 1 .. Len(ids)
    BY DEF Ascending
  <1>2. PICK N : N = Len(ids)
    OBVIOUS
  <1> DEFINE f == CHOOSE g : Copies(g, ids, id, N)
  <1>3. Copies(f, ids, id, N)
    BY <1>1, <1>2, CopyExists
  <1>4. r = f[N]
    BY <1>2 DEF remove_order_from_book, Copies, Kept
  <1> HIDE DEF f
  <1>5. f[0] = <<>> /\ \A n \in 1 .. N : f[n] = Kept(f, ids, id, n)
    BY <1>1, <1>2, <1>3 DEF Copies
  <1> DEFINE T == {n \in 0 .. N : ~CopyOk(f[n], ids, id, n)}
  <1>6. T = {}
    <2>1. SUFFICES ASSUME T # {} PROVE FALSE
      OBVIOUS
    <2>2. T \subseteq Nat
      BY <1>1, <1>2
    <2>3. PICK k \in T : \A m \in T : k <= m
      <3> HIDE DEF T
      <3> QED
        BY <2>1, <2>2, LeastNumber
    <2>4. CASE k = 0
      <3>1. CopyOk(<<>>, ids, id, 0)
        BY DEF CopyOk, Ascending
      <3> QED
        BY <1>5, <2>3, <2>4, <3>1
    <2>5. CASE k # 0
      <3>1. k \in 1 .. N /\ k - 1 \in 0 .. N /\ k - 1 \in Nat /\ ~(k <= k - 1) /\ (k - 1) + 1 = k
        BY <1>1, <1>2, <2>3, <2>5
      <3>2. CopyOk(f[k - 1], ids, id, k - 1)
        BY <2>3, <3>1
      <3>3. PICK n : n = k - 1
        OBVIOUS
      <3>4. n \in Nat /\ n + 1 = k /\ n + 1 <= Len(ids) /\ CopyOk(f[n], ids, id, n)
        BY <1>2, <3>1, <3>2, <3>3
      <3>5. CopyOk(IF ids[n + 1] = id THEN f[n] ELSE Append(f[n], ids[n + 1]), ids, id, n + 1)
        BY <3>4, CopyGrows
      <3>6. f[k] = IF ids[n + 1] = id THEN f[n] ELSE Append(f[n], ids[n + 1])
        BY <1>5, <3>1, <3>3, <3>4 DEF Kept
      <3> QED
        BY <2>3, <3>4, <3>5, <3>6
    <2> QED
      BY <2>4, <2>5
  <1>7. CopyOk(r, ids, id, N)
    <2>1. N \in 0 .. N
      BY <1>1, <1>2
    <2> QED
      BY <1>4, <1>6, <2>1
  <1>8. ToSet(r) = ToSet(ids) \ {id}
    BY <1>1, <1>2, <1>7 DEF ToSet, CopyOk
  <1> QED
    BY <1>1, <1>2, <1>7, <1>8 DEF CopyOk, ToSet

-----------------------------------------------------------------------------
(* The scan of pick_best_match_index.                                       *)
Order ==
  [owner : Traders, pair : Pairs, side : OrderSide, price : Int, amount : Int, remaining : Nat,
   status : OrderStatus, tif : TimeInForce, timestamp : Nat]

Best(inc, ids, os, id) ==
  /\ id \in Eligible(inc, ids, os)
  /\ \A other \in Eligible(inc, ids, os) : ~Beats(inc, os[other], os[id])

\* Of the orders that are there, one is not beaten by any other.
LEMMA UnbeatenExists ==
  ASSUME NEW inc \in Order, NEW os, NEW E, IsFiniteSet(E), E # {},
         \A x \in E : os[x] \in Order
  PROVE  \E x \in E : \A y \in E : ~Beats(inc, os[y], os[x])
  <1> DEFINE By(x) == {y \in E : Beats(inc, os[y], os[x])}
             W == {By(x) : x \in E}
  <1>1. \A s \in W : IsFiniteSet(s)
    BY FS_Subset
  <1>2. PICK s \in W : \A t \in W : ~(t \subseteq s /\ t # s)
    <2>1. W # {}
      OBVIOUS
    <2> HIDE DEF W
    <2> QED
      BY <1>1, <2>1, LeastSet
  <1>3. PICK x \in E : s = By(x)
    BY <1>2
  <1>4. ASSUME NEW y \in E, Beats(inc, os[y], os[x]) PROVE FALSE
    <2>1. \A z \in E : Beats(inc, os[z], os[y]) => Beats(inc, os[z], os[x])
      <3>1. SUFFICES ASSUME NEW z \in E, Beats(inc, os[z], os[y]) PROVE Beats(inc, os[z], os[x])
        OBVIOUS
      <3>2. /\ os[x].price \in Int /\ os[y].price \in Int /\ os[z].price \in Int
            /\ os[x].timestamp \in Int /\ os[y].timestamp \in Int /\ os[z].timestamp \in Int
            /\ inc.side \in {"Buy", "Sell"}
        BY DEF Order, OrderSide
      <3> QED
        BY <1>4, <3>1, <3>2 DEF Beats
    <2>2. ~Beats(inc, os[y], os[y])
      <3>1. os[y].price \in Int /\ os[y].timestamp \in Int
        BY DEF Order
      <3> QED
        BY <3>1 DEF Beats
    <2>3. By(y) \subseteq By(x) /\ By(y) # By(x)
      BY <1>4, <2>1, <2>2
    <2> QED
      BY <1>2, <1>3, <2>3
  <1> QED
    BY <1>4

\* The scan finds the first of the best orders, and none only if there is none.
LEMMA PickFindsBest ==
  ASSUME NEW inc \in Order, NEW ids \in Seq(Nat), NEW os, \A i \in DOMAIN ids : os[ids[i]] \in Order,
         NEW index, index = pick_best_match_index(inc, ids, os)
  PROVE  \/ index = 0 /\ Eligible(inc, ids, os) = {}
         \/ /\ index \in DOMAIN ids /\ index # 0 /\ Best(inc, ids, os, ids[index])
            /\ \A j \in DOMAIN ids : j < index => ~Best(inc, ids, os, ids[j])
  <1> DEFINE I == {i \in 1 .. Len(ids) : Best(inc, ids, os, ids[i])}
  <1>1. index = IF I # {} THEN Min(I) ELSE 0
    BY DEF pick_best_match_index, SelectInSeq, Best
  <1>2. I \subseteq Nat /\ I \subseteq DOMAIN ids
    OBVIOUS
  <1>3. CASE I = {}
    <2>1. PICK E : E = Eligible(inc, ids, os)
      OBVIOUS
    <2>2. E \subseteq ToSet(ids)
      BY <2>1 DEF Eligible
    <2>3. IsFiniteSet(ToSet(ids))
      <3>1. IsFiniteSet(DOMAIN ids)
        BY FS_Interval
      <3>2. ids \in Surjection(DOMAIN ids, ToSet(ids))
        BY DEF Surjection, ToSet
      <3> QED
        BY <3>1, <3>2, FS_Surjection
    <2>4. IsFiniteSet(E) /\ \A x \in E : os[x] \in Order
      BY <2>2, <2>3, FS_Subset DEF ToSet
    <2>5. E = {}
      <3>1. SUFFICES ASSUME E # {} PROVE FALSE
        OBVIOUS
      <3>2. PICK x \in E : \A y \in E : ~Beats(inc, os[y], os[x])
        BY <2>4, <3>1, UnbeatenExists
      <3>3. PICK i \in DOMAIN ids : ids[i] = x
        BY <2>2 DEF ToSet
      <3>4. Best(inc, ids, os, ids[i])
        BY <2>1, <3>2, <3>3 DEF Best
      <3> QED
        BY <1>3, <3>4
    <2> QED
      BY <1>1, <1>3, <2>1, <2>5
  <1>4. CASE I # {}
    <2>1. \E n \in I : \A m \in I : n <= m
      <3> HIDE DEF I
      <3> QED
        BY <1>2, <1>4, LeastNumber
    <2>2. index \in I /\ \A m \in I : index <= m
      <3> HIDE DEF I
      <3> QED
        BY <1>1, <1>4, <2>1 DEF Min
    <2>3. index \in DOMAIN ids /\ index # 0 /\ Best(inc, ids, os, ids[index])
      BY <2>2
    <2>4. \A j \in DOMAIN ids : j < index => ~Best(inc, ids, os, ids[j])
      <3>1. SUFFICES ASSUME NEW j \in DOMAIN ids, j < index, Best(inc, ids, os, ids[j]) PROVE FALSE
        OBVIOUS
      <3>2. j \in I /\ j \in Nat /\ index \in Nat
        BY <1>2, <2>2, <3>1
      <3> HIDE DEF I
      <3> QED
        BY <2>2, <3>1, <3>2
    <2> QED
      BY <2>3, <2>4
  <1> QED
    BY <1>3, <1>4

-----------------------------------------------------------------------------
(* One iteration of the matching loop.                                      *)
Done(m) == m.incoming.remaining <= 0 \/ Eligible(m.incoming, m.ids, m.orders) = {}

Reduced(order, fill) ==
  [order EXCEPT !.remaining = @ - fill, !.status = StatusAfterFill(order.remaining - fill)]

\* The order at a position of the side is filled.
Fills(m, m2, index, fill) ==
  LET id == m.ids[index]
  IN  /\ m2.incoming = Reduced(m.incoming, fill)
      /\ m2.orders = [m.orders EXCEPT ![id] = Reduced(m.orders[id], fill)]
      /\ m2.ids = IF m.orders[id].remaining = fill THEN remove_order_from_book(m.ids, id) ELSE m.ids
      /\ m2.matched = Append(m.matched, [maker |-> id, amount |-> fill, price |-> m.orders[id].price])

\* It is the first of the best, and the incoming order or it is used up.
Chosen(m, index, fill) ==
  LET id == m.ids[index]
  IN  /\ index \in DOMAIN m.ids /\ Best(m.incoming, m.ids, m.orders, id)
      /\ \A j \in DOMAIN m.ids : j < index => ~Best(m.incoming, m.ids, m.orders, m.ids[j])
      /\ fill \in Nat /\ fill > 0
      /\ fill <= m.incoming.remaining /\ fill <= m.orders[id].remaining
      /\ fill = m.incoming.remaining \/ fill = m.orders[id].remaining

\* Min of two numbers.
LEMMA SmallerOfTwo ==
  ASSUME NEW a \in Nat, NEW b \in Nat
  PROVE  Min({a, b}) \in {a, b} /\ Min({a, b}) <= a /\ Min({a, b}) <= b
  <1>1. \E x \in {a, b} : \A y \in {a, b} : x <= y
    OBVIOUS
  <1> QED
    BY <1>1 DEF Min

\* FillBest ends the loop, or fills the first of the best orders.
LEMMA FillCases ==
  ASSUME NEW m, m.incoming \in Order, m.ids \in Seq(Nat),
         \A i \in DOMAIN m.ids : m.orders[m.ids[i]] \in Order,
         NEW m2, m2 = FillBest(m)
  PROVE  \/ Done(m) /\ m2 = m
         \/ ~Done(m) /\ \E index, fill : Chosen(m, index, fill) /\ Fills(m, m2, index, fill)
  <1>1. PICK index : index = pick_best_match_index(m.incoming, m.ids, m.orders)
    OBVIOUS
  <1>2. \/ index = 0 /\ Eligible(m.incoming, m.ids, m.orders) = {}
        \/ /\ index \in DOMAIN m.ids /\ index # 0 /\ Best(m.incoming, m.ids, m.orders, m.ids[index])
           /\ \A j \in DOMAIN m.ids : j < index => ~Best(m.incoming, m.ids, m.orders, m.ids[j])
    <2>1. PICK inc, ids, os : inc = m.incoming /\ ids = m.ids /\ os = m.orders
      OBVIOUS
    <2>2. /\ inc \in Order /\ ids \in Seq(Nat) /\ \A i \in DOMAIN ids : os[ids[i]] \in Order
          /\ index = pick_best_match_index(inc, ids, os)
      BY <1>1, <2>1
    <2>3. \/ index = 0 /\ Eligible(inc, ids, os) = {}
          \/ /\ index \in DOMAIN ids /\ index # 0 /\ Best(inc, ids, os, ids[index])
             /\ \A j \in DOMAIN ids : j < index => ~Best(inc, ids, os, ids[j])
      BY <2>2, PickFindsBest
    <2> QED
      BY <2>1, <2>3
  <1>3. m.incoming.remaining \in Nat
    BY DEF Order
  <1>4. CASE m.incoming.remaining <= 0 \/ index = 0
    <2>1. m2 = m
      BY <1>1, <1>4 DEF FillBest
    <2>2. Done(m)
      BY <1>2, <1>4 DEF Done
    <2> QED
      BY <2>1, <2>2
  <1>5. CASE ~(m.incoming.remaining <= 0 \/ index = 0)
    <2>1. PICK id, maker, fill : /\ id = m.ids[index] /\ maker = m.orders[id]
                                 /\ fill = FillAmount(m.incoming, maker)
      OBVIOUS
    <2>2. /\ index \in DOMAIN m.ids /\ Best(m.incoming, m.ids, m.orders, id)
          /\ \A j \in DOMAIN m.ids : j < index => ~Best(m.incoming, m.ids, m.orders, m.ids[j])
      BY <1>2, <1>5, <2>1
    <2>3. id \in Eligible(m.incoming, m.ids, m.orders)
      BY <2>2 DEF Best
    <2>4. maker.remaining \in Nat /\ maker.remaining > 0
      BY <2>1, <2>2, <2>3 DEF Order, Eligible
    <2>5. /\ fill \in {m.incoming.remaining, maker.remaining}
          /\ fill <= m.incoming.remaining /\ fill <= maker.remaining
      BY <1>3, <2>1, <2>4, SmallerOfTwo DEF FillAmount
    <2>6. fill \in Nat /\ fill > 0
      BY <1>3, <1>5, <2>4, <2>5
    <2>7. Chosen(m, index, fill)
      BY <2>1, <2>2, <2>5, <2>6 DEF Chosen
    <2>8. ~Done(m)
      BY <1>3, <1>5, <2>3 DEF Done
    <2>9. Fills(m, m2, index, fill)
      <3>1. m2 = [incoming |-> Reduced(m.incoming, fill),
                  orders   |-> [m.orders EXCEPT ![id] = Reduced(maker, fill)],
                  ids      |-> IF maker.remaining = fill THEN remove_order_from_book(m.ids, id) ELSE m.ids,
                  matched  |-> Append(m.matched, [maker |-> id, amount |-> fill, price |-> maker.price])]
        BY <1>1, <1>5, <2>1, Zenon DEF FillBest, Reduced, ExecutionPrice
      <3>2. /\ m2.incoming = Reduced(m.incoming, fill)
            /\ m2.orders = [m.orders EXCEPT ![id] = Reduced(maker, fill)]
            /\ m2.ids = IF maker.remaining = fill THEN remove_order_from_book(m.ids, id) ELSE m.ids
            /\ m2.matched = Append(m.matched, [maker |-> id, amount |-> fill, price |-> maker.price])
        BY <3>1
      <3> QED
        BY <2>1, <3>2 DEF Fills
    <2> QED
      BY <2>7, <2>8, <2>9
  <1> QED
    BY <1>4, <1>5

-----------------------------------------------------------------------------
(* The matching loop.                                                       *)
SameTerms(a, b) ==
  /\ a.owner = b.owner /\ a.pair = b.pair /\ a.side = b.side /\ a.price = b.price
  /\ a.amount = b.amount /\ a.tif = b.tif /\ a.timestamp = b.timestamp

\* Only a good-til-cancelled order with something left is open.
Live(order) == IsOpen(order) => order.tif = "Gtc" /\ order.remaining > 0

OpenOn(os, p, side) == {i \in DOMAIN os : os[i].pair = p /\ os[i].side = side /\ IsOpen(os[i])}

\* A side of the book lists the open orders of its pair and side.
Lists(ids, os, p, side) == Ascending(ids) /\ ToSet(ids) = OpenOn(os, p, side)

\* What a match may have done to an order, whose former state is old.
Touched(inc, old, new) ==
  /\ new \in Order /\ SameTerms(new, old) /\ Live(new) /\ new.remaining <= old.remaining
  /\ IsOpen(new) => IsOpen(old)
  /\ IsOpen(old) /\ ~IsOpen(new) => new.remaining = 0
  /\ new # old => /\ IsOpen(old) /\ order_matches(inc, old)

\* The orders a fill has to come to first.
Before(inc, os, i, j) ==
  \/ inc.side = "Buy"  /\ os[i].price < os[j].price
  \/ inc.side = "Sell" /\ os[i].price > os[j].price
  \/ os[i].price = os[j].price /\ i < j

Priority(inc, os, new) ==
  \A i, j \in OpenOn(os, inc.pair, Opposite(inc.side)) :
    Before(inc, os, i, j) /\ new[j].remaining < os[j].remaining => new[i].remaining = 0

Aged(os) == \A i, j \in DOMAIN os : i <= j => os[i].timestamp <= os[j].timestamp

MatchInv(m, inc, os) ==
  /\ m.incoming \in Order /\ SameTerms(m.incoming, inc)
  /\ (IsOpen(m.incoming) <=> m.incoming.remaining > 0)
  /\ m.orders \in Seq(Order) /\ DOMAIN m.orders = DOMAIN os
  /\ \A i \in DOMAIN os : Touched(inc, os[i], m.orders[i])
  /\ Lists(m.ids, m.orders, inc.pair, Opposite(inc.side))
  /\ Priority(inc, os, m.orders)

\* What a fill makes of an order.
LEMMA ReducedOk ==
  ASSUME NEW order \in Order, NEW fill \in Nat, fill <= order.remaining, NEW r, r = Reduced(order, fill)
  PROVE  /\ r \in Order /\ SameTerms(r, order) /\ r.remaining = order.remaining - fill
         /\ IsOpen(r) <=> r.remaining > 0
  <1>1. order.remaining \in Nat
    BY DEF Order
  <1>2. PICK left : left = order.remaining - fill
    OBVIOUS
  <1>3. left \in Nat /\ StatusAfterFill(left) \in OrderStatus
    BY <1>1, <1>2 DEF StatusAfterFill, OrderStatus
  <1>4. r = [order EXCEPT !.remaining = left, !.status = StatusAfterFill(left)]
    BY <1>2 DEF Reduced
  <1>5. r \in Order /\ r.remaining = left /\ r.status = StatusAfterFill(left)
    BY <1>3, <1>4 DEF Order
  <1>6. SameTerms(r, order)
    BY <1>4 DEF Order, SameTerms
  <1> QED
    BY <1>2, <1>3, <1>5, <1>6 DEF IsOpen, StatusAfterFill

\* Whether two orders match depends on their terms alone.
LEMMA MatchesTerms ==
  ASSUME NEW a, NEW b, SameTerms(a, b), NEW c, NEW d, SameTerms(c, d)
  PROVE  order_matches(a, c) <=> order_matches(b, d)
  BY DEF SameTerms, order_matches

\* A fill leaves the loop's invariant true, and ends the loop or shortens the side.
LEMMA FillKeepsMatch ==
  ASSUME NEW inc \in Order, NEW os \in Seq(Order), Aged(os), \A i \in DOMAIN os : Live(os[i]),
         NEW m, MatchInv(m, inc, os), NEW m2, NEW index, NEW fill,
         Chosen(m, index, fill), Fills(m, m2, index, fill)
  PROVE  MatchInv(m2, inc, os) /\ (Done(m2) \/ Len(m2.ids) < Len(m.ids))
  <1>1. PICK id, old, new, p, side :
          /\ id = m.ids[index] /\ old = m.orders[id] /\ new = Reduced(old, fill)
          /\ p = inc.pair /\ side = Opposite(inc.side)
    OBVIOUS
  <1>2. /\ m.incoming \in Order /\ SameTerms(m.incoming, inc)
        /\ m.orders \in Seq(Order) /\ DOMAIN m.orders = DOMAIN os
        /\ \A i \in DOMAIN os : Touched(inc, os[i], m.orders[i])
        /\ Ascending(m.ids) /\ ToSet(m.ids) = OpenOn(m.orders, p, side)
        /\ Priority(inc, os, m.orders)
    BY <1>1 DEF MatchInv, Lists
  <1>3. /\ index \in DOMAIN m.ids /\ Best(m.incoming, m.ids, m.orders, id)
        /\ \A j \in DOMAIN m.ids : j < index => ~Best(m.incoming, m.ids, m.orders, m.ids[j])
        /\ fill \in Nat /\ fill > 0
        /\ fill <= m.incoming.remaining /\ fill <= old.remaining
        /\ fill = m.incoming.remaining \/ fill = old.remaining
    BY <1>1 DEF Chosen
  <1>4. /\ m2.incoming = Reduced(m.incoming, fill)
        /\ m2.orders = [m.orders EXCEPT ![id] = new]
        /\ m2.ids = IF old.remaining = fill THEN remove_order_from_book(m.ids, id) ELSE m.ids
    BY <1>1 DEF Fills
  <1>5. /\ id \in Eligible(m.incoming, m.ids, m.orders)
        /\ \A other \in Eligible(m.incoming, m.ids, m.orders) : ~Beats(m.incoming, m.orders[other], old)
    BY <1>1, <1>3 DEF Best
  <1>6. id \in ToSet(m.ids) /\ IsOpen(old) /\ order_matches(m.incoming, old)
    BY <1>1, <1>5 DEF Eligible
  <1>7. id \in DOMAIN os /\ id \in DOMAIN m.orders /\ old \in Order /\ old.pair = p /\ old.side = side
    BY <1>1, <1>2, <1>6 DEF OpenOn
  <1>8. /\ new \in Order /\ SameTerms(new, old) /\ new.remaining = old.remaining - fill
        /\ IsOpen(new) <=> new.remaining > 0
    BY <1>1, <1>3, <1>7, ReducedOk
  <1>9. /\ m2.incoming \in Order /\ SameTerms(m2.incoming, m.incoming)
        /\ m2.incoming.remaining = m.incoming.remaining - fill
        /\ IsOpen(m2.incoming) <=> m2.incoming.remaining > 0
    BY <1>2, <1>3, <1>4, ReducedOk
  <1>10. /\ m2.orders \in Seq(Order) /\ DOMAIN m2.orders = DOMAIN os /\ m2.orders[id] = new
         /\ \A i \in DOMAIN os : i # id => m2.orders[i] = m.orders[i]
    BY <1>2, <1>4, <1>7, <1>8
  <1>11. SameTerms(m2.incoming, inc)
    BY <1>2, <1>9 DEF SameTerms
  <1>12. old.remaining \in Nat /\ new.remaining \in Nat /\ os[id] \in Order /\ os[id].remaining \in Nat
         /\ m.incoming.remaining \in Nat
    <2>1. os[id] \in Order
      BY <1>7
    <2> QED
      BY <1>2, <1>7, <1>8, <2>1 DEF Order
  <1>13. order_matches(inc, os[id]) /\ SameTerms(old, os[id])
    <2>1. SameTerms(old, os[id])
      BY <1>1, <1>2, <1>7 DEF Touched
    <2> QED
      BY <1>2, <1>6, <2>1, MatchesTerms
  <1>14. Touched(inc, os[id], new)
    <2>1. Touched(inc, os[id], old)
      BY <1>1, <1>2, <1>7
    <2>2. SameTerms(new, os[id])
      BY <1>8, <1>13 DEF SameTerms
    <2>3. Live(new)
      BY <1>6, <1>8, <2>1 DEF Live, Touched, SameTerms
    <2>4. new.remaining <= os[id].remaining
      BY <1>3, <1>8, <1>12, <2>1 DEF Touched
    <2>5. IsOpen(os[id])
      BY <1>6, <2>1 DEF Touched
    <2>6. ~IsOpen(new) => new.remaining = 0
      BY <1>8, <1>12
    <2> QED
      BY <1>8, <1>13, <2>2, <2>3, <2>4, <2>5, <2>6 DEF Touched
  <1>15. \A i \in DOMAIN os : Touched(inc, os[i], m2.orders[i])
    BY <1>2, <1>10, <1>14
  <1>16. old.remaining = fill <=> ~IsOpen(new)
    BY <1>3, <1>8, <1>12
  <1>17. OpenOn(m2.orders, p, side) = IF old.remaining = fill THEN OpenOn(m.orders, p, side) \ {id}
                                                              ELSE OpenOn(m.orders, p, side)
    <2>1. new.pair = p /\ new.side = side
      BY <1>7, <1>8 DEF SameTerms
    <2>2. \A i \in DOMAIN os : i # id => (i \in OpenOn(m2.orders, p, side) <=> i \in OpenOn(m.orders, p, side))
      BY <1>2, <1>10 DEF OpenOn
    <2>3. id \in OpenOn(m2.orders, p, side) <=> IsOpen(new)
      BY <1>7, <1>10, <2>1 DEF OpenOn
    <2>4. id \in OpenOn(m.orders, p, side)
      BY <1>2, <1>6
    <2>5. OpenOn(m.orders, p, side) \subseteq DOMAIN os /\ OpenOn(m2.orders, p, side) \subseteq DOMAIN os
      BY <1>2, <1>10 DEF OpenOn
    <2>6. PICK A, B : A = OpenOn(m.orders, p, side) /\ B = OpenOn(m2.orders, p, side)
      OBVIOUS
    <2>7. /\ A \subseteq DOMAIN os /\ B \subseteq DOMAIN os /\ id \in A /\ (id \in B <=> IsOpen(new))
          /\ \A i \in DOMAIN os : i # id => (i \in B <=> i \in A)
      BY <2>2, <2>3, <2>4, <2>5, <2>6
    <2>8. CASE IsOpen(new)
      <3>1. \A i \in DOMAIN os : i \in B <=> i \in A
        BY <2>7, <2>8
      <3>2. A = B
        BY <2>7, <3>1
      <3> QED
        BY <1>16, <2>6, <2>8, <3>2
    <2>9. CASE ~IsOpen(new)
      <3>1. B = A \ {id}
        BY <2>7, <2>9
      <3> QED
        BY <1>16, <2>6, <2>9, <3>1
    <2> QED
      BY <2>8, <2>9
  <1>18. Lists(m2.ids, m2.orders, p, side) /\ (old.remaining = fill => Len(m2.ids) < Len(m.ids))
    <2>1. CASE old.remaining = fill
      <3>1. m2.ids = remove_order_from_book(m.ids, id)
        BY <1>4, <2>1
      <3>2. Ascending(m2.ids) /\ ToSet(m2.ids) = ToSet(m.ids) \ {id} /\ Len(m2.ids) < Len(m.ids)
        BY <1>2, <1>6, <3>1, RemoveKeepsOthers
      <3> QED
        BY <1>2, <1>17, <2>1, <3>2 DEF Lists
    <2>2. CASE old.remaining # fill
      BY <1>2, <1>4, <1>17, <2>2 DEF Lists
    <2> QED
      BY <2>1, <2>2
  <1>19. Done(m2) \/ Len(m2.ids) < Len(m.ids)
    BY <1>3, <1>9, <1>12, <1>18 DEF Done
  <1>20. Priority(inc, os, m2.orders)
    <2>1. SUFFICES ASSUME NEW i \in OpenOn(os, p, side), NEW j \in OpenOn(os, p, side),
                          Before(inc, os, i, j), m2.orders[j].remaining < os[j].remaining
                   PROVE  m2.orders[i].remaining = 0
      BY <1>1 DEF Priority
    <2>2. i \in DOMAIN os /\ j \in DOMAIN os
      BY DEF OpenOn
    <2>3. CASE m.orders[j].remaining < os[j].remaining
      <3>1. m.orders[i].remaining = 0
        BY <1>1, <1>2, <2>1, <2>3 DEF Priority
      <3>2. i # id
        BY <1>1, <1>3, <1>12, <3>1
      <3> QED
        BY <1>10, <2>2, <3>1, <3>2
    <2>4. CASE ~(m.orders[j].remaining < os[j].remaining)
      <3>1. j = id
        BY <1>10, <2>1, <2>2, <2>4
      <3>2. i # id
        <4>1. os[id].price \in Int
          BY <1>12 DEF Order
        <4>2. id \in Nat
          BY <1>7
        <4> QED
          BY <2>1, <3>1, <4>1, <4>2 DEF Before
      <3>3. m2.orders[i] = m.orders[i]
        BY <1>10, <2>2, <3>2
      <3>4. SUFFICES ASSUME m.orders[i].remaining # 0 PROVE FALSE
        BY <3>3
      <3>5. PICK x : x = m.orders[i]
        OBVIOUS
      <3>6. x \in Order /\ SameTerms(x, os[i]) /\ IsOpen(x) /\ x.remaining > 0
        BY <1>2, <2>1, <2>2, <3>4, <3>5 DEF Touched, Live, OpenOn
      <3>7. x.pair = p /\ x.side = side
        BY <2>1, <3>6 DEF SameTerms, OpenOn
      <3>8. i \in ToSet(m.ids)
        BY <1>2, <2>2, <3>5, <3>6, <3>7 DEF OpenOn
      <3>9. /\ os[i].price \in Int /\ os[j].price \in Int /\ os[i].timestamp \in Int /\ os[j].timestamp \in Int
            /\ inc.price \in Int /\ inc.side \in {"Buy", "Sell"} /\ i \in Nat /\ j \in Nat
        <4>1. os[i] \in Order /\ os[j] \in Order /\ i \in Nat /\ j \in Nat
          BY <2>2
        <4>2. os[i].price \in Int /\ os[i].timestamp \in Nat
          BY <4>1 DEF Order
        <4>3. os[j].price \in Int /\ os[j].timestamp \in Nat
          BY <4>1 DEF Order
        <4>4. inc.price \in Int /\ inc.side \in {"Buy", "Sell"}
          BY DEF Order, OrderSide
        <4> QED
          BY <4>1, <4>2, <4>3, <4>4
      <3>10. x.price = os[i].price /\ x.timestamp = os[i].timestamp
             /\ old.price = os[j].price /\ old.timestamp = os[j].timestamp
             /\ x.pair = old.pair /\ x.side = old.side
        BY <1>7, <1>13, <3>1, <3>6, <3>7 DEF SameTerms
      <3>11. m.incoming.side = inc.side /\ m.incoming.price = inc.price
        BY <1>2 DEF SameTerms
      <3>12. order_matches(m.incoming, x)
        BY <1>6, <2>1, <3>9, <3>10, <3>11 DEF order_matches, Before
      <3>13. i \in Eligible(m.incoming, m.ids, m.orders)
        BY <3>5, <3>6, <3>8, <3>12 DEF Eligible
      <3>14. ~Beats(m.incoming, x, old)
        BY <1>5, <3>5, <3>13
      <3>15. x.price = old.price /\ x.timestamp = old.timestamp /\ i < j
        <4>1. x.price = old.price /\ i < j
          BY <2>1, <3>9, <3>10, <3>11, <3>14 DEF Beats, Before
        <4>2. os[i].timestamp <= os[j].timestamp
          BY <2>2, <3>9, <4>1 DEF Aged
        <4> QED
          BY <3>9, <3>10, <3>14, <4>1, <4>2 DEF Beats
      <3>16. PICK k \in DOMAIN m.ids : m.ids[k] = i
        BY <3>8 DEF ToSet
      <3>17. k < index
        <4>1. m.ids \in Seq(Nat) /\ k \in Nat /\ index \in Nat
          BY <1>2, <1>3 DEF Ascending
        <4>2. CASE k = index
          BY <1>1, <3>1, <3>2, <3>16, <4>2
        <4>3. CASE index < k
          <5>1. m.ids[index] < m.ids[k]
            BY <1>2, <1>3, <4>3 DEF Ascending
          <5> QED
            BY <1>1, <3>1, <3>9, <3>15, <3>16, <5>1
        <4> QED
          BY <4>1, <4>2, <4>3
      <3>18. ~Best(m.incoming, m.ids, m.orders, i)
        BY <1>3, <3>16, <3>17
      <3>19. PICK o \in Eligible(m.incoming, m.ids, m.orders) : Beats(m.incoming, m.orders[o], x)
        BY <3>5, <3>13, <3>18 DEF Best
      <3>20. Beats(m.incoming, m.orders[o], old)
        BY <3>15, <3>19 DEF Beats
      <3> QED
        BY <1>5, <3>19, <3>20
    <2> QED
      BY <2>3, <2>4
  <1> QED
    BY <1>1, <1>9, <1>10, <1>11, <1>15, <1>18, <1>19, <1>20 DEF MatchInv

\* The loop of match_limit_order: f[n] is the match after n iterations.
Runs(f, inc, os, ids, k) ==
  f = [n \in 0 .. k |-> IF n = 0 THEN Matching(inc, os, ids) ELSE FillBest(f[n - 1])]

\* The recursive function behind the loop exists.
LEMMA RunExists ==
  ASSUME NEW inc, NEW os, NEW ids, NEW n \in Nat
  PROVE  \E f : Runs(f, inc, os, ids, n)
  <1> DEFINE T == {k \in Nat : ~\E f : Runs(f, inc, os, ids, k)}
  <1>1. SUFFICES ASSUME T # {} PROVE FALSE
    OBVIOUS
  <1>2. PICK k \in T : \A m \in T : k <= m
    <2> T \subseteq Nat
      OBVIOUS
    <2> HIDE DEF T
    <2> QED
      BY <1>1, LeastNumber
  <1>3. k \in Nat /\ ~\E f : Runs(f, inc, os, ids, k)
    BY <1>2
  <1>4. CASE k = 0
    <2> DEFINE f == [d \in 0 .. 0 |-> Matching(inc, os, ids)]
    <2>1. Runs(f, inc, os, ids, 0)
      BY DEF Runs
    <2> QED
      BY <1>3, <1>4, <2>1
  <1>5. CASE k # 0
    <2>1. k - 1 \in Nat /\ ~(k <= k - 1)
      BY <1>3, <1>5
    <2>2. k - 1 \notin T
      BY <1>2, <2>1
    <2>3. PICK g : Runs(g, inc, os, ids, k - 1)
      BY <2>1, <2>2
    <2> DEFINE f == [d \in 0 .. k |-> IF d = k THEN FillBest(g[k - 1]) ELSE g[d]]
    <2>4. \A d \in 0 .. k - 1 : f[d] = g[d] /\ g[d] = IF d = 0 THEN Matching(inc, os, ids) ELSE FillBest(g[d - 1])
      BY <1>3, <2>3 DEF Runs
    <2>5. ASSUME NEW d \in 1 .. k PROVE f[d] = FillBest(f[d - 1])
      <3>1. f[d - 1] = g[d - 1]
        BY <1>3, <2>4
      <3>2. CASE d = k
        <4>1. f[k] = FillBest(g[k - 1])
          BY <1>3
        <4> HIDE DEF f
        <4> QED
          BY <3>1, <3>2, <4>1
      <3>3. CASE d # k
        <4>1. d \in 0 .. k - 1 /\ d # 0
          BY <1>3, <3>3
        <4> HIDE DEF f
        <4> QED
          BY <2>4, <3>1, <4>1
      <3> QED
        BY <3>2, <3>3
    <2>6. f[0] = Matching(inc, os, ids)
      <3>1. 0 \in 0 .. k - 1
        BY <2>1
      <3> HIDE DEF f
      <3> QED
        BY <2>4, <3>1
    <2>7. f = [d \in 0 .. k |-> f[d]]
      OBVIOUS
    <2>8. ASSUME NEW d \in 0 .. k
          PROVE  f[d] = IF d = 0 THEN Matching(inc, os, ids) ELSE FillBest(f[d - 1])
      <3> HIDE DEF f
      <3> QED
        BY <1>3, <2>5, <2>6
    <2>9. Runs(f, inc, os, ids, k)
      <3> HIDE DEF f
      <3> QED
        BY <2>7, <2>8 DEF Runs
    <2> QED
      BY <1>3, <2>9
  <1> QED
    BY <1>4, <1>5

\* match_limit_order is the last of its iterations.
LEMMA MatchRuns ==
  ASSUME NEW inc, NEW os, NEW ids, NEW N \in Nat, N = Len(ids)
  PROVE  \E f : /\ match_limit_order(inc, os, ids) = f[N]
                /\ f[0] = Matching(inc, os, ids)
                /\ \A n \in 1 .. N : f[n] = FillBest(f[n - 1])
  <1> DEFINE f == CHOOSE g : Runs(g, inc, os, ids, N)
  <1>1. Runs(f, inc, os, ids, N)
    BY RunExists
  <1>2. match_limit_order(inc, os, ids) = f[N]
    BY DEF match_limit_order, Runs
  <1> HIDE DEF f
  <1>3. f[0] = Matching(inc, os, ids) /\ \A n \in 1 .. N : f[n] = FillBest(f[n - 1])
    BY <1>1 DEF Runs
  <1> QED
    BY <1>2, <1>3

\* An order that arrives, and a side it can be matched with.
Arrives(inc, os, ids) ==
  /\ inc \in Order /\ IsOpen(inc) /\ inc.remaining > 0
  /\ os \in Seq(Order) /\ Aged(os) /\ \A i \in DOMAIN os : Live(os[i])
  /\ Lists(ids, os, inc.pair, Opposite(inc.side))

\* After n iterations the loop has ended or the side has lost n orders.
LoopOk(m, inc, os, ids, n) == MatchInv(m, inc, os) /\ (Done(m) \/ Len(m.ids) <= Len(ids) - n)

\* The invariant holds before the first iteration,
LEMMA LoopStarts ==
  ASSUME NEW inc, NEW os, NEW ids, Arrives(inc, os, ids), NEW m, m = Matching(inc, os, ids)
  PROVE  LoopOk(m, inc, os, ids, 0)
  <1>1. m.incoming = inc /\ m.orders = os /\ m.ids = ids
    BY DEF Matching
  <1>2. ids \in Seq(Nat)
    BY DEF Arrives, Lists, Ascending
  <1>3. Len(m.ids) <= Len(ids) - 0
    BY <1>1, <1>2
  <1>4. ASSUME NEW i \in DOMAIN os PROVE Touched(inc, os[i], os[i]) /\ ~(os[i].remaining < os[i].remaining)
    <2>1. os[i] \in Order /\ Live(os[i])
      BY DEF Arrives
    <2>2. os[i].remaining \in Nat
      BY <2>1 DEF Order
    <2> QED
      BY <2>1, <2>2 DEF Touched, SameTerms
  <1>5. Priority(inc, os, os)
    BY <1>4 DEF Priority, OpenOn
  <1>6. inc \in Order /\ SameTerms(inc, inc) /\ (IsOpen(inc) <=> inc.remaining > 0) /\ os \in Seq(Order)
        /\ Lists(ids, os, inc.pair, Opposite(inc.side))
    BY DEF Arrives, SameTerms
  <1> QED
    BY <1>1, <1>3, <1>4, <1>5, <1>6 DEF LoopOk, MatchInv

\* An iteration changes nothing or fills an order of the side.
Iteration(m, m2) ==
  \/ Done(m) /\ m2 = m
  \/ ~Done(m) /\ \E index, fill : Chosen(m, index, fill) /\ Fills(m, m2, index, fill)

\* FillBest is such an iteration.
LEMMA IterationCases ==
  ASSUME NEW inc, NEW os, NEW m, MatchInv(m, inc, os), NEW m2, m2 = FillBest(m)
  PROVE  Iteration(m, m2)
  <1>1. /\ m.incoming \in Order /\ m.ids \in Seq(Nat) /\ m.orders \in Seq(Order)
        /\ ToSet(m.ids) \subseteq DOMAIN m.orders
    BY DEF MatchInv, Lists, Ascending, OpenOn
  <1>2. \A i \in DOMAIN m.ids : m.orders[m.ids[i]] \in Order
    BY <1>1 DEF ToSet
  <1> QED
    BY <1>1, <1>2, FillCases DEF Iteration

\* and each iteration keeps it.
LEMMA LoopContinues ==
  ASSUME NEW inc, NEW os, NEW ids, Arrives(inc, os, ids), NEW n \in Nat,
         NEW m, LoopOk(m, inc, os, ids, n), NEW m2, m2 = FillBest(m)
  PROVE  LoopOk(m2, inc, os, ids, n + 1)
  <1>1. MatchInv(m, inc, os)
    BY DEF LoopOk
  <1>2. Iteration(m, m2)
    BY <1>1, IterationCases
  <1>3. CASE Done(m)
    BY <1>1, <1>2, <1>3 DEF LoopOk, Iteration
  <1>4. CASE ~Done(m)
    <2>1. PICK index, fill : Chosen(m, index, fill) /\ Fills(m, m2, index, fill)
      BY <1>2, <1>4 DEF Iteration
    <2>2. inc \in Order /\ os \in Seq(Order) /\ Aged(os) /\ \A i \in DOMAIN os : Live(os[i])
      BY DEF Arrives
    <2>3. MatchInv(m2, inc, os) /\ (Done(m2) \/ Len(m2.ids) < Len(m.ids))
      BY <1>1, <2>1, <2>2, FillKeepsMatch
    <2>4. m.ids \in Seq(Nat) /\ m2.ids \in Seq(Nat) /\ ids \in Seq(Nat)
      BY <1>1, <2>3 DEF MatchInv, Arrives, Lists, Ascending
    <2>5. Len(m.ids) <= Len(ids) - n
      BY <1>4 DEF LoopOk
    <2>6. Len(m.ids) \in Nat /\ Len(m2.ids) \in Nat /\ Len(ids) \in Nat
      BY <2>4
    <2>7. Done(m2) \/ Len(m2.ids) <= Len(ids) - (n + 1)
      BY <2>3, <2>5, <2>6
    <2> QED
      BY <2>3, <2>7 DEF LoopOk
  <1> QED
    BY <1>3, <1>4

\* A match in n iterations.
MatchSteps(f, N, inc, os, ids) ==
  /\ N \in Nat /\ f[0] = Matching(inc, os, ids) /\ Done(f[N])
  /\ \A n \in 0 .. N : MatchInv(f[n], inc, os)
  /\ \A n \in 1 .. N : Iteration(f[n - 1], f[n])

\* The match ends, and its invariant holds all the way.
LEMMA MatchTakesSteps ==
  ASSUME NEW inc, NEW os, NEW ids, Arrives(inc, os, ids), NEW m, m = match_limit_order(inc, os, ids)
  PROVE  \E f, N : MatchSteps(f, N, inc, os, ids) /\ m = f[N]
  <1>1. ids \in Seq(Nat)
    BY DEF Arrives, Lists, Ascending
  <1>2. PICK N \in Nat : N = Len(ids)
    BY <1>1
  <1>3. PICK f : /\ m = f[N] /\ f[0] = Matching(inc, os, ids)
                 /\ \A n \in 1 .. N : f[n] = FillBest(f[n - 1])
    BY <1>2, MatchRuns
  <1> DEFINE T == {n \in 0 .. N : ~LoopOk(f[n], inc, os, ids, n)}
  <1>4. T = {}
    <2>1. SUFFICES ASSUME T # {} PROVE FALSE
      OBVIOUS
    <2>2. PICK k \in T : \A x \in T : k <= x
      <3>1. T \subseteq Nat
        OBVIOUS
      <3> HIDE DEF T
      <3> QED
        BY <2>1, <3>1, LeastNumber
    <2>3. CASE k = 0
      BY <1>3, <2>2, <2>3, LoopStarts
    <2>4. CASE k # 0
      <3>1. PICK n : n = k - 1
        OBVIOUS
      <3>2. n \in Nat /\ n \in 0 .. N /\ k = n + 1 /\ k \in 1 .. N /\ ~(k <= n)
        BY <2>2, <2>4, <3>1
      <3>3. LoopOk(f[n], inc, os, ids, n)
        BY <2>2, <3>2
      <3>4. f[k] = FillBest(f[n])
        BY <1>3, <3>1, <3>2
      <3>5. LoopOk(f[k], inc, os, ids, n + 1)
        BY <3>2, <3>3, <3>4, LoopContinues
      <3> QED
        BY <2>2, <3>2, <3>5
    <2> QED
      BY <2>3, <2>4
  <1>5. LoopOk(m, inc, os, ids, N)
    BY <1>2, <1>3, <1>4
  <1>6. MatchInv(m, inc, os) /\ (Done(m) \/ Len(m.ids) <= 0)
    BY <1>2, <1>5 DEF LoopOk
  <1>7. ASSUME Len(m.ids) <= 0 PROVE Done(m)
    <2>1. m.ids \in Seq(Nat)
      BY <1>6 DEF MatchInv, Lists, Ascending
    <2>2. DOMAIN m.ids = {}
      BY <1>7, <2>1
    <2>3. Eligible(m.incoming, m.ids, m.orders) = {}
      BY <2>2 DEF Eligible, ToSet
    <2> QED
      BY <2>3 DEF Done
  <1>8. \A n \in 0 .. N : MatchInv(f[n], inc, os)
    BY <1>4 DEF LoopOk
  <1>9. ASSUME NEW n \in 1 .. N PROVE Iteration(f[n - 1], f[n])
    <2>1. n - 1 \in 0 .. N
      OBVIOUS
    <2> QED
      BY <1>3, <1>8, <2>1, IterationCases
  <1> QED
    BY <1>3, <1>6, <1>7, <1>8, <1>9 DEF MatchSteps

\* What a match leaves behind.
LEMMA MatchEnds ==
  ASSUME NEW inc, NEW os, NEW ids, Arrives(inc, os, ids), NEW m, m = match_limit_order(inc, os, ids)
  PROVE  MatchInv(m, inc, os) /\ Done(m)
  <1>1. PICK f, N : MatchSteps(f, N, inc, os, ids) /\ m = f[N]
    BY MatchTakesSteps
  <1>2. N \in 0 .. N
    BY <1>1 DEF MatchSteps
  <1> QED
    BY <1>1, <1>2 DEF MatchSteps

-----------------------------------------------------------------------------
(* The stored book.                                                         *)

\* On no pair does an open buy reach the price of an open sell.
Uncrossed(os) ==
  \A i, j \in DOMAIN os :
    /\ IsOpen(os[i]) /\ IsOpen(os[j]) /\ os[i].pair = os[j].pair
    /\ os[i].side = "Buy" /\ os[j].side = "Sell"
    => os[i].price < os[j].price

BookOk(os, bk, t) ==
  /\ t \in Nat /\ os \in Seq(Order) /\ Aged(os)
  /\ \A i \in DOMAIN os : Live(os[i]) /\ os[i].timestamp <= t
  /\ bk \in [Pairs -> [OrderSide -> Seq(Nat)]]
  /\ \A p \in Pairs, side \in OrderSide : Lists(bk[p][side], os, p, side)
  /\ Uncrossed(os)

\* The order that a call creates, before it is matched.
Created(inc, t) ==
  /\ inc \in Order /\ IsOpen(inc) /\ inc.remaining > 0 /\ inc.timestamp = t
  /\ inc.status = "Open" /\ inc.amount = inc.remaining

\* An order that is created finds the opposite side in order.
LEMMA CreatedArrives ==
  ASSUME NEW os, NEW bk, NEW t, BookOk(os, bk, t), NEW inc, Created(inc, t)
  PROVE  Arrives(inc, os, bk[inc.pair][Opposite(inc.side)])
  <1>1. inc.pair \in Pairs /\ Opposite(inc.side) \in OrderSide
    BY DEF Created, Order, Opposite, OrderSide
  <1> QED
    BY <1>1 DEF BookOk, Created, Arrives

\* What is left of an order that was matched, as it is stored.
LEMMA SettledOk ==
  ASSUME NEW order \in Order, IsOpen(order) <=> order.remaining > 0,
         order.tif = "Fok" => order.remaining <= 0, NEW x, x = Settle(order)
  PROVE  /\ x \in Order /\ SameTerms(x, order) /\ x.remaining = order.remaining /\ Live(x)
         /\ IsOpen(x) <=> Rests(order)
  <1>1. order.remaining \in Nat /\ order.tif \in {"Gtc", "Ioc", "Fok"}
    BY DEF Order, TimeInForce
  <1>2. CASE order.tif = "Ioc" /\ order.remaining > 0
    <2>1. x = [order EXCEPT !.status = "Cancelled"]
      BY <1>2 DEF Settle
    <2>2. x \in Order /\ SameTerms(x, order) /\ x.remaining = order.remaining /\ x.status = "Cancelled"
      BY <2>1 DEF Order, SameTerms, OrderStatus
    <2> QED
      BY <1>2, <2>2 DEF Live, IsOpen, Rests
  <1>3. CASE ~(order.tif = "Ioc" /\ order.remaining > 0)
    <2>1. x = order
      BY <1>3 DEF Settle
    <2> QED
      BY <1>1, <1>3, <2>1 DEF Live, SameTerms, Rests
  <1> QED
    BY <1>2, <1>3

\* A side that a match did not look at lists the same orders.
LEMMA OtherSidesKept ==
  ASSUME NEW inc \in Order, NEW os \in Seq(Order), NEW new, DOMAIN new = DOMAIN os,
         \A i \in DOMAIN os : Touched(inc, os[i], new[i]),
         NEW p, NEW side, ~(p = inc.pair /\ side = Opposite(inc.side))
  PROVE  OpenOn(new, p, side) = OpenOn(os, p, side)
  <1>1. SUFFICES ASSUME NEW i \in DOMAIN os PROVE i \in OpenOn(new, p, side) <=> i \in OpenOn(os, p, side)
    BY DEF OpenOn
  <1>2. CASE new[i] = os[i]
    BY <1>2 DEF OpenOn
  <1>3. CASE new[i] # os[i]
    <2>1. order_matches(inc, os[i]) /\ SameTerms(new[i], os[i])
      BY <1>3 DEF Touched
    <2>2. os[i].pair = inc.pair /\ os[i].side = Opposite(inc.side)
      BY <2>1 DEF order_matches, Opposite
    <2> QED
      BY <2>1, <2>2 DEF OpenOn, SameTerms
  <1> QED
    BY <1>2, <1>3

\* An order that is matched and stored leaves a book in order.
Stored(inc, os, bk, m, x, os2, bk2) ==
  /\ m = match_limit_order(inc, os, bk[inc.pair][Opposite(inc.side)])
  /\ inc.tif = "Fok" => m.incoming.remaining <= 0
  /\ x = Settle(m.incoming)
  /\ os2 = Append(m.orders, x)
  /\ bk2 = [bk EXCEPT ![inc.pair][Opposite(inc.side)] = m.ids,
                      ![inc.pair][inc.side] = Resting(bk[inc.pair][inc.side], m.incoming, Len(os) + 1)]

StoredOk(inc, os, m, x, os2, n) ==
  /\ MatchInv(m, inc, os) /\ Done(m)
  /\ x \in Order /\ SameTerms(x, inc) /\ x.remaining = m.incoming.remaining /\ Live(x)
  /\ (IsOpen(x) <=> Rests(m.incoming))
  /\ os2 \in Seq(Order) /\ DOMAIN os2 = DOMAIN os \cup {n} /\ os2[n] = x
  /\ n \in Nat /\ n \notin DOMAIN os
  /\ \A i \in DOMAIN os : os2[i] = m.orders[i] /\ i < n

\* The orders after a match: the matched ones, then the incoming one.
LEMMA StoredShape ==
  ASSUME NEW os, NEW bk, NEW t, BookOk(os, bk, t), NEW inc, Created(inc, t),
         NEW m, NEW x, NEW os2, NEW bk2, Stored(inc, os, bk, m, x, os2, bk2), NEW n, n = Len(os) + 1
  PROVE  StoredOk(inc, os, m, x, os2, n)
  <1>1. Arrives(inc, os, bk[inc.pair][Opposite(inc.side)])
    BY CreatedArrives
  <1>2. MatchInv(m, inc, os) /\ Done(m)
    BY <1>1, MatchEnds DEF Stored
  <1>3. /\ m.incoming \in Order /\ SameTerms(m.incoming, inc)
        /\ IsOpen(m.incoming) <=> m.incoming.remaining > 0
        /\ m.orders \in Seq(Order) /\ DOMAIN m.orders = DOMAIN os /\ os \in Seq(Order)
    BY <1>2 DEF MatchInv, BookOk
  <1>4. m.incoming.tif = "Fok" => m.incoming.remaining <= 0
    BY <1>3 DEF Stored, SameTerms
  <1>5. /\ x \in Order /\ SameTerms(x, m.incoming) /\ x.remaining = m.incoming.remaining /\ Live(x)
        /\ IsOpen(x) <=> Rests(m.incoming)
    BY <1>3, <1>4, SettledOk DEF Stored
  <1>6. SameTerms(x, inc)
    BY <1>3, <1>5 DEF SameTerms
  <1>7. Len(m.orders) = Len(os) /\ Len(os) \in Nat /\ DOMAIN os = 1 .. Len(os)
    BY <1>3
  <1>8. os2 = Append(m.orders, x)
    BY DEF Stored
  <1>9. /\ os2 \in Seq(Order) /\ Len(os2) = n
        /\ os2[n] = x /\ \A i \in DOMAIN os : os2[i] = m.orders[i]
    BY <1>3, <1>5, <1>7, <1>8
  <1>10. /\ DOMAIN os2 = DOMAIN os \cup {n} /\ n \in Nat /\ n \notin DOMAIN os
         /\ \A i \in DOMAIN os : i < n
    BY <1>7, <1>9
  <1> QED
    BY <1>2, <1>5, <1>6, <1>9, <1>10 DEF StoredOk

\* No open order is left that the stored one could trade with.
LEMMA StoredUncrossed ==
  ASSUME NEW os, NEW bk, NEW t, BookOk(os, bk, t), NEW inc, Created(inc, t),
         NEW m, NEW x, NEW os2, NEW bk2, Stored(inc, os, bk, m, x, os2, bk2)
  PROVE  Uncrossed(os2)
  <1>1. PICK n : n = Len(os) + 1
    OBVIOUS
  <1>2. /\ MatchInv(m, inc, os) /\ Done(m)
        /\ x \in Order /\ SameTerms(x, inc) /\ x.remaining = m.incoming.remaining /\ Live(x)
        /\ IsOpen(x) <=> Rests(m.incoming)
        /\ DOMAIN os2 = DOMAIN os \cup {n} /\ os2[n] = x
        /\ \A i \in DOMAIN os : os2[i] = m.orders[i]
    <2>1. StoredOk(inc, os, m, x, os2, n)
      BY <1>1, StoredShape
    <2> QED
      BY <2>1 DEF StoredOk
  <1>3. /\ m.incoming \in Order /\ SameTerms(m.incoming, inc) /\ inc \in Order
        /\ \A i \in DOMAIN os : Touched(inc, os[i], m.orders[i])
        /\ DOMAIN m.orders = DOMAIN os
        /\ ToSet(m.ids) = OpenOn(m.orders, inc.pair, Opposite(inc.side))
    BY <1>2 DEF MatchInv, Lists, Created
  <1>4. ASSUME NEW j \in DOMAIN os, IsOpen(os2[j]), IsOpen(x), os2[j].pair = x.pair,
               os2[j].side = Opposite(x.side)
        PROVE  ~order_matches(inc, os2[j])
    <2>1. PICK y : y = os2[j] /\ y = m.orders[j]
      BY <1>2
    <2>2. Touched(inc, os[j], y)
      BY <1>3, <2>1
    <2>3. IsOpen(y) /\ y.pair = inc.pair /\ y.side = Opposite(inc.side) /\ y.remaining > 0
      BY <1>2, <1>4, <2>1, <2>2 DEF SameTerms, Touched, Live
    <2>4. j \in ToSet(m.ids)
      BY <1>3, <2>1, <2>3 DEF OpenOn
    <2>5. m.incoming.remaining > 0
      BY <1>2, <1>4 DEF Rests
    <2>6. m.incoming.remaining \in Nat
      BY <1>3 DEF Order
    <2>7. Eligible(m.incoming, m.ids, m.orders) = {}
      BY <1>2, <2>5, <2>6 DEF Done
    <2>8. ~order_matches(m.incoming, y)
      BY <2>1, <2>3, <2>4, <2>7 DEF Eligible
    <2>9. SameTerms(y, y)
      BY DEF SameTerms
    <2> QED
      BY <1>3, <2>1, <2>8, <2>9, MatchesTerms
  <1>5. SUFFICES ASSUME NEW i \in DOMAIN os2, NEW j \in DOMAIN os2, IsOpen(os2[i]), IsOpen(os2[j]),
                        os2[i].pair = os2[j].pair, os2[i].side = "Buy", os2[j].side = "Sell"
                 PROVE  os2[i].price < os2[j].price
    BY DEF Uncrossed
  <1>6. x.pair = inc.pair /\ x.side = inc.side /\ x.price = inc.price /\ inc.price \in Int
    BY <1>2, <1>3 DEF SameTerms, Order
  <1>7. ASSUME NEW k \in DOMAIN os
        PROVE  /\ IsOpen(os2[k]) => IsOpen(os[k])
               /\ os2[k].pair = os[k].pair /\ os2[k].side = os[k].side /\ os2[k].price = os[k].price
               /\ os2[k].price \in Int
    <2>1. Touched(inc, os[k], os2[k])
      BY <1>2, <1>3
    <2> QED
      BY <2>1 DEF Touched, SameTerms, Order
  <1>8. CASE i \in DOMAIN os /\ j \in DOMAIN os
    <2>1. Uncrossed(os)
      BY DEF BookOk
    <2> QED
      BY <1>5, <1>7, <1>8, <2>1 DEF Uncrossed
  <1>9. CASE i = n /\ j \in DOMAIN os
    <2>1. ~order_matches(inc, os2[j])
      BY <1>2, <1>4, <1>5, <1>9 DEF Opposite
    <2> QED
      BY <1>2, <1>5, <1>6, <1>7, <1>9, <2>1 DEF order_matches
  <1>10. CASE i \in DOMAIN os /\ j = n
    <2>1. ~order_matches(inc, os2[i])
      BY <1>2, <1>4, <1>5, <1>10 DEF Opposite
    <2> QED
      BY <1>2, <1>5, <1>6, <1>7, <1>10, <2>1 DEF order_matches
  <1>11. CASE i = n /\ j = n
    BY <1>5, <1>11
  <1> QED
    BY <1>2, <1>8, <1>9, <1>10, <1>11

\* Both sides of the pair are kept, and the others are not touched.
LEMMA StoredLists ==
  ASSUME NEW os, NEW bk, NEW t, BookOk(os, bk, t), NEW inc, Created(inc, t),
         NEW m, NEW x, NEW os2, NEW bk2, Stored(inc, os, bk, m, x, os2, bk2)
  PROVE  /\ bk2 \in [Pairs -> [OrderSide -> Seq(Nat)]]
         /\ \A p \in Pairs, side \in OrderSide : Lists(bk2[p][side], os2, p, side)
  <1>1. PICK n, opp : n = Len(os) + 1 /\ opp = Opposite(inc.side)
    OBVIOUS
  <1>2. /\ MatchInv(m, inc, os) /\ SameTerms(x, inc) /\ (IsOpen(x) <=> Rests(m.incoming))
        /\ DOMAIN os2 = DOMAIN os \cup {n} /\ os2[n] = x /\ n \notin DOMAIN os /\ n \in Nat
        /\ \A i \in DOMAIN os : os2[i] = m.orders[i] /\ i < n
    <2>1. StoredOk(inc, os, m, x, os2, n)
      BY <1>1, StoredShape
    <2> QED
      BY <2>1 DEF StoredOk
  <1>3. /\ inc \in Order /\ os \in Seq(Order) /\ DOMAIN m.orders = DOMAIN os
        /\ \A i \in DOMAIN os : Touched(inc, os[i], m.orders[i])
        /\ Lists(m.ids, m.orders, inc.pair, opp)
    BY <1>1, <1>2 DEF MatchInv, Created, BookOk
  <1>4. /\ inc.pair \in Pairs /\ inc.side \in OrderSide /\ opp \in OrderSide /\ inc.side # opp
        /\ OrderSide = {inc.side, opp}
    BY <1>1, <1>3 DEF Order, OrderSide, Opposite
  <1>5. PICK own : own = IF Rests(m.incoming) THEN Append(bk[inc.pair][inc.side], n) ELSE bk[inc.pair][inc.side]
    OBVIOUS
  <1>6. bk \in [Pairs -> [OrderSide -> Seq(Nat)]] /\ \A p \in Pairs, side \in OrderSide : Lists(bk[p][side], os, p, side)
    BY DEF BookOk
  <1>7. bk2 = [bk EXCEPT ![inc.pair][opp] = m.ids, ![inc.pair][inc.side] = own]
    BY <1>1, <1>5 DEF Stored, Resting
  <1>8. m.ids \in Seq(Nat) /\ own \in Seq(Nat)
    BY <1>2, <1>3, <1>4, <1>5, <1>6 DEF Lists, Ascending
  <1>9. /\ bk2 \in [Pairs -> [OrderSide -> Seq(Nat)]]
        /\ bk2[inc.pair][opp] = m.ids /\ bk2[inc.pair][inc.side] = own
        /\ \A p \in Pairs : p # inc.pair => bk2[p] = bk[p]
    BY <1>4, <1>6, <1>7, <1>8
  <1>10. x.pair = inc.pair /\ x.side = inc.side
    BY <1>2 DEF SameTerms
  <1>11. ASSUME NEW p, NEW side, ~(p = inc.pair /\ side = inc.side)
         PROVE  OpenOn(os2, p, side) = OpenOn(m.orders, p, side)
    BY <1>2, <1>3, <1>10, <1>11 DEF OpenOn
  <1>12. Lists(m.ids, os2, inc.pair, opp)
    BY <1>3, <1>4, <1>11 DEF Lists
  <1>13. Lists(own, os2, inc.pair, inc.side)
    <2>1. PICK A, q : A = OpenOn(os, inc.pair, inc.side) /\ q = bk[inc.pair][inc.side]
      OBVIOUS
    <2>2. Ascending(q) /\ ToSet(q) = A /\ q \in Seq(Nat)
      BY <1>4, <1>6, <2>1 DEF Lists, Ascending
    <2>3. OpenOn(m.orders, inc.pair, inc.side) = A
      BY <1>1, <1>3, <1>4, <2>1, OtherSidesKept
    <2>4. OpenOn(os2, inc.pair, inc.side) = IF IsOpen(x) THEN A \cup {n} ELSE A
      <3>1. \A i \in DOMAIN os : i \in OpenOn(os2, inc.pair, inc.side) <=> i \in A
        BY <1>2, <1>3, <2>3 DEF OpenOn
      <3>2. n \in OpenOn(os2, inc.pair, inc.side) <=> IsOpen(x)
        BY <1>2, <1>10 DEF OpenOn
      <3>3. OpenOn(os2, inc.pair, inc.side) \subseteq DOMAIN os \cup {n} /\ A \subseteq DOMAIN os
        BY <1>2, <2>1 DEF OpenOn
      <3>4. PICK B : B = OpenOn(os2, inc.pair, inc.side)
        OBVIOUS
      <3> QED
        BY <1>2, <3>1, <3>2, <3>3, <3>4
    <2>5. CASE ~Rests(m.incoming)
      BY <1>2, <1>5, <2>1, <2>2, <2>4, <2>5 DEF Lists
    <2>6. CASE Rests(m.incoming)
      <3>1. own = Append(q, n)
        BY <1>5, <2>1, <2>6
      <3>2. /\ own \in Seq(Nat) /\ DOMAIN own = DOMAIN q \cup {Len(q) + 1}
            /\ own[Len(q) + 1] = n /\ \A i \in DOMAIN q : own[i] = q[i] /\ i < Len(q) + 1 /\ q[i] \in Nat
            /\ Len(q) \in Nat
        BY <1>2, <2>2, <3>1
      <3>3. \A i \in DOMAIN q : q[i] < n
        <4>1. \A y \in A : y < n
          BY <1>2, <2>1 DEF OpenOn
        <4> QED
          BY <2>2, <4>1 DEF ToSet
      <3>4. ToSet(own) = A \cup {n}
        BY <2>2, <3>2 DEF ToSet
      <3>5. Ascending(own)
        <4>1. SUFFICES ASSUME NEW i \in DOMAIN own, NEW j \in DOMAIN own, i < j PROVE own[i] < own[j]
          BY <3>2 DEF Ascending
        <4>2. CASE i \in DOMAIN q /\ j \in DOMAIN q
          BY <2>2, <3>2, <4>1, <4>2 DEF Ascending
        <4>3. CASE i \in DOMAIN q /\ j = Len(q) + 1
          BY <3>2, <3>3, <4>3
        <4>4. CASE i = Len(q) + 1
          <5>1. j \in DOMAIN q => j \in Nat /\ j < Len(q) + 1
            BY <2>2, <3>2
          <5> QED
            BY <3>2, <4>1, <4>4, <5>1
        <4> QED
          BY <3>2, <4>2, <4>3, <4>4
      <3> QED
        BY <1>2, <2>4, <2>6, <3>4, <3>5 DEF Lists
    <2> QED
      BY <2>5, <2>6
  <1>14. ASSUME NEW p \in Pairs, NEW side \in OrderSide PROVE Lists(bk2[p][side], os2, p, side)
    <2>1. CASE p # inc.pair
      <3>1. OpenOn(os2, p, side) = OpenOn(os, p, side)
        BY <1>1, <1>3, <1>11, <2>1, OtherSidesKept
      <3>2. bk2[p][side] = bk[p][side]
        BY <1>9, <2>1
      <3> QED
        BY <1>6, <3>1, <3>2 DEF Lists
    <2>2. CASE p = inc.pair /\ side = opp
      BY <1>9, <1>12, <2>2
    <2>3. CASE p = inc.pair /\ side = inc.side
      BY <1>9, <1>13, <2>3
    <2> QED
      BY <1>4, <2>1, <2>2, <2>3
  <1> QED
    BY <1>9, <1>14

\* Creating an order keeps the book in order.
LEMMA StoredBook ==
  ASSUME NEW os, NEW bk, NEW t, BookOk(os, bk, t), NEW inc, Created(inc, t),
         NEW m, NEW x, NEW os2, NEW bk2, Stored(inc, os, bk, m, x, os2, bk2)
  PROVE  BookOk(os2, bk2, t)
  <1>1. PICK n : n = Len(os) + 1
    OBVIOUS
  <1>2. StoredOk(inc, os, m, x, os2, n)
    BY <1>1, StoredShape
  <1>3. /\ os2 \in Seq(Order) /\ DOMAIN os2 = DOMAIN os \cup {n} /\ os2[n] = x /\ Live(x)
        /\ SameTerms(x, inc) /\ MatchInv(m, inc, os)
        /\ n \in Nat /\ \A i \in DOMAIN os : os2[i] = m.orders[i] /\ i < n
    BY <1>2 DEF StoredOk
  <1>4. x.timestamp = t /\ t \in Nat /\ Aged(os) /\ os \in Seq(Order)
    BY <1>3 DEF SameTerms, Created, BookOk
  <1>5. ASSUME NEW i \in DOMAIN os
        PROVE  /\ Live(os2[i]) /\ os2[i].timestamp = os[i].timestamp /\ os[i].timestamp <= t
               /\ os[i].timestamp \in Int
    <2>1. Touched(inc, os[i], os2[i]) /\ os[i] \in Order
      BY <1>3, <1>4 DEF MatchInv
    <2> QED
      BY <2>1 DEF Touched, SameTerms, BookOk, Order
  <1>6. \A i \in DOMAIN os2 : Live(os2[i]) /\ os2[i].timestamp <= t
    BY <1>3, <1>4, <1>5
  <1>7. Aged(os2)
    <2>1. SUFFICES ASSUME NEW i \in DOMAIN os2, NEW j \in DOMAIN os2, i <= j
                   PROVE  os2[i].timestamp <= os2[j].timestamp
      BY DEF Aged
    <2>2. CASE i \in DOMAIN os /\ j \in DOMAIN os
      BY <1>4, <1>5, <2>1, <2>2 DEF Aged
    <2>3. CASE j = n
      BY <1>3, <1>4, <1>6, <2>3
    <2>4. CASE i = n /\ j \in DOMAIN os
      <3>1. j < n /\ j \in Int
        BY <1>3, <1>4, <2>4
      <3> QED
        BY <1>3, <2>1, <2>4, <3>1
    <2> QED
      BY <1>3, <2>2, <2>3, <2>4
  <1>8. Uncrossed(os2)
    BY StoredUncrossed
  <1>9. /\ bk2 \in [Pairs -> [OrderSide -> Seq(Nat)]]
        /\ \A p \in Pairs, side \in OrderSide : Lists(bk2[p][side], os2, p, side)
    BY StoredLists
  <1> QED
    BY <1>3, <1>4, <1>6, <1>7, <1>8, <1>9 DEF BookOk

\* A cancelled order leaves a book in order.
LEMMA CancelledBook ==
  ASSUME NEW os, NEW bk, NEW t, BookOk(os, bk, t), NEW id \in DOMAIN os, IsOpen(os[id]),
         NEW os2, os2 = [os EXCEPT ![id].status = "Cancelled"],
         NEW bk2, bk2 = [bk EXCEPT ![os[id].pair][os[id].side] = remove_order_from_book(@, id)]
  PROVE  BookOk(os2, bk2, t)
  <1>1. PICK x, p0, side0, q :
          /\ x = [os[id] EXCEPT !.status = "Cancelled"] /\ p0 = os[id].pair /\ side0 = os[id].side
          /\ q = remove_order_from_book(bk[p0][side0], id)
    OBVIOUS
  <1>2. /\ t \in Nat /\ os \in Seq(Order) /\ Aged(os) /\ Uncrossed(os)
        /\ \A i \in DOMAIN os : Live(os[i]) /\ os[i].timestamp <= t
        /\ bk \in [Pairs -> [OrderSide -> Seq(Nat)]]
        /\ \A p \in Pairs, side \in OrderSide : Lists(bk[p][side], os, p, side)
    BY DEF BookOk
  <1>3. os[id] \in Order
    BY <1>2
  <1>4. /\ x \in Order /\ SameTerms(x, os[id]) /\ ~IsOpen(x)
        /\ p0 \in Pairs /\ side0 \in OrderSide
    BY <1>1, <1>3 DEF Order, SameTerms, IsOpen, OrderStatus
  <1>5. /\ os2 \in Seq(Order) /\ DOMAIN os2 = DOMAIN os /\ os2[id] = x
        /\ \A i \in DOMAIN os : i # id => os2[i] = os[i]
    BY <1>1, <1>2, <1>4
  <1>6. \A i \in DOMAIN os : SameTerms(os2[i], os[i]) /\ (IsOpen(os2[i]) => i # id /\ os2[i] = os[i])
    BY <1>4, <1>5 DEF SameTerms
  <1>7. \A i \in DOMAIN os2 : Live(os2[i]) /\ os2[i].timestamp <= t
    BY <1>2, <1>5, <1>6 DEF Live, SameTerms
  <1>8. Aged(os2)
    BY <1>2, <1>5, <1>6 DEF Aged, SameTerms
  <1>9. Uncrossed(os2)
    BY <1>2, <1>5, <1>6 DEF Uncrossed
  <1>10. ASSUME NEW p, NEW side PROVE OpenOn(os2, p, side) = OpenOn(os, p, side) \ {id}
    <2>1. SUFFICES ASSUME NEW i \in DOMAIN os
                   PROVE  i \in OpenOn(os2, p, side) <=> i \in OpenOn(os, p, side) \ {id}
      BY <1>5 DEF OpenOn
    <2> QED
      BY <1>4, <1>5 DEF OpenOn
  <1>11. Lists(bk[p0][side0], os, p0, side0)
    BY <1>2, <1>4
  <1>12. Ascending(q) /\ ToSet(q) = OpenOn(os, p0, side0) \ {id}
    BY <1>1, <1>11, RemoveKeepsOthers DEF Lists
  <1>13. q \in Seq(Nat) /\ Lists(q, os2, p0, side0)
    BY <1>10, <1>12 DEF Lists, Ascending
  <1>14. bk2 = [bk EXCEPT ![p0][side0] = q]
    BY <1>1
  <1>15. /\ bk2 \in [Pairs -> [OrderSide -> Seq(Nat)]] /\ bk2[p0][side0] = q
         /\ \A p \in Pairs, side \in OrderSide : ~(p = p0 /\ side = side0) => bk2[p][side] = bk[p][side]
    <2>1. PICK f, g : f = bk[p0] /\ g = [f EXCEPT ![side0] = q]
      OBVIOUS
    <2>2. bk2 = [bk EXCEPT ![p0] = g]
      BY <1>14, <2>1
    <2>3. bk \in [Pairs -> [OrderSide -> Seq(Nat)]] /\ p0 \in Pairs /\ side0 \in OrderSide /\ q \in Seq(Nat)
      BY <1>2, <1>4, <1>13
    <2>4. f \in [OrderSide -> Seq(Nat)]
      BY <2>1, <2>3
    <2>5. /\ g \in [OrderSide -> Seq(Nat)] /\ g[side0] = q
          /\ \A side \in OrderSide : side # side0 => g[side] = f[side]
      BY <2>1, <2>3, <2>4
    <2>6. /\ bk2 \in [Pairs -> [OrderSide -> Seq(Nat)]] /\ bk2[p0] = g
          /\ \A p \in Pairs : p # p0 => bk2[p] = bk[p]
      BY <2>2, <2>3, <2>5
    <2> QED
      BY <2>1, <2>5, <2>6
  <1>16. ASSUME NEW p \in Pairs, NEW side \in OrderSide PROVE Lists(bk2[p][side], os2, p, side)
    <2>1. CASE p = p0 /\ side = side0
      BY <1>13, <1>15, <2>1
    <2>2. CASE ~(p = p0 /\ side = side0)
      <3>1. id \notin OpenOn(os, p, side)
        BY <1>1, <2>2 DEF OpenOn
      <3>2. OpenOn(os2, p, side) = OpenOn(os, p, side)
        <4>1. PICK A, B : A = OpenOn(os, p, side) /\ B = OpenOn(os2, p, side)
          OBVIOUS
        <4>2. B = A \ {id} /\ id \notin A
          BY <1>10, <3>1, <4>1
        <4>3. A = B
          BY <4>2
        <4> QED
          BY <4>1, <4>3
      <3>3. bk2[p][side] = bk[p][side]
        BY <1>15, <2>2
      <3> QED
        BY <1>2, <3>2, <3>3 DEF Lists
    <2> QED
      BY <2>1, <2>2
  <1> QED
    BY <1>2, <1>5, <1>7, <1>8, <1>9, <1>15, <1>16 DEF BookOk

\* The log with the fills of a match of the order n.
LogOf(log, q, n) ==
  log \o [k \in DOMAIN q |-> [maker |-> q[k].maker, taker |-> n, amount |-> q[k].amount, price |-> q[k].price]]

BookInv == BookOk(orders, obook, now)

\* A call of create_limit_order stores an order that was matched.
LEMMA CreateStores ==
  ASSUME BookInv, NEW t \in Traders, NEW p \in Pairs, NEW s \in Sides, NEW x \in Prices,
         NEW a \in Amounts, NEW tif \in Tifs, create_limit_order(t, p, s, x, a, tif)
  PROVE  \E inc, m, y : /\ Created(inc, now) /\ Stored(inc, orders, obook, m, y, orders', obook')
                        /\ matched' = LogOf(matched, m.matched, Len(orders) + 1)
                        /\ RecordTrades(MatchTrades(inc, m.matched))
  <1>1. PICK inc, m : /\ inc = NewOrder(t, p, s, x, a, tif, now)
                      /\ m = match_limit_order(inc, orders, obook[p][Opposite(s)])
    OBVIOUS
  <1>2. /\ a > 0 /\ (tif = "Fok" => m.incoming.remaining <= 0)
        /\ orders' = Append(m.orders, Settle(m.incoming))
        /\ obook' = [obook EXCEPT ![p][Opposite(s)] = m.ids,
                                  ![p][s] = Resting(obook[p][s], m.incoming, Len(orders) + 1)]
        /\ matched' = LogOf(matched, m.matched, Len(orders) + 1)
        /\ RecordTrades(MatchTrades(inc, m.matched))
    BY <1>1, Zenon DEF create_limit_order, LogOf
  <1>3. /\ s \in OrderSide /\ x \in Int /\ a \in Int /\ tif \in TimeInForce /\ now \in Nat
    BY TradingAssumption DEF BookInv, BookOk
  <1>4. inc \in Order
    BY <1>1, <1>2, <1>3 DEF NewOrder, Order, OrderStatus
  <1>5. /\ inc.pair = p /\ inc.side = s /\ inc.tif = tif /\ inc.remaining = a /\ inc.status = "Open"
        /\ inc.timestamp = now /\ inc.amount = a
    BY <1>1 DEF NewOrder
  <1>6. Created(inc, now)
    BY <1>2, <1>4, <1>5 DEF Created, IsOpen
  <1>7. Stored(inc, orders, obook, m, Settle(m.incoming), orders', obook')
    BY <1>1, <1>2, <1>5 DEF Stored
  <1> QED
    BY <1>2, <1>6, <1>7

\* Only the two calls about limit orders change the book.
BookUntouched == UNCHANGED <<orders, obook, matched>> /\ (now' = now \/ Tick)

\* Every step leaves the book alone or is one of these two calls.
LEMMA BookSteps ==
  ASSUME [Next]_vars
  PROVE  \/ BookUntouched
         \/ \E t \in Traders, p \in Pairs, s \in Sides, x \in Prices, a \in Amounts, tif \in Tifs :
              create_limit_order(t, p, s, x, a, tif)
         \/ \E t \in Traders, id \in DOMAIN orders : cancel_order(t, id)
  <1>1. CASE UNCHANGED vars
    BY <1>1 DEF vars, BookUntouched
  <1>2. CASE Tick
    BY <1>2 DEF Tick, BookUntouched
  <1>3. ASSUME NEW config \in CbConfigs, init(config) PROVE BookUntouched
    BY <1>3 DEF init, BookUntouched
  <1>4. ASSUME NEW t \in Traders, NEW p \in Pairs, NEW a \in Amounts, NEW x \in Prices,
               NEW s \in Sides, NEW f \in Fees, trade(t, p, a, x, s = "Buy", f)
        PROVE  BookUntouched
    BY <1>4 DEF trade, BookUntouched
  <1>5. ASSUME NEW t \in Traders, NEW batch \in Batches, NEW f \in Fees, batch_trade(t, batch, f)
        PROVE  BookUntouched
    BY <1>5 DEF batch_trade, BookUntouched
  <1>6. ASSUME NEW t \in Traders, NEW b \in BOOLEAN, set_premium_user(t, b) PROVE BookUntouched
    BY <1>6 DEF set_premium_user, BookUntouched
  <1>7. ASSUME NEW cfg \in RateLimits, set_rate_limit_config(cfg) PROVE BookUntouched
    BY <1>7 DEF set_rate_limit_config, BookUntouched
  <1>8. ASSUME NEW level \in PauseLevel, set_pause_level(level) PROVE BookUntouched
    BY <1>8 DEF set_pause_level, BookUntouched
  <1>9. ASSUME NEW f \in Funcs, pause_function(f) \/ unpause_function(f) PROVE BookUntouched
    BY <1>9 DEF pause_function, unpause_function, BookUntouched
  <1> QED
    BY <1>1, <1>2, <1>3, <1>4, <1>5, <1>6, <1>7, <1>8, <1>9 DEF Next

\* The book is in order in every state.
LEMMA BookInvHolds == Spec => []BookInv
  <1>1. Init => BookInv
    <2>1. SUFFICES ASSUME Init PROVE BookInv
      OBVIOUS
    <2>2. now = 0 /\ orders = <<>> /\ obook = [p \in Pairs |-> [side \in OrderSide |-> <<>>]]
      BY <2>1 DEF Init
    <2>3. orders \in Seq(Order) /\ DOMAIN orders = {}
      BY <2>2
    <2>4. obook \in [Pairs -> [OrderSide -> Seq(Nat)]]
      BY <2>2
    <2>5. ASSUME NEW p \in Pairs, NEW side \in OrderSide PROVE Lists(obook[p][side], orders, p, side)
      <3>1. obook[p][side] = <<>>
        BY <2>2
      <3>2. Ascending(<<>>) /\ ToSet(<<>>) = {}
        BY DEF Ascending, ToSet
      <3> QED
        BY <2>3, <3>1, <3>2 DEF Lists, OpenOn
    <2> QED
      BY <2>2, <2>3, <2>4, <2>5 DEF BookInv, BookOk, Aged, Uncrossed
  <1>2. BookInv /\ [Next]_vars => BookInv'
    <2>1. SUFFICES ASSUME BookInv, [Next]_vars PROVE BookOk(orders', obook', now')
      BY DEF BookInv
    <2>2. BookOk(orders, obook, now)
      BY <2>1 DEF BookInv
    <2>3. CASE orders' = orders /\ obook' = obook /\ now' = now
      BY <2>2, <2>3
    <2>4. CASE Tick
      <3>1. orders' = orders /\ obook' = obook /\ now' = now + 1
        BY <2>4 DEF Tick
      <3>2. now \in Nat /\ \A i \in DOMAIN orders : orders[i].timestamp \in Int /\ orders[i].timestamp <= now
        <4>1. now \in Nat /\ orders \in Seq(Order) /\ \A i \in DOMAIN orders : orders[i].timestamp <= now
          BY <2>2 DEF BookOk
        <4>2. \A i \in DOMAIN orders : orders[i] \in Order
          BY <4>1
        <4> QED
          BY <4>1, <4>2 DEF Order
      <3>3. \A i \in DOMAIN orders : orders[i].timestamp <= now + 1
        BY <3>2
      <3> QED
        BY <2>2, <3>1, <3>2, <3>3 DEF BookOk
    <2>5. ASSUME NEW t \in Traders, NEW p \in Pairs, NEW s \in Sides, NEW x \in Prices,
                 NEW a \in Amounts, NEW tif \in Tifs, create_limit_order(t, p, s, x, a, tif)
          PROVE  BookOk(orders', obook', now')
      <3>1. PICK inc, m, y : Created(inc, now) /\ Stored(inc, orders, obook, m, y, orders', obook')
        BY <2>1, <2>5, CreateStores
      <3>2. now' = now
        BY <2>5 DEF create_limit_order
      <3> QED
        BY <2>2, <3>1, <3>2, StoredBook
    <2>6. ASSUME NEW t \in Traders, NEW id \in DOMAIN orders, cancel_order(t, id)
          PROVE  BookOk(orders', obook', now')
      BY <2>2, <2>6, CancelledBook DEF cancel_order
    <2> QED
      BY <2>1, <2>3, <2>4, <2>5, <2>6, BookSteps DEF BookUntouched
  <1> QED
    BY <1>1, <1>2, PTL DEF Spec

\* In every state the stored book lists exactly the open orders of each pair and
\* side, oldest first, and only good-til-cancelled orders with something left
\* are open, however creating, matching and cancelling follow each other.
THEOREM BookInSync == Spec => []BookMatchesOrders
  <1>1. BookInv => BookMatchesOrders
    <2>1. SUFFICES ASSUME BookInv PROVE BookMatchesOrders
      OBVIOUS
    <2>2. ASSUME NEW p \in Pairs, NEW side \in OrderSide
          PROVE  /\ ToSet(obook[p][side]) = OpenOn(orders, p, side)
                 /\ \A i, j \in DOMAIN obook[p][side] : i < j => obook[p][side][i] < obook[p][side][j]
      BY <2>1 DEF BookInv, BookOk, Lists, Ascending
    <2>3. \A i \in DOMAIN orders : Live(orders[i])
      BY <2>1 DEF BookInv, BookOk
    <2> QED
      BY <2>2, <2>3 DEF BookMatchesOrders, OpenOn, Live
  <1> QED
    BY <1>1, BookInvHolds, PTL

\* No state holds a buy and a sell of the same pair that could trade with each
\* other: match_limit_order never stops too early.
THEOREM BookNeverCrossed == Spec => []NoCrossedBook
  <1>1. BookInv => NoCrossedBook
    <2>1. SUFFICES ASSUME BookInv, NEW p \in Pairs, NEW b \in ToSet(obook[p]["Buy"]),
                          NEW s \in ToSet(obook[p]["Sell"])
                   PROVE  orders[b].price < orders[s].price
      BY DEF NoCrossedBook
    <2>2. "Buy" \in OrderSide /\ "Sell" \in OrderSide
      BY DEF OrderSide
    <2>3. b \in OpenOn(orders, p, "Buy") /\ s \in OpenOn(orders, p, "Sell")
      BY <2>1, <2>2 DEF BookInv, BookOk, Lists
    <2> QED
      BY <2>1, <2>3 DEF BookInv, BookOk, Uncrossed, OpenOn
  <1> QED
    BY <1>1, BookInvHolds, PTL

\* Storing an order fills better orders of a side before others.
Better(side, os, i, j) ==
  \/ side = "Buy"  /\ os[i].price > os[j].price
  \/ side = "Sell" /\ os[i].price < os[j].price
  \/ os[i].price = os[j].price /\ i < j

\* Creating an order fills better orders before others.
LEMMA StoredInPriority ==
  ASSUME NEW os, NEW bk, NEW t, BookOk(os, bk, t), NEW inc, Created(inc, t),
         NEW m, NEW x, NEW os2, NEW bk2, Stored(inc, os, bk, m, x, os2, bk2),
         NEW p \in Pairs, NEW side \in OrderSide, NEW i \in ToSet(bk[p][side]), NEW j \in ToSet(bk[p][side]),
         Better(side, os, i, j), os2[j].remaining < os[j].remaining
  PROVE  os2[i].remaining = 0
  <1>1. StoredOk(inc, os, m, x, os2, Len(os) + 1)
    BY StoredShape
  <1>2. i \in OpenOn(os, p, side) /\ j \in OpenOn(os, p, side)
    BY DEF BookOk, Lists
  <1>3. i \in DOMAIN os /\ j \in DOMAIN os /\ os[j].pair = p /\ os[j].side = side
    BY <1>2 DEF OpenOn
  <1>4. os2[i] = m.orders[i] /\ os2[j] = m.orders[j] /\ MatchInv(m, inc, os)
    BY <1>1, <1>3 DEF StoredOk
  <1>5. Touched(inc, os[j], os2[j]) /\ Priority(inc, os, m.orders)
    BY <1>3, <1>4 DEF MatchInv
  <1>6. os[j] \in Order
    BY <1>3 DEF BookOk
  <1>7. os2[j] # os[j]
    <2>1. os[j].remaining \in Nat
      BY <1>6 DEF Order
    <2> QED
      BY <2>1
  <1>8. order_matches(inc, os[j])
    BY <1>5, <1>7 DEF Touched
  <1>9. p = inc.pair /\ side = Opposite(inc.side) /\ (side = "Buy" <=> inc.side = "Sell")
        /\ (side = "Sell" <=> inc.side = "Buy")
    BY <1>3, <1>8 DEF order_matches, Opposite
  <1>10. Before(inc, os, i, j)
    BY <1>9 DEF Better, Before
  <1> QED
    BY <1>2, <1>4, <1>5, <1>9, <1>10 DEF Priority

\* No call fills a resting order while a better one keeps something unfilled:
\* the scan of pick_best_match_index respects price, then age.
THEOREM BestFilledFirst == Spec => PriceTimePriority
  <1>1. BookInv /\ [Next]_vars => [FillsBestFirst]_vars
    <2>1. SUFFICES ASSUME BookInv, Next PROVE FillsBestFirst
      OBVIOUS
    <2>2. BookOk(orders, obook, now)
      BY <2>1 DEF BookInv
    <2>3. SUFFICES ASSUME NEW p \in Pairs, NEW side \in OrderSide, NEW i \in ToSet(obook[p][side]),
                          NEW j \in ToSet(obook[p][side]), Better(side, orders, i, j),
                          orders'[j].remaining < orders[j].remaining
                   PROVE  orders'[i].remaining = 0
      BY DEF FillsBestFirst, Better
    <2>4. j \in DOMAIN orders /\ orders \in Seq(Order)
      BY <2>2 DEF BookOk, Lists, OpenOn
    <2>5. orders[j] \in Order
      BY <2>4
    <2>6. orders[j].remaining \in Nat
      BY <2>5 DEF Order
    <2>7. CASE orders' = orders
      BY <2>3, <2>6, <2>7
    <2>8. ASSUME NEW t \in Traders, NEW pair \in Pairs, NEW s \in Sides, NEW x \in Prices,
                 NEW a \in Amounts, NEW tif \in Tifs, create_limit_order(t, pair, s, x, a, tif)
          PROVE  orders'[i].remaining = 0
      <3>1. PICK inc, m, y : Created(inc, now) /\ Stored(inc, orders, obook, m, y, orders', obook')
        BY <2>1, <2>8, CreateStores
      <3> QED
        BY <2>2, <2>3, <3>1, StoredInPriority
    <2>9. ASSUME NEW t \in Traders, NEW id \in DOMAIN orders, cancel_order(t, id)
          PROVE  FALSE
      <3>1. orders' = [orders EXCEPT ![id].status = "Cancelled"]
        BY <2>9 DEF cancel_order
      <3>2. orders'[j].remaining = orders[j].remaining
        <4>1. CASE j = id
          <5>1. orders'[j] = [orders[j] EXCEPT !.status = "Cancelled"]
            BY <2>4, <3>1, <4>1
          <5> QED
            BY <2>5, <5>1 DEF Order
        <4>2. CASE j # id
          BY <2>4, <3>1, <4>2
        <4> QED
          BY <4>1, <4>2
      <3> QED
        BY <2>3, <2>6, <3>2
    <2> QED
      BY <2>1, <2>7, <2>8, <2>9, BookSteps DEF BookUntouched
  <1> QED
    BY <1>1, BookInvHolds, PTL DEF Spec, PriceTimePriority

-----------------------------------------------------------------------------
(* Fill or kill.                                                            *)

\* What the side still offers to the incoming order.
Offer(m) == FieldSum(m.orders, "remaining", Eligible(m.incoming, m.ids, m.orders))

\* The offer is a sum over a finite set.
LEMMA EligibleFinite ==
  ASSUME NEW inc, NEW os, NEW m, MatchInv(m, inc, os), NEW E, E = Eligible(m.incoming, m.ids, m.orders)
  PROVE  /\ IsFiniteSet(E) /\ E \subseteq DOMAIN m.orders
         /\ \A i \in E : m.orders[i]["remaining"] \in Nat
  <1>1. m.orders \in Seq(Order) /\ ToSet(m.ids) \subseteq DOMAIN m.orders
    BY DEF MatchInv, Lists, OpenOn
  <1>2. E \subseteq DOMAIN m.orders
    BY <1>1 DEF Eligible
  <1>3. IsFiniteSet(DOMAIN m.orders)
    BY <1>1, FS_Interval
  <1>4. \A i \in DOMAIN m.orders : m.orders[i] \in Order
    BY <1>1
  <1>5. \A i \in DOMAIN m.orders : m.orders[i]["remaining"] \in Nat
    BY <1>4 DEF Order
  <1> QED
    BY <1>2, <1>3, <1>5, FS_Subset

\* A fill takes as much from the offer as from the incoming order.
LEMMA FillKeepsOffer ==
  ASSUME NEW inc \in Order, NEW os \in Seq(Order),
         NEW m, MatchInv(m, inc, os), NEW m2, MatchInv(m2, inc, os), NEW index, NEW fill,
         Chosen(m, index, fill), Fills(m, m2, index, fill)
  PROVE  Offer(m2) - m2.incoming.remaining = Offer(m) - m.incoming.remaining
  <1>1. PICK id, old, new, E, F :
          /\ id = m.ids[index] /\ old = m.orders[id] /\ new = Reduced(old, fill)
          /\ E = Eligible(m.incoming, m.ids, m.orders) /\ F = Eligible(m2.incoming, m2.ids, m2.orders)
    OBVIOUS
  <1>2. /\ id \in E /\ fill \in Nat /\ fill <= m.incoming.remaining /\ fill <= old.remaining
    BY <1>1 DEF Chosen, Best
  <1>3. /\ m2.incoming = Reduced(m.incoming, fill) /\ m2.orders = [m.orders EXCEPT ![id] = new]
        /\ m2.ids = IF old.remaining = fill THEN remove_order_from_book(m.ids, id) ELSE m.ids
    BY <1>1 DEF Fills
  <1>4. /\ IsFiniteSet(E) /\ E \subseteq DOMAIN m.orders /\ \A i \in E : m.orders[i]["remaining"] \in Nat
        /\ IsFiniteSet(F) /\ F \subseteq DOMAIN m2.orders /\ \A i \in F : m2.orders[i]["remaining"] \in Nat
    BY <1>1, EligibleFinite
  <1>5. /\ m.incoming \in Order /\ m.orders \in Seq(Order) /\ SameTerms(m.incoming, inc)
        /\ Ascending(m.ids) /\ SameTerms(m2.incoming, inc)
    BY DEF MatchInv, Lists
  <1>6. old \in Order /\ m.incoming.remaining \in Nat
    <2>1. old \in Order
      BY <1>1, <1>2, <1>4, <1>5
    <2> QED
      BY <1>5, <2>1 DEF Order
  <1>7. /\ new \in Order /\ SameTerms(new, old) /\ new.remaining = old.remaining - fill
        /\ (IsOpen(new) <=> new.remaining > 0)
        /\ m2.incoming.remaining = m.incoming.remaining - fill
    BY <1>1, <1>2, <1>3, <1>5, <1>6, ReducedOk
  <1>8. /\ DOMAIN m2.orders = DOMAIN m.orders /\ m2.orders[id] = new
        /\ \A i \in DOMAIN m.orders : i # id => m2.orders[i] = m.orders[i]
    BY <1>2, <1>3, <1>4, <1>5
  <1>9. \A y : order_matches(m2.incoming, y) <=> order_matches(m.incoming, y)
    BY <1>5 DEF order_matches, SameTerms
  <1>10. order_matches(m.incoming, new) /\ id \in ToSet(m.ids)
    <2>1. order_matches(m.incoming, old) /\ id \in ToSet(m.ids)
      BY <1>1, <1>2 DEF Eligible
    <2> QED
      BY <1>7, <2>1 DEF order_matches, SameTerms
  <1>11. \A i \in ToSet(m.ids) : i # id => (i \in ToSet(m2.ids))
    <2>1. CASE old.remaining = fill
      <3>1. ToSet(m2.ids) = ToSet(m.ids) \ {id}
        BY <1>3, <1>5, <2>1, RemoveKeepsOthers
      <3> QED
        BY <3>1
    <2>2. CASE old.remaining # fill
      BY <1>3, <2>2
    <2> QED
      BY <2>1, <2>2
  <1>12. ToSet(m2.ids) \subseteq ToSet(m.ids) /\ (old.remaining # fill => id \in ToSet(m2.ids))
    <2>1. CASE old.remaining = fill
      <3>1. ToSet(m2.ids) = ToSet(m.ids) \ {id}
        BY <1>3, <1>5, <2>1, RemoveKeepsOthers
      <3> QED
        BY <2>1, <3>1
    <2>2. CASE old.remaining # fill
      BY <1>3, <1>10, <2>2
    <2> QED
      BY <2>1, <2>2
  <1>13. ToSet(m.ids) \subseteq DOMAIN m.orders
    BY DEF MatchInv, Lists, OpenOn
  <1>14. F \ {id} = E \ {id}
    <2>1. \A i \in ToSet(m.ids) : i # id => (i \in F <=> i \in E)
      BY <1>1, <1>8, <1>9, <1>11, <1>13 DEF Eligible
    <2>2. E \subseteq ToSet(m.ids) /\ F \subseteq ToSet(m.ids)
      BY <1>1, <1>12 DEF Eligible
    <2> QED
      BY <2>1, <2>2
  <1>15. id \in F <=> new.remaining > 0
    <2>1. new.remaining > 0 => old.remaining # fill
      BY <1>2, <1>6, <1>7 DEF Order
    <2>2. id \in F => m2.orders[id].remaining > 0
      BY <1>1 DEF Eligible
    <2>3. id \in ToSet(m2.ids) /\ IsOpen(new) /\ new.remaining > 0 => id \in F
      BY <1>1, <1>8, <1>9, <1>10 DEF Eligible
    <2> QED
      BY <1>7, <1>8, <1>12, <2>1, <2>2, <2>3
  <1>16. PICK D, R : D = E \ {id} /\ R = FieldSum(m.orders, "remaining", D)
    OBVIOUS
  <1>17. IsFiniteSet(D) /\ D \subseteq DOMAIN m.orders /\ id \notin D /\ D \subseteq E
    BY <1>4, <1>16, FS_RemoveElement
  <1>18. R \in Int
    BY <1>4, <1>16, <1>17, FieldSumType
  <1>19. FieldSum(m2.orders, "remaining", D) = R
    <2>1. \A i \in D : m2.orders[i]["remaining"] = m.orders[i]["remaining"]
      BY <1>8, <1>17
    <2> QED
      BY <1>8, <1>16, <1>17, <2>1, FieldSumAgrees
  <1>20. Offer(m) = old.remaining + R
    <2>1. \A i \in E : m.orders[i]["remaining"] \in Int
      BY <1>4
    <2>2. FieldSum(m.orders, "remaining", E) = m.orders[id]["remaining"] + R
      BY <1>2, <1>4, <1>16, <2>1, FieldSumWithout
    <2> QED
      BY <1>1, <2>2 DEF Offer
  <1>21. Offer(m2) = new.remaining + R
    <2>1. CASE id \in F
      <3>1. \A i \in F : m2.orders[i]["remaining"] \in Int
        BY <1>4
      <3>2. FieldSum(m2.orders, "remaining", F) = m2.orders[id]["remaining"] + FieldSum(m2.orders, "remaining", F \ {id})
        BY <1>4, <2>1, <3>1, FieldSumWithout
      <3> QED
        BY <1>1, <1>8, <1>14, <1>16, <1>19, <3>2 DEF Offer
    <2>2. CASE id \notin F
      <3>1. F = D
        BY <1>14, <1>16, <2>2
      <3>2. new.remaining \in Nat
        BY <1>7 DEF Order
      <3> QED
        BY <1>1, <1>15, <1>18, <1>19, <2>2, <3>1, <3>2 DEF Offer
    <2> QED
      BY <2>1, <2>2
  <1>22. old.remaining \in Nat
    BY <1>6 DEF Order
  <1> QED
    BY <1>2, <1>6, <1>7, <1>18, <1>20, <1>21, <1>22

\* The check before a match knows its outcome.
LEMMA OfferDecides ==
  ASSUME NEW inc, NEW os, NEW ids, Arrives(inc, os, ids), NEW m, m = match_limit_order(inc, os, ids)
  PROVE  FieldSum(os, "remaining", Eligible(inc, ids, os)) >= inc.remaining <=> m.incoming.remaining = 0
  <1>1. PICK f, N : MatchSteps(f, N, inc, os, ids) /\ m = f[N]
    BY MatchTakesSteps
  <1>2. /\ N \in Nat /\ f[0] = Matching(inc, os, ids) /\ Done(m)
        /\ \A n \in 0 .. N : MatchInv(f[n], inc, os)
        /\ \A n \in 1 .. N : Iteration(f[n - 1], f[n])
    BY <1>1 DEF MatchSteps
  <1>3. PICK M : M = f[0]
    OBVIOUS
  <1>4. M.incoming = inc /\ M.orders = os /\ M.ids = ids
    BY <1>2, <1>3 DEF Matching
  <1>5. PICK gap : gap = Offer(M) - inc.remaining
    OBVIOUS
  <1> DEFINE T == {n \in 0 .. N : Offer(f[n]) - f[n].incoming.remaining # gap}
  <1>6. T = {}
    <2>1. SUFFICES ASSUME T # {} PROVE FALSE
      OBVIOUS
    <2>2. PICK k \in T : \A x \in T : k <= x
      <3>1. T \subseteq Nat
        OBVIOUS
      <3> HIDE DEF T
      <3> QED
        BY <2>1, <3>1, LeastNumber
    <2>3. CASE k = 0
      BY <1>3, <1>4, <1>5, <2>2, <2>3
    <2>4. CASE k # 0
      <3>1. PICK n : n = k - 1
        OBVIOUS
      <3>2. n \in 0 .. N /\ k \in 1 .. N /\ ~(k <= n)
        BY <1>2, <2>2, <2>4, <3>1
      <3>3. Offer(f[n]) - f[n].incoming.remaining = gap
        BY <2>2, <3>2
      <3>4. Iteration(f[n], f[k]) /\ MatchInv(f[n], inc, os) /\ MatchInv(f[k], inc, os)
        BY <1>2, <3>1, <3>2
      <3>5. Offer(f[k]) - f[k].incoming.remaining = gap
        <4>1. CASE f[k] = f[n]
          BY <3>3, <4>1
        <4>2. CASE \E index, fill : Chosen(f[n], index, fill) /\ Fills(f[n], f[k], index, fill)
          <5>1. inc \in Order /\ os \in Seq(Order)
            BY DEF Arrives
          <5> QED
            BY <3>3, <3>4, <4>2, <5>1, FillKeepsOffer
        <4> QED
          BY <3>4, <4>1, <4>2 DEF Iteration
      <3> QED
        BY <2>2, <3>5
    <2> QED
      BY <2>3, <2>4
  <1>7. Offer(m) - m.incoming.remaining = gap /\ MatchInv(m, inc, os) /\ MatchInv(M, inc, os)
    <2>1. N \in 0 .. N /\ 0 \in 0 .. N
      BY <1>2
    <2> QED
      BY <1>1, <1>2, <1>3, <1>6, <2>1
  <1>8. m.incoming.remaining \in Nat /\ inc.remaining \in Nat
    BY <1>7 DEF MatchInv, Arrives, Order
  <1>9. ASSUME NEW c, MatchInv(c, inc, os) PROVE Offer(c) \in Nat
    BY <1>9, EligibleFinite, FieldSumNatural DEF Offer
  <1>10. Offer(m) \in Nat /\ Offer(M) \in Nat
    BY <1>7, <1>9
  <1>11. m.incoming.remaining = 0 \/ Offer(m) = 0
    <2>1. CASE Eligible(m.incoming, m.ids, m.orders) = {}
      BY <2>1, FieldSumEmpty DEF Offer
    <2>2. CASE m.incoming.remaining <= 0
      BY <1>8, <2>2
    <2> QED
      BY <1>2, <2>1, <2>2 DEF Done
  <1>12. Offer(M) >= inc.remaining <=> m.incoming.remaining = 0
    BY <1>5, <1>7, <1>8, <1>10, <1>11
  <1> QED
    BY <1>4, <1>12 DEF Offer

\* In every state, and for every order that could arrive, available_fill_for_order
\* reaches the amount exactly when match_limit_order leaves nothing.
THEOREM FillOrKillPredicted == Spec => []FillOrKillPrediction
  <1>1. BookInv => FillOrKillPrediction
    <2>1. SUFFICES ASSUME BookInv, NEW t \in Traders, NEW p \in Pairs, NEW side \in Sides, NEW price \in Prices,
                          NEW amount \in Amounts, amount > 0,
                          NEW order, order = NewOrder(t, p, side, price, amount, "Fok", now),
                          NEW ids, ids = obook[p][Opposite(side)]
                   PROVE  available_fill_for_order(order, ids, orders) >= amount
                            <=> match_limit_order(order, orders, ids).incoming.remaining = 0
      BY DEF FillOrKillPrediction
    <2>2. BookOk(orders, obook, now) /\ now \in Nat
      BY <2>1 DEF BookInv, BookOk
    <2>3. /\ side \in OrderSide /\ price \in Int /\ amount \in Int
      BY TradingAssumption
    <2>4. order \in Order
      BY <2>1, <2>2, <2>3 DEF NewOrder, Order, OrderStatus, TimeInForce
    <2>5. /\ order.pair = p /\ order.side = side /\ order.remaining = amount /\ order.status = "Open"
          /\ order.timestamp = now /\ order.amount = amount
      BY <2>1 DEF NewOrder
    <2>6. Created(order, now)
      BY <2>1, <2>4, <2>5 DEF Created, IsOpen
    <2>7. Arrives(order, orders, ids)
      BY <2>1, <2>2, <2>5, <2>6, CreatedArrives
    <2>8. available_fill_for_order(order, ids, orders) = FieldSum(orders, "remaining", Eligible(order, ids, orders))
      BY DEF FieldSum, available_fill_for_order
    <2>9. PICK m : m = match_limit_order(order, orders, ids)
      OBVIOUS
    <2>10. FieldSum(orders, "remaining", Eligible(order, ids, orders)) >= order.remaining
             <=> m.incoming.remaining = 0
      BY <2>7, <2>9, OfferDecides
    <2> QED
      BY <2>5, <2>8, <2>9, <2>10
  <1> QED
    BY <1>1, BookInvHolds, PTL

-----------------------------------------------------------------------------
(* Conservation of what is filled.                                          *)
Match == [maker : Nat, taker : Nat, amount : Nat, price : Int]

FillsOf(log, i) == {k \in DOMAIN log : i \in {log[k].maker, log[k].taker}}

\* An order lacks what the matches of the log filled, and its status says so.
Conserved(order, log, i) ==
  /\ order.amount - order.remaining = FieldSum(log, "amount", FillsOf(log, i))
  /\ order.status = "Filled" <=> order.remaining = 0
  /\ order.status = "Open" => FillsOf(log, i) = {}

\* A match happened at the maker's price and within the taker's limit.
Priced(os, e) ==
  /\ e.maker \in DOMAIN os /\ e.taker \in DOMAIN os
  /\ e.price = os[e.maker].price
  /\ IF os[e.taker].side = "Buy" THEN e.price <= os[e.taker].price ELSE e.price >= os[e.taker].price

FillsOk(os, log) ==
  /\ log \in Seq(Match)
  /\ \A i \in DOMAIN os : Conserved(os[i], log, i)
  /\ \A k \in DOMAIN log : Priced(os, log[k])

\* So is what was filled.
LEMMA FillsFinite ==
  ASSUME NEW log \in Seq(Match), NEW i
  PROVE  /\ IsFiniteSet(FillsOf(log, i)) /\ FillsOf(log, i) \subseteq DOMAIN log
         /\ \A k \in FillsOf(log, i) : log[k]["amount"] \in Int
  <1>1. FillsOf(log, i) \subseteq DOMAIN log
    BY DEF FillsOf
  <1>2. IsFiniteSet(DOMAIN log)
    BY FS_Interval
  <1>3. \A k \in DOMAIN log : log[k] \in Match
    OBVIOUS
  <1>4. \A k \in DOMAIN log : log[k]["amount"] \in Int
    BY <1>3 DEF Match
  <1> QED
    BY <1>1, <1>2, <1>4, FS_Subset

\* A match that is entered in the log.
Entered(log, e, log2, n) ==
  /\ log \in Seq(Match) /\ e \in Match /\ n = Len(log) + 1
  /\ log2 \in Seq(Match) /\ DOMAIN log2 = DOMAIN log \cup {n} /\ log2[n] = e /\ n \notin DOMAIN log
  /\ \A k \in DOMAIN log : log2[k] = log[k]

\* Append enters a match in the log.
LEMMA EntersLog ==
  ASSUME NEW log \in Seq(Match), NEW e \in Match, NEW log2, log2 = Append(log, e), NEW n, n = Len(log) + 1
  PROVE  Entered(log, e, log2, n)
  BY DEF Entered

\* A match counts for its maker and its taker,
LEMMA OwnMatchLogged ==
  ASSUME NEW log, NEW e, NEW log2, NEW n, Entered(log, e, log2, n), NEW i, i \in {e.maker, e.taker}
  PROVE  FieldSum(log2, "amount", FillsOf(log2, i)) = FieldSum(log, "amount", FillsOf(log, i)) + e.amount
  <1>1. PICK S, f : S = FillsOf(log, i) /\ f = "amount"
    OBVIOUS
  <1>2. /\ log \in Seq(Match) /\ e \in Match /\ DOMAIN log2 = DOMAIN log \cup {n} /\ log2[n] = e
        /\ n \notin DOMAIN log /\ \A k \in DOMAIN log : log2[k] = log[k]
    BY DEF Entered
  <1>3. IsFiniteSet(S) /\ S \subseteq DOMAIN log /\ \A k \in S : log[k][f] \in Int
    BY <1>1, <1>2, FillsFinite
  <1>4. /\ S \subseteq DOMAIN log2 /\ n \notin S /\ n \in DOMAIN log2
        /\ \A k \in S : log[k][f] = log2[k][f] /\ log[k][f] \in Int
    BY <1>2, <1>3
  <1>5. FillsOf(log2, i) = S \cup {n}
    BY <1>1, <1>2 DEF FillsOf
  <1>6. e.amount \in Int /\ log2[n][f] = e.amount
    BY <1>1, <1>2 DEF Match
  <1>7. FieldSum(log2, f, S \cup {n}) = FieldSum(log, f, S) + log2[n][f]
    BY <1>3, <1>4, <1>6, FieldSumAdd
  <1> QED
    BY <1>1, <1>5, <1>6, <1>7

\* and for nobody else.
LEMMA OtherMatchLogged ==
  ASSUME NEW log, NEW e, NEW log2, NEW n, Entered(log, e, log2, n), NEW i, i \notin {e.maker, e.taker}
  PROVE  /\ FieldSum(log2, "amount", FillsOf(log2, i)) = FieldSum(log, "amount", FillsOf(log, i))
         /\ FillsOf(log2, i) = FillsOf(log, i)
  <1>1. PICK S, f : S = FillsOf(log, i) /\ f = "amount"
    OBVIOUS
  <1>2. /\ log \in Seq(Match) /\ DOMAIN log2 = DOMAIN log \cup {n} /\ log2[n] = e
        /\ n \notin DOMAIN log /\ \A k \in DOMAIN log : log2[k] = log[k]
    BY DEF Entered
  <1>3. IsFiniteSet(S) /\ S \subseteq DOMAIN log
    BY <1>1, <1>2, FillsFinite
  <1>4. S \subseteq DOMAIN log2 /\ \A k \in S : log2[k][f] = log[k][f]
    BY <1>2, <1>3
  <1>5. FillsOf(log2, i) = S
    BY <1>1, <1>2 DEF FillsOf
  <1>6. FieldSum(log2, f, S) = FieldSum(log, f, S)
    BY <1>3, <1>4, FieldSumAgrees
  <1> QED
    BY <1>1, <1>5, <1>6

\* A fill of the maker i by the taker n that is entered in the log.
Filling(os, os2, i, n, fill) ==
  /\ i \in DOMAIN os /\ n \in DOMAIN os /\ i # n
  /\ fill \in Nat /\ fill > 0 /\ fill <= os[i].remaining /\ fill <= os[n].remaining
  /\ order_matches(os[n], os[i])
  /\ DOMAIN os2 = DOMAIN os
  /\ os2[i] = Reduced(os[i], fill) /\ os2[n] = Reduced(os[n], fill)
  /\ \A j \in DOMAIN os : j \notin {i, n} => os2[j] = os[j]

\* A fill that is entered in the log keeps the account.
LEMMA FillingConserves ==
  ASSUME NEW os \in Seq(Order), NEW log, FillsOk(os, log), NEW os2, NEW i, NEW n, NEW fill,
         Filling(os, os2, i, n, fill), NEW e, e = [maker |-> i, taker |-> n, amount |-> fill, price |-> os[i].price],
         NEW log2, log2 = Append(log, e)
  PROVE  FillsOk(os2, log2)
  <1>1. /\ i \in DOMAIN os /\ n \in DOMAIN os /\ i # n
        /\ fill \in Nat /\ fill > 0 /\ fill <= os[i].remaining /\ fill <= os[n].remaining
        /\ order_matches(os[n], os[i]) /\ DOMAIN os2 = DOMAIN os
        /\ os2[i] = Reduced(os[i], fill) /\ os2[n] = Reduced(os[n], fill)
        /\ \A j \in DOMAIN os : j \notin {i, n} => os2[j] = os[j]
    BY DEF Filling
  <1>2. /\ log \in Seq(Match) /\ \A j \in DOMAIN os : Conserved(os[j], log, j)
        /\ \A k \in DOMAIN log : Priced(os, log[k])
    BY DEF FillsOk
  <1>3. \A j \in DOMAIN os : os[j] \in Order /\ j \in Nat
    OBVIOUS
  <1>4. e \in Match /\ e.maker = i /\ e.taker = n /\ e.amount = fill /\ e.price = os[i].price
    <2>1. os[i].price \in Int
      BY <1>1, <1>3 DEF Order
    <2> QED
      BY <1>1, <1>3, <2>1 DEF Match
  <1>5. PICK l : l = Len(log) + 1
    OBVIOUS
  <1>6. log2 \in Seq(Match) /\ DOMAIN log2 = DOMAIN log \cup {l} /\ log2[l] = e
        /\ \A k \in DOMAIN log : log2[k] = log[k]
    BY <1>2, <1>4, <1>5, EntersLog DEF Entered
  <1>7. ASSUME NEW j \in {i, n} PROVE Conserved(os2[j], log2, j) /\ SameTerms(os2[j], os[j])
    <2>1. PICK a, b : a = os[j] /\ b = os2[j]
      OBVIOUS
    <2>2. a \in Order /\ b = Reduced(a, fill) /\ fill <= a.remaining /\ Conserved(a, log, j)
      BY <1>1, <1>2, <1>3, <2>1
    <2>3. b \in Order /\ SameTerms(b, a) /\ b.remaining = a.remaining - fill
      BY <1>1, <2>2, ReducedOk
    <2>4. b.status = StatusAfterFill(a.remaining - fill)
      BY <2>2 DEF Reduced, Order
    <2>5. FieldSum(log2, "amount", FillsOf(log2, j)) = FieldSum(log, "amount", FillsOf(log, j)) + fill
      <3>1. Entered(log, e, log2, l) /\ j \in {e.maker, e.taker}
        BY <1>2, <1>4, <1>5, <1>7, EntersLog
      <3> QED
        BY <1>4, <3>1, OwnMatchLogged
    <2>6. a.amount \in Int /\ a.remaining \in Nat /\ b.amount = a.amount
      BY <2>2, <2>3 DEF Order, SameTerms
    <2>7. b.amount - b.remaining = FieldSum(log2, "amount", FillsOf(log2, j))
      BY <1>1, <2>2, <2>3, <2>5, <2>6 DEF Conserved
    <2>8. b.status = "Filled" <=> b.remaining = 0
      BY <2>3, <2>4 DEF StatusAfterFill
    <2>9. b.status # "Open"
      BY <2>4 DEF StatusAfterFill
    <2> QED
      BY <2>1, <2>3, <2>7, <2>8, <2>9 DEF Conserved
  <1>8. ASSUME NEW j \in DOMAIN os, j \notin {i, n} PROVE Conserved(os2[j], log2, j)
    <2>1. os2[j] = os[j] /\ Conserved(os[j], log, j)
      BY <1>1, <1>2, <1>8
    <2>2. /\ FieldSum(log2, "amount", FillsOf(log2, j)) = FieldSum(log, "amount", FillsOf(log, j))
          /\ FillsOf(log2, j) = FillsOf(log, j)
      <3>1. Entered(log, e, log2, l) /\ j \notin {e.maker, e.taker}
        BY <1>2, <1>4, <1>5, <1>8, EntersLog
      <3> QED
        BY <3>1, OtherMatchLogged
    <2> QED
      BY <2>1, <2>2 DEF Conserved
  <1>9. \A j \in DOMAIN os : os2[j].price = os[j].price /\ os2[j].side = os[j].side
    BY <1>1, <1>7 DEF SameTerms
  <1>10. ASSUME NEW k \in DOMAIN log PROVE Priced(os2, log2[k])
    <2>1. PICK o : o = log[k] /\ o = log2[k] /\ Priced(os, o)
      BY <1>2, <1>6
    <2>2. Priced(os2, o)
      BY <1>1, <1>9, <2>1 DEF Priced
    <2> QED
      BY <2>1, <2>2
  <1>11. Priced(os2, e)
    <2>1. os[i].price \in Int /\ os[n].price \in Int
      BY <1>1, <1>3 DEF Order
    <2> QED
      BY <1>1, <1>4, <1>9, <2>1 DEF Priced, order_matches
  <1> QED
    BY <1>1, <1>6, <1>7, <1>8, <1>10, <1>11 DEF FillsOk

\* Cancelling what is left of orders keeps the account.
LEMMA CancellingConserves ==
  ASSUME NEW os, NEW log, FillsOk(os, log), NEW os2, DOMAIN os2 = DOMAIN os,
         \A j \in DOMAIN os : /\ SameTerms(os2[j], os[j]) /\ os2[j].remaining = os[j].remaining
                              /\ os2[j] = os[j] \/ (os2[j].status = "Cancelled" /\ os[j].remaining # 0)
  PROVE  FillsOk(os2, log)
  <1>1. ASSUME NEW j \in DOMAIN os PROVE Conserved(os2[j], log, j)
    <2>1. Conserved(os[j], log, j)
      BY DEF FillsOk
    <2> QED
      BY <2>1 DEF Conserved, SameTerms
  <1>2. ASSUME NEW k \in DOMAIN log PROVE Priced(os2, log[k])
    <2>1. Priced(os, log[k])
      BY DEF FillsOk
    <2> QED
      BY <2>1 DEF Priced, SameTerms
  <1> QED
    BY <1>1, <1>2 DEF FillsOk

Fill == [maker : Nat, amount : Nat, price : Int]

\* A fill of the match is an entry of the log.
LEMMA LogGrows ==
  ASSUME NEW log \in Seq(Match), NEW q \in Seq(Fill), NEW e \in Fill, NEW n \in Nat,
         NEW x, x = [maker |-> e.maker, taker |-> n, amount |-> e.amount, price |-> e.price]
  PROVE  /\ LogOf(log, Append(q, e), n) = Append(LogOf(log, q, n), x) /\ LogOf(log, q, n) \in Seq(Match)
         /\ x \in Match
  <1> DEFINE Entry(o) == [maker |-> o.maker, taker |-> n, amount |-> o.amount, price |-> o.price]
  <1>1. \A o \in Fill : Entry(o) \in Match
    BY DEF Fill, Match
  <1>2. x = Entry(e) /\ x \in Match
    BY <1>1
  <1>3. PICK r, a, b : /\ r = Append(q, e) /\ a = [k \in DOMAIN q |-> Entry(q[k])]
                       /\ b = [k \in DOMAIN r |-> Entry(r[k])]
    OBVIOUS
  <1>4. LogOf(log, q, n) = log \o a /\ LogOf(log, Append(q, e), n) = log \o b
    BY <1>3 DEF LogOf
  <1> HIDE DEF Entry
  <1>5. /\ r \in Seq(Fill) /\ DOMAIN r = 1 .. Len(q) + 1 /\ r[Len(q) + 1] = e
        /\ \A k \in 1 .. Len(q) : r[k] = q[k]
    BY <1>3
  <1>6. a \in Seq(Match) /\ Len(a) = Len(q)
    <2>1. DOMAIN a = 1 .. Len(q) /\ Len(q) \in Nat /\ \A k \in 1 .. Len(q) : a[k] \in Match
      BY <1>1, <1>3
    <2> QED
      BY <1>3, <2>1
  <1>7. b = Append(a, x)
    <2>1. Append(a, x) \in Seq(Match) /\ Len(Append(a, x)) = Len(q) + 1
      BY <1>2, <1>6
    <2>2. DOMAIN b = 1 .. Len(q) + 1 /\ DOMAIN Append(a, x) = 1 .. Len(q) + 1
      BY <1>3, <1>5, <2>1
    <2>3. ASSUME NEW k \in 1 .. Len(q) + 1 PROVE b[k] = Append(a, x)[k]
      <3>1. CASE k \in 1 .. Len(q)
        <4>1. b[k] = Entry(q[k]) /\ a[k] = Entry(q[k])
          BY <1>3, <1>5, <3>1
        <4> QED
          BY <1>2, <1>6, <3>1, <4>1
      <3>2. CASE k = Len(q) + 1
        <4>1. b[k] = Entry(e)
          BY <1>3, <1>5, <3>2
        <4> QED
          BY <1>2, <1>6, <3>2, <4>1
      <3>3. PICK l \in Nat : l = Len(q)
        OBVIOUS
      <3>4. k \in 1 .. l \/ k = l + 1
        BY <3>3
      <3> QED
        BY <3>1, <3>2, <3>3, <3>4
    <2>4. b = [k \in 1 .. Len(q) + 1 |-> b[k]] /\ Append(a, x) = [k \in 1 .. Len(q) + 1 |-> Append(a, x)[k]]
      <3>1. b = [k \in DOMAIN b |-> b[k]]
        BY <1>3
      <3>2. Append(a, x) = [k \in DOMAIN Append(a, x) |-> Append(a, x)[k]]
        BY <2>1
      <3> QED
        BY <2>2, <3>1, <3>2
    <2> QED
      BY <2>3, <2>4
  <1>8. log \o Append(a, x) = Append(log \o a, x) /\ log \o a \in Seq(Match)
    BY <1>2, <1>6
  <1> QED
    BY <1>2, <1>4, <1>7, <1>8

\* The makers of a match in progress are orders of the opposite side, and its
\* account counts the incoming order as the last.
MakersKnown(m) ==
  \A k \in DOMAIN m.matched :
    /\ m.matched[k].maker \in DOMAIN m.orders
    /\ m.orders[m.matched[k].maker].side = Opposite(m.incoming.side)

FillsSoFar(m, log, n) ==
  /\ m.matched \in Seq(Fill) /\ FillsOk(Append(m.orders, m.incoming), LogOf(log, m.matched, n))
  /\ MakersKnown(m)

\* The account is in order before the first iteration,
LEMMA FillStarts ==
  ASSUME NEW os \in Seq(Order), NEW log, FillsOk(os, log), NEW inc \in Order, NEW n, n = Len(os) + 1,
         inc.status = "Open", inc.amount = inc.remaining, inc.remaining > 0,
         NEW ids, NEW m, m = Matching(inc, os, ids)
  PROVE  FillsSoFar(m, log, n)
  <1>1. m.matched = <<>> /\ m.orders = os /\ m.incoming = inc
    BY DEF Matching
  <1>2. PICK o : o = Append(os, inc)
    OBVIOUS
  <1>3. /\ DOMAIN o = DOMAIN os \cup {n} /\ o[n] = inc /\ \A i \in DOMAIN os : o[i] = os[i]
        /\ n \notin DOMAIN os
    BY <1>2
  <1>4. log \in Seq(Match) /\ (\A i \in DOMAIN os : Conserved(os[i], log, i)) /\ \A k \in DOMAIN log : Priced(os, log[k])
    BY DEF FillsOk
  <1>5. LogOf(log, <<>>, n) = log
    BY <1>4 DEF LogOf
  <1>6. FillsOf(log, n) = {}
    BY <1>3, <1>4 DEF FillsOf, Priced
  <1>7. Conserved(inc, log, n)
    <2>1. inc.amount - inc.remaining = 0 /\ inc.remaining # 0
      BY DEF Order
    <2> QED
      BY <1>6, <2>1, FieldSumEmpty DEF Conserved
  <1>8. \A k \in DOMAIN log : Priced(o, log[k])
    BY <1>3, <1>4 DEF Priced
  <1> QED
    BY <1>1, <1>2, <1>3, <1>4, <1>5, <1>7, <1>8 DEF FillsSoFar, FillsOk, MakersKnown

\* and each iteration keeps it.
LEMMA FillContinues ==
  ASSUME NEW inc \in Order, NEW os \in Seq(Order), NEW n, n = Len(os) + 1, NEW log \in Seq(Match),
         NEW m, MatchInv(m, inc, os), FillsSoFar(m, log, n), NEW m2, MatchInv(m2, inc, os),
         NEW index, NEW fill, Chosen(m, index, fill), Fills(m, m2, index, fill)
  PROVE  FillsSoFar(m2, log, n)
  <1>1. PICK id, old, a, b :
          /\ id = m.ids[index] /\ old = m.orders[id]
          /\ a = Append(m.orders, m.incoming) /\ b = Append(m2.orders, m2.incoming)
    OBVIOUS
  <1>2. /\ id \in Eligible(m.incoming, m.ids, m.orders)
        /\ fill \in Nat /\ fill > 0 /\ fill <= m.incoming.remaining /\ fill <= old.remaining
    BY <1>1 DEF Chosen, Best
  <1>3. /\ m2.incoming = Reduced(m.incoming, fill)
        /\ m2.orders = [m.orders EXCEPT ![id] = Reduced(old, fill)]
        /\ m2.matched = Append(m.matched, [maker |-> id, amount |-> fill, price |-> old.price])
    BY <1>1 DEF Fills
  <1>4. /\ m.incoming \in Order /\ m.orders \in Seq(Order) /\ DOMAIN m.orders = DOMAIN os
        /\ m2.incoming \in Order /\ m2.orders \in Seq(Order) /\ DOMAIN m2.orders = DOMAIN os
        /\ ToSet(m.ids) \subseteq DOMAIN os
    BY DEF MatchInv, Lists, OpenOn
  <1>5. id \in DOMAIN os /\ order_matches(m.incoming, old)
    BY <1>1, <1>2, <1>4 DEF Eligible
  <1>6. DOMAIN os = 1 .. Len(os) /\ Len(os) \in Nat /\ Len(m.orders) = Len(os) /\ Len(m2.orders) = Len(os)
    BY <1>4
  <1>7. /\ a \in Seq(Order) /\ DOMAIN a = DOMAIN os \cup {n} /\ a[n] = m.incoming
        /\ \A j \in DOMAIN os : a[j] = m.orders[j]
    BY <1>1, <1>4, <1>6
  <1>8. /\ DOMAIN b = DOMAIN os \cup {n} /\ b[n] = m2.incoming
        /\ \A j \in DOMAIN os : b[j] = m2.orders[j]
    BY <1>1, <1>4, <1>6
  <1>9. n \notin DOMAIN os /\ n \in Nat /\ id \in Nat /\ old \in Order
    BY <1>1, <1>4, <1>5, <1>6
  <1>10. /\ m2.orders[id] = Reduced(old, fill)
         /\ \A j \in DOMAIN os : j # id => m2.orders[j] = m.orders[j]
    BY <1>3, <1>4, <1>5
  <1>11. Filling(a, b, id, n, fill)
    <2>1. a[id] = old /\ a[n] = m.incoming /\ id \in DOMAIN a /\ n \in DOMAIN a /\ id # n
      BY <1>1, <1>5, <1>7, <1>9
    <2>2. DOMAIN b = DOMAIN a /\ b[id] = Reduced(old, fill) /\ b[n] = Reduced(m.incoming, fill)
      BY <1>3, <1>5, <1>7, <1>8, <1>10
    <2>3. \A j \in DOMAIN a : j \notin {id, n} => b[j] = a[j]
      BY <1>7, <1>8, <1>10
    <2> QED
      BY <1>2, <1>5, <2>1, <2>2, <2>3 DEF Filling
  <1>12. PICK e, x : /\ e = [maker |-> id, amount |-> fill, price |-> old.price]
                     /\ x = [maker |-> e.maker, taker |-> n, amount |-> e.amount, price |-> e.price]
    OBVIOUS
  <1>13. e \in Fill /\ x = [maker |-> id, taker |-> n, amount |-> fill, price |-> a[id].price]
    <2>1. old.price \in Int /\ a[id] = old
      BY <1>1, <1>5, <1>7, <1>9 DEF Order
    <2> QED
      BY <1>2, <1>9, <1>12, <2>1 DEF Fill
  <1>14. m.matched \in Seq(Fill) /\ FillsOk(a, LogOf(log, m.matched, n))
    BY <1>1 DEF FillsSoFar
  <1>15. m2.matched = Append(m.matched, e) /\ m2.matched \in Seq(Fill)
    BY <1>3, <1>12, <1>13, <1>14
  <1>16. LogOf(log, m2.matched, n) = Append(LogOf(log, m.matched, n), x)
    <2>1. PICK q : q = m.matched /\ q \in Seq(Fill)
      BY <1>14
    <2>2. e \in Fill /\ n \in Nat /\ x = [maker |-> e.maker, taker |-> n, amount |-> e.amount, price |-> e.price]
      BY <1>9, <1>12, <1>13
    <2>3. LogOf(log, Append(q, e), n) = Append(LogOf(log, q, n), x)
      BY <2>1, <2>2, LogGrows
    <2> QED
      BY <1>15, <2>1, <2>3
  <1>17. FillsOk(b, LogOf(log, m2.matched, n))
    BY <1>7, <1>11, <1>13, <1>14, <1>16, FillingConserves
  <1>18. MakersKnown(m2)
    <2>1. PICK q, q2, side : q = m.matched /\ q2 = m2.matched /\ side = Opposite(inc.side)
      OBVIOUS
    <2>2. q2 = Append(q, e) /\ q \in Seq(Fill) /\ e \in Fill /\ e.maker = id
      BY <1>12, <1>13, <1>14, <1>15, <2>1
    <2>3. Opposite(m.incoming.side) = side /\ Opposite(m2.incoming.side) = side
      BY <2>1 DEF MatchInv, SameTerms
    <2>4. \A j \in DOMAIN os : m2.orders[j].side = m.orders[j].side
      BY DEF MatchInv, Touched, SameTerms
    <2>5. old.side = side
      BY <1>5, <2>3 DEF order_matches, Opposite
    <2>6. \A k \in DOMAIN q : q[k].maker \in DOMAIN os /\ m2.orders[q[k].maker].side = side
      BY <1>4, <2>1, <2>3, <2>4 DEF FillsSoFar, MakersKnown
    <2>7. e.maker \in DOMAIN os /\ m2.orders[e.maker].side = side
      BY <1>1, <1>5, <2>2, <2>4, <2>5
    <2>8. DOMAIN q2 = DOMAIN q \cup {Len(q) + 1} /\ q2[Len(q) + 1] = e /\ \A k \in DOMAIN q : q2[k] = q[k]
      BY <2>2
    <2>9. \A k \in DOMAIN q2 : q2[k].maker \in DOMAIN os /\ m2.orders[q2[k].maker].side = side
      BY <2>6, <2>7, <2>8
    <2> QED
      BY <1>4, <2>1, <2>3, <2>9 DEF MakersKnown
  <1> QED
    BY <1>1, <1>15, <1>17, <1>18 DEF FillsSoFar

\* A whole match keeps the account.
LEMMA MatchConserves ==
  ASSUME NEW inc, NEW os, NEW ids, Arrives(inc, os, ids), NEW m, m = match_limit_order(inc, os, ids),
         inc.status = "Open", inc.amount = inc.remaining,
         NEW log, FillsOk(os, log), NEW n, n = Len(os) + 1
  PROVE  FillsSoFar(m, log, n)
  <1>1. PICK f, N : MatchSteps(f, N, inc, os, ids) /\ m = f[N]
    BY MatchTakesSteps
  <1>2. /\ N \in Nat /\ f[0] = Matching(inc, os, ids)
        /\ \A k \in 0 .. N : MatchInv(f[k], inc, os)
        /\ \A k \in 1 .. N : Iteration(f[k - 1], f[k])
    BY <1>1 DEF MatchSteps
  <1>3. inc \in Order /\ os \in Seq(Order) /\ log \in Seq(Match) /\ inc.remaining > 0
    BY DEF Arrives, FillsOk
  <1> DEFINE T == {k \in 0 .. N : ~FillsSoFar(f[k], log, n)}
  <1>4. T = {}
    <2>1. SUFFICES ASSUME T # {} PROVE FALSE
      OBVIOUS
    <2>2. PICK k \in T : \A x \in T : k <= x
      <3>1. T \subseteq Nat
        OBVIOUS
      <3> HIDE DEF T
      <3> QED
        BY <2>1, <3>1, LeastNumber
    <2>3. CASE k = 0
      BY <1>2, <1>3, <2>2, <2>3, FillStarts
    <2>4. CASE k # 0
      <3>1. PICK j : j = k - 1
        OBVIOUS
      <3>2. j \in 0 .. N /\ k \in 1 .. N /\ ~(k <= j)
        BY <1>2, <2>2, <2>4, <3>1
      <3>3. FillsSoFar(f[j], log, n)
        BY <2>2, <3>2
      <3>4. Iteration(f[j], f[k]) /\ MatchInv(f[j], inc, os) /\ MatchInv(f[k], inc, os)
        BY <1>2, <3>1, <3>2
      <3>5. FillsSoFar(f[k], log, n)
        <4>1. CASE f[k] = f[j]
          BY <3>3, <4>1
        <4>2. CASE \E index, fill : Chosen(f[j], index, fill) /\ Fills(f[j], f[k], index, fill)
          BY <1>3, <3>3, <3>4, <4>2, FillContinues
        <4> QED
          BY <3>4, <4>1, <4>2 DEF Iteration
      <3> QED
        BY <2>2, <3>5
    <2> QED
      BY <2>3, <2>4
  <1>5. N \in 0 .. N
    BY <1>2
  <1> QED
    BY <1>1, <1>4, <1>5

\* Creating an order keeps the account.
LEMMA StoredConserves ==
  ASSUME NEW os, NEW bk, NEW t, BookOk(os, bk, t), NEW inc, Created(inc, t),
         NEW m, NEW x, NEW os2, NEW bk2, Stored(inc, os, bk, m, x, os2, bk2),
         NEW log, FillsOk(os, log), NEW n, n = Len(os) + 1
  PROVE  FillsOk(os2, LogOf(log, m.matched, n))
  <1>1. Arrives(inc, os, bk[inc.pair][Opposite(inc.side)])
    BY CreatedArrives
  <1>2. FillsSoFar(m, log, n)
    BY <1>1, MatchConserves DEF Stored, Created
  <1>3. PICK a, L : a = Append(m.orders, m.incoming) /\ L = LogOf(log, m.matched, n) /\ FillsOk(a, L)
    BY <1>2 DEF FillsSoFar
  <1>4. StoredOk(inc, os, m, x, os2, n)
    BY StoredShape
  <1>5. /\ MatchInv(m, inc, os) /\ x \in Order /\ SameTerms(x, inc) /\ x.remaining = m.incoming.remaining
        /\ DOMAIN os2 = DOMAIN os \cup {n} /\ os2[n] = x /\ n \notin DOMAIN os
        /\ \A i \in DOMAIN os : os2[i] = m.orders[i]
    BY <1>4 DEF StoredOk
  <1>6. /\ m.orders \in Seq(Order) /\ DOMAIN m.orders = DOMAIN os /\ m.incoming \in Order
        /\ SameTerms(m.incoming, inc) /\ os \in Seq(Order)
    BY <1>5 DEF MatchInv, BookOk
  <1>7. Len(m.orders) = Len(os) /\ Len(os) \in Nat /\ DOMAIN os = 1 .. Len(os)
    BY <1>6
  <1>8. DOMAIN a = DOMAIN os \cup {n} /\ a[n] = m.incoming /\ \A i \in DOMAIN os : a[i] = m.orders[i]
    BY <1>3, <1>6, <1>7
  <1>9. SameTerms(x, m.incoming)
    BY <1>5, <1>6 DEF SameTerms
  <1>10. x = m.incoming \/ (x.status = "Cancelled" /\ m.incoming.remaining # 0)
    <2>1. x = Settle(m.incoming) /\ m.incoming.remaining \in Nat
      BY <1>6 DEF Stored, Order
    <2>2. CASE m.incoming.tif = "Ioc" /\ m.incoming.remaining > 0
      <3>1. x = [m.incoming EXCEPT !.status = "Cancelled"]
        BY <2>1, <2>2 DEF Settle
      <3>2. x.status = "Cancelled"
        BY <1>6, <3>1 DEF Order
      <3> QED
        BY <2>1, <2>2, <3>2
    <2>3. CASE ~(m.incoming.tif = "Ioc" /\ m.incoming.remaining > 0)
      BY <2>1, <2>3 DEF Settle
    <2> QED
      BY <2>2, <2>3
  <1>11. ASSUME NEW j \in DOMAIN a
         PROVE  /\ SameTerms(os2[j], a[j]) /\ os2[j].remaining = a[j].remaining
                /\ os2[j] = a[j] \/ (os2[j].status = "Cancelled" /\ a[j].remaining # 0)
    <2>1. CASE j \in DOMAIN os
      BY <1>5, <1>8, <2>1 DEF SameTerms
    <2>2. CASE j = n
      BY <1>5, <1>8, <1>9, <1>10, <2>2
    <2> QED
      BY <1>8, <2>1, <2>2
  <1>12. FillsOk(os2, L)
    BY <1>3, <1>5, <1>8, <1>11, CancellingConserves
  <1> QED
    BY <1>3, <1>12

FillInv == FillsOk(orders, matched)

\* The account of the matches is in order in every state.
LEMMA FillInvHolds == Spec => []FillInv
  <1>1. Init => FillInv
    <2>1. SUFFICES ASSUME Init PROVE FillInv
      OBVIOUS
    <2>2. orders = <<>> /\ matched = <<>>
      BY <2>1 DEF Init
    <2> QED
      BY <2>2 DEF FillInv, FillsOk
  <1>2. BookInv /\ FillInv /\ [Next]_vars => FillInv'
    <2>1. SUFFICES ASSUME BookInv, FillInv, [Next]_vars PROVE FillsOk(orders', matched')
      BY DEF FillInv
    <2>2. BookOk(orders, obook, now) /\ FillsOk(orders, matched)
      BY <2>1 DEF BookInv, FillInv
    <2>3. CASE orders' = orders /\ matched' = matched
      BY <2>2, <2>3
    <2>4. ASSUME NEW t \in Traders, NEW p \in Pairs, NEW s \in Sides, NEW x \in Prices,
                 NEW a \in Amounts, NEW tif \in Tifs, create_limit_order(t, p, s, x, a, tif)
          PROVE  FillsOk(orders', matched')
      <3>1. PICK inc, m, y : /\ Created(inc, now) /\ Stored(inc, orders, obook, m, y, orders', obook')
                             /\ matched' = LogOf(matched, m.matched, Len(orders) + 1)
        BY <2>1, <2>4, CreateStores
      <3> QED
        BY <2>2, <3>1, StoredConserves
    <2>5. ASSUME NEW t \in Traders, NEW id \in DOMAIN orders, cancel_order(t, id)
          PROVE  FillsOk(orders', matched')
      <3>1. IsOpen(orders[id]) /\ orders' = [orders EXCEPT ![id].status = "Cancelled"] /\ matched' = matched
        BY <2>5 DEF cancel_order
      <3>2. /\ orders \in Seq(Order) /\ orders[id] \in Order /\ Live(orders[id])
        BY <2>2 DEF BookOk
      <3>3. orders[id].remaining # 0
        BY <3>1, <3>2 DEF Live, Order
      <3>4. PICK y : y = [orders[id] EXCEPT !.status = "Cancelled"]
        OBVIOUS
      <3>5. SameTerms(y, orders[id]) /\ y.remaining = orders[id].remaining /\ y.status = "Cancelled"
        BY <3>2, <3>4 DEF SameTerms, Order
      <3>6. /\ DOMAIN orders' = DOMAIN orders /\ orders'[id] = y
            /\ \A j \in DOMAIN orders : j # id => orders'[j] = orders[j]
        BY <3>1, <3>2, <3>4
      <3>7. \A j \in DOMAIN orders :
              /\ SameTerms(orders'[j], orders[j]) /\ orders'[j].remaining = orders[j].remaining
              /\ orders'[j] = orders[j] \/ (orders'[j].status = "Cancelled" /\ orders[j].remaining # 0)
        BY <3>3, <3>5, <3>6 DEF SameTerms
      <3>8. FillsOk(orders', matched)
        BY <2>2, <3>6, <3>7, CancellingConserves
      <3> QED
        BY <3>1, <3>8
    <2> QED
      BY <2>1, <2>3, <2>4, <2>5, BookSteps DEF BookUntouched
  <1> QED
    BY <1>1, <1>2, BookInvHolds, PTL DEF Spec

\* What an order lacks is what the OrderMatched events filled, its status says
\* so, and each match happened at the maker's price within the taker's limit.
THEOREM FillsConserved == Spec => []FillConservation
  <1>1. FillInv => FillConservation
    <2>1. SUFFICES ASSUME FillInv PROVE FillConservation
      OBVIOUS
    <2>2. ASSUME NEW id \in DOMAIN orders,
                 NEW fills, fills = {k \in DOMAIN matched : id \in {matched[k].maker, matched[k].taker}}
          PROVE  /\ orders[id].amount - orders[id].remaining = MapThenSumSet(LAMBDA k : matched[k].amount, fills)
                 /\ orders[id].status = "Filled" <=> orders[id].remaining = 0
                 /\ orders[id].status = "Open" => fills = {}
      <3>1. fills = FillsOf(matched, id)
        BY <2>2 DEF FillsOf
      <3>2. Conserved(orders[id], matched, id)
        BY <2>1 DEF FillInv, FillsOk
      <3>3. MapThenSumSet(LAMBDA k : matched[k].amount, fills) = FieldSum(matched, "amount", fills)
        BY DEF FieldSum
      <3> QED
        BY <3>1, <3>2, <3>3 DEF Conserved
    <2>3. ASSUME NEW k \in DOMAIN matched, NEW maker, maker = orders[matched[k].maker],
                 NEW taker, taker = orders[matched[k].taker]
          PROVE  /\ matched[k].price = maker.price
                 /\ IF taker.side = "Buy" THEN matched[k].price <= taker.price
                                          ELSE matched[k].price >= taker.price
      <3>1. Priced(orders, matched[k])
        BY <2>1 DEF FillInv, FillsOk
      <3> QED
        BY <2>3, <3>1 DEF Priced
    <2> QED
      BY <2>2, <2>3 DEF FillConservation
  <1> QED
    BY <1>1, FillInvHolds, PTL

-----------------------------------------------------------------------------
(* Part 3: the types of the state.                                          *)
Trade ==
  [trader : Traders, pair : Pairs, price : Int, timestamp : Nat, signed_amount : Int,
   via : {"trade", "batch_trade", "match"}]

BreakerState ==
  [current_period_start : 0 .. MaxTime, current_period_volume : Int, current_period_tx_count : Nat,
   last_trigger_timestamp : 0 .. MaxTime, pause_level : PauseLevel]

\* Trades that were recorded until t.
Recorded(q, t) == q \in Seq(Trade) /\ \A i \in DOMAIN q : q[i].timestamp <= t

ControlsOk ==
  /\ initialized \in BOOLEAN /\ premium \subseteq Traders /\ cb_config \in CbConfigs
  /\ cb_state \in BreakerState /\ paused_funcs \subseteq Funcs

TradesOk == Recorded(trades, now) /\ wallet \in [Traders -> 0 .. Wallet]

\* The record of a trade.
LEMMA TradeRecordType ==
  ASSUME NEW t \in Traders, NEW p \in Pairs, NEW a \in Int, NEW x \in Int, NEW b \in BOOLEAN,
         NEW via \in {"trade", "batch_trade", "match"}, now \in Nat,
         NEW r, r = TradeRecord(t, p, a, x, b, via)
  PROVE  /\ r \in Trade /\ r.timestamp = now /\ r.via = via
         /\ r.signed_amount = IF b THEN a ELSE -a
  <1>1. PICK signed \in Int : signed = IF b THEN a ELSE -a
    OBVIOUS
  <1>2. r = [trader |-> t, pair |-> p, price |-> x, timestamp |-> now, signed_amount |-> signed, via |-> via]
    BY <1>1 DEF TradeRecord
  <1> QED
    BY <1>1, <1>2 DEF Trade

\* Recording trades of the current time.
LEMMA RecordedMore ==
  ASSUME NEW q, NEW t \in Nat, Recorded(q, t), NEW r \in Seq(Trade), \A i \in DOMAIN r : r[i].timestamp = t,
         NEW q2, q2 = q \o r
  PROVE  Recorded(q2, t)
  <1>1. q \in Seq(Trade) /\ q2 \in Seq(Trade) /\ Len(q2) = Len(q) + Len(r) /\ Len(q) \in Nat /\ Len(r) \in Nat
    BY DEF Recorded
  <1>2. ASSUME NEW i \in DOMAIN q2 PROVE q2[i].timestamp <= t
    <2>1. CASE i <= Len(q)
      <3>1. i \in DOMAIN q /\ q2[i] = q[i]
        BY <1>1, <2>1
      <3> QED
        BY <3>1 DEF Recorded
    <2>2. CASE i > Len(q)
      <3>1. i - Len(q) \in DOMAIN r /\ q2[i] = r[i - Len(q)]
        BY <1>1, <2>2
      <3> QED
        BY <3>1
    <2> QED
      BY <1>1, <2>1, <2>2
  <1> QED
    BY <1>1, <1>2 DEF Recorded

\* The two trades of each fill.
LEMMA MatchTradesType ==
  ASSUME NEW inc \in Order, orders \in Seq(Order), now \in Nat, NEW q \in Seq(Fill),
         \A k \in DOMAIN q : q[k].maker \in DOMAIN orders, NEW r, r = MatchTrades(inc, q)
  PROVE  r \in Seq(Trade) /\ \A k \in DOMAIN r : r[k].timestamp = now /\ r[k].via = "match"
  <1>1. PICK n \in Nat : n = Len(q) /\ DOMAIN q = 1 .. n
    OBVIOUS
  <1>2. ASSUME NEW k \in 1 .. 2 * n PROVE r[k] \in Trade /\ r[k].timestamp = now /\ r[k].via = "match"
    <2>1. PICK fill : fill = q[(k + 1) \div 2]
      OBVIOUS
    <2>2. (k + 1) \div 2 \in 1 .. n
      BY <1>1
    <2>3. fill \in Fill /\ fill.maker \in DOMAIN orders
      BY <1>1, <2>1, <2>2
    <2>4. fill.amount \in Int /\ fill.price \in Int
      BY <2>3 DEF Fill
    <2>5. PICK party : party = IF k % 2 = 1 THEN inc ELSE orders[fill.maker]
      OBVIOUS
    <2>6. party \in Order
      BY <2>3, <2>5
    <2>7. party.owner \in Traders /\ party.pair \in Pairs
      BY <2>6 DEF Order
    <2>8. PICK b \in BOOLEAN : b = (party.side = "Buy")
      OBVIOUS
    <2>9. r[k] = TradeRecord(party.owner, party.pair, fill.amount, fill.price, b, "match")
      BY <1>1, <2>1, <2>5, <2>8 DEF MatchTrades
    <2>10. PICK owner \in Traders, pair \in Pairs, a \in Int, x \in Int :
             owner = party.owner /\ pair = party.pair /\ a = fill.amount /\ x = fill.price
      BY <2>4, <2>7
    <2>11. r[k] = TradeRecord(owner, pair, a, x, b, "match")
      BY <2>9, <2>10
    <2> QED
      BY <2>11, TradeRecordType
  <1>3. DOMAIN r = 1 .. 2 * n /\ r = [k \in 1 .. 2 * n |-> r[k]] /\ 2 * n \in Nat
    BY <1>1 DEF MatchTrades
  <1>4. r \in [1 .. 2 * n -> Trade]
    BY <1>2, <1>3
  <1> QED
    BY <1>2, <1>3, <1>4

\* The trades of a batch.
LEMMA BatchTradesType ==
  ASSUME NEW t \in Traders, NEW batch \in Batches, now \in Nat,
         NEW r, r = [i \in DOMAIN batch |-> TradeRecord(t, batch[i].pair, batch[i].amount, batch[i].price,
                                                      batch[i].is_buy, "batch_trade")]
  PROVE  r \in Seq(Trade) /\ \A i \in DOMAIN r : r[i].timestamp = now /\ r[i].via = "batch_trade"
  <1>1. PICK Items : Items = [pair : Pairs, amount : Int, price : Int, is_buy : BOOLEAN]
    OBVIOUS
  <1>2. batch \in Seq(Items)
    BY <1>1, TradingAssumption
  <1>3. PICK n \in Nat : n = Len(batch) /\ DOMAIN batch = 1 .. n
    BY <1>2
  <1>4. ASSUME NEW i \in 1 .. n PROVE r[i] \in Trade /\ r[i].timestamp = now /\ r[i].via = "batch_trade"
    <2>1. batch[i] \in Items
      BY <1>2, <1>3
    <2>2. PICK p \in Pairs, a \in Int, x \in Int, b \in BOOLEAN :
            p = batch[i].pair /\ a = batch[i].amount /\ x = batch[i].price /\ b = batch[i].is_buy
      BY <1>1, <2>1
    <2>3. r[i] = TradeRecord(t, p, a, x, b, "batch_trade")
      BY <1>3, <2>2
    <2> QED
      BY <2>3, TradeRecordType
  <1>5. DOMAIN r = 1 .. n /\ r = [i \in 1 .. n |-> r[i]]
    BY <1>3
  <1>6. r \in [1 .. n -> Trade]
    BY <1>4, <1>5
  <1> QED
    BY <1>4, <1>5, <1>6

\* Fees that are paid.
LEMMA FeePaid ==
  ASSUME wallet \in [Traders -> 0 .. Wallet], NEW t \in Traders, NEW fee \in Int, NEW count \in Nat,
         collect_fee(t, fee, count)
  PROVE  wallet' \in [Traders -> 0 .. Wallet]
  <1>1. PICK paid : paid = fee * count
    OBVIOUS
  <1>2. paid \in Nat
    BY <1>1 DEF collect_fee
  <1>3. paid <= wallet[t] /\ wallet' = [wallet EXCEPT ![t] = @ - paid] /\ Wallet \in Nat
    BY <1>1, TradingAssumption DEF collect_fee
  <1>4. wallet[t] - paid \in 0 .. Wallet
    BY <1>2, <1>3
  <1> QED
    BY <1>3, <1>4

\* The breaker after an activity.
LEMMA TrackedType ==
  ASSUME NEW state \in BreakerState, NEW config, NEW t \in 0 .. MaxTime, NEW volume \in Int
  PROVE  track_activity(state, config, t, volume) \in BreakerState
  <1>1. PICK period : period = StartPeriod(state, config, t)
    OBVIOUS
  <1>2. period \in BreakerState
    <2>1. CASE t >= state.current_period_start + config.period_duration
      <3>1. period = [state EXCEPT !.current_period_start = t, !.current_period_volume = 0,
                                   !.current_period_tx_count = 0]
        BY <1>1, <2>1 DEF StartPeriod
      <3>2. /\ state.last_trigger_timestamp \in 0 .. MaxTime /\ state.pause_level \in PauseLevel
            /\ period = [current_period_start |-> t, current_period_volume |-> 0,
                         current_period_tx_count |-> 0,
                         last_trigger_timestamp |-> state.last_trigger_timestamp,
                         pause_level |-> state.pause_level]
        BY <3>1 DEF BreakerState
      <3> QED
        BY <3>2 DEF BreakerState
    <2>2. CASE ~(t >= state.current_period_start + config.period_duration)
      BY <1>1, <2>2 DEF StartPeriod
    <2> QED
      BY <2>1, <2>2
  <1>3. PICK sum, count : /\ sum = Plus(period.current_period_volume, volume)
                          /\ count = period.current_period_tx_count + 1
    OBVIOUS
  <1>4. count \in Nat /\ period.current_period_volume \in Int
    BY <1>2, <1>3 DEF BreakerState
  <1>5. sum \in Int
    <2>1. PICK v \in Int, modulus \in Nat : /\ v = period.current_period_volume + volume + I128Max + 1
                                            /\ modulus = 2 * (I128Max + 1) /\ modulus > 0
      BY <1>4, I128Assumption
    <2>2. v % modulus \in Int
      BY <2>1
    <2> QED
      BY <1>3, <2>1, <2>2, I128Assumption DEF Plus
  <1>6. PICK trips \in BOOLEAN :
          track_activity(state, config, t, volume)
            = [period EXCEPT !.current_period_volume = sum, !.current_period_tx_count = count,
                             !.pause_level = IF trips THEN "Full" ELSE @,
                             !.last_trigger_timestamp = IF trips THEN t ELSE @]
    BY <1>1, <1>3, Zenon DEF track_activity
  <1> QED
    BY <1>2, <1>4, <1>5, <1>6 DEF BreakerState, PauseLevel

\* No step takes the administrator's settings or the breaker out of their types.
LEMMA ControlsStep ==
  ASSUME ControlsOk, now \in 0 .. MaxTime, [Next]_vars
  PROVE  ControlsOk'
  <1>0. /\ initialized \in BOOLEAN /\ premium \subseteq Traders /\ cb_config \in CbConfigs
        /\ cb_state \in BreakerState /\ paused_funcs \subseteq Funcs
    BY DEF ControlsOk
  <1> DEFINE Same == UNCHANGED <<initialized, premium, cb_config, paused_funcs>>
  <1>1. CASE Same /\ cb_state' = cb_state
    BY <1>0, <1>1 DEF ControlsOk
  <1>2. ASSUME NEW config \in CbConfigs, init(config) PROVE ControlsOk'
    <2>1. cb_init(now) \in BreakerState
      BY MaxTimeAssumption DEF cb_init, BreakerState, PauseLevel
    <2> QED
      BY <1>0, <1>2, <2>1 DEF init, ControlsOk
  <1>3. ASSUME NEW t \in Traders, NEW p \in Pairs, NEW a \in Amounts, NEW x \in Prices,
               NEW s \in Sides, NEW f \in Fees, trade(t, p, a, x, s = "Buy", f)
        PROVE  ControlsOk'
    <2>1. Same /\ cb_state' = track_activity(cb_state, cb_config, now, a)
      BY <1>3 DEF trade, controls
    <2>2. a \in Int
      BY TradingAssumption
    <2>3. cb_state' \in BreakerState
      BY <1>0, <2>1, <2>2, TrackedType
    <2> QED
      BY <1>0, <2>1, <2>3 DEF ControlsOk
  <1>4. ASSUME NEW t \in Traders, NEW b \in BOOLEAN, set_premium_user(t, b) PROVE ControlsOk'
    BY <1>0, <1>4 DEF set_premium_user, ControlsOk
  <1>5. ASSUME NEW level \in PauseLevel, set_pause_level(level) PROVE ControlsOk'
    <2>1. Same /\ cb_state' = [cb_state EXCEPT !.pause_level = level]
      BY <1>5 DEF set_pause_level, set_trade_pause_level, controls
    <2>2. cb_state' \in BreakerState
      BY <1>0, <2>1 DEF BreakerState
    <2> QED
      BY <1>0, <2>1, <2>2 DEF ControlsOk
  <1>6. ASSUME NEW f \in Funcs, pause_function(f) PROVE ControlsOk'
    <2>1. /\ UNCHANGED <<initialized, premium, cb_config>> /\ paused_funcs' = paused_funcs \cup {f}
          /\ cb_state' = pause_trade_function(cb_state)
      BY <1>6 DEF pause_function
    <2>2. PICK level \in PauseLevel : cb_state' = [cb_state EXCEPT !.pause_level = level]
      BY <1>0, <2>1 DEF pause_trade_function, BreakerState, PauseLevel
    <2>3. cb_state' \in BreakerState
      BY <1>0, <2>2 DEF BreakerState
    <2> QED
      BY <1>0, <2>1, <2>3 DEF ControlsOk
  <1>7. ASSUME NEW f \in Funcs, unpause_function(f) PROVE ControlsOk'
    BY <1>0, <1>7 DEF unpause_function, ControlsOk
  <1>8. CASE Tick
    BY <1>1, <1>8 DEF Tick, controls
  <1>9. ASSUME NEW t \in Traders, NEW batch \in Batches, NEW f \in Fees, batch_trade(t, batch, f)
        PROVE  ControlsOk'
    BY <1>1, <1>9 DEF batch_trade, controls
  <1>10. ASSUME NEW t \in Traders, NEW p \in Pairs, NEW s \in Sides, NEW x \in Prices,
                NEW a \in Amounts, NEW tif \in Tifs, create_limit_order(t, p, s, x, a, tif)
         PROVE  ControlsOk'
    BY <1>1, <1>10 DEF create_limit_order, controls
  <1>11. ASSUME NEW t \in Traders, NEW id \in DOMAIN orders, cancel_order(t, id) PROVE ControlsOk'
    BY <1>1, <1>11 DEF cancel_order, controls
  <1>12. ASSUME NEW cfg \in RateLimits, set_rate_limit_config(cfg) PROVE ControlsOk'
    BY <1>1, <1>12 DEF set_rate_limit_config
  <1>13. CASE UNCHANGED vars
    BY <1>1, <1>13 DEF vars, controls
  <1> QED
    BY <1>2, <1>3, <1>4, <1>5, <1>6, <1>7, <1>8, <1>9, <1>10, <1>11, <1>12, <1>13 DEF Next

\* The fills of a limit order, which the match of the code records and logs, name
\* orders that were on the other side before.
FillsRecorded(inc, q) ==
  /\ inc \in Order /\ q \in Seq(Fill)
  /\ \A k \in DOMAIN q : q[k].maker \in DOMAIN orders /\ orders[q[k].maker].side = Opposite(inc.side)
  /\ RecordTrades(MatchTrades(inc, q))
  /\ matched' = LogOf(matched, q, Len(orders) + 1)

LEMMA CreateFills ==
  ASSUME BookInv, FillInv, NEW t \in Traders, NEW p \in Pairs, NEW s \in Sides, NEW x \in Prices,
         NEW a \in Amounts, NEW tif \in Tifs, create_limit_order(t, p, s, x, a, tif)
  PROVE  \E inc, q : FillsRecorded(inc, q)
  <1>1. PICK inc, m, y : /\ Created(inc, now) /\ Stored(inc, orders, obook, m, y, orders', obook')
                         /\ matched' = LogOf(matched, m.matched, Len(orders) + 1)
                         /\ RecordTrades(MatchTrades(inc, m.matched))
    BY CreateStores
  <1>2. BookOk(orders, obook, now) /\ FillsOk(orders, matched)
    BY DEF BookInv, FillInv
  <1>3. PICK n : n = Len(orders) + 1
    OBVIOUS
  <1>4. Arrives(inc, orders, obook[inc.pair][Opposite(inc.side)])
    BY <1>1, <1>2, CreatedArrives
  <1>5. FillsSoFar(m, matched, n)
    BY <1>1, <1>2, <1>3, <1>4, MatchConserves DEF Stored, Created
  <1>6. MatchInv(m, inc, orders)
    <2>1. StoredOk(inc, orders, m, y, orders', n)
      BY <1>1, <1>2, <1>3, StoredShape
    <2> QED
      BY <2>1 DEF StoredOk
  <1>7. /\ DOMAIN m.orders = DOMAIN orders /\ inc \in Order /\ m.incoming.side = inc.side
        /\ \A j \in DOMAIN orders : m.orders[j].side = orders[j].side
    BY <1>1, <1>6 DEF MatchInv, Created, SameTerms, Touched
  <1>8. PICK q : q = m.matched
    OBVIOUS
  <1>9. /\ q \in Seq(Fill)
        /\ \A k \in DOMAIN q : q[k].maker \in DOMAIN orders /\ orders[q[k].maker].side = Opposite(inc.side)
    BY <1>5, <1>7, <1>8 DEF FillsSoFar, MakersKnown
  <1>10. FillsRecorded(inc, q)
    BY <1>1, <1>7, <1>8, <1>9 DEF FillsRecorded
  <1> QED
    BY <1>10

\* No step takes the trades or the balances out of their types.
LEMMA TradesStep ==
  ASSUME BookInv, FillInv, TradesOk, [Next]_vars
  PROVE  TradesOk'
  <1>0. /\ Recorded(trades, now) /\ wallet \in [Traders -> 0 .. Wallet] /\ now \in Nat
        /\ orders \in Seq(Order)
    BY DEF TradesOk, BookInv, BookOk
  <1>1. CASE UNCHANGED <<trades, wallet, now>>
    BY <1>0, <1>1 DEF TradesOk
  <1>2. CASE Tick
    <2>1. trades' = trades /\ wallet' = wallet /\ now' = now + 1
      BY <1>2 DEF Tick
    <2>2. ASSUME NEW i \in DOMAIN trades PROVE trades[i].timestamp <= now + 1
      <3>1. trades[i] \in Trade /\ trades[i].timestamp <= now
        BY <1>0 DEF Recorded
      <3>2. trades[i].timestamp \in Nat
        BY <3>1 DEF Trade
      <3> QED
        BY <1>0, <3>1, <3>2
    <2>3. Recorded(trades, now + 1)
      BY <1>0, <2>2 DEF Recorded
    <2> QED
      BY <1>0, <2>1, <2>3 DEF TradesOk
  <1>3. ASSUME NEW t \in Traders, NEW p \in Pairs, NEW a \in Amounts, NEW x \in Prices,
               NEW s \in Sides, NEW f \in Fees, trade(t, p, a, x, s = "Buy", f)
        PROVE  TradesOk'
    <2>1. PICK b \in BOOLEAN : b = (s = "Buy")
      OBVIOUS
    <2>2. PICK r : r = TradeRecord(t, p, a, x, b, "trade")
      OBVIOUS
    <2>3. now' = now /\ collect_fee(t, f, 1) /\ trades' = trades \o <<r>>
      BY <1>3, <2>1, <2>2 DEF trade, RecordTrades
    <2>4. a \in Int /\ x \in Int /\ f \in Int
      BY TradingAssumption
    <2>5. r \in Trade /\ r.timestamp = now
      BY <1>0, <2>2, <2>4, TradeRecordType
    <2>6. Recorded(trades', now)
      <3>1. PICK q : q = <<r>>
        OBVIOUS
      <3>2. q \in Seq(Trade) /\ DOMAIN q = {1} /\ q[1] = r
        BY <2>5, <3>1
      <3> QED
        BY <1>0, <2>3, <2>5, <3>1, <3>2, RecordedMore
    <2>7. wallet' \in [Traders -> 0 .. Wallet]
      BY <1>0, <2>3, <2>4, FeePaid
    <2> QED
      BY <2>3, <2>6, <2>7 DEF TradesOk
  <1>4. ASSUME NEW t \in Traders, NEW batch \in Batches, NEW f \in Fees, batch_trade(t, batch, f)
        PROVE  TradesOk'
    <2>1. PICK r : r = [i \in DOMAIN batch |-> TradeRecord(t, batch[i].pair, batch[i].amount, batch[i].price,
                                                          batch[i].is_buy, "batch_trade")]
      OBVIOUS
    <2>2. now' = now /\ collect_fee(t, f, Len(batch)) /\ trades' = trades \o r
      BY <1>4, <2>1 DEF batch_trade, RecordTrades
    <2>3. batch \in Seq([pair : Pairs, amount : Int, price : Int, is_buy : BOOLEAN]) /\ f \in Int
      BY TradingAssumption
    <2>4. Len(batch) \in Nat
      BY <2>3
    <2>6. r \in Seq(Trade) /\ \A i \in DOMAIN r : r[i].timestamp = now
      BY <1>0, <2>1, BatchTradesType
    <2>7. Recorded(trades', now)
      BY <1>0, <2>2, <2>6, RecordedMore
    <2>8. wallet' \in [Traders -> 0 .. Wallet]
      BY <1>0, <2>2, <2>3, <2>4, FeePaid
    <2> QED
      BY <2>2, <2>7, <2>8 DEF TradesOk
  <1>5. ASSUME NEW t \in Traders, NEW p \in Pairs, NEW s \in Sides, NEW x \in Prices,
               NEW a \in Amounts, NEW tif \in Tifs, create_limit_order(t, p, s, x, a, tif)
        PROVE  TradesOk'
    <2>1. PICK inc, q : /\ inc \in Order /\ q \in Seq(Fill) /\ \A k \in DOMAIN q : q[k].maker \in DOMAIN orders
                        /\ trades' = trades \o MatchTrades(inc, q)
      BY <1>5, CreateFills DEF FillsRecorded, RecordTrades
    <2>2. now' = now /\ wallet' = wallet
      BY <1>5 DEF create_limit_order
    <2>3. PICK r : r = MatchTrades(inc, q)
      OBVIOUS
    <2>4. r \in Seq(Trade) /\ \A k \in DOMAIN r : r[k].timestamp = now
      BY <1>0, <2>1, <2>3, MatchTradesType
    <2>5. Recorded(trades', now)
      BY <1>0, <2>1, <2>3, <2>4, RecordedMore
    <2> QED
      BY <1>0, <2>2, <2>5 DEF TradesOk
  <1>6. ASSUME NEW config \in CbConfigs, init(config) PROVE TradesOk'
    BY <1>1, <1>6 DEF init
  <1>7. ASSUME NEW t \in Traders, NEW id \in DOMAIN orders, cancel_order(t, id) PROVE TradesOk'
    BY <1>1, <1>7 DEF cancel_order
  <1>8. ASSUME NEW t \in Traders, NEW b \in BOOLEAN, set_premium_user(t, b) PROVE TradesOk'
    BY <1>1, <1>8 DEF set_premium_user
  <1>9. ASSUME NEW cfg \in RateLimits, set_rate_limit_config(cfg) PROVE TradesOk'
    BY <1>1, <1>9 DEF set_rate_limit_config
  <1>10. ASSUME NEW level \in PauseLevel, set_pause_level(level) PROVE TradesOk'
    BY <1>1, <1>10 DEF set_pause_level
  <1>11. ASSUME NEW f \in Funcs, pause_function(f) \/ unpause_function(f) PROVE TradesOk'
    BY <1>1, <1>11 DEF pause_function, unpause_function
  <1>12. CASE UNCHANGED vars
    BY <1>1, <1>12 DEF vars
  <1> QED
    BY <1>2, <1>3, <1>4, <1>5, <1>6, <1>7, <1>8, <1>9, <1>10, <1>11, <1>12 DEF Next

\* An order never has more left than it asked for.
LEMMA RemainingBounded ==
  ASSUME BookInv, FillInv, NEW i \in DOMAIN orders
  PROVE  orders[i].remaining \in 0 .. orders[i].amount
  <1>1. orders[i] \in Order /\ Conserved(orders[i], matched, i) /\ matched \in Seq(Match)
    BY DEF BookInv, BookOk, FillInv, FillsOk
  <1>2. orders[i].remaining \in Nat /\ orders[i].amount \in Int
    BY <1>1 DEF Order
  <1>3. FieldSum(matched, "amount", FillsOf(matched, i)) \in Nat
    <2>1. IsFiniteSet(FillsOf(matched, i)) /\ FillsOf(matched, i) \subseteq DOMAIN matched
      BY <1>1, FillsFinite
    <2>2. \A k \in DOMAIN matched : matched[k] \in Match
      BY <1>1
    <2>3. \A k \in FillsOf(matched, i) : matched[k]["amount"] \in Nat
      BY <2>1, <2>2 DEF Match
    <2> QED
      BY <2>1, <2>3, FieldSumNatural
  <1>4. orders[i].amount - orders[i].remaining = FieldSum(matched, "amount", FillsOf(matched, i))
    BY <1>1 DEF Conserved
  <1> QED
    BY <1>2, <1>3, <1>4

\* The settings, the breaker, the trades and the balances keep their types.
LEMMA StateTyped == Spec => [](ControlsOk /\ TradesOk)
  <1>1. Init => ControlsOk /\ TradesOk
    <2>1. SUFFICES ASSUME Init PROVE ControlsOk /\ TradesOk
      OBVIOUS
    <2>2. cb_init(0) \in BreakerState
      BY MaxTimeAssumption DEF cb_init, BreakerState, PauseLevel
    <2>3. ControlsOk
      <3>1. cb_config \in CbConfigs
        BY <2>1, TradingAssumption DEF Init
      <3> QED
        BY <2>1, <2>2, <3>1 DEF Init, ControlsOk
    <2>4. TradesOk
      BY <2>1, TradingAssumption DEF Init, TradesOk, Recorded
    <2> QED
      BY <2>3, <2>4
  <1>2. RateInv /\ BookInv /\ FillInv /\ ControlsOk /\ TradesOk /\ [Next]_vars => ControlsOk' /\ TradesOk'
    BY ControlsStep, TradesStep DEF RateInv
  <1> QED
    BY <1>1, <1>2, CallsCounted, BookInvHolds, FillInvHolds, PTL DEF Spec

\* Every state has its type: in particular no order has a negative amount left or
\* more than it asked for, the sides list only orders that exist, nothing is
\* recorded for the future and no trader pays more than it holds.
THEOREM TypeCorrect == Spec => []TypeOK
  <1>1. RateInv /\ BookInv /\ FillInv /\ ControlsOk /\ TradesOk => TypeOK
    <2>1. SUFFICES ASSUME RateInv, BookInv, FillInv, ControlsOk, TradesOk PROVE TypeOK
      OBVIOUS
    <2>2. /\ now \in 0 .. MaxTime /\ rl_cfg \in RateLimits
          /\ usage.user \in [Traders -> [0 .. MaxTime -> Nat]] /\ usage.global \in [0 .. MaxTime -> Nat]
      BY <2>1 DEF RateInv, UsageType
    <2>3. /\ initialized \in BOOLEAN /\ premium \subseteq Traders /\ cb_config \in CbConfigs
          /\ paused_funcs \subseteq Funcs
          /\ cb_state.pause_level \in PauseLevel /\ cb_state.current_period_start \in 0 .. MaxTime
          /\ cb_state.last_trigger_timestamp \in 0 .. MaxTime
      BY <2>1 DEF ControlsOk, BreakerState
    <2>4. ASSUME NEW i \in DOMAIN orders
          PROVE  /\ orders[i].owner \in Traders /\ orders[i].pair \in Pairs
                 /\ orders[i].status \in OrderStatus
                 /\ orders[i].remaining \in 0 .. orders[i].amount
                 /\ orders[i].timestamp \in 0 .. now
      <3>1. orders[i] \in Order /\ orders[i].timestamp <= now /\ now \in Nat
        BY <2>1 DEF BookInv, BookOk
      <3>2. /\ orders[i].owner \in Traders /\ orders[i].pair \in Pairs /\ orders[i].status \in OrderStatus
            /\ orders[i].timestamp \in Nat
        BY <3>1 DEF Order
      <3> QED
        BY <2>1, <3>1, <3>2, RemainingBounded
    <2>5. ASSUME NEW p \in Pairs, NEW side \in OrderSide PROVE ToSet(obook[p][side]) \subseteq DOMAIN orders
      BY <2>1 DEF BookInv, BookOk, Lists, OpenOn
    <2>6. ASSUME NEW i \in DOMAIN trades PROVE trades[i].timestamp \in 0 .. now
      <3>1. trades[i] \in Trade /\ trades[i].timestamp <= now
        BY <2>1 DEF TradesOk, Recorded
      <3>2. trades[i].timestamp \in Nat
        BY <3>1 DEF Trade
      <3> QED
        BY <2>2, <3>1, <3>2, MaxTimeAssumption
    <2>7. wallet \in [Traders -> 0 .. Wallet]
      BY <2>1 DEF TradesOk
    <2> QED
      BY <2>2, <2>3, <2>4, <2>5, <2>6, <2>7 DEF TypeOK
  <1> QED
    BY <1>1, StateTyped, CallsCounted, BookInvHolds, FillInvHolds, PTL

-----------------------------------------------------------------------------
(* Part 4: the circuit breaker.                                             *)

\* The trades by trade() since start.
ByTrade(q, start) == {i \in DOMAIN q : q[i].via = "trade" /\ q[i].timestamp >= start}

\* The breaker's counters are those of the trades by trade() since the start of
\* its period, and none of them is later than the period.
BreakerOk(q, state, config, t) ==
  /\ state.current_period_start <= t
  /\ state.current_period_volume = VolumeOf(q, ByTrade(q, state.current_period_start))
  /\ state.current_period_tx_count = Cardinality(ByTrade(q, state.current_period_start))
  /\ \A i \in DOMAIN q :
       q[i].via = "trade" => q[i].timestamp < state.current_period_start + config.period_duration

BreakerInv ==
  /\ ~initialized => trades = <<>>
  /\ BreakerOk(trades, cb_state, cb_config, now)

\* A sum that stays within an i128 does not wrap.
LEMMA PlusExact ==
  ASSUME NEW a \in Nat, NEW b \in Nat, a + b <= I128Max
  PROVE  Plus(a, b) = a + b
  <1>1. PICK v \in Nat, k \in Nat : v = a + b + I128Max + 1 /\ k = 2 * (I128Max + 1) /\ v < k /\ k > 0
    BY I128Assumption
  <1>2. v % k = v
    BY <1>1
  <1> QED
    BY <1>1, <1>2, I128Assumption DEF Plus

\* The volume of some trades as a sum of the values of a function.
Sizes(q) == [i \in DOMAIN q |-> Size(q[i])]

LEMMA VolumeIsTotal ==
  ASSUME NEW q, NEW S, IsFiniteSet(S), S \subseteq DOMAIN q
  PROVE  VolumeOf(q, S) = Total(Sizes(q), S)
  <1> DEFINE Step(h) == [s \in SUBSET S |-> IF s = {} THEN 0 ELSE Size(q[Taken(s)]) + h[s \ {Taken(s)}]]
             g == CHOOSE h : h = Step(h)
  <1>1. VolumeOf(q, S) = g[S]
    BY DEF VolumeOf, MapThenSumSet, MapThenFoldSet, Taken
  <1>2. ASSUME NEW h
        PROVE  Step(h) = [s \in SUBSET S |-> IF s = {} THEN 0 ELSE Sizes(q)[Taken(s)] + h[s \ {Taken(s)}]]
    <2>1. ASSUME NEW s \in SUBSET S, s # {} PROVE Size(q[Taken(s)]) = Sizes(q)[Taken(s)]
      <3>1. Taken(s) \in DOMAIN q
        BY <2>1, TakenIsMember
      <3> QED
        BY <3>1 DEF Sizes
    <2> QED
      BY <2>1
  <1>3. PICK h : Sums(h, Sizes(q), S) /\ Total(Sizes(q), S) = h[S]
    BY TotalIsSum
  <1>4. h = Step(h)
    BY <1>2, <1>3 DEF Sums
  <1> HIDE DEF Step
  <1>5. g = Step(g)
    BY <1>4
  <1> HIDE DEF g
  <1>6. Sums(g, Sizes(q), S)
    BY <1>2, <1>5 DEF Sums
  <1>7. g[S] = h[S]
    BY <1>3, <1>6, SumsAgree
  <1> QED
    BY <1>1, <1>3, <1>7

\* Volumes are natural numbers.
LEMMA VolumeType ==
  ASSUME NEW q \in Seq(Trade), NEW S, S \subseteq DOMAIN q
  PROVE  /\ IsFiniteSet(S) /\ VolumeOf(q, S) \in Nat /\ \A i \in DOMAIN q : Sizes(q)[i] \in Nat
         /\ Cardinality(S) \in Nat
  <1>1. ASSUME NEW i \in DOMAIN q PROVE Sizes(q)[i] \in Nat
    <2>1. q[i] \in Trade
      OBVIOUS
    <2>2. q[i].signed_amount \in Int
      BY <2>1 DEF Trade
    <2> QED
      BY <2>2 DEF Sizes, Size
  <1>2. IsFiniteSet(S)
    <2>1. IsFiniteSet(DOMAIN q)
      BY FS_Interval
    <2> QED
      BY <2>1, FS_Subset
  <1>3. Total(Sizes(q), S) \in Nat
    BY <1>1, <1>2, TotalNatural
  <1> QED
    BY <1>1, <1>2, <1>3, VolumeIsTotal, FS_CardinalityType

\* The volume of trades that were already there,
LEMMA VolumeKept ==
  ASSUME NEW q \in Seq(Trade), NEW q2 \in Seq(Trade), NEW S, S \subseteq DOMAIN q, S \subseteq DOMAIN q2,
         \A i \in S : q2[i] = q[i]
  PROVE  VolumeOf(q2, S) = VolumeOf(q, S)
  <1>1. IsFiniteSet(S)
    BY VolumeType
  <1>2. \A i \in S : Sizes(q2)[i] = Sizes(q)[i]
    BY DEF Sizes
  <1>3. Total(Sizes(q2), S) = Total(Sizes(q), S)
    BY <1>1, <1>2, TotalAgrees
  <1> QED
    BY <1>1, <1>3, VolumeIsTotal

\* and with one more.
LEMMA VolumeAdd ==
  ASSUME NEW q \in Seq(Trade), NEW S, S \subseteq DOMAIN q, NEW i \in DOMAIN q, i \notin S
  PROVE  /\ VolumeOf(q, S \cup {i}) = VolumeOf(q, S) + Size(q[i])
         /\ Cardinality(S \cup {i}) = Cardinality(S) + 1
  <1>1. IsFiniteSet(S) /\ (\A j \in DOMAIN q : Sizes(q)[j] \in Nat)
    BY VolumeType
  <1>2. PICK T : T = S \cup {i}
    OBVIOUS
  <1>3. T \subseteq DOMAIN q /\ IsFiniteSet(T) /\ Cardinality(T) = Cardinality(S) + 1
    BY <1>1, <1>2, FS_AddElement
  <1>4. Total(Sizes(q), T) = Total(Sizes(q), S) + Sizes(q)[i]
    <2>1. \A j \in S \cup {i} : Sizes(q)[j] \in Int
      BY <1>1
    <2> QED
      BY <1>1, <1>2, <2>1, TotalAdd
  <1>5. Sizes(q)[i] = Size(q[i])
    BY DEF Sizes
  <1> QED
    BY <1>1, <1>2, <1>3, <1>4, <1>5, VolumeIsTotal

BreakerConfig == [max_volume_per_period : Int, max_tx_count_per_period : Nat, period_duration : Nat]

\* The period that an activity falls into, after its lazy restart.
LEMMA PeriodStarts ==
  ASSUME NEW q \in Seq(Trade), NEW state \in BreakerState, NEW config \in BreakerConfig,
         config.period_duration > 0, NEW t \in Nat, t \in 0 .. MaxTime, BreakerOk(q, state, config, t),
         NEW period, period = StartPeriod(state, config, t)
  PROVE  /\ period \in BreakerState /\ BreakerOk(q, period, config, t)
         /\ t < period.current_period_start + config.period_duration
         /\ period.pause_level = state.pause_level
  <1>1. config.period_duration \in Nat /\ state.current_period_start \in Nat
    BY DEF BreakerConfig, BreakerState
  <1>2. PICK start \in Nat, d \in Nat : start = state.current_period_start /\ d = config.period_duration
    BY <1>1
  <1>3. CASE t >= start + d
    <2>1. period = [state EXCEPT !.current_period_start = t, !.current_period_volume = 0,
                                 !.current_period_tx_count = 0]
      BY <1>2, <1>3 DEF StartPeriod
    <2>2. /\ state.last_trigger_timestamp \in 0 .. MaxTime /\ state.pause_level \in PauseLevel
          /\ period = [current_period_start |-> t, current_period_volume |-> 0,
                       current_period_tx_count |-> 0,
                       last_trigger_timestamp |-> state.last_trigger_timestamp,
                       pause_level |-> state.pause_level]
      BY <2>1 DEF BreakerState
    <2>3. period \in BreakerState
      BY <2>2 DEF BreakerState
    <2>4. ASSUME NEW i \in DOMAIN q, q[i].via = "trade"
          PROVE  ~(q[i].timestamp >= t) /\ q[i].timestamp < t + d
      <3>1. q[i] \in Trade
        OBVIOUS
      <3>2. q[i].timestamp \in Nat
        BY <3>1 DEF Trade
      <3>3. q[i].timestamp < start + d
        BY <1>2, <2>4 DEF BreakerOk
      <3> QED
        BY <1>3, <3>2, <3>3
    <2>5. ByTrade(q, t) = {}
      BY <2>4 DEF ByTrade
    <2>6. VolumeOf(q, {}) = 0 /\ Cardinality({}) = 0
      BY VolumeIsTotal, TotalEmpty, FS_EmptySet
    <2>7. BreakerOk(q, period, config, t)
      <3>1. /\ period.current_period_start = t /\ period.current_period_volume = 0
            /\ period.current_period_tx_count = 0 /\ t <= t
        BY <2>2
      <3>2. \A i \in DOMAIN q : q[i].via = "trade" => q[i].timestamp < t + config.period_duration
        BY <1>2, <2>4
      <3> QED
        BY <2>5, <2>6, <3>1, <3>2, Zenon DEF BreakerOk
    <2> QED
      BY <1>2, <2>2, <2>3, <2>7
  <1>4. CASE ~(t >= start + d)
    BY <1>2, <1>4 DEF StartPeriod
  <1> QED
    BY <1>3, <1>4

\* The trades of the period that is counted.
Reached(q, state, config) ==
  \/ VolumeOf(q, ByTrade(q, state.current_period_start)) >= config.max_volume_per_period
  \/ Cardinality(ByTrade(q, state.current_period_start)) >= config.max_tx_count_per_period

\* A trade() of a at time t, recorded as rec, and the breaker that tracks it.
Tracked(q, state, config, t, a, rec, q2, s2) ==
  /\ q \in Seq(Trade) /\ state \in BreakerState /\ config \in BreakerConfig
  /\ config.period_duration > 0 /\ t \in Nat /\ t \in 0 .. MaxTime /\ BreakerOk(q, state, config, t)
  /\ a \in Nat /\ rec \in Trade /\ rec.timestamp = t /\ rec.via = "trade" /\ Size(rec) = a
  /\ q2 = Append(q, rec) /\ track_survives(state, config, t, a)
  /\ s2 = track_activity(state, config, t, a)

Tripped(q2, state, config, t, s2) ==
  /\ BreakerOk(q2, s2, config, t)
  /\ Len(q2) \in ByTrade(q2, s2.current_period_start)
  /\ state.pause_level = "None" => (s2.pause_level = "Full" <=> Reached(q2, s2, config))

\* An activity is counted and trips the breaker exactly at a threshold.
LEMMA TrackCounts ==
  ASSUME OverflowChecks, NEW q, NEW state, NEW config, NEW t, NEW a, NEW rec, NEW q2, NEW s2,
         Tracked(q, state, config, t, a, rec, q2, s2)
  PROVE  Tripped(q2, state, config, t, s2)
  <1>0. /\ q \in Seq(Trade) /\ state \in BreakerState /\ config \in BreakerConfig
        /\ config.period_duration > 0 /\ t \in Nat /\ t \in 0 .. MaxTime /\ BreakerOk(q, state, config, t)
        /\ a \in Nat /\ rec \in Trade /\ rec.timestamp = t /\ rec.via = "trade" /\ Size(rec) = a
        /\ q2 = Append(q, rec) /\ track_survives(state, config, t, a)
        /\ s2 = track_activity(state, config, t, a)
    BY DEF Tracked
  <1>1. PICK period : period = StartPeriod(state, config, t)
    OBVIOUS
  <1>2. /\ period \in BreakerState /\ BreakerOk(q, period, config, t)
        /\ t < period.current_period_start + config.period_duration
        /\ period.pause_level = state.pause_level
    BY <1>0, <1>1, PeriodStarts
  <1>3. PICK start, S : /\ start \in Nat /\ start = period.current_period_start
                        /\ S = ByTrade(q, start)
    BY <1>2 DEF BreakerState
  <1>4. /\ start <= t /\ period.current_period_volume = VolumeOf(q, S)
        /\ period.current_period_tx_count = Cardinality(S)
        /\ \A i \in DOMAIN q : q[i].via = "trade" => q[i].timestamp < start + config.period_duration
    BY <1>2, <1>3 DEF BreakerOk
  <1>5. PICK n \in Nat : n = Len(q) + 1
    BY <1>0
  <1>6. /\ q2 \in Seq(Trade) /\ DOMAIN q2 = DOMAIN q \cup {n} /\ q2[n] = rec /\ n \notin DOMAIN q
        /\ Len(q2) = n /\ \A i \in DOMAIN q : q2[i] = q[i]
    BY <1>0, <1>5
  <1>7. S \subseteq DOMAIN q /\ ByTrade(q2, start) = S \cup {n}
    BY <1>0, <1>3, <1>4, <1>6 DEF ByTrade
  <1>8. /\ VolumeOf(q, S) \in Nat /\ Cardinality(S) \in Nat
        /\ VolumeOf(q2, S \cup {n}) = VolumeOf(q, S) + a
        /\ Cardinality(S \cup {n}) = Cardinality(S) + 1
    <2>1. /\ n \in DOMAIN q2 /\ n \notin S /\ S \subseteq DOMAIN q2 /\ \A i \in S : q2[i] = q[i]
      BY <1>6, <1>7
    <2>2. VolumeOf(q2, S) = VolumeOf(q, S)
      BY <1>0, <1>6, <1>7, <2>1, VolumeKept, Zenon
    <2>3. /\ VolumeOf(q2, S \cup {n}) = VolumeOf(q2, S) + Size(q2[n])
          /\ Cardinality(S \cup {n}) = Cardinality(S) + 1
      <3>1. q2 \in Seq(Trade) /\ S \subseteq DOMAIN q2 /\ n \in DOMAIN q2 /\ n \notin S
        BY <1>6, <2>1
      <3> QED
        BY <3>1, VolumeAdd
    <2> QED
      BY <1>0, <1>6, <1>7, <2>2, <2>3, VolumeType
  <1>9. PICK sum, count : /\ sum = Plus(period.current_period_volume, a)
                          /\ count = period.current_period_tx_count + 1
    OBVIOUS
  <1>10. sum = VolumeOf(q2, S \cup {n}) /\ count = Cardinality(S \cup {n})
    <2>1. period.current_period_volume + a <= I128Max
      BY <1>0, <1>1 DEF track_survives, PlusSurvives
    <2> QED
      BY <1>0, <1>4, <1>8, <1>9, <2>1, PlusExact
  <1>11. PICK trips \in BOOLEAN :
           /\ s2 = [period EXCEPT !.current_period_volume = sum, !.current_period_tx_count = count,
                                  !.pause_level = IF trips THEN "Full" ELSE @,
                                  !.last_trigger_timestamp = IF trips THEN t ELSE @]
           /\ trips <=> /\ sum >= config.max_volume_per_period \/ count >= config.max_tx_count_per_period
                       /\ period.pause_level = "None"
    BY <1>0, <1>1, <1>9, Zenon DEF track_activity
  <1>12. /\ s2.current_period_start = start /\ s2.current_period_volume = sum
         /\ s2.current_period_tx_count = count
         /\ s2.pause_level = IF trips THEN "Full" ELSE period.pause_level
    BY <1>2, <1>3, <1>11 DEF BreakerState
  <1>13. BreakerOk(q2, s2, config, t)
    <2>1. ASSUME NEW i \in DOMAIN q2, q2[i].via = "trade" PROVE q2[i].timestamp < start + config.period_duration
      BY <1>0, <1>2, <1>3, <1>4, <1>6, <2>1
    <2> QED
      BY <1>4, <1>7, <1>10, <1>12, <2>1 DEF BreakerOk
  <1>14. Len(q2) \in ByTrade(q2, s2.current_period_start)
    BY <1>6, <1>7, <1>12
  <1>15. ASSUME state.pause_level = "None" PROVE s2.pause_level = "Full" <=> Reached(q2, s2, config)
    <2>1. Reached(q2, s2, config) <=> sum >= config.max_volume_per_period \/ count >= config.max_tx_count_per_period
      BY <1>7, <1>10, <1>12 DEF Reached
    <2> QED
      BY <1>2, <1>11, <1>12, <1>15, <2>1
  <1> QED
    BY <1>13, <1>14, <1>15 DEF Tripped

\* Trades that are not made by trade() are not counted.
LEMMA OthersNotCounted ==
  ASSUME NEW q \in Seq(Trade), NEW r \in Seq(Trade), \A k \in DOMAIN r : r[k].via # "trade",
         NEW q2, q2 = q \o r, NEW state, NEW config, NEW t, BreakerOk(q, state, config, t)
  PROVE  BreakerOk(q2, state, config, t)
  <1>1. /\ q2 \in Seq(Trade) /\ DOMAIN q \subseteq DOMAIN q2 /\ \A i \in DOMAIN q : q2[i] = q[i]
    OBVIOUS
  <1>2. ASSUME NEW i \in DOMAIN q2, i \notin DOMAIN q PROVE q2[i].via # "trade"
    <2>1. /\ Len(q2) = Len(q) + Len(r) /\ Len(q) \in Nat /\ Len(r) \in Nat /\ i \in Nat
          /\ i > Len(q) /\ i <= Len(q) + Len(r)
      BY <1>1, <1>2
    <2>2. i - Len(q) \in DOMAIN r /\ q2[i] = r[i - Len(q)]
      BY <1>1, <2>1
    <2> QED
      BY <2>2
  <1>3. ByTrade(q2, state.current_period_start) = ByTrade(q, state.current_period_start)
    BY <1>1, <1>2 DEF ByTrade
  <1>4. PICK S : S = ByTrade(q, state.current_period_start)
    OBVIOUS
  <1>5. S \subseteq DOMAIN q
    BY <1>4 DEF ByTrade
  <1>6. VolumeOf(q2, S) = VolumeOf(q, S)
    BY <1>1, <1>5, VolumeKept
  <1>7. ASSUME NEW i \in DOMAIN q2, q2[i].via = "trade"
        PROVE  q2[i].timestamp < state.current_period_start + config.period_duration
    BY <1>1, <1>2, <1>7 DEF BreakerOk
  <1> QED
    BY <1>3, <1>4, <1>6, <1>7 DEF BreakerOk

\* What the breaker needs of the other parts of the state.
BreakerContext == BookInv /\ FillInv /\ ControlsOk /\ TradesOk /\ now \in 0 .. MaxTime

\* The breaker is set up with a period that lasts.
PeriodsLast == OverflowChecks /\ \A config \in CbConfigs : config.period_duration > 0

\* A trade() keeps the counters right and trips the breaker exactly at a threshold.
LEMMA TradeTrips ==
  ASSUME PeriodsLast, BreakerContext, BreakerInv, NEW t \in Traders, NEW p \in Pairs, NEW a \in Amounts,
         NEW x \in Prices, NEW s \in Sides, NEW f \in Fees, trade(t, p, a, x, s = "Buy", f)
  PROVE  BreakerInv' /\ TripsExactly
  <1>1. PICK b \in BOOLEAN : b = (s = "Buy")
    OBVIOUS
  <1>2. PICK rec : rec = TradeRecord(t, p, a, x, b, "trade")
    OBVIOUS
  <1>3. /\ now' = now /\ initialized' = initialized /\ cb_config' = cb_config /\ initialized
        /\ a > 0 /\ track_survives(cb_state, cb_config, now, a)
        /\ cb_state' = track_activity(cb_state, cb_config, now, a)
        /\ trades' = trades \o <<rec>>
    BY <1>1, <1>2 DEF trade, RecordTrades, controls, Admit
  <1>4. a \in Nat /\ x \in Int
    BY <1>3, TradingAssumption
  <1>5. /\ now \in Nat /\ now \in 0 .. MaxTime /\ trades \in Seq(Trade) /\ cb_state \in BreakerState
        /\ BreakerOk(trades, cb_state, cb_config, now)
    BY DEF BreakerContext, TradesOk, Recorded, ControlsOk, BreakerInv
  <1>6. cb_config \in BreakerConfig /\ cb_config.period_duration > 0
    BY TradingAssumption DEF BreakerContext, ControlsOk, PeriodsLast, BreakerConfig
  <1>7. rec \in Trade /\ rec.timestamp = now /\ rec.via = "trade" /\ rec.signed_amount = IF b THEN a ELSE -a
    BY <1>2, <1>4, <1>5, TradeRecordType
  <1>8. Size(rec) = a
    BY <1>4, <1>7 DEF Size
  <1>9. trades' = Append(trades, rec)
    BY <1>3, <1>5, <1>7
  <1>10. /\ BreakerOk(trades', cb_state', cb_config, now)
         /\ Len(trades') \in ByTrade(trades', cb_state'.current_period_start)
         /\ cb_state.pause_level = "None"
              => (cb_state'.pause_level = "Full" <=> Reached(trades', cb_state', cb_config))
    <2>1. PICK q, q2, state, s2, config, time :
            /\ q = trades /\ q2 = trades' /\ state = cb_state /\ s2 = cb_state' /\ config = cb_config
            /\ time = now
      OBVIOUS
    <2>2. Tracked(q, state, config, time, a, rec, q2, s2)
      BY <1>3, <1>4, <1>5, <1>6, <1>7, <1>8, <1>9, <2>1 DEF Tracked
    <2>3. Tripped(q2, state, config, time, s2)
      BY <2>2, TrackCounts DEF PeriodsLast
    <2> QED
      BY <2>1, <2>3 DEF Tripped
  <1>11. BreakerInv'
    BY <1>3, <1>10 DEF BreakerInv
  <1>12. {i \in InPeriod(trades', cb_state', cb_config) : trades'[i].via = "trade"}
           = ByTrade(trades', cb_state'.current_period_start)
    BY <1>10 DEF InPeriod, ByTrade, BreakerOk
  <1>13. TripsExactly
    BY <1>10, <1>12 DEF TripsExactly, Anomalous, Reached
  <1> QED
    BY <1>11, <1>13

\* Every other call leaves the counters of the breaker right, and records nothing
\* as made by trade().
LEMMA OthersTrip ==
  ASSUME NEW r \in Seq(Trade), \A k \in DOMAIN r : r[k].via # "trade", trades \in Seq(Trade),
         trades' = trades \o r
  PROVE  TripsExactly
  <1>1. SUFFICES ASSUME Len(trades') = Len(trades) + 1 PROVE Last(trades').via # "trade"
    BY DEF TripsExactly
  <1>2. PICK q, q2, m, n : q = trades /\ q2 = trades' /\ m = Len(q) /\ n = Len(r)
    OBVIOUS
  <1>3. /\ q \in Seq(Trade) /\ q2 = q \o r /\ m \in Nat /\ n \in Nat /\ Len(q2) = m + n
        /\ Len(q2) = m + 1 /\ n = 1
    BY <1>1, <1>2
  <1>4. q2[m + 1] = r[1] /\ 1 \in DOMAIN r
    BY <1>2, <1>3
  <1>5. Last(trades') = r[1]
    BY <1>1, <1>2, <1>3, <1>4 DEF Last
  <1> QED
    BY <1>4, <1>5

\* Every step keeps the breaker's counters right and trips it exactly.
LEMMA BreakerStep ==
  ASSUME PeriodsLast, BreakerContext, BreakerInv, [Next]_vars
  PROVE  BreakerInv' /\ TripsExactly
  <1>0. /\ now \in Nat /\ trades \in Seq(Trade) /\ cb_state \in BreakerState /\ orders \in Seq(Order)
        /\ BreakerOk(trades, cb_state, cb_config, now) /\ (~initialized => trades = <<>>)
        /\ cb_state.current_period_start \in Nat
    BY DEF BreakerContext, BookInv, BookOk, TradesOk, Recorded, ControlsOk, BreakerInv, BreakerState
  <1>1. ASSUME trades' = trades PROVE TripsExactly
    BY <1>0, <1>1 DEF TripsExactly
  <1>2. CASE UNCHANGED <<trades, cb_state, cb_config, now, initialized>>
    BY <1>0, <1>1, <1>2 DEF BreakerInv
  <1>3. CASE Tick
    <2>1. UNCHANGED <<trades, cb_state, cb_config, initialized>> /\ now' = now + 1
      BY <1>3 DEF Tick, controls
    <2>2. cb_state.current_period_start <= now + 1
      BY <1>0 DEF BreakerOk
    <2>3. BreakerOk(trades, cb_state, cb_config, now + 1)
      BY <1>0, <2>2 DEF BreakerOk
    <2> QED
      BY <1>0, <1>1, <2>1, <2>3 DEF BreakerInv
  <1>4. ASSUME NEW config \in CbConfigs, init(config) PROVE BreakerInv' /\ TripsExactly
    <2>1. /\ trades = <<>> /\ trades' = <<>> /\ now' = now /\ cb_state' = cb_init(now)
          /\ cb_config' = config
      BY <1>0, <1>4 DEF init
    <2>2. /\ cb_state'.current_period_start = now /\ cb_state'.current_period_volume = 0
          /\ cb_state'.current_period_tx_count = 0 /\ now <= now
      BY <1>0, <2>1 DEF cb_init
    <2>3. DOMAIN trades' = {} /\ ByTrade(trades', now) = {}
      BY <2>1 DEF ByTrade
    <2>4. VolumeOf(trades', {}) = 0 /\ Cardinality({}) = 0
      BY VolumeIsTotal, TotalEmpty, FS_EmptySet
    <2>5. BreakerOk(trades', cb_state', cb_config', now')
      <3>1. BreakerOk(trades', cb_state', cb_config', now)
        BY <2>2, <2>3, <2>4, Zenon DEF BreakerOk
      <3> QED
        BY <2>1, <3>1
    <2> QED
      BY <1>1, <2>1, <2>5 DEF BreakerInv
  <1>5. ASSUME NEW r \in Seq(Trade), \A k \in DOMAIN r : r[k].via # "trade", trades' = trades \o r,
               UNCHANGED <<cb_state, cb_config, now, initialized>>, initialized
        PROVE  BreakerInv' /\ TripsExactly
    <2>1. BreakerOk(trades', cb_state, cb_config, now)
      BY <1>0, <1>5, OthersNotCounted
    <2>2. BreakerInv'
      BY <1>5, <2>1 DEF BreakerInv
    <2> QED
      BY <1>0, <1>5, <2>2, OthersTrip
  <1>6. ASSUME NEW t \in Traders, NEW batch \in Batches, NEW f \in Fees, batch_trade(t, batch, f)
        PROVE  BreakerInv' /\ TripsExactly
    <2>1. PICK r : r = [i \in DOMAIN batch |-> TradeRecord(t, batch[i].pair, batch[i].amount, batch[i].price,
                                                          batch[i].is_buy, "batch_trade")]
      OBVIOUS
    <2>2. trades' = trades \o r /\ UNCHANGED <<cb_state, cb_config, now, initialized>> /\ initialized
      BY <1>6, <2>1 DEF batch_trade, RecordTrades, controls, Admit
    <2>3. r \in Seq(Trade) /\ \A k \in DOMAIN r : r[k].via # "trade"
      BY <1>0, <2>1, BatchTradesType
    <2> QED
      BY <1>5, <2>2, <2>3
  <1>7. ASSUME NEW t \in Traders, NEW p \in Pairs, NEW s \in Sides, NEW x \in Prices,
               NEW a \in Amounts, NEW tif \in Tifs, create_limit_order(t, p, s, x, a, tif)
        PROVE  BreakerInv' /\ TripsExactly
    <2>1. PICK inc, q : /\ inc \in Order /\ q \in Seq(Fill) /\ \A k \in DOMAIN q : q[k].maker \in DOMAIN orders
                        /\ trades' = trades \o MatchTrades(inc, q)
      <3>1. BookInv /\ FillInv
        BY DEF BreakerContext
      <3> QED
        BY <1>7, <3>1, CreateFills DEF FillsRecorded, RecordTrades
    <2>2. UNCHANGED <<cb_state, cb_config, now, initialized>> /\ initialized
      BY <1>7 DEF create_limit_order, controls, Admit
    <2>3. PICK r : r = MatchTrades(inc, q)
      OBVIOUS
    <2>4. r \in Seq(Trade) /\ \A k \in DOMAIN r : r[k].via # "trade"
      BY <1>0, <2>1, <2>3, MatchTradesType
    <2> QED
      BY <1>5, <2>1, <2>2, <2>3, <2>4
  <1>8. ASSUME NEW level, cb_state' = [cb_state EXCEPT !.pause_level = level],
               UNCHANGED <<trades, cb_config, now, initialized>>
        PROVE  BreakerInv' /\ TripsExactly
    <2>1. /\ cb_state'.current_period_start = cb_state.current_period_start
          /\ cb_state'.current_period_volume = cb_state.current_period_volume
          /\ cb_state'.current_period_tx_count = cb_state.current_period_tx_count
      BY <1>0, <1>8 DEF BreakerState
    <2>2. BreakerOk(trades, cb_state', cb_config, now)
      BY <1>0, <2>1, Zenon DEF BreakerOk
    <2> QED
      BY <1>0, <1>1, <1>8, <2>2 DEF BreakerInv
  <1>9. ASSUME NEW level \in PauseLevel, set_pause_level(level) PROVE BreakerInv' /\ TripsExactly
    BY <1>8, <1>9 DEF set_pause_level, set_trade_pause_level, controls
  <1>10. ASSUME NEW f \in Funcs, pause_function(f) PROVE BreakerInv' /\ TripsExactly
    <2>1. \E level : cb_state' = [cb_state EXCEPT !.pause_level = level]
      BY <1>10 DEF pause_function, pause_trade_function
    <2> QED
      BY <1>8, <1>10, <2>1 DEF pause_function
  <1>11. ASSUME NEW f \in Funcs, unpause_function(f) PROVE BreakerInv' /\ TripsExactly
    BY <1>2, <1>11 DEF unpause_function
  <1>12. ASSUME NEW t \in Traders, NEW p \in Pairs, NEW a \in Amounts, NEW x \in Prices,
                NEW s \in Sides, NEW f \in Fees, trade(t, p, a, x, s = "Buy", f)
         PROVE  BreakerInv' /\ TripsExactly
    BY <1>12, TradeTrips
  <1>13. ASSUME NEW t \in Traders, NEW id \in DOMAIN orders, cancel_order(t, id) PROVE BreakerInv' /\ TripsExactly
    BY <1>2, <1>13 DEF cancel_order, controls
  <1>14. ASSUME NEW t \in Traders, NEW b \in BOOLEAN, set_premium_user(t, b) PROVE BreakerInv' /\ TripsExactly
    BY <1>2, <1>14 DEF set_premium_user
  <1>15. ASSUME NEW cfg \in RateLimits, set_rate_limit_config(cfg) PROVE BreakerInv' /\ TripsExactly
    BY <1>2, <1>15 DEF set_rate_limit_config
  <1>16. CASE UNCHANGED vars
    BY <1>2, <1>16 DEF vars, controls
  <1> QED
    BY <1>3, <1>4, <1>6, <1>7, <1>9, <1>10, <1>11, <1>12, <1>13, <1>14, <1>15, <1>16 DEF Next

\* Where the build checks for overflow and periods have a length, a trade() that
\* finds the contract unpaused pauses it exactly when the trades of its period
\* reach a threshold, whatever administrators and other calls did in between.
THEOREM BreakerTripsExactly ==
  ASSUME PeriodsLast
  PROVE  Spec => BreakerArmed
  <1>1. Init => BreakerInv
    <2>1. SUFFICES ASSUME Init PROVE BreakerInv
      OBVIOUS
    <2>2. /\ trades = <<>> /\ now = 0 /\ cb_state = cb_init(0)
      BY <2>1 DEF Init
    <2>3. /\ cb_state.current_period_start = 0 /\ cb_state.current_period_volume = 0
          /\ cb_state.current_period_tx_count = 0 /\ 0 <= now
      BY <2>2 DEF cb_init
    <2>4. DOMAIN trades = {} /\ ByTrade(trades, 0) = {}
      BY <2>2 DEF ByTrade
    <2>5. VolumeOf(trades, {}) = 0 /\ Cardinality({}) = 0
      BY VolumeIsTotal, TotalEmpty, FS_EmptySet
    <2>6. BreakerOk(trades, cb_state, cb_config, now)
      BY <2>3, <2>4, <2>5, Zenon DEF BreakerOk
    <2> QED
      BY <2>2, <2>6 DEF BreakerInv
  <1>2. BreakerContext /\ BreakerInv /\ [Next]_vars => BreakerInv' /\ [TripsExactly]_vars
    BY BreakerStep
  <1>3. RateInv /\ BookInv /\ FillInv /\ ControlsOk /\ TradesOk => BreakerContext
    BY DEF BreakerContext, RateInv
  <1> QED
    BY <1>1, <1>2, <1>3, StateTyped, CallsCounted, BookInvHolds, FillInvHolds, PTL DEF Spec, BreakerArmed

-----------------------------------------------------------------------------
(* Part 5: the statistics, the two sides of the matches and the fees.       *)

\* The trades that were not recorded by a match, and those of one trader.
ViaDirect(q) == {i \in DOMAIN q : q[i].via # "match"}
OwnDirect(q, t) == {i \in DOMAIN q : q[i].trader = t /\ q[i].via # "match"}

Matches(q) == DOMAIN q \ ViaDirect(q)

StatsOk(q, log, st) ==
  /\ st.total_trades = Len(q)
  /\ st.total_volume = VolumeOf(q, ViaDirect(q)) + 2 * FieldSum(log, "amount", DOMAIN log)
  /\ FieldSum(q, "signed_amount", Matches(q)) = 0

\* Every direct trade was paid for.
PaidOk(q, w) ==
  \A t \in Traders, fee \in Fees : fee >= 0 => Wallet - w[t] = fee * Cardinality(OwnDirect(q, t))

LedgerInv ==
  /\ ~initialized => trades = <<>> /\ matched = <<>>
  /\ StatsOk(trades, matched, stats) /\ PaidOk(trades, wallet)

\* What the ledger needs of the other parts of the state.
LedgerContext == BookInv /\ FillInv /\ TradesOk

\* There is one fee, besides those that are refused, and sums do not wrap.
OneFee == OverflowChecks /\ \A f, g \in Fees : f >= 0 /\ g >= 0 => f = g

\* What record_trade adds to the volume for each of some trades.
LEMMA RecordsVolume ==
  ASSUME NEW r \in Seq(Trade)
  PROVE  Volume(r) = Total(Sizes(r), DOMAIN r) /\ Volume(r) \in Nat
  <1>1. IsFiniteSet(DOMAIN r) /\ (\A i \in DOMAIN r : Sizes(r)[i] \in Nat)
    BY VolumeType
  <1>2. PICK S : S = DOMAIN r
    OBVIOUS
  <1> DEFINE Counted(i) == IF r[i].signed_amount > 0 THEN r[i].signed_amount ELSE -r[i].signed_amount
             Step(h) == [s \in SUBSET S |-> IF s = {} THEN 0 ELSE Counted(Taken(s)) + h[s \ {Taken(s)}]]
             g == CHOOSE h : h = Step(h)
  <1>3. Volume(r) = g[S]
    BY <1>2 DEF Volume, MapThenSumSet, MapThenFoldSet, Taken
  <1>4. \A i \in S : Counted(i) = Sizes(r)[i]
    <2>1. SUFFICES ASSUME NEW i \in DOMAIN r PROVE Counted(i) = Sizes(r)[i]
      BY <1>2
    <2>2. r[i] \in Trade
      OBVIOUS
    <2>3. r[i].signed_amount \in Int
      BY <2>2 DEF Trade
    <2> QED
      BY <2>3 DEF Sizes, Size
  <1> HIDE DEF Counted
  <1>5. ASSUME NEW h
        PROVE  Step(h) = [s \in SUBSET S |-> IF s = {} THEN 0 ELSE Sizes(r)[Taken(s)] + h[s \ {Taken(s)}]]
    <2>1. ASSUME NEW s \in SUBSET S, s # {} PROVE Counted(Taken(s)) = Sizes(r)[Taken(s)]
      BY <1>4, <2>1, TakenIsMember
    <2> QED
      BY <2>1
  <1>6. PICK h : Sums(h, Sizes(r), S) /\ Total(Sizes(r), S) = h[S]
    BY <1>1, <1>2, TotalIsSum
  <1>7. h = Step(h)
    BY <1>5, <1>6 DEF Sums
  <1> HIDE DEF Step
  <1>8. g = Step(g)
    BY <1>7
  <1> HIDE DEF g
  <1>9. Sums(g, Sizes(r), S)
    BY <1>5, <1>8 DEF Sums
  <1>10. g[S] = h[S]
    BY <1>1, <1>2, <1>6, <1>9, SumsAgree
  <1>11. Volume(r) = Total(Sizes(r), DOMAIN r)
    BY <1>2, <1>3, <1>6, <1>10
  <1> QED
    BY <1>1, <1>11, TotalNatural

\* Trades recorded after others.
Joined(q, r, q2, m, n) ==
  /\ q \in Seq(Trade) /\ r \in Seq(Trade) /\ q2 \in Seq(Trade) /\ m \in Nat /\ n \in Nat
  /\ DOMAIN q = 1 .. m /\ DOMAIN r = 1 .. n /\ DOMAIN q2 = 1 .. m + n /\ Len(q2) = m + n
  /\ Len(q) = m /\ Len(r) = n
  /\ \A i \in 1 .. m : q2[i] = q[i]
  /\ \A k \in 1 .. n : q2[m + k] = r[k]

LEMMA Joins ==
  ASSUME NEW q \in Seq(Trade), NEW r \in Seq(Trade), NEW q2, q2 = q \o r
  PROVE  \E m, n : Joined(q, r, q2, m, n)
  <1>1. PICK m \in Nat, n \in Nat : m = Len(q) /\ n = Len(r)
    OBVIOUS
  <1>2. /\ q2 \in Seq(Trade) /\ Len(q2) = m + n /\ DOMAIN q2 = 1 .. m + n /\ DOMAIN q = 1 .. m
        /\ DOMAIN r = 1 .. n
    BY <1>1
  <1>3. ASSUME NEW i \in 1 .. m PROVE q2[i] = q[i]
    BY <1>1, <1>2
  <1>4. ASSUME NEW k \in 1 .. n PROVE q2[m + k] = r[k]
    BY <1>1, <1>2
  <1> QED
    BY <1>1, <1>2, <1>3, <1>4 DEF Joined

\* The new trades of a call, if all of them belong to a set or none does.
LEMMA JoinedSets ==
  ASSUME NEW q, NEW r, NEW q2, NEW m, NEW n, Joined(q, r, q2, m, n)
  PROVE  /\ (\A k \in 1 .. n : r[k].via # "match") => ViaDirect(q2) = ViaDirect(q) \cup (m + 1 .. m + n)
                                                     /\ Matches(q2) = Matches(q)
         /\ (\A k \in 1 .. n : r[k].via = "match") => ViaDirect(q2) = ViaDirect(q)
                                                     /\ Matches(q2) = Matches(q) \cup (m + 1 .. m + n)
  <1>1. /\ m \in Nat /\ n \in Nat /\ DOMAIN q = 1 .. m /\ DOMAIN q2 = 1 .. m + n
        /\ \A i \in 1 .. m : q2[i] = q[i]
    BY DEF Joined
  <1>2. ASSUME NEW i \in m + 1 .. m + n PROVE i - m \in 1 .. n /\ q2[i] = r[i - m]
    <2>1. i - m \in 1 .. n /\ m + (i - m) = i
      BY <1>1
    <2> QED
      BY <2>1 DEF Joined
  <1>3. DOMAIN q2 = (1 .. m) \cup (m + 1 .. m + n) /\ \A i \in m + 1 .. m + n : i \notin 1 .. m
    BY <1>1
  <1>4. ASSUME \A k \in 1 .. n : r[k].via # "match"
        PROVE  /\ ViaDirect(q2) = ViaDirect(q) \cup (m + 1 .. m + n)
               /\ Matches(q2) = Matches(q)
    <2>1. ViaDirect(q2) = ViaDirect(q) \cup (m + 1 .. m + n)
      BY <1>1, <1>2, <1>3, <1>4 DEF ViaDirect
    <2> QED
      BY <1>1, <1>3, <2>1 DEF Matches, ViaDirect
  <1>5. ASSUME \A k \in 1 .. n : r[k].via = "match"
        PROVE  /\ ViaDirect(q2) = ViaDirect(q)
               /\ Matches(q2) = Matches(q) \cup (m + 1 .. m + n)
    <2>1. ViaDirect(q2) = ViaDirect(q)
      BY <1>1, <1>2, <1>3, <1>5 DEF ViaDirect
    <2> QED
      BY <1>1, <1>3, <2>1 DEF Matches, ViaDirect
  <1> QED
    BY <1>4, <1>5

\* The trades of a trader: those of a call are its caller's or nobody's.
LEMMA JoinedOwn ==
  ASSUME NEW q, NEW r, NEW q2, NEW m, NEW n, Joined(q, r, q2, m, n), NEW t
  PROVE  /\ IsFiniteSet(OwnDirect(q, t)) /\ Cardinality(OwnDirect(q, t)) \in Nat
         /\ (\A k \in 1 .. n : r[k].via # "match" /\ r[k].trader = t)
              => Cardinality(OwnDirect(q2, t)) = Cardinality(OwnDirect(q, t)) + n
         /\ (\A k \in 1 .. n : r[k].via = "match" \/ r[k].trader # t) => OwnDirect(q2, t) = OwnDirect(q, t)
  <1>1. /\ m \in Nat /\ n \in Nat /\ DOMAIN q = 1 .. m /\ DOMAIN q2 = 1 .. m + n
        /\ \A i \in 1 .. m : q2[i] = q[i]
    BY DEF Joined
  <1>2. ASSUME NEW i \in m + 1 .. m + n PROVE i - m \in 1 .. n /\ q2[i] = r[i - m]
    <2>1. i - m \in 1 .. n /\ m + (i - m) = i
      BY <1>1
    <2> QED
      BY <2>1 DEF Joined
  <1>3. DOMAIN q2 = (1 .. m) \cup (m + 1 .. m + n) /\ \A i \in m + 1 .. m + n : i \notin 1 .. m
    BY <1>1
  <1>4. PICK S : S = OwnDirect(q, t)
    OBVIOUS
  <1>5. S \subseteq 1 .. m /\ IsFiniteSet(S) /\ Cardinality(S) \in Nat
    <2>1. S \subseteq 1 .. m
      BY <1>1, <1>4 DEF OwnDirect
    <2>2. IsFiniteSet(1 .. m)
      BY <1>1, FS_Interval
    <2> QED
      BY <2>1, <2>2, FS_Subset, FS_CardinalityType
  <1>6. ASSUME \A k \in 1 .. n : r[k].via # "match" /\ r[k].trader = t
        PROVE  Cardinality(OwnDirect(q2, t)) = Cardinality(S) + n
    <2>1. PICK R : R = m + 1 .. m + n
      OBVIOUS
    <2>2. OwnDirect(q2, t) = S \cup R
      BY <1>1, <1>2, <1>3, <1>4, <1>6, <2>1 DEF OwnDirect
    <2>3. S \cap R = {}
      BY <1>3, <1>5, <2>1
    <2>4. IsFiniteSet(R) /\ Cardinality(R) = n
      <3>1. m + 1 \in Int /\ m + n \in Int
        BY <1>1
      <3>2. IsFiniteSet(R) /\ Cardinality(R) = IF m + 1 > m + n THEN 0 ELSE (m + n) - (m + 1) + 1
        BY <2>1, <3>1, FS_Interval
      <3> QED
        BY <1>1, <3>2
    <2>5. Cardinality(S \cup R) = Cardinality(S) + Cardinality(R) - Cardinality(S \cap R)
      BY <1>5, <2>4, FS_Union
    <2>6. Cardinality(S \cap R) = 0
      BY <2>3, FS_EmptySet
    <2> QED
      BY <1>1, <1>5, <2>2, <2>4, <2>5, <2>6
  <1>7. ASSUME \A k \in 1 .. n : r[k].via = "match" \/ r[k].trader # t
        PROVE  OwnDirect(q2, t) = S
    BY <1>1, <1>2, <1>3, <1>4, <1>7 DEF OwnDirect
  <1> QED
    BY <1>4, <1>5, <1>6, <1>7

\* The sums over the trades with those of a call,
LEMMA JoinedVolume ==
  ASSUME NEW q, NEW r, NEW q2, NEW m, NEW n, Joined(q, r, q2, m, n), NEW S, S \subseteq 1 .. m
  PROVE  VolumeOf(q2, S \cup (m + 1 .. m + n)) = VolumeOf(q, S) + Volume(r)
  <1>1. /\ q \in Seq(Trade) /\ r \in Seq(Trade) /\ q2 \in Seq(Trade) /\ m \in Nat /\ n \in Nat
        /\ DOMAIN q = 1 .. m /\ DOMAIN r = 1 .. n /\ DOMAIN q2 = 1 .. m + n
        /\ \A i \in 1 .. m : q2[i] = q[i]
        /\ \A k \in 1 .. n : q2[m + k] = r[k]
    BY DEF Joined
  <1>2. PICK T : T = S \cup (m + 1 .. m + n)
    OBVIOUS
  <1>3. T \subseteq DOMAIN q2 /\ S \subseteq DOMAIN q2 /\ S \subseteq DOMAIN q
    <2>1. m \in Nat /\ n \in Nat /\ DOMAIN q = 1 .. m /\ DOMAIN q2 = 1 .. m + n
      BY <1>1
    <2>2. m + 1 .. m + n \subseteq 1 .. m + n /\ 1 .. m \subseteq 1 .. m + n
      BY <2>1
    <2> QED
      BY <1>2, <2>1, <2>2, Zenon
  <1>4. VolumeOf(q2, T) = VolumeOf(q, S) + Volume(r)
    <2>1. PICK F, G : F = Sizes(q2) /\ G = Sizes(r)
      OBVIOUS
    <2>2. IsFiniteSet(T) /\ IsFiniteSet(S) /\ \A i \in 1 .. m + n : F[i] \in Nat
      BY <1>1, <1>3, <2>1, VolumeType
    <2>3. ASSUME NEW k \in 1 .. n PROVE G[k] = F[m + k]
      <3>1. m + k \in 1 .. m + n
        BY <1>1
      <3> QED
        BY <1>1, <2>1, <3>1 DEF Sizes
    <2>4. Total(F, T) = Total(F, S) + Total(G, 1 .. n)
      <3>1. Follows(F, G, m, n, S)
        BY <1>1, <2>2, <2>3 DEF Follows
      <3>2. Total(F, S \cup (m + 1 .. m + n)) = Total(F, S) + Total(G, 1 .. n)
        BY <3>1, TotalAppend
      <3> QED
        BY <1>2, <3>2
    <2>5. VolumeOf(q2, T) = Total(F, T) /\ VolumeOf(q2, S) = Total(F, S)
      BY <1>3, <2>1, <2>2, VolumeIsTotal
    <2>6. VolumeOf(q2, S) = VolumeOf(q, S)
      <3>1. \A i \in S : q2[i] = q[i]
        BY <1>1
      <3> QED
        BY <1>1, <1>3, <3>1, VolumeKept
    <2>7. Volume(r) = Total(G, 1 .. n)
      BY <1>1, <2>1, RecordsVolume
    <2> QED
      BY <2>4, <2>5, <2>6, <2>7
  <1> QED
    BY <1>2, <1>4

LEMMA JoinedSigned ==
  ASSUME NEW q, NEW r, NEW q2, NEW m, NEW n, Joined(q, r, q2, m, n)
  PROVE  FieldSum(q2, "signed_amount", Matches(q) \cup (m + 1 .. m + n))
           = FieldSum(q, "signed_amount", Matches(q)) + FieldSum(r, "signed_amount", 1 .. n)
  <1>1. /\ q \in Seq(Trade) /\ r \in Seq(Trade) /\ q2 \in Seq(Trade) /\ m \in Nat /\ n \in Nat
        /\ DOMAIN q = 1 .. m /\ DOMAIN r = 1 .. n /\ DOMAIN q2 = 1 .. m + n
        /\ \A i \in 1 .. m : q2[i] = q[i]
        /\ \A k \in 1 .. n : q2[m + k] = r[k]
    BY DEF Joined
  <1>2. PICK S : S = Matches(q) /\ S \subseteq 1 .. m
    BY <1>1 DEF Matches
  <1>3. ASSUME NEW i \in 1 .. m PROVE q2[i]["signed_amount"] = q[i]["signed_amount"] /\ q[i]["signed_amount"] \in Int
    <2>1. q[i] \in Trade
      BY <1>1
    <2>2. q[i]["signed_amount"] \in Int
      BY <2>1 DEF Trade
    <2> QED
      BY <1>1, <2>2
  <1>4. ASSUME NEW k \in 1 .. n
        PROVE  q2[m + k]["signed_amount"] = r[k]["signed_amount"] /\ r[k]["signed_amount"] \in Int
    <2>1. r[k] \in Trade
      BY <1>1
    <2>2. r[k]["signed_amount"] \in Int
      BY <2>1 DEF Trade
    <2> QED
      BY <1>1, <2>2
  <1>5. Continues(q, r, q2, "signed_amount", m, n, S)
    BY <1>1, <1>2, <1>3, <1>4 DEF Continues
  <1>6. FieldSum(q2, "signed_amount", S \cup (m + 1 .. m + n))
          = FieldSum(q, "signed_amount", S) + FieldSum(r, "signed_amount", 1 .. n)
    BY <1>5, FieldSumAppend
  <1> QED
    BY <1>2, <1>6

\* over the trades that were there,
LEMMA JoinedKept ==
  ASSUME NEW q, NEW r, NEW q2, NEW m, NEW n, Joined(q, r, q2, m, n), NEW S, S \subseteq 1 .. m
  PROVE  /\ VolumeOf(q2, S) = VolumeOf(q, S)
         /\ FieldSum(q2, "signed_amount", S) = FieldSum(q, "signed_amount", S)
  <1>1. /\ q \in Seq(Trade) /\ q2 \in Seq(Trade) /\ S \subseteq DOMAIN q /\ S \subseteq DOMAIN q2
        /\ \A i \in S : q2[i] = q[i]
    BY DEF Joined
  <1>2. IsFiniteSet(S)
    BY <1>1, VolumeType
  <1>3. VolumeOf(q2, S) = VolumeOf(q, S)
    BY <1>1, VolumeKept
  <1>4. FieldSum(q2, "signed_amount", S) = FieldSum(q, "signed_amount", S)
    <2>1. PICK F, G : F = Field(q2, "signed_amount") /\ G = Field(q, "signed_amount")
      OBVIOUS
    <2>2. \A i \in S : F[i] = G[i]
      BY <1>1, <2>1 DEF Field
    <2>3. Total(F, S) = Total(G, S)
      BY <1>2, <2>2, TotalAgrees
    <2>4. FieldSum(q2, "signed_amount", S) = Total(F, S) /\ FieldSum(q, "signed_amount", S) = Total(G, S)
      BY <1>1, <1>2, <2>1, FieldSumIsTotal
    <2> QED
      BY <2>3, <2>4
  <1> QED
    BY <1>3, <1>4

\* over the two trades of each fill, whose directions are opposite,
LEMMA MatchSums ==
  ASSUME NEW inc \in Order, orders \in Seq(Order), now \in Nat, NEW q \in Seq(Fill),
         \A k \in DOMAIN q : q[k].maker \in DOMAIN orders /\ orders[q[k].maker].side = Opposite(inc.side),
         NEW r, r = MatchTrades(inc, q)
  PROVE  /\ Volume(r) = 2 * FieldSum(q, "amount", DOMAIN q)
         /\ FieldSum(r, "signed_amount", DOMAIN r) = 0
  <1>1. PICK n \in Nat : n = Len(q) /\ DOMAIN q = 1 .. n
    OBVIOUS
  <1>2. r \in Seq(Trade) /\ DOMAIN r = 1 .. 2 * n
    BY <1>1, MatchTradesType DEF MatchTrades
  <1>3. PICK F, G, A : F = Sizes(r) /\ G = Field(r, "signed_amount") /\ A = Field(q, "amount")
    OBVIOUS
  <1>4. ASSUME NEW k \in 1 .. n
        PROVE  /\ A[k] \in Nat /\ F[2 * k - 1] = A[k] /\ F[2 * k] = A[k]
               /\ G[2 * k - 1] \in Int /\ G[2 * k] \in Int /\ G[2 * k - 1] + G[2 * k] = 0
    <2>1. PICK fill : fill = q[k]
      OBVIOUS
    <2>2. fill \in Fill /\ fill.maker \in DOMAIN orders /\ orders[fill.maker].side = Opposite(inc.side)
      BY <1>1, <2>1
    <2>3. PICK a \in Nat, x \in Int, i \in Nat, j \in Nat :
            a = fill.amount /\ x = fill.price /\ i = 2 * k - 1 /\ j = 2 * k
      BY <2>2 DEF Fill
    <2>4. i \in 1 .. 2 * n /\ j \in 1 .. 2 * n /\ (i + 1) \div 2 = k /\ (j + 1) \div 2 = k
          /\ i % 2 = 1 /\ j % 2 = 0
      BY <2>3
    <2>5. PICK maker : maker = orders[fill.maker] /\ maker \in Order /\ maker.side = Opposite(inc.side)
      BY <2>2
    <2>6. PICK b \in BOOLEAN, c \in BOOLEAN : b = (inc.side = "Buy") /\ c = (maker.side = "Buy")
      OBVIOUS
    <2>7. c = ~b
      <3>1. inc.side \in {"Buy", "Sell"}
        BY DEF Order, OrderSide
      <3> QED
        BY <2>5, <2>6, <3>1 DEF Opposite
    <2>8. /\ r[i] = TradeRecord(inc.owner, inc.pair, a, x, b, "match")
          /\ r[j] = TradeRecord(maker.owner, maker.pair, a, x, c, "match")
      <3>1. r[i] = TradeRecord(inc.owner, inc.pair, a, x, b, "match")
        BY <1>1, <2>1, <2>3, <2>4, <2>6 DEF MatchTrades
      <3>2. r[j] = TradeRecord(maker.owner, maker.pair, a, x, c, "match")
        BY <1>1, <2>1, <2>3, <2>4, <2>5, <2>6 DEF MatchTrades
      <3> QED
        BY <3>1, <3>2
    <2>9. /\ r[i].signed_amount = IF b THEN a ELSE -a
          /\ r[j].signed_amount = IF c THEN a ELSE -a
      BY <2>8 DEF TradeRecord
    <2>10. Size(r[i]) = a /\ Size(r[j]) = a
      BY <2>3, <2>9 DEF Size
    <2>11. r[i].signed_amount \in Int /\ r[j].signed_amount \in Int /\ r[i].signed_amount + r[j].signed_amount = 0
      <3>1. CASE b
        <4>1. r[i].signed_amount = a /\ r[j].signed_amount = -a
          BY <2>7, <2>9, <3>1
        <4> QED
          BY <2>3, <4>1
      <3>2. CASE ~b
        <4>1. r[i].signed_amount = -a /\ r[j].signed_amount = a
          BY <2>7, <2>9, <3>2
        <4> QED
          BY <2>3, <4>1
      <3> QED
        BY <3>1, <3>2
    <2>12. F[i] = a /\ F[j] = a /\ G[i] = r[i].signed_amount /\ G[j] = r[j].signed_amount
      BY <1>2, <1>3, <2>4, <2>10 DEF Sizes, Field
    <2>13. A[k] = a
      BY <1>1, <1>3, <2>1, <2>3 DEF Field
    <2> QED
      BY <2>3, <2>11, <2>12, <2>13
  <1>5. Total(F, 1 .. 2 * n) = 2 * Total(A, 1 .. n)
    <2>1. Paired(F, A, n, 2)
      BY <1>4 DEF Paired
    <2> QED
      BY <2>1, TotalPairs
  <1>6. Total(G, 1 .. 2 * n) = 0
    <2>1. Paired(G, A, n, 0)
      BY <1>4 DEF Paired
    <2>2. Total(G, 1 .. 2 * n) = 0 * Total(A, 1 .. n)
      BY <2>1, TotalPairs
    <2>3. IsFiniteSet(1 .. n) /\ \A k \in 1 .. n : A[k] \in Int
      BY <1>4, FinitePrefix
    <2>4. Total(A, 1 .. n) \in Int
      BY <2>3, TotalType
    <2> QED
      BY <2>2, <2>4
  <1>7. FieldSum(q, "amount", DOMAIN q) = Total(A, 1 .. n)
    <2>1. IsFiniteSet(1 .. n)
      BY FinitePrefix
    <2> QED
      BY <1>1, <1>3, <2>1, FieldSumIsTotal
  <1>8. FieldSum(r, "signed_amount", DOMAIN r) = Total(G, 1 .. 2 * n)
    <2>1. IsFiniteSet(DOMAIN r)
      BY <1>2, VolumeType
    <2> QED
      BY <1>2, <1>3, <2>1, FieldSumIsTotal
  <1>9. Volume(r) = Total(F, 1 .. 2 * n)
    BY <1>2, <1>3, RecordsVolume
  <1> QED
    BY <1>5, <1>6, <1>7, <1>8, <1>9

LEMMA Concatenated ==
  ASSUME NEW X, NEW q \in Seq(X), NEW r \in Seq(X)
  PROVE  q \o r \in Seq(X) /\ Len(q \o r) = Len(q) + Len(r)
  OBVIOUS

\* and over the events of those fills.
LEMMA LogSums ==
  ASSUME NEW log \in Seq(Match), NEW q \in Seq(Fill), NEW x \in Nat, NEW log2, log2 = LogOf(log, q, x)
  PROVE  /\ FieldSum(log2, "amount", DOMAIN log2)
              = FieldSum(log, "amount", DOMAIN log) + FieldSum(q, "amount", DOMAIN q)
         /\ FieldSum(log, "amount", DOMAIN log) \in Nat /\ FieldSum(q, "amount", DOMAIN q) \in Nat
  <1>1. PICK m \in Nat, n \in Nat : m = Len(log) /\ n = Len(q) /\ DOMAIN log = 1 .. m /\ DOMAIN q = 1 .. n
    OBVIOUS
  <1>2. PICK r : r = [k \in DOMAIN q |-> [maker |-> q[k].maker, taker |-> x, amount |-> q[k].amount, price |-> q[k].price]]
    OBVIOUS
  <1>3. ASSUME NEW k \in 1 .. n PROVE r[k] \in Match /\ r[k]["amount"] = q[k]["amount"] /\ q[k]["amount"] \in Nat
    <2>1. q[k] \in Fill /\ r[k] = [maker |-> q[k].maker, taker |-> x, amount |-> q[k].amount, price |-> q[k].price]
      BY <1>1, <1>2
    <2> QED
      BY <2>1 DEF Fill, Match
  <1>4. r \in Seq(Match) /\ Len(r) = n /\ DOMAIN r = 1 .. n
    <2>1. r \in [1 .. n -> Match]
      BY <1>1, <1>2, <1>3
    <2> QED
      BY <2>1
  <1>5. log2 = log \o r
    BY <1>2 DEF LogOf
  <1>6. /\ DOMAIN log2 = 1 .. m + n
        /\ \A i \in 1 .. m : log2[i] = log[i]
        /\ \A k \in 1 .. n : log2[m + k] = r[k]
    <2>1. Len(log2) = m + n /\ DOMAIN log2 = 1 .. m + n
      <3>1. log2 \in Seq(Match) /\ Len(log2) = Len(log) + Len(r)
        BY <1>4, <1>5, Concatenated, Zenon
      <3>2. Len(log2) = m + n
        BY <1>1, <1>4, <3>1
      <3> QED
        BY <3>1, <3>2
    <2>2. ASSUME NEW i \in 1 .. m PROVE log2[i] = log[i]
      BY <1>1, <1>4, <1>5
    <2>3. ASSUME NEW k \in 1 .. n PROVE log2[m + k] = r[k]
      BY <1>1, <1>4, <1>5
    <2> QED
      BY <2>1, <2>2, <2>3
  <1>7. ASSUME NEW i \in 1 .. m PROVE log2[i]["amount"] = log[i]["amount"] /\ log[i]["amount"] \in Nat
    <2>1. log[i] \in Match
      BY <1>1
    <2>2. log[i]["amount"] \in Nat
      BY <2>1 DEF Match
    <2> QED
      BY <1>6, <2>2
  <1>8. ASSUME NEW k \in 1 .. n PROVE log2[m + k]["amount"] = q[k]["amount"] /\ q[k]["amount"] \in Int
    BY <1>3, <1>6
  <1>9. PICK S : S = 1 .. m /\ S \cup (m + 1 .. m + n) = 1 .. m + n
    BY <1>1
  <1>10. FieldSum(log2, "amount", S \cup (m + 1 .. m + n))
           = FieldSum(log, "amount", S) + FieldSum(q, "amount", 1 .. n)
    <2>1. \A i \in 1 .. m : log[i]["amount"] \in Int /\ log2[i]["amount"] = log[i]["amount"]
      BY <1>7
    <2>2. Continues(log, q, log2, "amount", m, n, S)
      BY <1>1, <1>6, <1>8, <1>9, <2>1 DEF Continues
    <2> QED
      BY <2>2, FieldSumAppend
  <1>11. IsFiniteSet(1 .. m) /\ IsFiniteSet(1 .. n)
    BY FinitePrefix
  <1>12. FieldSum(log, "amount", DOMAIN log) \in Nat /\ FieldSum(q, "amount", DOMAIN q) \in Nat
    BY <1>1, <1>3, <1>7, <1>11, FieldSumNatural
  <1> QED
    BY <1>1, <1>6, <1>9, <1>10, <1>12

\* What RecordTrades makes of the statistics.
Booked(st, r, st2) ==
  /\ PlusSurvives(st.total_volume, Volume(r))
  /\ st2 = [total_trades |-> st.total_trades + Len(r), total_volume |-> Plus(st.total_volume, Volume(r))]

LEMMA BookedExactly ==
  ASSUME OverflowChecks, NEW q, NEW r, NEW q2, NEW m, NEW n, Joined(q, r, q2, m, n),
         NEW log, FieldSum(log, "amount", DOMAIN log) \in Nat, NEW st, StatsOk(q, log, st),
         NEW st2, Booked(st, r, st2)
  PROVE  /\ st2.total_trades = Len(q2) /\ st2.total_volume = st.total_volume + Volume(r)
         /\ VolumeOf(q, ViaDirect(q)) \in Nat /\ Volume(r) \in Nat
         /\ ViaDirect(q) \subseteq 1 .. m /\ Matches(q) \subseteq 1 .. m
  <1>1. /\ q \in Seq(Trade) /\ r \in Seq(Trade) /\ m \in Nat /\ n \in Nat /\ DOMAIN q = 1 .. m
        /\ Len(q) = m /\ Len(r) = n /\ Len(q2) = m + n
    BY DEF Joined
  <1>2. ViaDirect(q) \subseteq DOMAIN q /\ Matches(q) \subseteq DOMAIN q
    BY DEF ViaDirect, Matches
  <1>3. VolumeOf(q, ViaDirect(q)) \in Nat
    BY <1>1, <1>2, VolumeType
  <1>4. Volume(r) \in Nat
    BY <1>1, RecordsVolume
  <1>5. st.total_trades = m /\ st.total_volume \in Nat
    BY <1>1, <1>3 DEF StatsOk
  <1>6. st.total_volume + Volume(r) <= I128Max
    BY DEF Booked, PlusSurvives
  <1>7. Plus(st.total_volume, Volume(r)) = st.total_volume + Volume(r)
    BY <1>4, <1>5, <1>6, PlusExact
  <1>8. st2.total_trades = st.total_trades + Len(r) /\ st2.total_volume = Plus(st.total_volume, Volume(r))
    BY DEF Booked
  <1> QED
    BY <1>1, <1>2, <1>3, <1>4, <1>5, <1>7, <1>8

\* The statistics after trades that are no matches,
LEMMA DirectCounted ==
  ASSUME OverflowChecks, NEW q, NEW r, NEW q2, NEW m, NEW n, Joined(q, r, q2, m, n),
         NEW log, FieldSum(log, "amount", DOMAIN log) \in Nat, NEW st, StatsOk(q, log, st),
         NEW st2, Booked(st, r, st2), \A k \in 1 .. n : r[k].via # "match"
  PROVE  StatsOk(q2, log, st2)
  <1>1. /\ st2.total_trades = Len(q2) /\ st2.total_volume = st.total_volume + Volume(r)
        /\ VolumeOf(q, ViaDirect(q)) \in Nat /\ Volume(r) \in Nat
        /\ ViaDirect(q) \subseteq 1 .. m /\ Matches(q) \subseteq 1 .. m
    BY BookedExactly
  <1>2. ViaDirect(q2) = ViaDirect(q) \cup (m + 1 .. m + n) /\ Matches(q2) = Matches(q)
    BY JoinedSets
  <1>3. VolumeOf(q2, ViaDirect(q) \cup (m + 1 .. m + n)) = VolumeOf(q, ViaDirect(q)) + Volume(r)
    BY <1>1, JoinedVolume
  <1>4. FieldSum(q2, "signed_amount", Matches(q)) = FieldSum(q, "signed_amount", Matches(q))
    BY <1>1, JoinedKept
  <1>5. PICK v \in Nat, a \in Nat, w \in Nat :
          v = VolumeOf(q, ViaDirect(q)) /\ a = Volume(r) /\ w = FieldSum(log, "amount", DOMAIN log)
    BY <1>1
  <1>6. VolumeOf(q2, ViaDirect(q2)) = v + a
    BY <1>2, <1>3, <1>5
  <1>7. st.total_volume = v + 2 * w /\ FieldSum(q, "signed_amount", Matches(q)) = 0
    BY <1>5 DEF StatsOk
  <1>8. st2.total_volume = (v + a) + 2 * w
    BY <1>1, <1>5, <1>7
  <1>9. st2.total_volume = VolumeOf(q2, ViaDirect(q2)) + 2 * FieldSum(log, "amount", DOMAIN log)
    BY <1>5, <1>6, <1>8
  <1>10. FieldSum(q2, "signed_amount", Matches(q2)) = 0
    BY <1>2, <1>4, <1>7
  <1> QED
    BY <1>1, <1>9, <1>10 DEF StatsOk

\* and after the two trades of each of some fills.
LEMMA MatchesCounted ==
  ASSUME OverflowChecks, NEW q, NEW r, NEW q2, NEW m, NEW n, Joined(q, r, q2, m, n),
         NEW log, FieldSum(log, "amount", DOMAIN log) \in Nat, NEW st, StatsOk(q, log, st),
         NEW st2, Booked(st, r, st2), \A k \in 1 .. n : r[k].via = "match",
         NEW a \in Nat, Volume(r) = 2 * a, FieldSum(r, "signed_amount", 1 .. n) = 0,
         NEW log2, FieldSum(log2, "amount", DOMAIN log2) = FieldSum(log, "amount", DOMAIN log) + a
  PROVE  StatsOk(q2, log2, st2)
  <1>1. /\ st2.total_trades = Len(q2) /\ st2.total_volume = st.total_volume + Volume(r)
        /\ VolumeOf(q, ViaDirect(q)) \in Nat /\ Volume(r) \in Nat
        /\ ViaDirect(q) \subseteq 1 .. m /\ Matches(q) \subseteq 1 .. m
    BY BookedExactly
  <1>2. ViaDirect(q2) = ViaDirect(q) /\ Matches(q2) = Matches(q) \cup (m + 1 .. m + n)
    BY JoinedSets
  <1>3. VolumeOf(q2, ViaDirect(q)) = VolumeOf(q, ViaDirect(q))
    BY <1>1, JoinedKept
  <1>4. FieldSum(q2, "signed_amount", Matches(q) \cup (m + 1 .. m + n))
          = FieldSum(q, "signed_amount", Matches(q)) + FieldSum(r, "signed_amount", 1 .. n)
    BY JoinedSigned
  <1>5. PICK v \in Nat, w \in Nat :
          v = VolumeOf(q, ViaDirect(q)) /\ w = FieldSum(log, "amount", DOMAIN log)
    BY <1>1
  <1>6. VolumeOf(q2, ViaDirect(q2)) = v /\ FieldSum(log2, "amount", DOMAIN log2) = w + a
    BY <1>2, <1>3, <1>5
  <1>7. st.total_volume = v + 2 * w /\ FieldSum(q, "signed_amount", Matches(q)) = 0
    BY <1>5 DEF StatsOk
  <1>8. st2.total_volume = v + 2 * (w + a)
    BY <1>1, <1>5, <1>7
  <1>9. st2.total_volume = VolumeOf(q2, ViaDirect(q2)) + 2 * FieldSum(log2, "amount", DOMAIN log2)
    BY <1>6, <1>8
  <1>10. FieldSum(q2, "signed_amount", Matches(q2)) = 0
    BY <1>2, <1>4, <1>7
  <1> QED
    BY <1>1, <1>9, <1>10 DEF StatsOk

Charged(w, t, paid) == [w EXCEPT ![t] = w[t] - paid]

\* The caller pays for each of its trades,
LEMMA CallerPaid ==
  ASSUME OneFee, NEW q, NEW r, NEW q2, NEW m, NEW n, Joined(q, r, q2, m, n), NEW t \in Traders,
         \A k \in 1 .. n : r[k].via # "match" /\ r[k].trader = t,
         NEW w \in [Traders -> 0 .. Wallet], PaidOk(q, w), NEW fee \in Fees, fee >= 0,
         NEW w2, w2 = Charged(w, t, fee * n)
  PROVE  PaidOk(q2, w2)
  <1>0. n \in Nat /\ Wallet \in Nat
    BY TradingAssumption DEF Joined
  <1>1. SUFFICES ASSUME NEW u \in Traders, NEW f \in Fees, f >= 0
                 PROVE  Wallet - w2[u] = f * Cardinality(OwnDirect(q2, u))
    BY DEF PaidOk
  <1>2. f = fee /\ f \in Nat
    BY <1>1, TradingAssumption DEF OneFee
  <1>3. PICK c \in Nat : c = Cardinality(OwnDirect(q, u))
    BY JoinedOwn
  <1>4. Wallet - w[u] = f * c
    BY <1>1, <1>3 DEF PaidOk
  <1>5. CASE u = t
    <2>1. Cardinality(OwnDirect(q2, u)) = c + n
      BY <1>3, <1>5, JoinedOwn
    <2>2. w2[u] = w[u] - f * n
      BY <1>2, <1>5 DEF Charged
    <2>3. PICK v \in Int, a \in Int, b \in Int : v = w[u] /\ a = f * c /\ b = f * n
      BY <1>0, <1>2
    <2>4. f * (c + n) = a + b
      BY <1>0, <1>2, <2>3
    <2>5. Wallet - w2[u] = a + b
      BY <1>0, <1>4, <2>2, <2>3
    <2> QED
      BY <2>1, <2>4, <2>5
  <1>6. CASE u # t
    <2>1. OwnDirect(q2, u) = OwnDirect(q, u)
      <3>1. \A k \in 1 .. n : r[k].via = "match" \/ r[k].trader # u
        BY <1>6
      <3> QED
        BY <3>1, JoinedOwn
    <2>2. w2[u] = w[u]
      BY <1>6 DEF Charged
    <2> QED
      BY <1>3, <1>4, <2>1, <2>2
  <1> QED
    BY <1>5, <1>6

\* and nobody for a match.
LEMMA MatchesFree ==
  ASSUME NEW q, NEW r, NEW q2, NEW m, NEW n, Joined(q, r, q2, m, n),
         \A k \in 1 .. n : r[k].via = "match", NEW w, PaidOk(q, w)
  PROVE  PaidOk(q2, w)
  <1>1. ASSUME NEW t \in Traders PROVE OwnDirect(q2, t) = OwnDirect(q, t)
    BY JoinedOwn
  <1> QED
    BY <1>1 DEF PaidOk

\* An account of nothing.
LEMMA NothingRecorded == StatsOk(<<>>, <<>>, [total_trades |-> 0, total_volume |-> 0])
  <1>1. PICK q : q = <<>>
    OBVIOUS
  <1>2. DOMAIN q = {} /\ Len(q) = 0
    BY <1>1
  <1>3. ViaDirect(q) = {} /\ Matches(q) = {}
    BY <1>2 DEF ViaDirect, Matches
  <1>4. VolumeOf(q, {}) = 0
    BY VolumeIsTotal, TotalEmpty, FS_EmptySet
  <1>5. \A f : FieldSum(q, f, {}) = 0
    BY FieldSumEmpty
  <1> QED
    BY <1>1, <1>2, <1>3, <1>4, <1>5 DEF StatsOk

\* Every step keeps the ledger balanced.
LEMMA LedgerStep ==
  ASSUME OneFee, LedgerContext, LedgerInv, [Next]_vars
  PROVE  LedgerInv'
  <1>0. /\ now \in Nat /\ trades \in Seq(Trade) /\ orders \in Seq(Order) /\ matched \in Seq(Match)
        /\ wallet \in [Traders -> 0 .. Wallet] /\ OverflowChecks
    BY DEF LedgerContext, BookInv, BookOk, FillInv, FillsOk, TradesOk, Recorded, OneFee
  <1>1. StatsOk(trades, matched, stats) /\ PaidOk(trades, wallet) /\ (~initialized => trades = <<>> /\ matched = <<>>)
    BY DEF LedgerInv
  <1>2. FieldSum(matched, "amount", DOMAIN matched) \in Nat
    <2>1. <<>> \in Seq(Fill)
      OBVIOUS
    <2> QED
      BY <1>0, <2>1, LogSums
  <1>3. CASE UNCHANGED <<trades, matched, stats, wallet, initialized>>
    BY <1>1, <1>3 DEF LedgerInv
  <1>4. ASSUME NEW t \in Traders, NEW fee \in Fees, NEW r \in Seq(Trade), fee >= 0,
               \A k \in DOMAIN r : r[k].via # "match" /\ r[k].trader = t,
               RecordTrades(r), wallet' = [wallet EXCEPT ![t] = @ - fee * Len(r)],
               matched' = matched, initialized'
        PROVE  LedgerInv'
    <2>1. PICK q2, st2, w2 : q2 = trades' /\ st2 = stats' /\ w2 = wallet'
      OBVIOUS
    <2>2. q2 = trades \o r /\ Booked(stats, r, st2) /\ w2 = [wallet EXCEPT ![t] = @ - fee * Len(r)]
      BY <1>4, <2>1 DEF RecordTrades, Booked
    <2>3. PICK m, n : Joined(trades, r, q2, m, n)
      BY <1>0, <2>2, Joins
    <2>4. DOMAIN r = 1 .. n /\ Len(r) = n
      BY <2>3 DEF Joined
    <2>5. StatsOk(q2, matched, st2)
      <3>1. \A k \in 1 .. n : r[k].via # "match"
        BY <1>4, <2>4
      <3> QED
        BY <1>0, <1>1, <1>2, <2>2, <2>3, <3>1, DirectCounted
    <2>6. PaidOk(q2, w2)
      <3>1. \A k \in 1 .. n : r[k].via # "match" /\ r[k].trader = t
        BY <1>4, <2>4
      <3>2. w2 = Charged(wallet, t, fee * n)
        BY <2>2, <2>4 DEF Charged
      <3> QED
        BY <1>0, <1>1, <1>4, <2>3, <3>1, <3>2, CallerPaid
    <2> QED
      BY <1>4, <2>1, <2>5, <2>6 DEF LedgerInv
  <1>5. ASSUME NEW t \in Traders, NEW p \in Pairs, NEW a \in Amounts, NEW x \in Prices,
               NEW s \in Sides, NEW f \in Fees, trade(t, p, a, x, s = "Buy", f)
        PROVE  LedgerInv'
    <2>1. PICK b \in BOOLEAN : b = (s = "Buy")
      OBVIOUS
    <2>2. PICK e, r : e = TradeRecord(t, p, a, x, b, "trade") /\ r = <<e>>
      OBVIOUS
    <2>3. /\ collect_fee(t, f, 1) /\ RecordTrades(<<e>>) /\ matched' = matched /\ initialized' = initialized
          /\ initialized
      BY <1>5, <2>1, <2>2 DEF trade, Admit
    <2>4. a \in Int /\ x \in Int
      BY TradingAssumption
    <2>5. e \in Trade /\ e.via = "trade" /\ e.trader = t
      <3>1. e \in Trade
        BY <1>0, <2>2, <2>4, TradeRecordType
      <3>2. e.via = "trade" /\ e.trader = t
        BY <2>2 DEF TradeRecord
      <3> QED
        BY <3>1, <3>2
    <2>6. r \in Seq(Trade) /\ Len(r) = 1 /\ \A k \in DOMAIN r : r[k] = e
      BY <2>2, <2>5
    <2>7. f >= 0 /\ wallet' = [wallet EXCEPT ![t] = @ - f * Len(r)]
      BY <2>3, <2>6 DEF collect_fee
    <2>8. \A k \in DOMAIN r : r[k].via # "match" /\ r[k].trader = t
      BY <2>5, <2>6
    <2> QED
      BY <1>4, <2>2, <2>3, <2>6, <2>7, <2>8
  <1>6. ASSUME NEW t \in Traders, NEW batch \in Batches, NEW f \in Fees, batch_trade(t, batch, f)
        PROVE  LedgerInv'
    <2>1. PICK r : r = [i \in DOMAIN batch |-> TradeRecord(t, batch[i].pair, batch[i].amount, batch[i].price,
                                                          batch[i].is_buy, "batch_trade")]
      OBVIOUS
    <2>2. /\ collect_fee(t, f, Len(batch)) /\ RecordTrades(r) /\ matched' = matched
          /\ initialized' = initialized /\ initialized
      BY <1>6, <2>1 DEF batch_trade, Admit
    <2>3. r \in Seq(Trade) /\ \A k \in DOMAIN r : r[k].via = "batch_trade"
      BY <1>0, <2>1, BatchTradesType
    <2>4. \A k \in DOMAIN r : r[k].trader = t
      BY <2>1 DEF TradeRecord
    <2>5. Len(r) = Len(batch)
      <3>1. batch \in Seq([pair : Pairs, amount : Int, price : Int, is_buy : BOOLEAN])
        BY TradingAssumption
      <3>2. DOMAIN r = DOMAIN batch
        BY <2>1
      <3> QED
        BY <2>3, <3>1, <3>2
    <2>6. f >= 0 /\ wallet' = [wallet EXCEPT ![t] = @ - f * Len(r)]
      BY <2>2, <2>5 DEF collect_fee
    <2>7. \A k \in DOMAIN r : r[k].via # "match" /\ r[k].trader = t
      BY <2>3, <2>4
    <2> QED
      BY <1>4, <2>2, <2>3, <2>6, <2>7
  <1>7. ASSUME NEW t \in Traders, NEW p \in Pairs, NEW s \in Sides, NEW x \in Prices,
               NEW a \in Amounts, NEW tif \in Tifs, create_limit_order(t, p, s, x, a, tif)
        PROVE  LedgerInv'
    <2>1. PICK inc, q : FillsRecorded(inc, q)
      <3>1. BookInv /\ FillInv
        BY DEF LedgerContext
      <3> QED
        BY <1>7, <3>1, CreateFills
    <2>2. /\ inc \in Order /\ q \in Seq(Fill)
          /\ \A k \in DOMAIN q : q[k].maker \in DOMAIN orders /\ orders[q[k].maker].side = Opposite(inc.side)
      BY <2>1 DEF FillsRecorded
    <2>3. PICK r, q2, st2, log2, id : /\ r = MatchTrades(inc, q) /\ q2 = trades' /\ st2 = stats'
                                      /\ log2 = matched' /\ id = Len(orders) + 1
      OBVIOUS
    <2>4. q2 = trades \o r /\ Booked(stats, r, st2) /\ log2 = LogOf(matched, q, id) /\ id \in Nat
      BY <1>0, <2>1, <2>3 DEF FillsRecorded, RecordTrades, Booked
    <2>5. wallet' = wallet /\ initialized' = initialized /\ initialized
      BY <1>7 DEF create_limit_order, Admit
    <2>6. r \in Seq(Trade) /\ \A k \in DOMAIN r : r[k].via = "match"
      BY <1>0, <2>2, <2>3, MatchTradesType
    <2>7. PICK amount \in Nat : amount = FieldSum(q, "amount", DOMAIN q)
      BY <1>0, <2>2, <2>4, LogSums
    <2>8. FieldSum(log2, "amount", DOMAIN log2) = FieldSum(matched, "amount", DOMAIN matched) + amount
      BY <1>0, <2>2, <2>4, <2>7, LogSums
    <2>9. Volume(r) = 2 * amount /\ FieldSum(r, "signed_amount", DOMAIN r) = 0
      BY <1>0, <2>2, <2>3, <2>7, MatchSums
    <2>10. PICK m, n : Joined(trades, r, q2, m, n)
      BY <1>0, <2>4, <2>6, Joins
    <2>11. DOMAIN r = 1 .. n
      BY <2>10 DEF Joined
    <2>12. \A k \in 1 .. n : r[k].via = "match"
      BY <2>6, <2>11
    <2>13. FieldSum(r, "signed_amount", 1 .. n) = 0
      BY <2>9, <2>11
    <2>14. StatsOk(q2, log2, st2)
      BY <1>0, <1>1, <1>2, <2>4, <2>8, <2>9, <2>10, <2>12, <2>13, MatchesCounted
    <2>15. PaidOk(q2, wallet)
      BY <1>1, <2>10, <2>12, MatchesFree
    <2> QED
      BY <2>3, <2>5, <2>14, <2>15 DEF LedgerInv
  <1>8. ASSUME NEW config \in CbConfigs, init(config) PROVE LedgerInv'
    <2>1. /\ trades = <<>> /\ matched = <<>> /\ trades' = trades /\ matched' = matched /\ wallet' = wallet
          /\ stats' = [total_trades |-> 0, total_volume |-> 0]
      BY <1>1, <1>8 DEF init
    <2>2. StatsOk(<<>>, <<>>, [total_trades |-> 0, total_volume |-> 0])
      BY NothingRecorded
    <2> QED
      BY <1>1, <2>1, <2>2 DEF LedgerInv
  <1>9. ASSUME NEW t \in Traders, NEW id \in DOMAIN orders, cancel_order(t, id) PROVE LedgerInv'
    BY <1>3, <1>9 DEF cancel_order
  <1>10. ASSUME NEW t \in Traders, NEW b \in BOOLEAN, set_premium_user(t, b) PROVE LedgerInv'
    BY <1>3, <1>10 DEF set_premium_user
  <1>11. ASSUME NEW cfg \in RateLimits, set_rate_limit_config(cfg) PROVE LedgerInv'
    BY <1>3, <1>11 DEF set_rate_limit_config
  <1>12. ASSUME NEW level \in PauseLevel, set_pause_level(level) PROVE LedgerInv'
    BY <1>3, <1>12 DEF set_pause_level
  <1>13. ASSUME NEW f \in Funcs, pause_function(f) \/ unpause_function(f) PROVE LedgerInv'
    BY <1>3, <1>13 DEF pause_function, unpause_function
  <1>14. CASE Tick
    BY <1>3, <1>14 DEF Tick
  <1>15. CASE UNCHANGED vars
    BY <1>3, <1>15 DEF vars
  <1> QED
    BY <1>5, <1>6, <1>7, <1>8, <1>9, <1>10, <1>11, <1>12, <1>13, <1>14, <1>15 DEF Next

\* The statistics, the two sides of the matches and the fees balance, however
\* direct trades, batches and matches follow each other, where the build checks
\* for overflow and there is one fee.
THEOREM LedgerBalanced ==
  ASSUME OneFee
  PROVE  Spec => []LedgerBalances
  <1>1. Init => LedgerInv
    <2>1. SUFFICES ASSUME Init PROVE LedgerInv
      OBVIOUS
    <2>2. /\ trades = <<>> /\ matched = <<>> /\ stats = [total_trades |-> 0, total_volume |-> 0]
          /\ wallet = [t \in Traders |-> Wallet]
      BY <2>1 DEF Init
    <2>3. StatsOk(trades, matched, stats)
      BY <2>2, NothingRecorded
    <2>4. PaidOk(trades, wallet)
      <3>1. ASSUME NEW t \in Traders, NEW fee \in Fees
            PROVE  Wallet - wallet[t] = fee * Cardinality(OwnDirect(trades, t))
        <4>1. OwnDirect(trades, t) = {} /\ Cardinality({}) = 0
          BY <2>2, FS_EmptySet DEF OwnDirect
        <4>2. wallet[t] = Wallet /\ Wallet \in Nat /\ fee \in Int
          BY <2>2, TradingAssumption
        <4> QED
          BY <4>1, <4>2
      <3> QED
        BY <3>1 DEF PaidOk
    <2> QED
      BY <2>2, <2>3, <2>4 DEF LedgerInv
  <1>2. LedgerContext /\ LedgerInv /\ [Next]_vars => LedgerInv'
    BY LedgerStep
  <1>3. LedgerContext /\ LedgerInv => LedgerBalances
    <2>1. SUFFICES ASSUME LedgerContext, LedgerInv PROVE LedgerBalances
      OBVIOUS
    <2>2. trades \in Seq(Trade)
      BY <2>1 DEF LedgerContext, TradesOk, Recorded
    <2>3. \A t : Direct(t) = OwnDirect(trades, t)
      BY DEF Direct, OwnDirect
    <2>4. ASSUME NEW i \in DOMAIN trades PROVE trades[i].trader \in Traders
      <3>1. trades[i] \in Trade
        BY <2>2
      <3> QED
        BY <3>1 DEF Trade
    <2>5. UNION {Direct(t) : t \in Traders} = ViaDirect(trades)
      BY <2>3, <2>4 DEF OwnDirect, ViaDirect
    <2>6. PICK direct : direct = UNION {Direct(t) : t \in Traders} /\ direct = ViaDirect(trades)
      BY <2>5
    <2>7. /\ stats.total_trades = Len(trades)
          /\ stats.total_volume = VolumeOf(trades, direct) + 2 * FieldSum(matched, "amount", DOMAIN matched)
          /\ FieldSum(trades, "signed_amount", DOMAIN trades \ direct) = 0
      BY <2>1, <2>6 DEF LedgerInv, StatsOk, Matches
    <2>8. stats.total_volume = VolumeOf(trades, direct) + 2 * MapThenSumSet(LAMBDA k : matched[k].amount, DOMAIN matched)
      BY <2>7 DEF FieldSum
    <2>9. 0 = MapThenSumSet(LAMBDA i : trades[i].signed_amount, DOMAIN trades \ direct)
      BY <2>7 DEF FieldSum
    <2>10. \A t \in Traders, fee \in Fees : fee >= 0 => Wallet - wallet[t] = fee * Cardinality(Direct(t))
      BY <2>1, <2>3 DEF LedgerInv, PaidOk
    <2> QED
      BY <2>6, <2>7, <2>8, <2>9, <2>10 DEF LedgerBalances
  <1>4. BookInv /\ FillInv /\ ControlsOk /\ TradesOk => LedgerContext
    BY DEF LedgerContext
  <1> QED
    BY <1>1, <1>2, <1>3, <1>4, StateTyped, BookInvHolds, FillInvHolds, PTL DEF Spec
=============================================================================
