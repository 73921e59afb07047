---------------------------- MODULE RequestLimits ----------------------------
(***************************************************************************)
(* The two request limiters: RateLimitService, a sliding window in a       *)
(* sorted set (Backend/src/auth), and ThrottleGuard, a fixed window with   *)
(* bans (Backend/src/throttle).  One client and one route of each; every   *)
(* command of Redis is a step, time moves in ticks, and several requests   *)
(* may be under way.                                                       *)
(***************************************************************************)
EXTENDS Integers, FiniteSets

CONSTANTS
  WindowLimit, WindowLength,     \* 5 to 10 requests in 60 seconds
  ThrottleLimit, ThrottleWindow, \* 5 or 100 in 60 seconds
  MaxViolations, BaseBan, ViolationTtl,   \* 3, 60 seconds, an hour
  MaxTicks, MaxGuarded           \* bounds of the exploration

VARIABLES
  tick,
  window,        \* rate_limit:<key>: [times, ends], the times of the requests
  rate,          \* rate:<path>:<id>, [count, ends]; ends 0: no expiry set
  violations,    \* violations:<id>, likewise
  banEnds,       \* ban:<id> expires at this tick; 0: no ban
  guarded,       \* requests being checked
  arrived,       \* requests so far
  allowedAt,     \* history: times of the requests the sliding window counted and let in
  crashed,       \* history: a process stopped between INCR and EXPIRE
  excused        \* history: two checks overlapped, or the set expired during one

throttleVars == <<rate, violations, banEnds, crashed>>
windowVars == <<window, allowedAt, excused>>
limitVars == <<tick, throttleVars, windowVars, guarded, arrived>>

NoKey == [count |-> 0, ends |-> 0]
NoSet == [times |-> {}, ends |-> 0]

LimitsTypeOK ==
  /\ window.times \subseteq 0 .. MaxTicks /\ allowedAt \subseteq 0 .. MaxTicks
  /\ rate.count \in 0 .. MaxGuarded /\ violations.count \in 0 .. MaxGuarded
  /\ banEnds \in Nat

LimitsInit ==
  /\ tick = 0 /\ window = NoSet /\ rate = NoKey /\ violations = NoKey /\ banEnds = 0
  /\ guarded = {} /\ arrived = 0 /\ allowedAt = {} /\ crashed = FALSE /\ excused = FALSE

Arrive(pc) ==
  /\ arrived < MaxGuarded /\ arrived' = arrived + 1
  /\ guarded' = guarded \cup {[id |-> arrived + 1, pc |-> pc, now |-> tick, seen |-> 0]}
  /\ UNCHANGED tick
Advance(g, pc, seen) == guarded' = (guarded \ {g}) \cup {[g EXCEPT !.pc = pc, !.seen = seen]} /\ UNCHANGED <<tick, arrived>>
Depart(g) == guarded' = guarded \ {g} /\ UNCHANGED <<tick, arrived>>

-----------------------------------------------------------------------------
\* RateLimitGuard.canActivate and RateLimitService.checkRateLimit.
Checking == {g \in guarded : g.pc \in {"trim", "count", "add", "ttl"}}
RateLimitGuard ==
  /\ Arrive("trim") /\ excused' = (excused \/ Checking # {})
  /\ UNCHANGED <<throttleVars, window, allowedAt>>
zRemRangeByScore(g) ==
  /\ g.pc = "trim" /\ Advance(g, "count", 0)
  /\ window' = LET kept == {t \in window.times : t > g.now - WindowLength}
               IN  IF kept = {} THEN NoSet ELSE [window EXCEPT !.times = kept]
  /\ UNCHANGED <<throttleVars, allowedAt, excused>>

\* A bug this module must not have: the limit is off by one.
Exceeded_off_by_one(count) == count > WindowLimit

Exceeded(count) == count >= WindowLimit
zCard(g) ==
  /\ g.pc = "count"
  /\ IF Exceeded(Cardinality(window.times)) THEN Depart(g) ELSE Advance(g, "add", 0)
  /\ UNCHANGED <<throttleVars, windowVars>>
\* The member is the time: requests of one tick leave one member.
zAdd(g) ==
  /\ g.pc = "add" /\ Advance(g, "ttl", 0)
  /\ window' = [window EXCEPT !.times = @ \cup {g.now}] /\ allowedAt' = allowedAt \cup {g.now}
  /\ UNCHANGED <<throttleVars, excused>>
ExpireWindow(g) ==
  /\ g.pc = "ttl" /\ Depart(g)
  /\ window' = IF window.times = {} THEN NoSet ELSE [window EXCEPT !.ends = tick + WindowLength]
  /\ UNCHANGED <<throttleVars, allowedAt, excused>>
\* On an error of Redis the request is let in, uncounted.
FailOpen(g) ==
  /\ g \in Checking /\ Depart(g)
  /\ UNCHANGED <<throttleVars, windowVars>>

-----------------------------------------------------------------------------
\* ThrottleGuard.canActivate: checkBan, then checkRateLimit ...
checkBan == banEnds = 0 /\ Arrive("incr") /\ UNCHANGED <<throttleVars, windowVars>>
Incr(key) == [key EXCEPT !.count = @ + 1]

\* A bug this module must not have: the expiry is set by the second request.
FirstOf_second(key) == key.count = 1

\* Only the request that creates a key gives it an expiry.
FirstOf(key) == key.count = 0
checkRateLimit(g) ==
  /\ g.pc = "incr" /\ rate' = Incr(rate)
  /\ Advance(g, IF FirstOf(rate) THEN "expire" ELSE "decide", rate.count + 1)
  /\ UNCHANGED <<violations, banEnds, crashed, windowVars>>
Expire(g) ==
  /\ g.pc = "expire" /\ Advance(g, "decide", g.seen)
  /\ rate' = [rate EXCEPT !.ends = tick + ThrottleWindow]
  /\ UNCHANGED <<violations, banEnds, crashed, windowVars>>
Decide(g) ==
  /\ g.pc = "decide"
  /\ IF g.seen > ThrottleLimit THEN Advance(g, "violation", 0) ELSE Depart(g)
  /\ UNCHANGED <<throttleVars, windowVars>>

\* ... and, over the limit, registerViolation: the third violation bans, and
\* every further one bans for twice as long.
AfterViolation(seen) == IF seen >= MaxViolations THEN "ban" ELSE "done"
registerViolation(g) ==
  /\ g.pc = "violation" /\ violations' = Incr(violations)
  /\ Advance(g, IF violations.count = 0 THEN "violationExpire" ELSE AfterViolation(violations.count + 1), violations.count + 1)
  /\ UNCHANGED <<rate, banEnds, crashed, windowVars>>
ExpireViolations(g) ==
  /\ g.pc = "violationExpire" /\ Advance(g, AfterViolation(g.seen), g.seen)
  /\ violations' = [violations EXCEPT !.ends = tick + ViolationTtl]
  /\ UNCHANGED <<rate, banEnds, crashed, windowVars>>
Ban(g) ==
  /\ g.pc \in {"ban", "done"} /\ Depart(g)
  /\ banEnds' = IF g.pc = "ban" THEN tick + BaseBan * 2 ^ (g.seen - 1) ELSE banEnds
  /\ UNCHANGED <<rate, violations, crashed, windowVars>>
\* A process that stops between INCR and EXPIRE leaves a key that never expires.
Crash(g) ==
  /\ g.pc \in {"expire", "violationExpire"} /\ Depart(g) /\ crashed' = TRUE
  /\ UNCHANGED <<rate, violations, banEnds, windowVars>>

\* Time passes and keys expire (Redis, external).
Tick ==
  /\ tick < MaxTicks /\ tick' = tick + 1
  /\ LET expires == window.ends # 0 /\ window.ends <= tick + 1
     IN  /\ window' = IF expires THEN NoSet ELSE window
         /\ excused' = (excused \/ (expires /\ Checking # {}))
  /\ rate' = IF rate.ends # 0 /\ rate.ends <= tick + 1 THEN NoKey ELSE rate
  /\ violations' = IF violations.ends # 0 /\ violations.ends <= tick + 1 THEN NoKey ELSE violations
  /\ banEnds' = IF banEnds # 0 /\ banEnds <= tick + 1 THEN 0 ELSE banEnds
  /\ UNCHANGED <<guarded, arrived, allowedAt, crashed>>

LimitsNext ==
  \/ RateLimitGuard \/ checkBan \/ Tick
  \/ \E g \in guarded :
       \/ zRemRangeByScore(g) \/ zCard(g) \/ zAdd(g) \/ ExpireWindow(g) \/ FailOpen(g)
       \/ checkRateLimit(g) \/ Expire(g) \/ Decide(g) \/ Crash(g)
       \/ registerViolation(g) \/ ExpireViolations(g) \/ Ban(g)

-----------------------------------------------------------------------------
\* Checks that overlap neither one another nor the expiry of the set let in at
\* most WindowLimit requests in any stretch of WindowLength ticks (those of one
\* tick counting once), however the window is trimmed.
WindowHolds ==
  ~excused => \A t \in 0 .. MaxTicks : Cardinality({a \in allowedAt : t < a /\ a <= t + WindowLength}) <= WindowLimit

\* Nobody is locked out for good: a counter that stands has an expiry, or the
\* request that will set it is under way, unless a process stopped just there.
KeysExpire ==
  ~crashed => /\ rate.count > 0 /\ rate.ends = 0 => \E g \in guarded : g.pc = "expire"
              /\ violations.count > 0 /\ violations.ends = 0 => \E g \in guarded : g.pc = "violationExpire"
=============================================================================
