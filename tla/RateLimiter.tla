---------------------------- MODULE RateLimiter ----------------------------
(***************************************************************************)
(* The trade rate limiter of Contracts/contracts/trading/src/lib.rs: usage *)
(* counters per fixed window, one per trader and one for the contract.     *)
(* Counters are keyed by the window's index, now / window_secs.            *)
(***************************************************************************)
EXTENDS Integers

CONSTANTS
  Traders,  \* addresses that trade
  MaxTime   \* bound: the last ledger timestamp explored

ASSUME MaxTimeAssumption == MaxTime \in Nat

\* A counter that was never written reads as 0.
NoUsage == [user   |-> [t \in Traders |-> [w \in 0 .. MaxTime |-> 0]],
            global |-> [w \in 0 .. MaxTime |-> 0]]

ValidConfig(cfg) ==
  /\ cfg.window_secs > 0        /\ cfg.user_limit > 0
  /\ cfg.global_limit > 0       /\ cfg.premium_user_limit > 0

Window(cfg, now) == now \div cfg.window_secs

AllowedUserLimit(cfg, premium, trader) ==
  IF trader \in premium THEN cfg.premium_user_limit ELSE cfg.user_limit

\* A bug this module must not have: the limit itself is still admitted.
WithinRateLimit_one_more(cfg, premium, usage, now, trader) ==
  LET w == Window(cfg, now)
  IN  /\ ValidConfig(cfg)
      /\ usage.user[trader][w] <= AllowedUserLimit(cfg, premium, trader)
      /\ usage.global[w] < cfg.global_limit

\* check_and_consume_trade_rate_limit in two parts: whether it admits a call,
WithinRateLimit(cfg, premium, usage, now, trader) ==
  LET w == Window(cfg, now)
  IN  /\ ValidConfig(cfg)
      /\ usage.user[trader][w] < AllowedUserLimit(cfg, premium, trader)
      /\ usage.global[w] < cfg.global_limit

\* and the counters after it has.
Consume(cfg, usage, now, trader) ==
  LET w == Window(cfg, now)
  IN  [usage EXCEPT !.user[trader][w] = @ + 1, !.global[w] = @ + 1]
=============================================================================
