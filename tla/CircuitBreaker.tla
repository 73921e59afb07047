--------------------------- MODULE CircuitBreaker ---------------------------
(***************************************************************************)
(* The circuit breaker of Contracts/shared/src/circuit_breaker.rs as the   *)
(* trading contract uses it: its stored state as a record, and what each   *)
(* operation makes of it.                                                  *)
(***************************************************************************)
EXTENDS Integers

CONSTANTS
  I128Max,        \* largest value of an i128
  OverflowChecks  \* TRUE: an overflowing + panics (dev and test profile);
                  \* FALSE: it wraps (the release profile that is deployed)

ASSUME I128Assumption == I128Max \in Nat /\ OverflowChecks \in BOOLEAN

\* Addition of i128 values: what it returns, and whether the call survives it.
Plus(a, b) == ((a + b + I128Max + 1) % (2 * (I128Max + 1))) - (I128Max + 1)
PlusSurvives(a, b) == OverflowChecks => a + b <= I128Max

PauseLevel == {"None", "Partial", "Full"}

cb_init(now) ==
  [ current_period_start |-> now, current_period_volume |-> 0,
    current_period_tx_count |-> 0, last_trigger_timestamp |-> 0,
    pause_level |-> "None" ]

require_trade_not_paused(state, paused_funcs, func) ==
  /\ state.pause_level # "Full"
  /\ state.pause_level = "Partial" => func \notin paused_funcs

\* A bug this module must not have: a new period keeps the old volume.
StartPeriod_keeps_volume(state, config, now) ==
  IF now >= state.current_period_start + config.period_duration
  THEN [state EXCEPT !.current_period_start = now,
                     !.current_period_tx_count = 0]
  ELSE state

\* The period restarts lazily, at the first activity after it has run out.
StartPeriod(state, config, now) ==
  IF now >= state.current_period_start + config.period_duration
  THEN [state EXCEPT !.current_period_start = now,
                     !.current_period_volume = 0,
                     !.current_period_tx_count = 0]
  ELSE state

track_activity(state, config, now, volume) ==
  LET period    == StartPeriod(state, config, now)
      sum       == Plus(period.current_period_volume, volume)
      count     == period.current_period_tx_count + 1
      triggered == \/ sum >= config.max_volume_per_period
                   \/ count >= config.max_tx_count_per_period
      trips     == triggered /\ period.pause_level = "None"
  IN  [period EXCEPT
         !.current_period_volume = sum,
         !.current_period_tx_count = count,
         !.pause_level = IF trips THEN "Full" ELSE @,
         !.last_trigger_timestamp = IF trips THEN now ELSE @]

track_survives(state, config, now, volume) ==
  PlusSurvives(StartPeriod(state, config, now).current_period_volume, volume)

set_trade_pause_level(state, level) == [state EXCEPT !.pause_level = level]

\* Pausing one function only lifts None to Partial; unpausing it leaves the
\* level alone.
pause_trade_function(state) ==
  [state EXCEPT !.pause_level = IF @ = "None" THEN "Partial" ELSE @]
=============================================================================
