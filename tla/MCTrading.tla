----------------------------- MODULE MCTrading -----------------------------
(* Small instances of Trading for TLC. *)
EXTENDS Trading

CONSTANTS t1, t2, p1

Limit(window, user, global, vip) ==
  [ window_secs |-> window, user_limit |-> user, global_limit |-> global,
    premium_user_limit |-> vip ]

Breaker(volume, count, duration) ==
  [ max_volume_per_period |-> volume, max_tx_count_per_period |-> count,
    period_duration |-> duration ]

Item(amount, price) == [pair |-> p1, amount |-> amount, price |-> price, is_buy |-> TRUE]

\* The book: limits and breaker out of the way.
Unlimited     == Limit(60, 100, 100, 100)
BookLimits    == {Unlimited}
BookBreakers  == {Breaker(100, 100, 100)}

BookBatches   == {<<Item(1, 1), Item(2, 0)>>}

\* The controls: every limit can be reached, and a setting that init would
\* not store is refused.
SmallLimit    == Limit(2, 2, 3, 3)
ControlLimits == {SmallLimit, Limit(1, 1, 2, 2), Limit(1, 0, 2, 2)}
ControlBreakers == {Breaker(2, 9, 2), Breaker(9, 2, 2)}

\* Batches within and beyond the size cap, one with a zero amount and one
\* with a zero price.
ControlBatches ==
  { <<Item(1, 1), Item(1, 0)>>, <<Item(1, 1), Item(0, 1)>>,
    <<Item(1, 1), Item(1, 1), Item(1, 1)>> }

PositiveOrNegativeFee == {-1, 1}

ControlSymmetry == Permutations({t1, t2})
=============================================================================
