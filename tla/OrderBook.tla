----------------------------- MODULE OrderBook -----------------------------
(***************************************************************************)
(* The limit-order book of the trading contract                            *)
(* (Contracts/contracts/trading/src/lib.rs): the orders, how the best      *)
(* resting order is picked and how an incoming order is matched.  The      *)
(* operators are pure; Trading.tla applies them to the stored book.        *)
(*                                                                         *)
(* An order's id is its position in the sequence of all orders, and a book *)
(* side is the sequence of the ids resting on it.                          *)
(***************************************************************************)
EXTENDS Integers, Sequences, FiniteSets, SequencesExt

OrderSide   == {"Buy", "Sell"}
OrderStatus == {"Open", "PartiallyFilled", "Filled", "Cancelled"}
TimeInForce == {"Gtc", "Ioc", "Fok"}

Opposite(side) == IF side = "Buy" THEN "Sell" ELSE "Buy"

NewOrder(owner, pair, side, price, amount, tif, timestamp) ==
  [ owner |-> owner, pair |-> pair, side |-> side, price |-> price,
    amount |-> amount, remaining |-> amount, status |-> "Open",
    tif |-> tif, timestamp |-> timestamp ]

IsOpen(order) == order.status \in {"Open", "PartiallyFilled"}

\* A bug this module must not have: equal prices do not match.
order_matches_strict(incoming, resting) ==
  /\ incoming.pair = resting.pair
  /\ \/ /\ incoming.side = "Buy" /\ resting.side = "Sell"
        /\ incoming.price > resting.price
     \/ /\ incoming.side = "Sell" /\ resting.side = "Buy"
        /\ incoming.price < resting.price

order_matches(incoming, resting) ==
  /\ incoming.pair = resting.pair
  /\ \/ /\ incoming.side = "Buy" /\ resting.side = "Sell"
        /\ incoming.price >= resting.price
     \/ /\ incoming.side = "Sell" /\ resting.side = "Buy"
        /\ incoming.price <= resting.price

\* The ids of a book side an incoming order can be filled from.
Eligible(incoming, ids, orders) ==
  {id \in ToSet(ids) : /\ IsOpen(orders[id])
                       /\ orders[id].remaining > 0
                       /\ order_matches(incoming, orders[id])}

\* A bug this module must not have: the cheapest side for both directions.
Beats_ignores_side(incoming, order, best) ==
  \/ order.price < best.price
  \/ order.price = best.price /\ order.timestamp < best.timestamp

\* The scan replaces its candidate only by a strictly better price, or by an
\* earlier timestamp at the same price.
Beats(incoming, order, best) ==
  \/ incoming.side = "Buy"  /\ order.price < best.price
  \/ incoming.side = "Sell" /\ order.price > best.price
  \/ order.price = best.price /\ order.timestamp < best.timestamp

\* The first position of the side that no eligible order beats.
pick_best_match_index(incoming, ids, orders) ==
  LET eligible == Eligible(incoming, ids, orders)
  IN  SelectInSeq(ids, LAMBDA id : /\ id \in eligible
                                   /\ \A other \in eligible :
                                        ~ Beats(incoming, orders[other], orders[id]))

\* A bug this module must not have: counting the whole side.
available_fill_whole_side(incoming, ids, orders) ==
  MapThenSumSet(LAMBDA id : orders[id].remaining, ToSet(ids))

\* What the side offers an order; the code stops adding once it is enough.
available_fill_for_order(incoming, ids, orders) ==
  MapThenSumSet(LAMBDA id : orders[id].remaining, Eligible(incoming, ids, orders))

\* A bug this module must not have: the trade happens at the taker's limit.
ExecutionPrice_of_taker(incoming, maker) == incoming.price

ExecutionPrice(incoming, maker) == maker.price

\* A bug this module must not have: the maker is always filled completely.
FillAmount_of_maker(incoming, maker) == maker.remaining

FillAmount(incoming, maker) == Min({incoming.remaining, maker.remaining})

StatusAfterFill(remaining) ==
  IF remaining = 0 THEN "Filled" ELSE "PartiallyFilled"

\* A bug this module must not have: a filled maker stays in the book.
remove_order_from_book_forgotten(ids, id) == ids

\* The side is copied without the id.
remove_order_from_book(ids, id) ==
  LET updated[n \in 0 .. Len(ids)] ==
        IF n = 0 THEN <<>>
        ELSE IF ids[n] = id THEN updated[n - 1] ELSE Append(updated[n - 1], ids[n])
  IN  updated[Len(ids)]

\* A match in progress: the incoming order, all the orders, the opposite side
\* and the OrderMatched events so far.
Matching(incoming, orders, ids) ==
  [incoming |-> incoming, orders |-> orders, ids |-> ids, matched |-> <<>>]

\* One iteration of the loop.  The branches for a maker that is missing or no
\* longer eligible cannot be taken: the maker was read by the pick above.
FillBest(m) ==
  LET index == pick_best_match_index(m.incoming, m.ids, m.orders)
      id    == m.ids[index]
      maker == m.orders[id]
      fill  == FillAmount(m.incoming, maker)
      Filled(order) ==
        [order EXCEPT !.remaining = @ - fill,
                      !.status = StatusAfterFill(order.remaining - fill)]
  IN  IF m.incoming.remaining <= 0 \/ index = 0
      THEN m
      ELSE [ incoming |-> Filled(m.incoming),
             orders   |-> [m.orders EXCEPT ![id] = Filled(maker)],
             ids      |-> IF maker.remaining = fill
                          THEN remove_order_from_book(m.ids, id)
                          ELSE m.ids,
             matched  |-> Append(m.matched,
                                 [maker |-> id, amount |-> fill,
                                  price |-> ExecutionPrice(m.incoming, maker)]) ]

\* Every iteration fills the incoming order or empties one maker, so the loop
\* has ended after as many iterations as the side has orders.
match_limit_order(incoming, orders, ids) ==
  LET after[n \in 0 .. Len(ids)] ==
        IF n = 0 THEN Matching(incoming, orders, ids) ELSE FillBest(after[n - 1])
  IN  after[Len(ids)]
=============================================================================
