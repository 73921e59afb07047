--------------------------------- MODULE AMM ---------------------------------
(***************************************************************************)
(* The concentrated-liquidity market maker of Contracts/contracts/amm:     *)
(* pools and swaps (lib.rs, pool.rs), positions (position.rs), the dynamic *)
(* fee (fees.rs) and the impermanent-loss hedge (il_hedge.rs).             *)
(*                                                                         *)
(* The code's constants are parameters, so that prices fit TLC's integers. *)
(* A pair such as fee_growth_global_a/_b is a sequence of length two.  The *)
(* amounts explored are far from i128's limits, so saturating_mul is a     *)
(* multiplication.  The permissions to create pools and to pause are the   *)
(* administrator's from init (module ACL).                                 *)
(***************************************************************************)
EXTENDS Ledger, SequencesExt

CONSTANTS
  PoolKeys,       \* pairs of tokens <<token_a, token_b>>; tokens are numbers
  Q64,            \* fixed-point one
  TickTable,      \* TICK_SQRT_TABLE: sequence of <<tick, sqrt price>>
  TickStep,       \* the distance of its ticks, 512
  FeeTiers, Bps,  \* valid fee tiers, and the number of basis points in one
  MaxPremium, VolDivisor, OraclePeriods, OraclePeriod,
  HedgeThreshold, HedgeRatio, IlScale,
  InitPrices, PoolTiers, TickRanges, LiqAmounts, Removals, SwapAmounts, AmmFunds,
  MaxPositions, MaxVolume, MaxGrowth  \* bounds of the exploration

VARIABLES
  pool,       \* "pool": key -> PoolState
  tfee,       \* "tfee": key and tick -> fee growth outside
  position,   \* "pos": id -> LpPosition
  own_pos,    \* "own_pos": owner -> position ids
  pos_cnt,    \* "pos_cnt"
  vol_hist,   \* "vol_hist": key and period -> sqrt price
  ammPaused,  \* the breaker's pause level is Full
  ammBal      \* external: token -> account -> balance

ammVars == <<pool, tfee, position, own_pos, pos_cnt, vol_hist, ammPaused, ammBal>>

Sides == 1 .. 2
MIN_TICK == TickTable[1][1]
MAX_TICK == Last(TickTable)[1]
AmmTokens == UNION {{k[1], k[2]} : k \in PoolKeys}
AbsOf(n) == IF n < 0 THEN -n ELSE n
MulDiv(a, b, c) == (a * b) \div c

AmmTypeOK ==
  /\ DOMAIN pool \subseteq PoolKeys
  /\ \A k \in DOMAIN pool :
       /\ pool[k].current_tick \in MIN_TICK .. MAX_TICK
       /\ pool[k].liquidity \in Nat /\ pool[k].sqrt_price \in Nat \ {0}
  /\ DOMAIN position \subseteq 1 .. pos_cnt
  /\ \A id \in DOMAIN position : position[id].liquidity \in Nat \ {0}
  /\ own_pos \in [Users -> Seq(1 .. MaxPositions)]
  /\ ammBal \in [AmmTokens -> [Accounts -> Nat]]

AmmInit ==
  /\ pool = Empty /\ tfee = Empty /\ position = Empty /\ vol_hist = Empty
  /\ own_pos = [u \in Users |-> <<>>]
  /\ pos_cnt = 0 /\ ammPaused = FALSE
  /\ ammBal = [t \in AmmTokens |-> [a \in Accounts |-> IF a = Self THEN 0 ELSE AmmFunds]]

-----------------------------------------------------------------------------
\* Ticks and prices.
tick_to_sqrt_price(tick) ==
  LET i  == Min({(tick - MIN_TICK) \div TickStep, Len(TickTable) - 2}) + 1
      lo == TickTable[i]
      hi == TickTable[i + 1]
  IN  lo[2] + MulDiv(hi[2] - lo[2], tick - lo[1], hi[1] - lo[1])

\* A bug this module must not have: the next table entry decides the fraction.
sqrt_price_to_tick_next_entry(price) ==
  LET hits == {i \in 1 .. Len(TickTable) - 1 : price >= TickTable[i][2] /\ price < TickTable[i + 1][2]}
  IN  IF hits = {} THEN (IF price <= TickTable[1][2] THEN MIN_TICK ELSE MAX_TICK)
      ELSE LET i == Min(hits)
           IN  TickTable[i][1] + MulDiv(price - TickTable[i][2], TickStep, TickTable[i + 1][2])

sqrt_price_to_tick(price) ==
  LET hits == {i \in 1 .. Len(TickTable) - 1 : price >= TickTable[i][2] /\ price < TickTable[i + 1][2]}
  IN  IF hits = {} THEN (IF price <= TickTable[1][2] THEN MIN_TICK ELSE MAX_TICK)
      ELSE LET i == Min(hits)
           IN  TickTable[i][1] + MulDiv(price - TickTable[i][2], TickStep,
                                         Max({TickTable[i + 1][2] - TickTable[i][2], 1}))

Clamp(price, lower, upper) == Min({Max({price, lower}), upper})

amounts_for_liquidity(liquidity, lower, upper, price) ==
  LET cur == Clamp(price, lower, upper)
  IN  << IF upper > cur THEN MulDiv(MulDiv(liquidity, upper - cur, upper), Q64, cur) ELSE 0,
         IF cur > lower THEN MulDiv(liquidity, cur - lower, Q64) ELSE 0 >>

\* i128::MAX stands for "this side does not limit"; a range is never empty, so
\* at least one side does.
liquidity_from_amounts(a, b, lower, upper, price) ==
  LET cur   == Clamp(price, lower, upper)
      liq_a == IF upper > cur THEN {MulDiv(MulDiv(a, upper, Q64), cur, upper - cur)} ELSE {}
      liq_b == IF cur > lower THEN {MulDiv(b, Q64, cur - lower)} ELSE {}
  IN  Max({0, Min(liq_a \cup liq_b)})

\* The direction of the trade is read off the two prices.
compute_swap_step(price, target, liquidity, amount, fee_bps) ==
  LET fee   == MulDiv(amount, fee_bps, Bps)
      after == Max({amount - fee, 0})
  IN  IF price > target
      THEN LET max_in == MulDiv(MulDiv(liquidity, price - target, price), Q64, target)
               full   == after >= max_in
               new    == IF full THEN target
                         ELSE Max({MulDiv(price, Q64, MulDiv(after, price, liquidity) + Q64), target})
           IN  [amount_in |-> IF full THEN max_in ELSE after,
                amount_out |-> MulDiv(liquidity, price - new, Q64),
                fee_paid |-> fee, new_sqrt_price |-> new]
      ELSE LET max_in == MulDiv(liquidity, target - price, Q64)
               full   == after >= max_in
               new    == IF full THEN target
                         ELSE Min({price + MulDiv(after, Q64, liquidity), target})
           IN  [amount_in |-> IF full THEN max_in ELSE after,
                amount_out |-> MulDiv(MulDiv(liquidity, new - price, price), Q64, new),
                fee_paid |-> fee, new_sqrt_price |-> new]

-----------------------------------------------------------------------------
\* Fee growth.
read_tick_fee_outside(key, tick) ==
  IF Has(tfee, <<key, tick>>) THEN tfee[<<key, tick>>] ELSE <<0, 0>>

fee_growth_inside(key, lower, upper) ==
  [s \in Sides |->
     LET p     == pool[key]
         fog_l == read_tick_fee_outside(key, lower)[s]
         fog_u == read_tick_fee_outside(key, upper)[s]
         below == IF p.current_tick >= lower THEN fog_l ELSE p.fee_growth[s] - fog_l
         above == IF p.current_tick < upper THEN fog_u ELSE p.fee_growth[s] - fog_u
     IN  p.fee_growth[s] - below - above]

cross_tick(key, tick) ==
  Put(tfee, <<key, tick>>,
      [s \in Sides |-> pool[key].fee_growth[s] - read_tick_fee_outside(key, tick)[s]])

accumulate_fee_growth(fee, liquidity, growth) ==
  IF liquidity = 0 THEN growth ELSE growth + MulDiv(fee, Q64, liquidity)

accrue_position_fees(pos, inside) ==
  [pos EXCEPT
     !.owed = [s \in Sides |-> IF inside[s] > pos.inside_last[s]
                 THEN @[s] + MulDiv(pos.liquidity, inside[s] - pos.inside_last[s], Q64)
                 ELSE @[s]],
     !.inside_last = inside]

\* The dynamic fee: volatility of the samples of the last periods.  Near the
\* start of time the subtraction saturates and period 0 is counted repeatedly.
record_price_sample(key, price) == Put(vol_hist, <<key, now \div OraclePeriod>>, price)

isqrt(n) == IF n <= 0 THEN 0 ELSE CHOOSE r \in 1 .. n : r * r <= n /\ n < (r + 1) * (r + 1)

compute_dynamic_fee(key, base) ==
  LET period(i) == Max({now \div OraclePeriod - i, 0})
      taken     == {i \in 0 .. OraclePeriods - 1 : Has(vol_hist, <<key, period(i)>>)}
      sample(i) == vol_hist[<<key, period(i)>>]
      count     == Cardinality(taken)
      mean      == SumOver(taken, sample) \div count
      variance  == SumOver(taken, LAMBDA i : (sample(i) - mean) * (sample(i) - mean)) \div count
      vol_bps   == MulDiv(isqrt(variance), Bps, Max({mean, 1}))
  IN  IF count < 2 \/ mean = 0 THEN base
      ELSE base + Min({vol_bps \div VolDivisor, MaxPremium})

\* The impermanent-loss hedge.
estimate_il_bps(lower, upper, price) ==
  LET entry  == tick_to_sqrt_price(Quot(lower + upper, 2))
      sqrt_r == MulDiv(price, IlScale, entry)
      r      == MulDiv(sqrt_r, sqrt_r, IlScale)
      il     == MulDiv(2 * sqrt_r, IlScale, Max({IlScale + r, 1})) - IlScale
  IN  Quot(il * Bps, IlScale)

compute_hedge_reserve(il, amounts) ==
  [s \in Sides |-> IF AbsOf(il) < HedgeThreshold THEN 0 ELSE MulDiv(amounts[s], HedgeRatio, Bps)]

\* The whole pool's reserve is shared by the removed part of one position.
compute_hedge_release(reserve, removed, total) ==
  [s \in Sides |-> IF total = 0 THEN 0 ELSE MulDiv(reserve[s], removed, Max({total, 1}))]

-----------------------------------------------------------------------------
\* Positions.
mint_position(owner, key, lower, upper, liquidity, inside) ==
  LET id == pos_cnt + 1
  IN  /\ pos_cnt' = id
      /\ position' = Put(position, id,
           [owner |-> owner, pool_key |-> key, lower |-> lower, upper |-> upper,
            liquidity |-> liquidity, inside_last |-> inside, owed |-> <<0, 0>>])
      /\ own_pos' = [own_pos EXCEPT ![owner] = Append(@, id)]

delete_position(id) == position' = Without(position, id)
\* A bug this module must not have: a burned position stays in the index.
deindex_owner_position_forgotten(owner, id) == UNCHANGED own_pos

deindex_owner_position(owner, id) ==
  own_pos' = [own_pos EXCEPT ![owner] = Kept(@, Nat \ {id})]
get_owner_positions(owner) == Kept(own_pos[owner], DOMAIN position)

InRange(tick, lower, upper) == tick >= lower /\ tick < upper

\* Both tokens of a pool move between a caller and the contract.
CanMove(key, from, amounts) == \A s \in Sides : CanPay(ammBal[key[s]], from, amounts[s])
MoveTokens(key, from, to, amounts) ==
  [t \in AmmTokens |-> IF t \in {key[1], key[2]}
     THEN Pay(ammBal[t], from, to, amounts[CHOOSE s \in Sides : key[s] = t]) ELSE ammBal[t]]

create_pool(key, tier, price) ==
  /\ tier \in FeeTiers
  /\ price > 0
  /\ ~Has(pool, key)
  /\ pool' = Put(pool, key,
       [sqrt_price |-> price, current_tick |-> sqrt_price_to_tick(price),
        liquidity |-> 0, active_liquidity |-> 0,
        fee_tier |-> tier, dynamic_fee_bps |-> tier, fee_growth |-> <<0, 0>>,
        total_volume |-> 0, il_reserve |-> <<0, 0>>])
  /\ UNCHANGED <<now, tfee, position, own_pos, pos_cnt, vol_hist, ammPaused, ammBal>>

add_liquidity(caller, key, lower, upper, desired, mins) ==
  LET p      == pool[key]
      sqrt_l == tick_to_sqrt_price(lower)
      sqrt_u == tick_to_sqrt_price(upper)
      liq    == liquidity_from_amounts(desired[1], desired[2], sqrt_l, sqrt_u, p.sqrt_price)
      actual == amounts_for_liquidity(liq, sqrt_l, sqrt_u, p.sqrt_price)
      il     == estimate_il_bps(lower, upper, p.sqrt_price)
      added  == IF InRange(p.current_tick, lower, upper) THEN liq ELSE 0
  IN  /\ pos_cnt < MaxPositions
      /\ ~ammPaused
      /\ lower < upper
      /\ desired[1] > 0 \/ desired[2] > 0
      /\ Has(pool, key)
      /\ lower >= MIN_TICK /\ upper <= MAX_TICK
      /\ liq # 0
      /\ \A s \in Sides : actual[s] >= mins[s]
      /\ CanMove(key, caller, actual)
      /\ ammBal' = MoveTokens(key, caller, Self, actual)
      /\ mint_position(caller, key, lower, upper, liq, fee_growth_inside(key, lower, upper))
      /\ pool' = [pool EXCEPT
           ![key].liquidity = @ + added,
           ![key].active_liquidity = Max({@ + added, 0}),
           ![key].il_reserve = [s \in Sides |-> @[s] + compute_hedge_reserve(il, actual)[s]]]
      /\ UNCHANGED <<now, tfee, vol_hist, ammPaused>>

\* Pausing does not stop withdrawals.  A position that is removed whole is
\* deleted with the fees it was owed.
remove_liquidity(caller, id, removed, mins) ==
  LET pos   == position[id]
      key   == pos.pool_key
      p     == pool[key]
      inside == fee_growth_inside(key, pos.lower, pos.upper)
      out   == amounts_for_liquidity(removed, tick_to_sqrt_price(pos.lower),
                                     tick_to_sqrt_price(pos.upper), p.sqrt_price)
      hedge == compute_hedge_release(p.il_reserve, removed, pos.liquidity)
      paid  == [s \in Sides |-> out[s] + hedge[s]]
      taken == IF InRange(p.current_tick, pos.lower, pos.upper) THEN removed ELSE 0
  IN  /\ Has(position, id)
      /\ pos.owner = caller
      /\ removed > 0 /\ removed <= pos.liquidity
      /\ \A s \in Sides : out[s] >= mins[s]
      /\ CanMove(key, Self, paid)
      /\ ammBal' = MoveTokens(key, Self, caller, paid)
      /\ pool' = [pool EXCEPT
           ![key].il_reserve = [s \in Sides |-> Max({@[s] - hedge[s], 0})],
           ![key].liquidity = Max({@ - taken, 0}),
           ![key].active_liquidity = Max({@ - taken, 0})]
      /\ IF removed = pos.liquidity
         THEN delete_position(id) /\ deindex_owner_position(caller, id)
         ELSE /\ position' = [position EXCEPT ![id] =
                   [accrue_position_fees(pos, inside) EXCEPT !.liquidity = pos.liquidity - removed]]
              /\ UNCHANGED own_pos
      /\ UNCHANGED <<now, tfee, pos_cnt, vol_hist, ammPaused>>

collect_fees(caller, id) ==
  LET pos == accrue_position_fees(position[id],
               fee_growth_inside(position[id].pool_key, position[id].lower, position[id].upper))
  IN  /\ Has(position, id)
      /\ pos.owner = caller
      /\ CanMove(pos.pool_key, Self, pos.owed)
      /\ ammBal' = MoveTokens(pos.pool_key, Self, caller, pos.owed)
      /\ position' = [position EXCEPT ![id] = [pos EXCEPT !.owed = <<0, 0>>]]
      /\ UNCHANGED <<now, pool, tfee, own_pos, pos_cnt, vol_hist, ammPaused>>

\* One step of at most one tick: the fee is credited to the positions, while the
\* caller pays only what the price move costs.  The liquidity of the ranges that
\* the price leaves or enters is not updated.
swap(caller, token_in, token_out, amount_in, min_out) ==
  LET down   == token_in < token_out
      key    == IF down THEN <<token_in, token_out>> ELSE <<token_out, token_in>>
      in     == IF down THEN 1 ELSE 2
      p      == pool[key]
      target == Clamp(IF down THEN p.current_tick - 1 ELSE p.current_tick + 1, MIN_TICK, MAX_TICK)
      step   == compute_swap_step(p.sqrt_price, tick_to_sqrt_price(target), p.liquidity,
                                  amount_in, p.dynamic_fee_bps)
      tick   == sqrt_price_to_tick(step.new_sqrt_price)
      growth == accumulate_fee_growth(step.fee_paid, p.liquidity, p.fee_growth[in])
  IN  /\ ~ammPaused
      /\ amount_in > 0
      /\ Has(pool, key)
      /\ p.liquidity # 0
      /\ step.amount_out >= min_out
      /\ p.total_volume + step.amount_in <= MaxVolume /\ growth <= MaxGrowth
      /\ vol_hist' = record_price_sample(key, p.sqrt_price)
      /\ tfee' = IF tick # p.current_tick
                 THEN cross_tick(key, IF down THEN p.current_tick ELSE target) ELSE tfee
      /\ pool' = [pool EXCEPT
           ![key].sqrt_price = step.new_sqrt_price,
           ![key].current_tick = tick,
           ![key].fee_growth[in] = growth,
           ![key].total_volume = @ + step.amount_in]
      /\ CanPay(ammBal[token_in], caller, step.amount_in)
      /\ CanPay(ammBal[token_out], Self, step.amount_out)
      /\ ammBal' = [ammBal EXCEPT ![token_in] = Pay(@, caller, Self, step.amount_in),
                                  ![token_out] = Pay(@, Self, caller, step.amount_out)]
      /\ UNCHANGED <<now, position, own_pos, pos_cnt, ammPaused>>

update_dynamic_fee(key) ==
  /\ Has(pool, key)
  /\ pool' = [pool EXCEPT ![key].dynamic_fee_bps = compute_dynamic_fee(key, pool[key].fee_tier)]
  /\ UNCHANGED <<now, tfee, position, own_pos, pos_cnt, vol_hist, ammPaused, ammBal>>

pause == ammPaused' = TRUE /\ UNCHANGED <<now, pool, tfee, position, own_pos, pos_cnt, vol_hist, ammBal>>
unpause == ammPaused' = FALSE /\ UNCHANGED <<now, pool, tfee, position, own_pos, pos_cnt, vol_hist, ammBal>>

AmmNext ==
  \/ \E k \in PoolKeys, tier \in PoolTiers, price \in InitPrices : create_pool(k, tier, price)
  \/ \E u \in Users, k \in DOMAIN pool, r \in TickRanges, d \in LiqAmounts \X LiqAmounts :
       add_liquidity(u, k, r[1], r[2], d, <<0, 0>>)
  \/ \E u \in Users, id \in DOMAIN position : \E n \in Removals \cup {position[id].liquidity} :
       remove_liquidity(u, id, n, <<0, 0>>)
  \/ \E u \in Users, id \in DOMAIN position : collect_fees(u, id)
  \/ \E u \in Users, i, o \in AmmTokens, a \in SwapAmounts : i # o /\ swap(u, i, o, a, 0)
  \/ \E k \in PoolKeys : update_dynamic_fee(k)
  \/ pause \/ unpause
  \/ CloseLedger /\ UNCHANGED ammVars

-----------------------------------------------------------------------------
\* The owner index and the positions say the same: get_lp_positions lists every
\* live position of an owner once, oldest first, and nothing that was burned.
PositionsIndexed ==
  \A u \in Users :
    /\ get_owner_positions(u) = own_pos[u]
    /\ ToSet(own_pos[u]) = {id \in DOMAIN position : position[id].owner = u}
    /\ \A i, j \in DOMAIN own_pos[u] : i < j => own_pos[u][i] < own_pos[u][j]

\* A swap moves the price by at most one tick, although the tick is recomputed
\* from the new price by a rounding interpolation: if the two conversions were
\* not exact inverses on ticks, a step to the next tick would land beside it.
OneTickPerSwap ==
  \A k \in DOMAIN pool : Has(pool', k) => AbsOf(pool'[k].current_tick - pool[k].current_tick) <= 1

\* What pool.rs says of active liquidity: "Liquidity is only active when
\* current_tick is in [tick_lower, tick_upper)".
LiquidityActiveInRange ==
  \A k \in DOMAIN pool :
    pool[k].liquidity = SumOver(
      {id \in DOMAIN position : /\ position[id].pool_key = k
                                /\ InRange(pool[k].current_tick, position[id].lower, position[id].upper)},
      LAMBDA id : position[id].liquidity)
=============================================================================
