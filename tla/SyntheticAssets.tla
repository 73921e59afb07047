--------------------------- MODULE SyntheticAssets ---------------------------
(***************************************************************************)
(* Collateralised debt positions in synthetic assets                       *)
(* (Contracts/contracts/synthetic-assets/src/lib.rs).  The contract moves  *)
(* no tokens; it keeps the accounts.  PriceUnit and RatioUnit stand for    *)
(* 1_000_000 and 10_000.                                                   *)
(***************************************************************************)
EXTENDS Ledger

CONSTANTS
  Assets,         \* asset symbols
  SynthAmounts,   \* amounts of collateral and of synthetic tokens a caller may pass
  OraclePrices,   \* prices the administrator may set
  PriceUnit, RatioUnit,
  MinCratio,      \* min_cratio the administrator registers assets with
  LiqCratio,      \* liq_cratio, likewise
  MaxRatio,       \* i128::MAX
  MaxMinted       \* bound: synthetic tokens minted per asset

VARIABLES
  synthInit,      \* "admin"
  asset,          \* symbol -> SyntheticConfig
  cdp,            \* (owner, symbol) -> CDP
  registrations,  \* history: how often each asset was registered
  forgotten       \* history: debt of positions that open_cdp replaced

synthVars == <<synthInit, asset, cdp, registrations, forgotten>>

SynthTypeOK ==
  /\ synthInit \in BOOLEAN
  /\ DOMAIN asset \subseteq Assets
  /\ \A a \in DOMAIN asset : asset[a].oracle_price \in OraclePrices \cup {0}
  /\ DOMAIN cdp \subseteq Users \X Assets
  /\ \A k \in DOMAIN cdp :
       /\ cdp[k].collateral_amount \in Nat /\ cdp[k].minted_amount \in Nat
       /\ cdp[k].collateral_ratio \in Nat /\ cdp[k].is_active \in BOOLEAN

SynthInit ==
  /\ synthInit = FALSE
  /\ asset = Empty
  /\ cdp = Empty
  /\ registrations = [a \in Assets |-> 0]
  /\ forgotten = [a \in Assets |-> 0]

initialize ==
  /\ ~ synthInit
  /\ synthInit' = TRUE
  /\ UNCHANGED <<now, asset, cdp, registrations, forgotten>>

\* Registering a symbol again replaces its configuration and its total.
register_asset(a) ==
  /\ synthInit /\ registrations[a] < 2
  /\ asset' = Put(asset, a, [oracle_price |-> 0, total_minted |-> 0])
  /\ registrations' = [registrations EXCEPT ![a] = @ + 1]
  /\ UNCHANGED <<now, synthInit, cdp, forgotten>>

\* The positions keep the ratios they have.
update_price(a, price) ==
  /\ synthInit /\ Has(asset, a)
  /\ asset' = [asset EXCEPT ![a].oracle_price = price]
  /\ UNCHANGED <<now, synthInit, cdp, registrations, forgotten>>

\* Opening a position again replaces it, with the debt it had.
open_cdp(owner, a, amount) ==
  /\ amount > 0
  /\ cdp' = Put(cdp, <<owner, a>>,
       [collateral_amount |-> amount, minted_amount |-> 0, collateral_ratio |-> 0,
        is_active |-> TRUE])
  /\ forgotten' = [forgotten EXCEPT
       ![a] = @ + IF Has(cdp, <<owner, a>>) THEN cdp[<<owner, a>>].minted_amount ELSE 0]
  /\ UNCHANGED <<now, synthInit, asset, registrations>>

\* Dividing by a price or a debt of zero panics.
Cratio(collateral, price, minted) ==
  (((collateral * PriceUnit) \div price) * RatioUnit) \div minted

mint(owner, a, amount) ==
  /\ amount > 0 /\ Has(asset, a) /\ Has(cdp, <<owner, a>>)
  /\ asset[a].oracle_price # 0 /\ asset[a].total_minted + amount <= MaxMinted
  /\ LET position == cdp[<<owner, a>>]
         minted   == position.minted_amount + amount
         ratio    == Cratio(position.collateral_amount, asset[a].oracle_price, minted)
     IN  /\ ratio >= MinCratio
         /\ cdp' = [cdp EXCEPT ![<<owner, a>>].minted_amount = minted,
                               ![<<owner, a>>].collateral_ratio = ratio]
  /\ asset' = [asset EXCEPT ![a].total_minted = @ + amount]
  /\ UNCHANGED <<now, synthInit, registrations, forgotten>>

burn(owner, a, amount) ==
  /\ amount > 0 /\ Has(asset, a) /\ Has(cdp, <<owner, a>>)
  /\ amount <= cdp[<<owner, a>>].minted_amount
  /\ LET position == cdp[<<owner, a>>]
         minted   == position.minted_amount - amount
     IN  /\ minted > 0 => asset[a].oracle_price # 0
         /\ cdp' = [cdp EXCEPT
              ![<<owner, a>>].minted_amount = minted,
              ![<<owner, a>>].collateral_ratio =
                IF minted > 0
                THEN Cratio(position.collateral_amount, asset[a].oracle_price, minted)
                ELSE MaxRatio]
  /\ asset' = [asset EXCEPT ![a].total_minted = @ - amount]
  /\ UNCHANGED <<now, synthInit, registrations, forgotten>>

add_collateral(owner, a, amount) ==
  /\ amount > 0 /\ Has(asset, a) /\ Has(cdp, <<owner, a>>)
  /\ LET position   == cdp[<<owner, a>>]
         collateral == position.collateral_amount + amount
     IN  /\ collateral <= 2 * Max(SynthAmounts)
         /\ position.minted_amount > 0 => asset[a].oracle_price # 0
         /\ cdp' = [cdp EXCEPT
              ![<<owner, a>>].collateral_amount = collateral,
              ![<<owner, a>>].collateral_ratio =
                IF position.minted_amount > 0
                THEN Cratio(collateral, asset[a].oracle_price, position.minted_amount)
                ELSE @]
  /\ UNCHANGED <<now, synthInit, asset, registrations, forgotten>>

\* A bug this module must not have: the debt of a liquidated position still counts.
liquidate_keeps_total(owner, a) ==
  /\ Has(asset, a) /\ Has(cdp, <<owner, a>>)
  /\ cdp[<<owner, a>>].collateral_ratio < LiqCratio
  /\ cdp' = [cdp EXCEPT ![<<owner, a>>].is_active = FALSE, ![<<owner, a>>].minted_amount = 0,
                        ![<<owner, a>>].collateral_amount = 0]
  /\ UNCHANGED <<now, synthInit, asset, registrations, forgotten>>

\* It asks for the ratio stored by the last mint, burn or deposit, which is 0 for
\* a new position; is_active is not looked at.
liquidate(owner, a) ==
  /\ Has(asset, a) /\ Has(cdp, <<owner, a>>)
  /\ cdp[<<owner, a>>].collateral_ratio < LiqCratio
  /\ asset' = [asset EXCEPT ![a].total_minted = @ - cdp[<<owner, a>>].minted_amount]
  /\ cdp' = [cdp EXCEPT ![<<owner, a>>].is_active = FALSE, ![<<owner, a>>].minted_amount = 0,
                        ![<<owner, a>>].collateral_amount = 0]
  /\ UNCHANGED <<now, synthInit, registrations, forgotten>>

close_cdp(owner, a) ==
  /\ Has(cdp, <<owner, a>>) /\ cdp[<<owner, a>>].minted_amount <= 0
  /\ cdp' = [cdp EXCEPT ![<<owner, a>>].is_active = FALSE, ![<<owner, a>>].collateral_amount = 0]
  /\ UNCHANGED <<now, synthInit, asset, registrations, forgotten>>

SynthNext ==
  \/ initialize
  \/ \E a \in Assets :
       \/ register_asset(a)
       \/ \E price \in OraclePrices : update_price(a, price)
       \/ \E u \in Users :
            \/ \E x \in SynthAmounts :
                 open_cdp(u, a, x) \/ mint(u, a, x) \/ burn(u, a, x) \/ add_collateral(u, a, x)
            \/ liquidate(u, a) \/ close_cdp(u, a)

-----------------------------------------------------------------------------
Debt(a) == SumOver({k \in DOMAIN cdp : k[2] = a}, LAMBDA k : cdp[k].minted_amount)

\* The total supply of an asset that was registered once is the debt of its
\* positions, plus the debt of positions that were opened again over a debt;
\* no sequence of mints, burns, liquidations and price changes loses any other.
SupplyIsDebt ==
  \A a \in DOMAIN asset :
    registrations[a] = 1 => asset[a].total_minted = Debt(a) + forgotten[a]
=============================================================================
