--------------------------- MODULE AcademyRewards ---------------------------
(***************************************************************************)
(* Badges that grant a discount, Contracts/contracts/academy-rewards/src/  *)
(* lib.rs: badge types, one badge per user, redemptions with their history *)
(* and the transaction hashes already used, behind the circuit breaker.    *)
(* Administrative calls come from the administrator given to initialize.   *)
(***************************************************************************)
EXTENDS Ledger

CONSTANTS
  BadgeTypes,      \* badge type numbers
  BadgeTerms,      \* discount, redemption limit and validity of created types
  MaxDiscount,     \* 10000 basis points
  TxHashes,        \* transaction hashes given to redeem_badge
  BadgeBreaker,    \* the circuit breaker configuration
  MaxMinted,       \* bound: badges minted of one type
  I128Max, OverflowChecks

VARIABLES
  badge,           \* Badge(user): user -> badge
  badgeType,       \* BadgeMetadata(type): type -> terms
  badgesMinted,    \* TotalBadgesMinted(type)
  redemption,      \* RedemptionHistory(user, index): user and index -> record
  usedTx,          \* UsedTransactionHash(hash): the hashes present
  badgeBreaker,    \* the breaker's state and its paused functions
  redeemed         \* history: every redemption made, in order

academyVars == <<badge, badgeType, badgesMinted, redemption, usedTx, badgeBreaker, redeemed>>

Breaker == INSTANCE CircuitBreaker

AcademyTypeOK ==
  /\ DOMAIN badge \subseteq Users /\ DOMAIN badgeType \subseteq BadgeTypes
  /\ badgesMinted \in [BadgeTypes -> 0 .. MaxMinted]
  /\ usedTx \subseteq TxHashes
  /\ badgeBreaker.state.pause_level \in Breaker!PauseLevel

AcademyInit ==
  /\ badge = Empty /\ badgeType = Empty /\ redemption = Empty
  /\ badgesMinted = [t \in BadgeTypes |-> 0]
  /\ usedTx = {} /\ redeemed = <<>>
  /\ badgeBreaker = [state |-> Breaker!cb_init(now), paused |-> {}]

NotPaused(func) == Breaker!require_trade_not_paused(badgeBreaker.state, badgeBreaker.paused, func)

\* Creating a type again replaces its terms and resets its counter.
create_badge_type(type, terms) ==
  /\ terms.discount <= MaxDiscount
  /\ badgeType' = Put(badgeType, type, terms)
  /\ badgesMinted' = [badgesMinted EXCEPT ![type] = 0]
  /\ UNCHANGED <<now, badge, redemption, usedTx, badgeBreaker, redeemed>>

\* A badge of another type, and one that was revoked, is replaced.
mint_badge(recipient, type) ==
  LET terms == badgeType[type]
  IN  /\ NotPaused("mint_b")
      /\ Has(badgeType, type)
      /\ ~(Has(badge, recipient) /\ badge[recipient].type = type /\ badge[recipient].active)
      /\ badgesMinted[type] < MaxMinted
      /\ badge' = Put(badge, recipient,
           [type |-> type, discount |-> terms.discount, earned_at |-> now,
            redeemed_count |-> 0, max_redemptions |-> terms.max_redemptions,
            expiry |-> IF terms.validity > 0 THEN now + terms.validity ELSE 0,
            active |-> TRUE, since |-> Len(redeemed)])
      /\ badgesMinted' = [badgesMinted EXCEPT ![type] = @ + 1]
      /\ UNCHANGED <<now, badgeType, redemption, usedTx, badgeBreaker, redeemed>>

revoke_badge(user) ==
  /\ Has(badge, user)
  /\ badge' = [badge EXCEPT ![user].active = FALSE]
  /\ UNCHANGED <<now, badgeType, badgesMinted, redemption, usedTx, badgeBreaker, redeemed>>

\* Validity of a badge, as redeem_badge and get_user_discount both check it.
Usable(b) ==
  /\ b.active
  /\ b.expiry > 0 => now <= b.expiry
  /\ b.max_redemptions > 0 => b.redeemed_count < b.max_redemptions

\* A bug this module must not have: the record is stored after the increment.
redeem_badge_late_record(user, hash) ==
  LET b == badge[user]
  IN  /\ NotPaused("redeem_b")
      /\ hash \notin usedTx
      /\ Has(badge, user)
      /\ Usable(b)
      /\ redemption' = Put(redemption, <<user, b.redeemed_count + 1>>,
           [type |-> b.type, timestamp |-> now, discount |-> b.discount, hash |-> hash])
      /\ usedTx' = usedTx \cup {hash}
      /\ badge' = [badge EXCEPT ![user].redeemed_count = @ + 1]
      /\ redeemed' = Append(redeemed, [user |-> user, hash |-> hash])
      /\ badgeBreaker' = [badgeBreaker EXCEPT !.state =
                            Breaker!track_activity(@, BadgeBreaker, now, 1)]
      /\ UNCHANGED <<now, badgeType, badgesMinted>>

redeem_badge(user, hash) ==
  LET b == badge[user]
  IN  /\ NotPaused("redeem_b")
      /\ hash \notin usedTx
      /\ Has(badge, user)
      /\ Usable(b)
      /\ redemption' = Put(redemption, <<user, b.redeemed_count>>,
           [type |-> b.type, timestamp |-> now, discount |-> b.discount, hash |-> hash])
      /\ usedTx' = usedTx \cup {hash}
      /\ badge' = [badge EXCEPT ![user].redeemed_count = @ + 1]
      /\ redeemed' = Append(redeemed, [user |-> user, hash |-> hash])
      /\ badgeBreaker' = [badgeBreaker EXCEPT !.state =
                            Breaker!track_activity(@, BadgeBreaker, now, 1)]
      /\ UNCHANGED <<now, badgeType, badgesMinted>>

set_badge_pause_level(level) ==
  /\ badgeBreaker' = [badgeBreaker EXCEPT !.state = Breaker!set_trade_pause_level(@, level)]
  /\ UNCHANGED <<now, badge, badgeType, badgesMinted, redemption, usedTx, redeemed>>

pause_badge_function(func) ==
  /\ badgeBreaker' = [state |-> Breaker!pause_trade_function(badgeBreaker.state),
                      paused |-> badgeBreaker.paused \cup {func}]
  /\ UNCHANGED <<now, badge, badgeType, badgesMinted, redemption, usedTx, redeemed>>

unpause_badge_function(func) ==
  /\ badgeBreaker' = [badgeBreaker EXCEPT !.paused = @ \ {func}]
  /\ UNCHANGED <<now, badge, badgeType, badgesMinted, redemption, usedTx, redeemed>>

AcademyNext ==
  \/ \E t \in BadgeTypes, terms \in BadgeTerms : create_badge_type(t, terms)
  \/ \E u \in Users, t \in BadgeTypes : mint_badge(u, t)
  \/ \E u \in Users : revoke_badge(u)
  \/ \E u \in Users, h \in TxHashes : redeem_badge(u, h)
  \/ \E level \in Breaker!PauseLevel : set_badge_pause_level(level)
  \/ \E f \in {"mint_b", "redeem_b"} : pause_badge_function(f) \/ unpause_badge_function(f)
  \/ CloseLedger /\ UNCHANGED academyVars

-----------------------------------------------------------------------------
\* The redemptions a user made with the badge held now, by their places in
\* `redeemed', and how many of them came before place j.
RedeemedWith(user) ==
  {j \in badge[user].since + 1 .. Len(redeemed) : redeemed[j].user = user}
Earlier(user, j) == Cardinality({i \in RedeemedWith(user) : i < j})

\* Discounts are granted within the badge's terms and on record: a transaction
\* is redeemed once whoever presents it, the badge a user holds was redeemed at
\* most its limit of times since it was minted, and the audit trail shows those
\* redemptions in order.  A badge minted in place of a revoked one starts over.
RedemptionsOnRecord ==
  /\ \A i, j \in DOMAIN redeemed : redeemed[i].hash = redeemed[j].hash => i = j
  /\ \A u \in DOMAIN badge :
       LET b == badge[u]
       IN  /\ Cardinality(RedeemedWith(u)) = b.redeemed_count
           /\ b.max_redemptions > 0 => b.redeemed_count <= b.max_redemptions
           /\ \A j \in RedeemedWith(u) :
                LET entry == <<u, Earlier(u, j)>>
                IN  /\ Has(redemption, entry)
                    /\ redemption[entry].hash = redeemed[j].hash
                    /\ b.expiry > 0 => redemption[entry].timestamp <= b.expiry
=============================================================================
