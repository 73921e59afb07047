------------------------------ MODULE Messaging ------------------------------
(***************************************************************************)
(* The messaging contract of Contracts/contracts/messaging/src/lib.rs:     *)
(* plain and encrypted messages with one id counter, their inbox and sent  *)
(* indexes, unread counters and statistics, behind a rate limiter, a       *)
(* circuit breaker and the nonces of Contracts/shared/src/nonce.rs.        *)
(*                                                                         *)
(* A nonce is the number of the ledger, which is also its timestamp here.  *)
(* The re-entrancy guard is entered and left within one call and no call   *)
(* leaves the contract, so it is always inactive between calls.  The       *)
(* access list (module ACL) and the upgrade wrappers (module Governance)   *)
(* are separate; calls that need a permission come from an account that    *)
(* holds it.                                                               *)
(***************************************************************************)
EXTENDS Ledger, SequencesExt

CONSTANTS
  PayloadLens,        \* lengths of payloads that are sent
  MAX_MESSAGE_LENGTH,
  MsgRateLimits,      \* configurations given to set_rate_limit_config
  MsgBreaker,         \* the circuit breaker configuration given to init
  I128Max, OverflowChecks

VARIABLES
  msgs,        \* "msgs" and "enc_msgs": for each kind, id -> message
  inbox,       \* "inbox" and "einbox": for each kind, user -> ids
  sent,        \* "sent" and "esent"
  unread,      \* "unread": user -> number of unread messages
  stats,       \* "stats"
  nonces,      \* "_nonces": the recorded nonces, in order
  msgLimit,    \* "rl_cfg", "prem" and the window counters
  msgBreaker,  \* the breaker's state and its paused functions
  enc_keys     \* users that registered an encryption key

messagingVars ==
  <<msgs, inbox, sent, unread, stats, nonces, msgLimit, msgBreaker, enc_keys>>
mailbox == <<msgs, inbox, sent, unread, stats>>

Limiter == INSTANCE RateLimiter WITH Traders <- Users
Breaker == INSTANCE CircuitBreaker

Kinds == {"plain", "encrypted"}
SendFunction == [plain |-> "send_m", encrypted |-> "send_em"]

Message == [sender : Users, recipient : Users, timestamp : Time, read : BOOLEAN]

MessagingTypeOK ==
  /\ \A k \in Kinds : \A id \in DOMAIN msgs[k] : msgs[k][id] \in Message
  /\ inbox \in [Kinds -> [Users -> Seq(Nat)]]
  /\ sent \in [Kinds -> [Users -> Seq(Nat)]]
  /\ unread \in [Users -> Nat]
  /\ stats \in [total_messages : Nat, unread_messages : Nat, last_message_id : Nat]
  /\ nonces \in Seq(Time)
  /\ msgBreaker.state.pause_level \in Breaker!PauseLevel
  /\ enc_keys \subseteq Users

\* As init leaves the contract.
MessagingInit ==
  /\ msgs = [k \in Kinds |-> Empty]
  /\ inbox = [k \in Kinds |-> [u \in Users |-> <<>>]]
  /\ sent = inbox
  /\ unread = [u \in Users |-> 0]
  /\ stats = [total_messages |-> 0, unread_messages |-> 0, last_message_id |-> 0]
  /\ nonces = <<>>
  /\ msgLimit = [cfg |-> CHOOSE c \in MsgRateLimits : Limiter!ValidConfig(c),
                 premium |-> {}, usage |-> Limiter!NoUsage]
  /\ msgBreaker = [state |-> Breaker!cb_init(now), paused |-> {}]
  /\ enc_keys = {}

enforce_sequential_nonce(nonce) == nonces # <<>> => nonce > Last(nonces)
record_and_verify(nonce) == ~Contains(nonces, nonce) /\ nonces' = Append(nonces, nonce)

check_and_consume_message_rate_limit(sender) ==
  /\ Limiter!WithinRateLimit(msgLimit.cfg, msgLimit.premium, msgLimit.usage, now, sender)
  /\ msgLimit' = [msgLimit EXCEPT
                    !.usage = Limiter!Consume(msgLimit.cfg, @, now, sender)]

\* The checks and counters both ways of sending begin with.
AdmitMessage(sender, recipient, len, func) ==
  /\ check_and_consume_message_rate_limit(sender)
  /\ Breaker!require_trade_not_paused(msgBreaker.state, msgBreaker.paused, func)
  /\ enforce_sequential_nonce(now)
  /\ record_and_verify(now)
  /\ msgBreaker' = [msgBreaker EXCEPT !.state =
                      Breaker!track_activity(@, MsgBreaker, now, 1)]
  /\ sender # recipient
  /\ len > 0 /\ len <= MAX_MESSAGE_LENGTH

\* A bug this module must not have: each kind of message has its own counter.
Deliver_own_counter(kind, sender, recipient) ==
  LET id == Cardinality(DOMAIN msgs[kind]) + 1
  IN  /\ msgs' = [msgs EXCEPT ![kind] = Put(@, id,
           [sender |-> sender, recipient |-> recipient, timestamp |-> now, read |-> FALSE])]
      /\ inbox' = [inbox EXCEPT ![kind][recipient] = Append(@, id)]
      /\ sent' = [sent EXCEPT ![kind][sender] = Append(@, id)]
      /\ unread' = [unread EXCEPT ![recipient] = @ + 1]
      /\ stats' = [total_messages |-> stats.total_messages + 1,
                   unread_messages |-> stats.unread_messages + 1,
                   last_message_id |-> id]

Deliver(kind, sender, recipient) ==
  LET id == stats.last_message_id + 1
  IN  /\ msgs' = [msgs EXCEPT ![kind] = Put(@, id,
           [sender |-> sender, recipient |-> recipient, timestamp |-> now, read |-> FALSE])]
      /\ inbox' = [inbox EXCEPT ![kind][recipient] = Append(@, id)]
      /\ sent' = [sent EXCEPT ![kind][sender] = Append(@, id)]
      /\ unread' = [unread EXCEPT ![recipient] = @ + 1]
      /\ stats' = [total_messages |-> stats.total_messages + 1,
                   unread_messages |-> stats.unread_messages + 1,
                   last_message_id |-> id]

send_message(sender, recipient, len) ==
  /\ AdmitMessage(sender, recipient, len, SendFunction["plain"])
  /\ Deliver("plain", sender, recipient)
  /\ UNCHANGED <<now, enc_keys>>

\* The recipient needs no registered key.
send_encrypted_message(sender, recipient, len) ==
  /\ AdmitMessage(sender, recipient, len, SendFunction["encrypted"])
  /\ Deliver("encrypted", sender, recipient)
  /\ UNCHANGED <<now, enc_keys>>

\* A bug this module must not have: a message can be read again.
MarkRead_again(kind, recipient, id) ==
  /\ Has(msgs[kind], id)
  /\ msgs[kind][id].recipient = recipient
  /\ msgs' = [msgs EXCEPT ![kind][id].read = TRUE]
  /\ unread' = [unread EXCEPT ![recipient] = IF @ > 0 THEN @ - 1 ELSE 0]
  /\ stats' = [stats EXCEPT !.unread_messages = IF @ > 0 THEN @ - 1 ELSE 0]
  /\ UNCHANGED <<now, inbox, sent, nonces, msgLimit, msgBreaker, enc_keys>>

MarkRead(kind, recipient, id) ==
  /\ Has(msgs[kind], id)
  /\ msgs[kind][id].recipient = recipient
  /\ ~msgs[kind][id].read
  /\ msgs' = [msgs EXCEPT ![kind][id].read = TRUE]
  /\ unread' = [unread EXCEPT ![recipient] = IF @ > 0 THEN @ - 1 ELSE 0]
  /\ stats' = [stats EXCEPT !.unread_messages = IF @ > 0 THEN @ - 1 ELSE 0]
  /\ UNCHANGED <<now, inbox, sent, nonces, msgLimit, msgBreaker, enc_keys>>

mark_as_read(recipient, id) == MarkRead("plain", recipient, id)
mark_encrypted_as_read(recipient, id) == MarkRead("encrypted", recipient, id)

register_encryption_key(user) ==
  /\ enc_keys' = enc_keys \cup {user}
  /\ UNCHANGED <<now, mailbox, nonces, msgLimit, msgBreaker>>

set_rate_limit_config(cfg) ==
  /\ Limiter!ValidConfig(cfg)
  /\ msgLimit' = [msgLimit EXCEPT !.cfg = cfg]
  /\ UNCHANGED <<now, mailbox, nonces, msgBreaker, enc_keys>>

set_premium_user(user, is_premium) ==
  /\ msgLimit' = [msgLimit EXCEPT
                    !.premium = IF is_premium THEN @ \cup {user} ELSE @ \ {user}]
  /\ UNCHANGED <<now, mailbox, nonces, msgBreaker, enc_keys>>

set_cb_pause_level(level) ==
  /\ msgBreaker' = [msgBreaker EXCEPT !.state = Breaker!set_trade_pause_level(@, level)]
  /\ UNCHANGED <<now, mailbox, nonces, msgLimit, enc_keys>>

pause_cb_function(func) ==
  /\ msgBreaker' = [state |-> Breaker!pause_trade_function(msgBreaker.state),
                    paused |-> msgBreaker.paused \cup {func}]
  /\ UNCHANGED <<now, mailbox, nonces, msgLimit, enc_keys>>

unpause_cb_function(func) ==
  /\ msgBreaker' = [msgBreaker EXCEPT !.paused = @ \ {func}]
  /\ UNCHANGED <<now, mailbox, nonces, msgLimit, enc_keys>>

MessagingNext ==
  \/ \E s, r \in Users, len \in PayloadLens :
       send_message(s, r, len) \/ send_encrypted_message(s, r, len)
  \/ \E r \in Users, id \in 1 .. stats.last_message_id :
       mark_as_read(r, id) \/ mark_encrypted_as_read(r, id)
  \/ \E u \in Users : register_encryption_key(u)
  \/ \E cfg \in MsgRateLimits : set_rate_limit_config(cfg)
  \/ \E u \in Users, p \in BOOLEAN : set_premium_user(u, p)
  \/ \E level \in Breaker!PauseLevel : set_cb_pause_level(level)
  \/ \E k \in Kinds : pause_cb_function(SendFunction[k]) \/ unpause_cb_function(SendFunction[k])
  \/ CloseLedger /\ UNCHANGED messagingVars

-----------------------------------------------------------------------------
\* What get_messages and get_encrypted_messages return, as ids.
Listed(kind, ids, unread_only) ==
  Kept(ids, {id \in DOMAIN msgs[kind] : unread_only => ~msgs[kind][id].read})
get_messages(user, include_sent, include_received, unread_only) ==
  (IF include_received THEN Listed("plain", inbox["plain"][user], unread_only) ELSE <<>>)
  \o (IF include_sent THEN Listed("plain", sent["plain"][user], unread_only) ELSE <<>>)
get_encrypted_messages(user, include_sent, include_received, unread_only) ==
  (IF include_received THEN Listed("encrypted", inbox["encrypted"][user], unread_only) ELSE <<>>)
  \o (IF include_sent THEN Listed("encrypted", sent["encrypted"][user], unread_only) ELSE <<>>)
get_unread_count(user) == unread[user]

\* The counters agree with the mailboxes: what get_unread_count says of a user
\* is what the two listings show, and the statistics count every message once,
\* whatever mix of plain and encrypted messages was sent and read.
MailboxesAgree ==
  /\ \A u \in Users :
       get_unread_count(u) = Len(get_messages(u, FALSE, TRUE, TRUE))
                             + Len(get_encrypted_messages(u, FALSE, TRUE, TRUE))
  /\ stats.unread_messages = SumOver(Users, LAMBDA u : unread[u])
  /\ stats.total_messages = SumOver(Users,
       LAMBDA u : Len(get_messages(u, TRUE, FALSE, FALSE))
                  + Len(get_encrypted_messages(u, TRUE, FALSE, FALSE)))

\* Message ids order messages in time: of two messages, of whatever kind, the
\* one with the smaller id was sent in an earlier ledger.  The nonce check makes
\* it so, and allows the whole contract one message per ledger.
IdsFollowTime ==
  \A k, l \in Kinds : \A i \in DOMAIN msgs[k], j \in DOMAIN msgs[l] :
    i < j => msgs[k][i].timestamp < msgs[l][j].timestamp
=============================================================================
