----------------------------- MODULE CrossChain -----------------------------
(***************************************************************************)
(* The cross-chain contracts of Contracts/contracts/cross-chain-router:    *)
(* the router of messages and validators (lib.rs) and the bridge           *)
(* (bridge.rs).  Hashes are the values they are taken of.  Signatures are  *)
(* counted by the bridge, and counted here.  initiate_message compares the *)
(* ledger number with the recorded nonces, but the router records none, so *)
(* the comparison always succeeds.  Neither contract moves tokens.         *)
(***************************************************************************)
EXTENDS Ledger, SequencesExt

CONSTANTS
  Payloads,          \* payloads of messages; a message's id is its payload's hash
  Proofs,            \* proofs, and the commitment roots of light client headers
  MinValidatorStake, \* 1_000_000_000
  StakedAmounts, SlashPercentages,
  Chains, BridgeNonces,
  Assets, BridgeAmounts, BridgeLimits, BridgeWindow, ValidatorThreshold, SignatureCounts,
  MaxMessages, MaxValidators, MaxDeposits  \* bounds of the exploration

VARIABLES
  messages,      \* "messages": initiated messages, in order
  light_client,  \* "light_client": commitment root, or "none"
  verified,      \* history: ids of the messages processed, in order
  validators,    \* "validators": registered validators, in order
  bridgePaused,  \* config.is_paused
  bridgeValidators, \* "validator": addresses
  rl,            \* "rl": asset -> rate limit
  usedNonces,    \* "nonce": <<source chain, nonce>> pairs present
  released,      \* history: withdrawals made, in order
  deposited      \* history: per asset, the deposits made under its present limit, in order

crossChainVars == <<messages, light_client, verified, validators, bridgePaused, bridgeValidators,
                    rl, usedNonces, released, deposited>>
routerVars == <<messages, light_client, verified, validators>>
bridgeVars == <<bridgePaused, bridgeValidators, rl, usedNonces, released, deposited>>

CrossChainTypeOK ==
  /\ verified \in Seq(Payloads)
  /\ \A i \in DOMAIN messages : messages[i].id \in Payloads /\ messages[i].status \in {0, 2}
  /\ light_client \in Proofs \cup {"none"}
  /\ \A i \in DOMAIN validators : validators[i].status \in {0, 2}
  /\ bridgePaused \in BOOLEAN /\ IsInjective(bridgeValidators)
  /\ DOMAIN rl \subseteq Assets
  /\ usedNonces \subseteq Chains \X BridgeNonces

CrossChainInit ==
  /\ messages = <<>> /\ light_client = "none" /\ verified = <<>> /\ validators = <<>>
  /\ bridgePaused = FALSE /\ bridgeValidators = <<>>
  /\ rl = Empty /\ usedNonces = {} /\ released = <<>>
  /\ deposited = [a \in Assets |-> <<>>]

\* Two messages with one payload share their id.
initiate_message(sender, payload) ==
  /\ Len(messages) < MaxMessages
  /\ messages' = Append(messages,
       [id |-> payload, sender |-> sender, nonce |-> now, status |-> 0, processed |-> FALSE])
  /\ UNCHANGED <<now, light_client, verified, validators, bridgeVars>>

FirstIndex(s, Test(_)) == CHOOSE i \in DOMAIN s : Test(s[i]) /\ \A j \in 1 .. i - 1 : ~Test(s[j])

\* A bug this module must not have: a processed message is passed over.
verify_message_passes_over(id, proof) ==
  LET known == \E i \in DOMAIN messages : messages[i].id = id
      at    == FirstIndex(messages, LAMBDA m : m.id = id)
  IN  /\ light_client = proof
      /\ messages' = IF known
           THEN [messages EXCEPT ![at] = [@ EXCEPT !.status = 2, !.processed = TRUE]] ELSE messages
      /\ verified' = IF known THEN Append(verified, id) ELSE verified
      /\ UNCHANGED <<now, light_client, validators, bridgeVars>>

\* Only a valid proof changes anything.  The first message with the id counts;
\* if it is processed the call panics.
verify_message(id, proof) ==
  LET known == \E i \in DOMAIN messages : messages[i].id = id
      at    == FirstIndex(messages, LAMBDA m : m.id = id)
  IN  /\ light_client = proof
      /\ known => ~messages[at].processed
      /\ messages' = IF known
           THEN [messages EXCEPT ![at] = [@ EXCEPT !.status = 2, !.processed = TRUE]] ELSE messages
      /\ verified' = IF known THEN Append(verified, id) ELSE verified
      /\ UNCHANGED <<now, light_client, validators, bridgeVars>>

update_light_client(root) ==
  /\ light_client' = root
  /\ UNCHANGED <<now, messages, verified, validators, bridgeVars>>

\* An address may register again.
register_validator(address, staked) ==
  /\ Len(validators) < MaxValidators
  /\ staked >= MinValidatorStake
  /\ validators' = Append(validators, [address |-> address, staked |-> staked, status |-> 0])
  /\ UNCHANGED <<now, messages, light_client, verified, bridgeVars>>

\* The first registration of the address is slashed.
slash_validator(address, percentage) ==
  LET at   == FirstIndex(validators, LAMBDA v : v.address = address)
      left == validators[at].staked - Quot(validators[at].staked * percentage, 100)
  IN  /\ \E i \in DOMAIN validators : validators[i].address = address
      /\ validators' = [validators EXCEPT ![at] =
           [@ EXCEPT !.staked = left, !.status = IF left <= 0 THEN 2 ELSE validators[at].status]]
      /\ UNCHANGED <<now, messages, light_client, verified, bridgeVars>>

get_message_status(id) ==
  IF \E i \in DOMAIN messages : messages[i].id = id
  THEN messages[FirstIndex(messages, LAMBDA m : m.id = id)].status ELSE -1
get_validator_count == Len(SelectSeq(validators, LAMBDA v : v.status = 0))

-----------------------------------------------------------------------------
\* The bridge.
\* A bug this module must not have: a new window does not move its start.
check_rate_limit_keeps_start(asset, amount) ==
  IF ~Has(rl, asset) THEN UNCHANGED rl
  ELSE LET fresh == now >= rl[asset].last_update + BridgeWindow
           used  == IF fresh THEN 0 ELSE rl[asset].current_usage
       IN  /\ used + amount <= rl[asset].limit
           /\ rl' = [rl EXCEPT ![asset].current_usage = used + amount]

check_rate_limit(asset, amount) ==
  IF ~Has(rl, asset) THEN UNCHANGED rl
  ELSE LET fresh == now >= rl[asset].last_update + BridgeWindow
           used  == IF fresh THEN 0 ELSE rl[asset].current_usage
       IN  /\ used + amount <= rl[asset].limit
           /\ rl' = [rl EXCEPT ![asset] =
                [limit         |-> rl[asset].limit,
                 current_usage |-> used + amount,
                 last_update   |-> IF fresh THEN now ELSE rl[asset].last_update]]

deposit(asset, amount) ==
  /\ Len(deposited[asset]) < MaxDeposits
  /\ ~bridgePaused
  /\ check_rate_limit(asset, amount)
  /\ deposited' = IF Has(rl, asset)
       THEN [deposited EXCEPT ![asset] = Append(@, [amount |-> amount, at |-> now])] ELSE deposited
  /\ UNCHANGED <<now, routerVars, bridgePaused, bridgeValidators, usedNonces, released>>

verify_validator_signatures(signatures) ==
  signatures >= ValidatorThreshold /\ Len(bridgeValidators) >= ValidatorThreshold

withdraw(to, chain, nonce, signatures) ==
  /\ ~bridgePaused
  /\ verify_validator_signatures(signatures)
  /\ <<chain, nonce>> \notin usedNonces
  /\ usedNonces' = usedNonces \cup {<<chain, nonce>>}
  /\ released' = Append(released, <<chain, nonce>>)
  /\ UNCHANGED <<now, routerVars, bridgePaused, bridgeValidators, rl, deposited>>

add_validator(v) ==
  /\ bridgeValidators' = IF Contains(bridgeValidators, v) THEN bridgeValidators
                         ELSE Append(bridgeValidators, v)
  /\ UNCHANGED <<now, routerVars, bridgePaused, rl, usedNonces, released, deposited>>

remove_validator(v) ==
  /\ bridgeValidators' = SelectSeq(bridgeValidators, LAMBDA w : w # v)
  /\ UNCHANGED <<now, routerVars, bridgePaused, rl, usedNonces, released, deposited>>

\* A new limit forgets what was used of the old one.
set_rate_limit(asset, limit) ==
  /\ rl' = Put(rl, asset, [limit |-> limit, current_usage |-> 0, last_update |-> now])
  /\ deposited' = [deposited EXCEPT ![asset] = <<>>]
  /\ UNCHANGED <<now, routerVars, bridgePaused, bridgeValidators, usedNonces, released>>

set_paused(paused) ==
  /\ bridgePaused' = paused
  /\ UNCHANGED <<now, routerVars, bridgeValidators, rl, usedNonces, released, deposited>>

RouterNext ==
  \/ \E u \in Users, p \in Payloads : initiate_message(u, p)
  \/ \E p \in Payloads, proof \in Proofs : verify_message(p, proof)
  \/ \E root \in Proofs : update_light_client(root)
  \/ \E u \in Users, s \in StakedAmounts : register_validator(u, s)
  \/ \E u \in Users, p \in SlashPercentages : slash_validator(u, p)

BridgeNext ==
  \/ \E a \in Assets, n \in BridgeAmounts : deposit(a, n)
  \/ \E u \in Users, c \in Chains, n \in BridgeNonces, s \in SignatureCounts : withdraw(u, c, n, s)
  \/ \E u \in Users : add_validator(u) \/ remove_validator(u)
  \/ \E a \in Assets, l \in BridgeLimits : set_rate_limit(a, l)
  \/ \E p \in BOOLEAN : set_paused(p)
  \/ CloseLedger /\ UNCHANGED crossChainVars

CrossChainSpec == now = 0 /\ CrossChainInit /\ [][RouterNext \/ BridgeNext]_<<now, crossChainVars>>

-----------------------------------------------------------------------------
\* Nothing is replayed: a message id is processed at most once, although ids of
\* different messages may coincide and proofs may be presented again, and a
\* nonce of a source chain releases at most one withdrawal.
NoReplay == IsInjective(verified) /\ IsInjective(released)

\* The bridge's limit bounds the flow between two resets: in a window that began
\* at last_update the deposits of an asset sum to at most its limit, so in any
\* span of BridgeWindow they sum to at most twice the limit.
FlowBounded ==
  \A a \in DOMAIN rl : \A from \in Time :
    SumOver({i \in DOMAIN deposited[a] : /\ deposited[a][i].at >= from
                                         /\ deposited[a][i].at < from + BridgeWindow},
            LAMBDA i : deposited[a][i].amount) <= 2 * rl[a].limit
=============================================================================
