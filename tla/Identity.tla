------------------------------ MODULE Identity ------------------------------
(***************************************************************************)
(* The three identity contracts: the DID registry (did-registry/src/       *)
(* lib.rs), verifiable credentials (verifiable-credentials/src/lib.rs) and *)
(* the identity hub (identity-hub/src/lib.rs).  Each has its own storage.  *)
(* Their initialize functions have no guard and may be called again, which *)
(* resets counters and, for credentials, the revocation registry.          *)
(*                                                                         *)
(* Identifiers that the code formats from a counter ("vc-1", "hub-1") are  *)
(* the counter's value.  Claims, proofs, payloads and the time stamps of   *)
(* documents are left out; whether a proof is empty is an input.           *)
(***************************************************************************)
EXTENDS Ledger, SequencesExt

CONSTANTS
  Keys,         \* public keys of did:key identifiers
  MethodIds, ServiceIds,
  Expiries,     \* expiration dates; 0 stands for None
  MaxMethods, MaxServices, MaxCredentials, MaxHubs, MaxEntries, MaxPermissions,
  MaxDisclosures  \* bounds of the exploration

VARIABLES
  didAdmin,     \* registry: the account with GovernanceRole::Admin, or "none"
  dids,         \* registry "dids": DID -> document
  did_cnt,
  creds,        \* credentials "creds": id -> credential
  vc_cnt,
  revocatn,     \* credentials "revocatn": id -> date of revocation
  hubs,         \* hub "hubs": id -> hub
  own_hub,      \* hub "own_hub": owner -> hub id
  hub_cnt,
  disclosrs,    \* hub "disclosrs": id -> disclosure
  revokedPerm   \* history: <<hub, index>> of permissions revoke_permission named

didVars == <<didAdmin, dids, did_cnt>>
vcVars == <<creds, vc_cnt, revocatn>>
hubVars == <<hubs, own_hub, hub_cnt, disclosrs, revokedPerm>>
identityVars == <<didVars, vcVars, hubVars>>

\* did:stellar:<address> and did:key:<key>.
Dids == ({"stellar"} \X Users) \cup ({"key"} \X Keys)

IdentityTypeOK ==
  /\ didAdmin \in Users \cup {"none"} /\ DOMAIN dids \subseteq Dids /\ did_cnt \in Nat
  /\ \A d \in DOMAIN dids : dids[d].owner \in Users /\ dids[d].deactivated \in BOOLEAN
  /\ vc_cnt \in 0 .. MaxCredentials
  /\ \A c \in DOMAIN creds : creds[c].status \in {"valid", "revoked"}
  /\ hub_cnt \in 0 .. MaxHubs /\ DOMAIN own_hub \subseteq Users

IdentityInit ==
  /\ didAdmin = "none" /\ dids = Empty /\ did_cnt = 0
  /\ creds = Empty /\ vc_cnt = 0 /\ revocatn = Empty
  /\ hubs = Empty /\ own_hub = Empty /\ hub_cnt = 0 /\ disclosrs = Empty
  /\ revokedPerm = {}

-----------------------------------------------------------------------------
\* DID registry.
did_initialize(admin) ==
  /\ didAdmin' = admin /\ did_cnt' = 0
  /\ UNCHANGED <<now, dids, vcVars, hubVars>>

is_authorized(caller, doc) == caller = doc.owner \/ caller = didAdmin

Store(did, owner, methods, services) ==
  /\ ~Has(dids, did)
  /\ dids' = Put(dids, did,
       [owner |-> owner, methods |-> methods, authentication |-> methods, services |-> services,
        deactivated |-> FALSE])
  /\ did_cnt' = did_cnt + 1
  /\ UNCHANGED <<now, didAdmin, vcVars, hubVars>>

create_stellar_did(caller, address, methods, services) ==
  caller = didAdmin /\ Store(<<"stellar", address>>, address, methods, services)

create_key_did(caller, key, owner, methods, services) ==
  caller = didAdmin /\ Store(<<"key", key>>, owner, methods, services)

\* What the operations on a document begin with, and how they store it.
MayChange(caller, did) ==
  Has(dids, did) /\ is_authorized(caller, dids[did]) /\ ~dids[did].deactivated
Changed(did, doc) ==
  /\ dids' = [dids EXCEPT ![did] = doc]
  /\ UNCHANGED <<now, didAdmin, did_cnt, vcVars, hubVars>>

\* A bug this module must not have: the authentication list is left alone.
update_did_document_keeps_auth(caller, did, methods, services) ==
  /\ MayChange(caller, did)
  /\ Changed(did, [dids[did] EXCEPT !.methods = methods, !.services = services])

\* The lists that are given replace the old ones; ids are not compared.
update_did_document(caller, did, methods, services) ==
  /\ MayChange(caller, did)
  /\ Changed(did, [dids[did] EXCEPT !.methods = methods, !.authentication = methods,
                                    !.services = services])

deactivate_did(caller, did) ==
  /\ MayChange(caller, did)
  /\ Changed(did, [dids[did] EXCEPT !.deactivated = TRUE])

add_verification_method(caller, did, method) ==
  /\ MayChange(caller, did)
  /\ ~Contains(dids[did].methods, method)
  /\ Len(dids[did].methods) < MaxMethods
  /\ Changed(did, [dids[did] EXCEPT !.methods = Append(@, method),
                                    !.authentication = Append(@, method)])

add_service(caller, did, service) ==
  /\ MayChange(caller, did)
  /\ ~Contains(dids[did].services, service)
  /\ Len(dids[did].services) < MaxServices
  /\ Changed(did, [dids[did] EXCEPT !.services = Append(@, service)])

DidNext ==
  \/ \E a \in Users : did_initialize(a)
  \/ \E c, u \in Users, m \in MethodIds : create_stellar_did(c, u, <<m>>, <<>>)
  \/ \E c, u \in Users, k \in Keys, m \in MethodIds : create_key_did(c, k, u, <<m>>, <<>>)
  \/ \E c \in Users, d \in Dids, m \in MethodIds, s \in ServiceIds :
       update_did_document(c, d, <<m>>, <<s>>)
  \/ \E c \in Users, d \in Dids :
       \/ deactivate_did(c, d)
       \/ \E m \in MethodIds : add_verification_method(c, d, m)
       \/ \E s \in ServiceIds : add_service(c, d, s)

-----------------------------------------------------------------------------
\* Verifiable credentials.
vc_initialize ==
  /\ vc_cnt' = 0 /\ revocatn' = Empty
  /\ UNCHANGED <<now, creds, didVars, hubVars>>

issue_credential(issuer, subject, expiry, proof_empty) ==
  /\ ~proof_empty
  /\ expiry # 0 => expiry > now
  /\ vc_cnt < MaxCredentials
  /\ creds' = Put(creds, vc_cnt + 1,
       [issuer |-> issuer, subject |-> subject, expiry |-> expiry, status |-> "valid"])
  /\ vc_cnt' = vc_cnt + 1
  /\ UNCHANGED <<now, revocatn, didVars, hubVars>>

is_revoked(id) == Has(revocatn, id)
verify_credential(id) ==
  /\ Has(creds, id)
  /\ ~is_revoked(id)
  /\ creds[id].expiry # 0 => now <= creds[id].expiry

revoke_credential(id) ==
  /\ Has(creds, id)
  /\ ~is_revoked(id)
  /\ revocatn' = Put(revocatn, id, now)
  /\ creds' = [creds EXCEPT ![id].status = "revoked"]
  /\ UNCHANGED <<now, vc_cnt, didVars, hubVars>>

get_credentials_by_subject(did) == {c \in DOMAIN creds : creds[c].subject = did}
get_credentials_by_issuer(did) == {c \in DOMAIN creds : creds[c].issuer = did}

VcNext ==
  \/ vc_initialize
  \/ \E i, s \in Users, e \in Expiries, p \in BOOLEAN : issue_credential(i, s, e, p)
  \/ \E c \in DOMAIN creds : revoke_credential(c)
  \/ CloseLedger /\ UNCHANGED identityVars

-----------------------------------------------------------------------------
\* Identity hubs.
hub_initialize ==
  /\ hub_cnt' = 0
  /\ UNCHANGED <<now, hubs, own_hub, disclosrs, revokedPerm, didVars, vcVars>>

create_hub(owner) ==
  /\ hub_cnt < MaxHubs
  /\ ~Has(own_hub, owner)
  /\ hubs' = Put(hubs, hub_cnt + 1, [owner |-> owner, entries |-> <<>>, permissions |-> <<>>])
  /\ own_hub' = Put(own_hub, owner, hub_cnt + 1)
  /\ hub_cnt' = hub_cnt + 1
  /\ UNCHANGED <<now, disclosrs, revokedPerm, didVars, vcVars>>

add_data_entry(hub, expiry) ==
  /\ Has(hubs, hub)
  /\ Len(hubs[hub].entries) < MaxEntries
  /\ hubs' = [hubs EXCEPT ![hub].entries = Append(@, [expiry |-> expiry])]
  /\ UNCHANGED <<now, own_hub, hub_cnt, disclosrs, revokedPerm, didVars, vcVars>>

\* limit is the value of a time_lmt condition; 0 when there is none.
grant_permission(hub, grantee, entry, kind, limit) ==
  /\ Has(hubs, hub)
  /\ entry \in DOMAIN hubs[hub].entries
  /\ Len(hubs[hub].permissions) < MaxPermissions
  /\ hubs' = [hubs EXCEPT ![hub].permissions = Append(@,
       [grantee |-> grantee, entry |-> entry, kind |-> kind, limit |-> limit, active |-> TRUE])]
  /\ UNCHANGED <<now, own_hub, hub_cnt, disclosrs, revokedPerm, didVars, vcVars>>

\* The loop clears the flag of a copy of the permission; the hub that is stored
\* again still has the permission as it was.
revoke_permission(hub, index) ==
  /\ Has(hubs, hub)
  /\ revokedPerm' = IF index \in DOMAIN hubs[hub].permissions
                    THEN revokedPerm \cup {<<hub, index>>} ELSE revokedPerm
  /\ UNCHANGED <<now, hubs, own_hub, hub_cnt, disclosrs, didVars, vcVars>>

create_selective_disclosure(presenter, verifier, entry, expiry, proof_empty) ==
  /\ Has(own_hub, presenter)
  /\ entry \in DOMAIN hubs[own_hub[presenter]].entries
  /\ Cardinality(DOMAIN disclosrs) < MaxDisclosures
  /\ disclosrs' = Put(disclosrs, Cardinality(DOMAIN disclosrs) + 1,
       [presenter |-> presenter, verifier |-> verifier, entry |-> entry,
        expiry |-> expiry, proof_empty |-> proof_empty])
  /\ UNCHANGED <<now, hubs, own_hub, hub_cnt, revokedPerm, didVars, vcVars>>

verify_selective_disclosure(id) ==
  Has(disclosrs, id) /\ now <= disclosrs[id].expiry /\ ~disclosrs[id].proof_empty

check_conditions(limit) == limit # 0 => now <= limit

\* get_data_entry answers (it panics otherwise).
get_data_entry(hub, entry, requester) ==
  /\ Has(hubs, hub)
  /\ entry \in DOMAIN hubs[hub].entries
  /\ hubs[hub].entries[entry].expiry # 0 => now <= hubs[hub].entries[entry].expiry
  /\ \/ hubs[hub].owner = requester
     \/ \E i \in DOMAIN hubs[hub].permissions :
          LET p == hubs[hub].permissions[i]
          IN  /\ p.active /\ p.grantee = requester /\ p.entry = entry /\ p.kind = "Read"
              /\ check_conditions(p.limit)

HubNext ==
  \/ hub_initialize
  \/ \E u \in Users : create_hub(u)
  \/ \E h \in DOMAIN hubs, e \in Expiries : add_data_entry(h, e)
  \/ \E h \in DOMAIN hubs, g \in Users, e \in 1 .. MaxEntries, k \in {"Read", "Write"}, l \in Expiries :
       grant_permission(h, g, e, k, l)
  \/ \E h \in DOMAIN hubs, i \in 1 .. MaxPermissions : revoke_permission(h, i)
  \/ \E p, v \in Users, e \in 1 .. MaxEntries, x \in Expiries, pe \in BOOLEAN :
       create_selective_disclosure(p, v, e, x, pe)
  \/ CloseLedger /\ UNCHANGED identityVars

-----------------------------------------------------------------------------
\* A document authenticates with the methods it lists, whatever mix of creation,
\* replacement and addition it went through.
AuthenticationFollowsMethods ==
  \A d \in DOMAIN dids : dids[d].authentication = dids[d].methods

\* What revoke_permission says it does ("Find and deactivate permission"): a
\* permission that was revoked is not active.
RevokedNotActive ==
  \A r \in revokedPerm :
    r[2] \in DOMAIN hubs[r[1]].permissions => ~hubs[r[1]].permissions[r[2]].active
=============================================================================
