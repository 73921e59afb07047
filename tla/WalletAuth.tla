----------------------------- MODULE WalletAuth ------------------------------
(***************************************************************************)
(* Wallet authentication (Backend/src/auth): login nonces, the users and   *)
(* the wallets bound to them, behind the login, bind and unbind endpoints. *)
(*                                                                         *)
(* A request is a task with one step per await of a repository; the rows   *)
(* it read are its copies.  The column publicKey is unique.  Signatures    *)
(* are valid or not; the fields of users and wallets that decide nothing   *)
(* are left out.                                                           *)
(***************************************************************************)
EXTENDS Integers, FiniteSets

CONSTANTS PublicKeys, MaxNonces, MaxAuthCalls   \* wallets; bounds of the exploration

VARIABLES
  nonces,     \* login_nonces: id -> [key, used, expired]
  users,      \* number of users created, whose ids are 1 .. users
  wallets,    \* wallet_bindings: public key -> [id, user, primary]
  authTasks,  \* requests in progress
  authCalls,  \* requests so far
  admitted,   \* history: requests each nonce has admitted
  repeated,   \* history: those admitted before another had marked the nonce
  owners,     \* history: users a wallet was bound to
  unbindsOverlapped   \* history: two unbinds of one user were in progress

nonceVars == <<nonces, admitted, repeated>>
walletAuthVars == <<nonceVars, users, wallets, authTasks, authCalls, owners, unbindsOverlapped>>

NonceIds == 1 .. MaxNonces
Users == 1 .. MaxAuthCalls
NoUser == 0

WalletAuthTypeOK ==
  /\ DOMAIN nonces \subseteq NonceIds
  /\ \A n \in DOMAIN nonces : nonces[n] \in [key : PublicKeys, used : BOOLEAN, expired : BOOLEAN]
  /\ users \in 0 .. MaxAuthCalls
  /\ DOMAIN wallets \subseteq PublicKeys
  /\ \A k \in DOMAIN wallets : wallets[k] \in [id : 1 .. MaxAuthCalls, user : 1 .. users, primary : BOOLEAN]

WalletAuthInit ==
  /\ nonces = <<>> /\ users = 0 /\ wallets = <<>> /\ authTasks = {} /\ authCalls = 0
  /\ admitted = [n \in NonceIds |-> 0] /\ repeated = [n \in NonceIds |-> 0]
  /\ owners = {} /\ unbindsOverlapped = FALSE

LoginNonce(k) == [key |-> k, used |-> FALSE, expired |-> FALSE]
WalletBinding(id, u, primary) == [id |-> id, user |-> u, primary |-> primary]
With(f, k, v) == [x \in DOMAIN f \cup {k} |-> IF x = k THEN v ELSE f[x]]
Without(f, ks) == [x \in DOMAIN f \ ks |-> f[x]]
WalletsOf(u) == {k \in DOMAIN wallets : wallets[k].user = u}

-----------------------------------------------------------------------------
\* NonceService.
generateNonce(k) ==
  /\ Cardinality(DOMAIN nonces) < MaxNonces
  /\ LET n == CHOOSE i \in NonceIds : i \notin DOMAIN nonces /\ admitted[i] = 0
     IN  /\ \E i \in NonceIds : i \notin DOMAIN nonces /\ admitted[i] = 0
         /\ nonces' = With(nonces, n, LoginNonce(k))
  /\ UNCHANGED <<users, wallets, authTasks, authCalls, admitted, repeated, owners, unbindsOverlapped>>
requestNonce(k) == generateNonce(k)
NonceExpires(n) ==
  /\ nonces' = [nonces EXCEPT ![n].expired = TRUE] /\ ~nonces[n].expired
  /\ UNCHANGED <<users, wallets, authTasks, authCalls, admitted, repeated, owners, unbindsOverlapped>>
cleanupExpiredNonces ==
  /\ nonces' = Without(nonces, {n \in DOMAIN nonces : nonces[n].expired}) /\ nonces' # nonces
  /\ UNCHANGED <<users, wallets, authTasks, authCalls, admitted, repeated, owners, unbindsOverlapped>>

validateNonce(n, k) == n \in DOMAIN nonces /\ nonces[n].key = k /\ ~nonces[n].used /\ ~nonces[n].expired
Marking(n) == {t \in authTasks : t.pc = "mark" /\ t.nonce = n}

\* The Ed25519 signature of the nonce's message is the wallet's, or it is not
\* (external: tweetnacl).
verifySignature(valid) == valid

\* A request whose nonce and signature are valid; any other changes nothing.
Request(n, u, k, pc) == [id |-> authCalls + 1, nonce |-> n, user |-> u, key |-> k, pc |-> pc, row |-> <<>>]
Accept(n, u, k, signed) ==
  /\ validateNonce(n, k) /\ verifySignature(signed)
  /\ authCalls < MaxAuthCalls /\ authCalls' = authCalls + 1
  /\ authTasks' = authTasks \cup {Request(n, u, k, "mark")}
  /\ admitted' = [admitted EXCEPT ![n] = @ + 1]
  /\ repeated' = [repeated EXCEPT ![n] = IF Marking(n) = {} THEN @ ELSE @ + 1]
  /\ UNCHANGED <<nonces, users, wallets, owners, unbindsOverlapped>>
walletLogin(n, k, signed) == Accept(n, NoUser, k, signed)
\* The caller has logged in: it has, or had, a wallet.
bindWallet(n, u, k, signed) == u \in owners /\ Accept(n, u, k, signed)

Go(t, pc) == authTasks' = (authTasks \ {t}) \cup {[t EXCEPT !.pc = pc]}
Finish(t) == authTasks' = authTasks \ {t}

\* A bug this module must not have: only a login marks its nonce.
markNonceUsed_login_only(t) ==
  /\ t.pc = "mark" /\ Go(t, IF t.user = NoUser THEN "find" ELSE "check")
  /\ nonces' = IF t.nonce \in DOMAIN nonces /\ t.user = NoUser THEN [nonces EXCEPT ![t.nonce].used = TRUE] ELSE nonces
  /\ UNCHANGED <<users, wallets, authCalls, admitted, repeated, owners, unbindsOverlapped>>

\* The row may be gone by now.
markNonceUsed(t) ==
  /\ t.pc = "mark" /\ Go(t, IF t.user = NoUser THEN "find" ELSE "check")
  /\ nonces' = IF t.nonce \in DOMAIN nonces THEN [nonces EXCEPT ![t.nonce].used = TRUE] ELSE nonces
  /\ UNCHANGED <<users, wallets, authCalls, admitted, repeated, owners, unbindsOverlapped>>

-----------------------------------------------------------------------------
\* WalletService: a login finds its user or creates one, ...
findUserByWallet(t) ==
  /\ t.pc = "find"
  /\ IF t.key \in DOMAIN wallets THEN Finish(t) ELSE Go(t, "create")
  /\ UNCHANGED <<nonceVars, users, wallets, authCalls, owners, unbindsOverlapped>>
createUserWithWallet(t) ==
  /\ t.pc = "create" /\ users' = users + 1
  /\ authTasks' = (authTasks \ {t}) \cup {[t EXCEPT !.pc = "check", !.user = users + 1, !.nonce = 0]}
  /\ UNCHANGED <<nonceVars, wallets, authCalls, owners, unbindsOverlapped>>
\* ... and a wallet nobody has is bound: primary for a new user (nonce 0).  The
\* user of a request that loses the race keeps no wallet.
bindWalletToUser(t) ==
  /\ t.pc = "check"
  /\ IF t.key \in DOMAIN wallets THEN Finish(t) ELSE Go(t, "insert")
  /\ UNCHANGED <<nonceVars, users, wallets, authCalls, owners, unbindsOverlapped>>
InsertBinding(t) ==
  /\ t.pc = "insert" /\ Finish(t)
  /\ IF t.key \in DOMAIN wallets THEN UNCHANGED <<wallets, owners>>
     ELSE /\ wallets' = With(wallets, t.key, WalletBinding(t.id, t.user, t.nonce = 0))
          /\ owners' = owners \cup {t.user}
  /\ UNCHANGED <<nonceVars, users, authCalls, unbindsOverlapped>>

\* unbindWallet: the binding, the count, the removal, and another primary.
Unbinding(u) == {t \in authTasks : t.user = u /\ t.pc \in {"count", "remove", "another", "promote"}}
unbindWallet(u, k) ==
  /\ k \in WalletsOf(u)
  /\ authCalls < MaxAuthCalls /\ authCalls' = authCalls + 1
  /\ authTasks' = authTasks \cup {[Request(0, u, k, "count") EXCEPT !.row = <<wallets[k]>>]}
  /\ unbindsOverlapped' = (unbindsOverlapped \/ Unbinding(u) # {})
  /\ UNCHANGED <<nonceVars, users, wallets, owners>>
deleteWalletUnbind(u, k) == u \in owners /\ unbindWallet(u, k)
CountWallets(t) ==
  /\ t.pc = "count"
  /\ IF Cardinality(WalletsOf(t.user)) = 1 THEN Finish(t) ELSE Go(t, "remove")
  /\ UNCHANGED <<nonceVars, users, wallets, authCalls, owners, unbindsOverlapped>>

\* A bug this module must not have: no other wallet becomes primary.
RemoveBinding_last_step(t) ==
  /\ t.pc = "remove" /\ Finish(t)
  /\ wallets' = Without(wallets, {k \in DOMAIN wallets : wallets[k].id = t.row[1].id})
  /\ UNCHANGED <<nonceVars, users, authCalls, owners, unbindsOverlapped>>

RemoveBinding(t) ==
  /\ t.pc = "remove"
  /\ wallets' = Without(wallets, {k \in DOMAIN wallets : wallets[k].id = t.row[1].id})
  /\ IF t.row[1].primary THEN Go(t, "another") ELSE Finish(t)
  /\ UNCHANGED <<nonceVars, users, authCalls, owners, unbindsOverlapped>>
FindAnother(t) ==
  /\ t.pc = "another"
  /\ IF WalletsOf(t.user) = {} THEN Finish(t)
     ELSE \E k \in WalletsOf(t.user) :
            authTasks' = (authTasks \ {t}) \cup {[t EXCEPT !.pc = "promote", !.key = k, !.row = <<wallets[k]>>]}
  /\ UNCHANGED <<nonceVars, users, wallets, authCalls, owners, unbindsOverlapped>>
\* save: a row that was removed meanwhile is inserted again, if its key is free.
SavePrimary(t) ==
  /\ t.pc = "promote" /\ Finish(t)
  /\ wallets' = IF t.key \in DOMAIN wallets /\ wallets[t.key].id # t.row[1].id THEN wallets
                ELSE With(wallets, t.key, [t.row[1] EXCEPT !.primary = TRUE])
  /\ UNCHANGED <<nonceVars, users, authCalls, owners, unbindsOverlapped>>

WalletAuthNext ==
  \/ \E k \in PublicKeys : \/ requestNonce(k)
                           \/ \E n \in NonceIds, signed \in BOOLEAN :
                                \/ walletLogin(n, k, signed)
                                \/ \E u \in owners : bindWallet(n, u, k, signed)
                           \/ \E u \in owners : deleteWalletUnbind(u, k)
  \/ \E n \in DOMAIN nonces : NonceExpires(n)
  \/ cleanupExpiredNonces
  \/ \E t \in authTasks :
       \/ markNonceUsed(t) \/ findUserByWallet(t) \/ createUserWithWallet(t) \/ bindWalletToUser(t)
       \/ InsertBinding(t) \/ CountWallets(t) \/ RemoveBinding(t) \/ FindAnother(t) \/ SavePrimary(t)

-----------------------------------------------------------------------------
\* A nonce admits one request, and more only as far as they arrive before the
\* first has marked it.
NonceOnce == \A n \in NonceIds : admitted[n] <= 1 + repeated[n]

\* Once bound, a user has wallets and exactly one primary wallet, whenever no
\* unbind of the user is in progress and none ever overlapped another.
WalletsInOrder ==
  ~unbindsOverlapped =>
    \A u \in owners : Unbinding(u) = {} => Cardinality({k \in WalletsOf(u) : wallets[k].primary}) = 1

\* "Account must have at least one wallet": unbinding never takes the last one.
AccountKeepsWallet == \A u \in owners : WalletsOf(u) # {}
=============================================================================
