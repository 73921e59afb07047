----------------------------- MODULE AuthTokens ------------------------------
(***************************************************************************)
(* Refresh tokens and API tokens (Backend/src/auth): JwtAuthService rotates*)
(* a refresh token at every use and revokes all of a user's tokens at      *)
(* logout; ApiTokenService compares a token with every stored hash.        *)
(*                                                                         *)
(* A refresh reads its token, revokes it and inserts a new one, with other *)
(* requests between the three steps.  A family is the tokens that stem     *)
(* from one login.  Access tokens carry no state; audit rows are left out. *)
(***************************************************************************)
EXTENDS Integers, FiniteSets

CONSTANTS TokenUsers, MaxTokens, MaxTokenCalls   \* bounds of the exploration

VARIABLES
  refreshTokens,  \* id -> [user, family, revoked, expired, late]
  apiTokens,      \* id -> [user, revoked, expired, used]
  rotations,      \* refreshes and validations in progress
  tokenCalls,     \* requests so far
  epoch,          \* history: logouts of each user
  doubled         \* history: uses of a family's token while another use of it had not revoked it

tokenVars == <<refreshTokens, apiTokens, rotations, tokenCalls, epoch, doubled>>

TokenIds == 1 .. MaxTokens

TokensTypeOK ==
  /\ DOMAIN refreshTokens \subseteq TokenIds /\ DOMAIN apiTokens \subseteq TokenIds
  /\ \A i \in DOMAIN refreshTokens :
       /\ refreshTokens[i].user \in TokenUsers /\ refreshTokens[i].family \in TokenIds
       /\ {refreshTokens[i].revoked, refreshTokens[i].expired, refreshTokens[i].late} \subseteq BOOLEAN
  /\ \A i \in DOMAIN apiTokens : apiTokens[i] \in [user : TokenUsers, revoked : BOOLEAN, expired : BOOLEAN, used : BOOLEAN]

TokensInit ==
  /\ refreshTokens = <<>> /\ apiTokens = <<>> /\ rotations = {} /\ tokenCalls = 0
  /\ epoch = [u \in TokenUsers |-> 0] /\ doubled = [f \in TokenIds |-> 0]

RefreshToken(u, family, since, late) ==
  [user |-> u, family |-> family, since |-> since, late |-> late, revoked |-> FALSE, expired |-> FALSE]
ApiToken(u) == [user |-> u, revoked |-> FALSE, expired |-> FALSE, used |-> FALSE]
NewId == Cardinality(DOMAIN refreshTokens) + 1
NewApiId == Cardinality(DOMAIN apiTokens) + 1
Add(f, k, v) == [x \in DOMAIN f \cup {k} |-> IF x = k THEN v ELSE f[x]]
Call == tokenCalls < MaxTokenCalls /\ tokenCalls' = tokenCalls + 1
Live(i) == ~refreshTokens[i].revoked /\ ~refreshTokens[i].expired
LiveOf(f) == {i \in DOMAIN refreshTokens : refreshTokens[i].family = f /\ Live(i)}

\* generateRefreshToken, for a login (a family of its own) or a rotation.
generateRefreshToken(u, family, since, late) ==
  /\ NewId \in TokenIds
  /\ refreshTokens' = Add(refreshTokens, NewId, RefreshToken(u, family, since, late))
Login(u) ==
  /\ Call /\ generateRefreshToken(u, NewId, epoch[u], FALSE)
  /\ UNCHANGED <<apiTokens, rotations, epoch, doubled>>

\* refreshAccessToken reads the token ...
Using(i) == {r \in rotations : r.pc = "revoke" /\ r.token = i}
refreshAccessToken(i) ==
  /\ Live(i) /\ Call
  /\ rotations' = rotations \cup {[id |-> tokenCalls + 1, pc |-> "revoke", token |-> i,
                                   at |-> epoch[refreshTokens[i].user]]}
  /\ doubled' = [doubled EXCEPT ![refreshTokens[i].family] = IF Using(i) = {} THEN @ ELSE @ + 1]
  /\ UNCHANGED <<refreshTokens, apiTokens, epoch>>
refreshToken(i) == refreshAccessToken(i)

\* A bug this module must not have: the old token stays in use.
revokeRefreshToken_kept(r) ==
  /\ r.pc = "revoke" /\ rotations' = (rotations \ {r}) \cup {[r EXCEPT !.pc = "create"]}
  /\ UNCHANGED <<refreshTokens, apiTokens, tokenCalls, epoch, doubled>>

\* ... revokes it, even if it has been revoked meanwhile ...
revokeRefreshToken(r) ==
  /\ r.pc = "revoke" /\ rotations' = (rotations \ {r}) \cup {[r EXCEPT !.pc = "create"]}
  /\ refreshTokens' = [refreshTokens EXCEPT ![r.token].revoked = TRUE]
  /\ UNCHANGED <<apiTokens, tokenCalls, epoch, doubled>>
\* ... and inserts its successor.  A token is late when a logout passed by.
Successor(r) ==
  /\ r.pc = "create" /\ rotations' = rotations \ {r}
  /\ LET old == refreshTokens[r.token]
     IN  generateRefreshToken(old.user, old.family, old.since, old.late \/ r.at # epoch[old.user])
  /\ UNCHANGED <<apiTokens, tokenCalls, epoch, doubled>>
\* An error between the two leaves the client without a token.
RotationFails(r) ==
  /\ rotations' = rotations \ {r}
  /\ UNCHANGED <<refreshTokens, apiTokens, tokenCalls, epoch, doubled>>

TokenExpires(i) ==
  /\ ~refreshTokens[i].expired /\ refreshTokens' = [refreshTokens EXCEPT ![i].expired = TRUE]
  /\ UNCHANGED <<apiTokens, rotations, tokenCalls, epoch, doubled>>

\* A bug this module must not have: a logout ends the caller's newest token only.
revokeAllUserRefreshTokens_newest(u) ==
  refreshTokens' = [i \in DOMAIN refreshTokens |->
     IF refreshTokens[i].user = u /\ \A j \in DOMAIN refreshTokens : refreshTokens[j].user = u => j <= i
     THEN [refreshTokens[i] EXCEPT !.revoked = TRUE] ELSE refreshTokens[i]]

revokeAllUserRefreshTokens(u) ==
  refreshTokens' = [i \in DOMAIN refreshTokens |->
     IF refreshTokens[i].user = u THEN [refreshTokens[i] EXCEPT !.revoked = TRUE] ELSE refreshTokens[i]]
logout(u) ==
  /\ Call /\ revokeAllUserRefreshTokens(u)
  /\ epoch' = [epoch EXCEPT ![u] = @ + 1]
  /\ UNCHANGED <<apiTokens, rotations, doubled>>

-----------------------------------------------------------------------------
\* ApiTokenService.
createApiToken(u) ==
  /\ NewApiId \in TokenIds /\ Call
  /\ apiTokens' = Add(apiTokens, NewApiId, ApiToken(u))
  /\ UNCHANGED <<refreshTokens, rotations, epoch, doubled>>
postApiToken(u) == createApiToken(u)
listUserApiTokens(u) == {i \in DOMAIN apiTokens : apiTokens[i].user = u}
revokeApiToken(i) ==
  /\ Call
  /\ apiTokens' = [apiTokens EXCEPT ![i].revoked = TRUE]
  /\ UNCHANGED <<refreshTokens, rotations, epoch, doubled>>
deleteApiToken(u, i) == i \in listUserApiTokens(u) /\ revokeApiToken(i)
ApiTokenExpires(i) ==
  /\ ~apiTokens[i].expired /\ apiTokens' = [apiTokens EXCEPT ![i].expired = TRUE]
  /\ UNCHANGED <<refreshTokens, rotations, tokenCalls, epoch, doubled>>

\* validateApiToken reads the tokens that are not revoked, then compares one
\* after the other; the answer is about the rows as they were read.
validateApiToken(i) ==
  /\ ~apiTokens[i].revoked /\ Call
  /\ rotations' = rotations \cup {[id |-> tokenCalls + 1, pc |-> "compare", token |-> i, at |-> 0]}
  /\ UNCHANGED <<refreshTokens, apiTokens, epoch, doubled>>
CompareHash(r) ==
  /\ r.pc = "compare" /\ rotations' = rotations \ {r}
  /\ apiTokens' = [apiTokens EXCEPT ![r.token].used = @ \/ ~apiTokens[r.token].expired]
  /\ UNCHANGED <<refreshTokens, tokenCalls, epoch, doubled>>

\* ApiTokenGuard.
ApiTokenGuard(i) == validateApiToken(i)

TokensNext ==
  \/ \E u \in TokenUsers : Login(u) \/ logout(u) \/ postApiToken(u) \/ \E i \in DOMAIN apiTokens : deleteApiToken(u, i)
  \/ \E i \in DOMAIN refreshTokens : refreshToken(i) \/ TokenExpires(i)
  \/ \E i \in DOMAIN apiTokens : ApiTokenGuard(i) \/ ApiTokenExpires(i)
  \/ \E r \in rotations : revokeRefreshToken(r) \/ Successor(r) \/ RotationFails(r) \/ CompareHash(r)

-----------------------------------------------------------------------------
\* Rotation: a login has one live refresh token at a time, and one more for
\* every use that began while another use of the same token had not revoked it.
RotationKeepsOne ==
  \A f \in TokenIds :
    Cardinality(LiveOf(f)) + Cardinality({r \in rotations : r.pc = "create" /\ refreshTokens[r.token].family = f})
      <= 1 + doubled[f]

\* A logout ends every session: a live refresh token stems from a later login,
\* or from a refresh that was in progress at the logout.
LogoutEnds ==
  \A i \in DOMAIN refreshTokens :
    Live(i) => refreshTokens[i].since = epoch[refreshTokens[i].user] \/ refreshTokens[i].late
=============================================================================
