--------------------------- MODULE ContractProofs ---------------------------
(***************************************************************************)
(* Proofs about the access-control list, the cross-chain contracts and the *)
(* multi-signature treasury, for every set of accounts, roles, messages,   *)
(* payments and limits.                                                    *)
(*                                                                         *)
(* The administrator keeps control because check_role begins with the role *)
(* itself (LineageBegins) and the first role is never moved (AclInv).      *)
(* Nothing is replayed because what is processed is the first message with *)
(* the id, and stays the first (RouterInv).  The treasury's limits hold    *)
(* because the two running sums are the sums over the executions of their  *)
(* windows (Tally), and no execution is dated after the window that is     *)
(* open.  Two records of one fact agree because each is kept as a list of  *)
(* ids in increasing order that lists a set (Lists), or as a total over    *)
(* the users (RecordsInv).                                                 *)
(***************************************************************************)
EXTENDS Contracts, FundProofs

-----------------------------------------------------------------------------
\* The roles above a role, as the recursion of check_role finds them.
Above(f, d) == IF Has(r_parent, f[d - 1]) THEN r_parent[f[d - 1]] ELSE ""
Climbs(f, role, n) == f = [d \in 0 .. n |-> IF d = 0 THEN role ELSE Above(f, d)]

LEMMA ClimbExists ==
  ASSUME NEW role, NEW n \in Nat
  PROVE  \E f : Climbs(f, role, n)
  <1> DEFINE T == {k \in Nat : ~\E f : Climbs(f, role, k)}
  <1>1. SUFFICES ASSUME T # {} PROVE FALSE
    OBVIOUS
  <1>2. PICK k \in T : \A m \in T : k <= m
    <2> T \subseteq Nat
      OBVIOUS
    <2> HIDE DEF T
    <2> QED
      BY <1>1, LeastNumber
  <1>3. k \in Nat /\ ~\E f : Climbs(f, role, k)
    BY <1>2
  <1>4. CASE k = 0
    <2> DEFINE f == [d \in 0 .. 0 |-> role]
    <2>1. Climbs(f, role, 0)
      BY DEF Climbs
    <2> QED
      BY <1>3, <1>4, <2>1
  <1>5. CASE k # 0
    <2>1. k - 1 \in Nat /\ ~(k <= k - 1)
      BY <1>3, <1>5
    <2>2. k - 1 \notin T
      BY <1>2, <2>1
    <2>3. PICK g : Climbs(g, role, k - 1)
      BY <2>1, <2>2
    <2> DEFINE f == [d \in 0 .. k |-> IF d = k THEN Above(g, k) ELSE g[d]]
    <2>4. \A d \in 0 .. k - 1 : f[d] = g[d] /\ g[d] = IF d = 0 THEN role ELSE Above(g, d)
      BY <1>3, <2>3 DEF Climbs
    <2>5. ASSUME NEW d \in 1 .. k PROVE f[d] = Above(f, d)
      <3>1. f[d - 1] = g[d - 1]
        BY <1>3, <2>4
      <3>2. f[d] = Above(g, d)
        <4>1. CASE d = k
          BY <1>3, <4>1
        <4>2. CASE d # k
          <5>1. d \in 0 .. k - 1 /\ d # 0
            BY <1>3, <4>2
          <5> HIDE DEF f
          <5> QED
            BY <2>4, <5>1
        <4> QED
          BY <4>1, <4>2
      <3> HIDE DEF f
      <3> QED
        BY <3>1, <3>2 DEF Above
    <2>6. f[0] = role
      <3>1. 0 \in 0 .. k - 1
        BY <2>1
      <3> HIDE DEF f
      <3> QED
        BY <2>4, <3>1
    <2>7. f = [d \in 0 .. k |-> f[d]]
      OBVIOUS
    <2>8. ASSUME NEW d \in 0 .. k PROVE f[d] = IF d = 0 THEN role ELSE Above(f, d)
      <3> HIDE DEF f
      <3> QED
        BY <1>3, <2>5, <2>6
    <2>9. Climbs(f, role, k)
      <3> HIDE DEF f
      <3> QED
        BY <2>7, <2>8 DEF Climbs
    <2> QED
      BY <1>3, <2>9
  <1> QED
    BY <1>4, <1>5

\* check_role begins with the role itself.
LEMMA LineageBegins ==
  ASSUME NEW role, MaxRoleDepth \in Nat
  PROVE  Lineage(role)[0] = role
  <1> DEFINE n == MaxRoleDepth + 1
  <1>1. n \in Nat
    OBVIOUS
  <1>2. \E f : Climbs(f, role, n)
    BY <1>1, ClimbExists
  <1>3. Lineage(role) = CHOOSE f : Climbs(f, role, n)
    BY DEF Lineage, Climbs, Above
  <1>4. Climbs(Lineage(role), role, n)
    BY <1>2, <1>3
  <1> QED
    BY <1>1, <1>4 DEF Climbs

-----------------------------------------------------------------------------
\* The administrator's first role is "admin", which keeps the permission, and
\* check_role asks a role itself before the roles above it.
AclConstants ==
  Admin \in AclUsers /\ "admin" \in Roles /\ "manage_acl" \in Permissions /\ MaxRoleDepth \in Nat
AclInv ==
  /\ u_roles \in [AclUsers -> Seq(Roles)] /\ r_perms \in [Roles -> SUBSET Permissions]
  /\ Len(u_roles[Admin]) > 0 /\ u_roles[Admin][1] = "admin"
  /\ "manage_acl" \in r_perms["admin"]

LEMMA AdminIsAsked ==
  ASSUME AclConstants, AclInv
  PROVE  AdminKeepsControl
  <1>1. Lineage("admin")[0] = "admin"
    BY LineageBegins DEF AclConstants
  <1>2. 0 \in 0 .. MaxRoleDepth
    BY DEF AclConstants
  <1>3. check_role("admin", "manage_acl") = "granted"
    <2> DEFINE up == Lineage("admin")
    <2>1. up[0] # "" /\ "manage_acl" \in r_perms[up[0]]
      BY <1>1 DEF AclInv
    <2> HIDE DEF up
    <2>2. \E d \in 0 .. MaxRoleDepth : up[d] # "" /\ "manage_acl" \in r_perms[up[d]]
      BY <1>2, <2>1
    <2> USE DEF up
    <2> QED
      BY <2>2, Zenon DEF check_role
  <1>4. 1 \in DOMAIN u_roles[Admin] /\ u_roles[Admin][1] = "admin"
    BY DEF AclInv, AclConstants
  <1>5. \A j \in 1 .. 1 - 1 : check_role(u_roles[Admin][j], "manage_acl") = "denied"
    OBVIOUS
  <1> QED
    BY <1>3, <1>4, <1>5, Zenon DEF AdminKeepsControl, has_permission

\* Appending does not move the first element.
LEMMA AppendKeepsFirst ==
  ASSUME NEW S, NEW q \in Seq(S), NEW x \in S, Len(q) > 0
  PROVE  Len(Append(q, x)) > 0 /\ Append(q, x)[1] = q[1]
  OBVIOUS

\* No sequence of role assignments, permission changes and changes of the
\* hierarchy, circles and lineages too deep included, locks the administrator
\* out of the access list.
THEOREM AdminNeverLockedOut ==
  ASSUME AclConstants
  PROVE  AclSpec => []AdminKeepsControl
  <1> USE DEF AclConstants
  <1>1. AclInit => AclInv
    BY DEF AclInit, AclInv
  <1>2. ASSUME AclInv, [AclNext]_<<now, aclVars>> PROVE AclInv'
    <2>0. /\ u_roles \in [AclUsers -> Seq(Roles)] /\ r_perms \in [Roles -> SUBSET Permissions]
          /\ Len(u_roles[Admin]) > 0 /\ u_roles[Admin][1] = "admin"
          /\ "manage_acl" \in r_perms["admin"]
      BY <1>2 DEF AclInv
    <2>1. ASSUME NEW a \in AclUsers, NEW u \in AclUsers, NEW r \in Roles, assign_role(a, u, r)
          PROVE  AclInv'
      <3>1. u_roles' = [u_roles EXCEPT ![u] = IF Contains(u_roles[u], r) THEN u_roles[u] ELSE Append(u_roles[u], r)]
        BY <2>1 DEF assign_role
      <3>2. r_perms' = r_perms
        BY <2>1 DEF assign_role
      <3>3. u_roles' \in [AclUsers -> Seq(Roles)]
        BY <2>0, <3>1
      <3>4. u_roles'[Admin] = u_roles[Admin] \/ u_roles'[Admin] = Append(u_roles[Admin], r)
        BY <2>0, <3>1
      <3>5. Len(u_roles'[Admin]) > 0 /\ u_roles'[Admin][1] = "admin"
        <4>1. u_roles[Admin] \in Seq(Roles)
          BY <2>0
        <4>2. LET q == Append(u_roles[Admin], r) IN Len(q) > 0 /\ q[1] = u_roles[Admin][1]
          BY <2>0, <4>1, AppendKeepsFirst
        <4>3. CASE u_roles'[Admin] = u_roles[Admin]
          BY <2>0, <4>3
        <4>4. CASE u_roles'[Admin] = Append(u_roles[Admin], r)
          BY <2>0, <4>2, <4>4
        <4> QED
          BY <3>4, <4>3, <4>4
      <3> QED
        BY <2>0, <3>2, <3>3, <3>5 DEF AclInv
    <2>2. ASSUME NEW a \in AclUsers, NEW r \in Roles, NEW p \in SUBSET Permissions,
                 assign_permissions_batch(a, r, p)
          PROVE  AclInv'
      BY <2>0, <2>2 DEF assign_permissions_batch, AclInv
    <2>3. ASSUME NEW a \in AclUsers, NEW c \in Roles, NEW p \in Roles, set_role_parent(a, c, p)
          PROVE  AclInv'
      BY <2>0, <2>3 DEF set_role_parent, AclInv
    <2>4. CASE UNCHANGED <<now, aclVars>>
      BY <2>0, <2>4 DEF aclVars, AclInv
    <2> QED
      BY <1>2, <2>1, <2>2, <2>3, <2>4 DEF AclNext
  <1>3. AclInv => AdminKeepsControl
    BY AdminIsAsked
  <1> QED
    BY <1>1, <1>2, <1>3, PTL DEF AclSpec

-----------------------------------------------------------------------------
\* The first message with an id is what verify_message looks at, however many
\* messages share the id: a processed id is one whose first message is marked.
IsFirst(k, id) ==
  k \in DOMAIN messages /\ messages[k].id = id /\ \A j \in 1 .. k - 1 : ~(messages[j].id = id)
Known(id) == \E i \in DOMAIN messages : messages[i].id = id
First(id) == CHOOSE k \in DOMAIN messages : messages[k].id = id /\ \A j \in 1 .. k - 1 : ~(messages[j].id = id)
Processed(id) == \E k \in DOMAIN messages : IsFirst(k, id) /\ messages[k].processed
MessageShape(m) == DOMAIN m = {"id", "sender", "nonce", "status", "processed"}
IsList(q) == \E S : q \in Seq(S)

RouterInv ==
  /\ IsList(messages) /\ IsList(verified)
  /\ \A i \in DOMAIN messages : MessageShape(messages[i])
  /\ \A i \in DOMAIN verified : Processed(verified[i])
  /\ IsInjective(verified)
BridgeInv ==
  /\ IsList(released)
  /\ \A i \in DOMAIN released : released[i] \in usedNonces
  /\ IsInjective(released)

LEMMA ListDomain ==
  ASSUME NEW q, IsList(q)
  PROVE  DOMAIN q = 1 .. Len(q) /\ Len(q) \in Nat
  BY DEF IsList

LEMMA ListAppend ==
  ASSUME NEW q, IsList(q), NEW x
  PROVE  /\ IsList(Append(q, x)) /\ DOMAIN Append(q, x) = 1 .. Len(q) + 1
         /\ \A i \in DOMAIN q : Append(q, x)[i] = q[i]
         /\ Append(q, x)[Len(q) + 1] = x
  <1>1. PICK S : q \in Seq(S)
    BY DEF IsList
  <1>2. q \in Seq(S \cup {x}) /\ x \in S \cup {x}
    BY <1>1
  <1>3. Append(q, x) \in Seq(S \cup {x})
    BY <1>2
  <1> QED
    BY <1>1, <1>2, <1>3 DEF IsList

\* What is new to an injective list may be appended to it.
LEMMA FreshAppend ==
  ASSUME NEW q, IsList(q), IsInjective(q), NEW x, \A i \in DOMAIN q : q[i] # x,
         NEW r, r = Append(q, x)
  PROVE  IsInjective(r)
  <1>1. /\ DOMAIN q = 1 .. Len(q) /\ Len(q) \in Nat /\ DOMAIN r = 1 .. Len(q) + 1
        /\ \A i \in DOMAIN q : r[i] = q[i]
        /\ r[Len(q) + 1] = x
    BY ListDomain, ListAppend
  <1>2. ASSUME NEW a \in DOMAIN r, NEW b \in DOMAIN r, r[a] = r[b] PROVE a = b
    <2>1. /\ a \in DOMAIN q \/ a = Len(q) + 1
          /\ b \in DOMAIN q \/ b = Len(q) + 1
      BY <1>1
    <2>2. CASE a \in DOMAIN q /\ b \in DOMAIN q
      BY <1>1, <1>2, <2>2 DEF IsInjective
    <2>3. CASE ~(a \in DOMAIN q /\ b \in DOMAIN q)
      BY <1>1, <1>2, <2>1, <2>3
    <2> QED
      BY <2>2, <2>3
  <1> QED
    BY <1>2 DEF IsInjective

\* A known id has one first message.
LEMMA FirstFound ==
  ASSUME NEW id, IsList(messages), Known(id)
  PROVE  IsFirst(First(id), id)
  <1> DEFINE T == {i \in DOMAIN messages : messages[i].id = id}
  <1>1. DOMAIN messages = 1 .. Len(messages) /\ Len(messages) \in Nat
    BY ListDomain
  <1>2. T \subseteq Nat /\ T # {}
    BY <1>1 DEF Known
  <1>3. PICK k \in T : \A m \in T : k <= m
    <2> HIDE DEF T
    <2> QED
      BY <1>2, LeastNumber
  <1>4. ASSUME NEW j \in 1 .. k - 1 PROVE ~(messages[j].id = id)
    <2>1. k \in Nat /\ k <= Len(messages) /\ j \in DOMAIN messages /\ ~(k <= j)
      BY <1>1, <1>2, <1>3
    <2> QED
      BY <1>3, <2>1
  <1>5. \E n \in DOMAIN messages : messages[n].id = id /\ \A j \in 1 .. n - 1 : ~(messages[j].id = id)
    BY <1>3, <1>4
  <1> QED
    BY <1>5 DEF First, IsFirst

LEMMA FirstUnique ==
  ASSUME NEW id, IsList(messages), NEW i, NEW k, IsFirst(i, id), IsFirst(k, id)
  PROVE  i = k
  <1>1. DOMAIN messages = 1 .. Len(messages) /\ Len(messages) \in Nat
    BY ListDomain
  <1>2. i \in Nat /\ k \in Nat /\ i >= 1 /\ k >= 1
    BY <1>1 DEF IsFirst
  <1>3. ~(i < k) /\ ~(k < i)
    BY <1>2 DEF IsFirst
  <1> QED
    BY <1>2, <1>3

\* Messages that keep their ids keep their first messages.
LEMMA FirstStays ==
  ASSUME NEW id, NEW k, IsFirst(k, id), IsList(messages), DOMAIN messages \subseteq DOMAIN messages',
         \A i \in DOMAIN messages : messages'[i].id = messages[i].id
  PROVE  IsFirst(k, id)'
  <1>1. DOMAIN messages = 1 .. Len(messages) /\ Len(messages) \in Nat
    BY ListDomain
  <1>2. k \in 1 .. Len(messages) /\ \A j \in 1 .. k - 1 : ~(messages[j].id = id)
    BY <1>1 DEF IsFirst
  <1>3. ASSUME NEW j \in 1 .. k - 1 PROVE ~(messages'[j].id = id)
    <2>1. j \in DOMAIN messages
      BY <1>1, <1>2
    <2> QED
      BY <1>2, <2>1
  <1> QED
    BY <1>3 DEF IsFirst

LEMMA InitiateStep ==
  ASSUME RouterInv, NEW u, NEW p, initiate_message(u, p)
  PROVE  RouterInv'
  <1> DEFINE m == [id |-> p, sender |-> u, nonce |-> now, status |-> 0, processed |-> FALSE]
  <1>1. messages' = Append(messages, m) /\ verified' = verified
    BY DEF initiate_message
  <1>2. MessageShape(m)
    BY DEF MessageShape
  <1> HIDE DEF m
  <1>3. IsList(messages) /\ DOMAIN messages = 1 .. Len(messages) /\ Len(messages) \in Nat
    BY ListDomain DEF RouterInv
  <1>4. /\ IsList(messages') /\ DOMAIN messages' = 1 .. Len(messages) + 1
        /\ \A i \in DOMAIN messages : messages'[i] = messages[i]
        /\ messages'[Len(messages) + 1] = m
    BY <1>1, <1>3, ListAppend
  <1>5. DOMAIN messages \subseteq DOMAIN messages'
    BY <1>3, <1>4
  <1>6. ASSUME NEW i \in DOMAIN messages' PROVE MessageShape(messages'[i])
    <2>1. i \in DOMAIN messages \/ i = Len(messages) + 1
      BY <1>3, <1>4
    <2> QED
      BY <1>2, <1>4, <2>1 DEF RouterInv
  <1>7. ASSUME NEW i \in DOMAIN verified' PROVE Processed(verified[i])'
    <2>1. i \in DOMAIN verified
      BY <1>1
    <2>2. PICK k \in DOMAIN messages : IsFirst(k, verified[i]) /\ messages[k].processed
      BY <2>1 DEF RouterInv, Processed
    <2> DEFINE id == verified[i]
    <2>3. IsFirst(k, id)'
      <3>1. IsFirst(k, id) /\ id' = id
        BY <1>1, <2>2
      <3> HIDE DEF id
      <3> QED
        BY <1>3, <1>4, <1>5, <3>1, FirstStays
    <2>4. k \in DOMAIN messages' /\ messages'[k].processed
      BY <1>4, <1>5, <2>2
    <2> QED
      BY <2>3, <2>4 DEF Processed
  <1>8. IsList(verified)' /\ IsInjective(verified)'
    BY <1>1 DEF RouterInv
  <1> QED
    BY <1>4, <1>6, <1>7, <1>8 DEF RouterInv

\* Marking a message as processed changes nothing else of it.
LEMMA Marked ==
  ASSUME NEW o, MessageShape(o)
  PROVE  LET m == [o EXCEPT !.status = 2, !.processed = TRUE]
         IN  m.id = o.id /\ m.processed = TRUE /\ MessageShape(m)
  <1> DEFINE x == [o EXCEPT !.status = 2]
             m == [x EXCEPT !.processed = TRUE]
  <1>1. DOMAIN x = DOMAIN o /\ x.id = o.id
    BY DEF MessageShape
  <1>2. [o EXCEPT !.status = 2, !.processed = TRUE] = m
    OBVIOUS
  <1> HIDE DEF x
  <1>3. DOMAIN m = DOMAIN x /\ m.id = x.id /\ m.processed = TRUE
    BY <1>1 DEF MessageShape
  <1> QED
    BY <1>1, <1>2, <1>3 DEF MessageShape

LEMMA VerifyStep ==
  ASSUME RouterInv, NEW id, NEW proof, verify_message(id, proof)
  PROVE  RouterInv'
  <1>1. /\ Known(id) => ~messages[First(id)].processed
        /\ messages' = IF Known(id)
             THEN [messages EXCEPT ![First(id)] = [@ EXCEPT !.status = 2, !.processed = TRUE]] ELSE messages
        /\ verified' = IF Known(id) THEN Append(verified, id) ELSE verified
    BY DEF verify_message, FirstIndex, Known, First
  <1>2. CASE ~Known(id)
    <2>1. messages' = messages /\ verified' = verified
      BY <1>1, <1>2
    <2> QED
      BY <2>1 DEF RouterInv, Processed, IsFirst
  <1>3. CASE Known(id)
    <2>0. /\ IsList(messages) /\ IsList(verified)
          /\ \A i \in DOMAIN messages : MessageShape(messages[i])
      BY DEF RouterInv
    <2>1. PICK at : at = First(id) /\ IsFirst(at, id)
      BY <1>3, <2>0, FirstFound
    <2>2. at \in DOMAIN messages /\ ~messages[at].processed
      BY <1>1, <1>3, <2>1 DEF IsFirst
    <2>3. messages' = [messages EXCEPT ![at] = [@ EXCEPT !.status = 2, !.processed = TRUE]]
      BY <1>1, <1>3, <2>1
    <2>4. verified' = Append(verified, id)
      BY <1>1, <1>3
    <2>5. PICK m : /\ m = [messages[at] EXCEPT !.status = 2, !.processed = TRUE]
                   /\ m.id = messages[at].id /\ m.processed = TRUE /\ MessageShape(m)
      BY <2>0, <2>2, Marked
    <2>6. messages' = [messages EXCEPT ![at] = m]
      BY <2>3, <2>5
    <2>7. /\ DOMAIN messages' = DOMAIN messages /\ messages'[at] = m
          /\ \A i \in DOMAIN messages : i # at => messages'[i] = messages[i]
      BY <2>2, <2>6
    <2>8. m.id = messages[at].id /\ m.processed = TRUE /\ MessageShape(m)
      BY <2>5
    <2>9. \A i \in DOMAIN messages : messages'[i].id = messages[i].id
      BY <2>7, <2>8
    <2>10. \A i \in DOMAIN messages' : MessageShape(messages'[i])
      BY <2>0, <2>7, <2>8
    <2>11. IsList(messages')
      <3>1. PICK S : messages \in Seq(S)
        BY <2>0 DEF IsList
      <3>2. messages' \in Seq(S \cup {m})
        <4>1. messages \in Seq(S \cup {m})
          BY <3>1
        <4> QED
          BY <2>2, <2>6, <4>1
      <3> QED
        BY <3>2 DEF IsList
    <2>12. ASSUME NEW i \in DOMAIN verified PROVE verified[i] # id
      <3>1. PICK k \in DOMAIN messages : IsFirst(k, verified[i]) /\ messages[k].processed
        BY DEF RouterInv, Processed
      <3>2. SUFFICES ASSUME verified[i] = id PROVE FALSE
        OBVIOUS
      <3>3. k = at
        BY <2>0, <2>1, <3>1, <3>2, FirstUnique
      <3> QED
        BY <2>2, <3>1, <3>3
    <2>13. IsInjective(verified')
      BY <2>0, <2>4, <2>12, FreshAppend DEF RouterInv
    <2>14. /\ IsList(verified') /\ DOMAIN verified' = 1 .. Len(verified) + 1
           /\ DOMAIN verified = 1 .. Len(verified) /\ Len(verified) \in Nat
           /\ \A i \in DOMAIN verified : verified'[i] = verified[i]
           /\ verified'[Len(verified) + 1] = id
      BY <2>0, <2>4, ListAppend, ListDomain
    <2>15. ASSUME NEW x, NEW k, IsFirst(k, x) PROVE IsFirst(k, x)'
      BY <2>0, <2>7, <2>9, <2>15, FirstStays
    <2>16. ASSUME NEW i \in DOMAIN verified' PROVE Processed(verified[i])'
      <3>1. CASE i \in DOMAIN verified
        <4>1. PICK x : x = verified[i]
          OBVIOUS
        <4>2. PICK k \in DOMAIN messages : IsFirst(k, x) /\ messages[k].processed
          BY <3>1, <4>1 DEF RouterInv, Processed
        <4>3. IsFirst(k, x)' /\ k \in DOMAIN messages' /\ messages'[k].processed
          BY <2>7, <2>8, <2>15, <4>2
        <4>4. verified'[i] = x
          BY <2>14, <3>1, <4>1
        <4> QED
          BY <4>3, <4>4 DEF Processed, IsFirst
      <3>2. CASE i = Len(verified) + 1
        <4>1. IsFirst(at, id)' /\ at \in DOMAIN messages' /\ messages'[at].processed
          BY <2>1, <2>2, <2>7, <2>8, <2>15
        <4>2. verified'[i] = id
          BY <2>14, <3>2
        <4> QED
          BY <4>1, <4>2 DEF Processed, IsFirst
      <3> QED
        BY <2>14, <3>1, <3>2
    <2> QED
      BY <2>10, <2>11, <2>13, <2>14, <2>16 DEF RouterInv
  <1> QED
    BY <1>2, <1>3

\* No message id is processed twice and no nonce of a chain releases twice,
\* for any number of messages, shared ids, repeated proofs and changes of the
\* validators, the limits and the light client.
THEOREM NothingReplayed == CrossChainSpec => []NoReplay
  <1>1. CrossChainInit => RouterInv /\ BridgeInv
    <2>1. IsList(<<>>) /\ DOMAIN <<>> = {}
      BY <<>> \in Seq({}) DEF IsList
    <2> QED
      BY <2>1 DEF CrossChainInit, RouterInv, BridgeInv, IsInjective
  <1>2. ASSUME RouterInv, BridgeInv, [RouterNext \/ BridgeNext]_<<now, crossChainVars>>
        PROVE  RouterInv' /\ BridgeInv'
    <2>1. ASSUME UNCHANGED <<messages, verified>> PROVE RouterInv'
      BY <1>2, <2>1 DEF RouterInv, Processed, IsFirst
    <2>2. ASSUME UNCHANGED <<usedNonces, released>> PROVE BridgeInv'
      BY <1>2, <2>2 DEF BridgeInv
    <2>3. ASSUME NEW u \in Users, NEW p \in Payloads, initiate_message(u, p) PROVE RouterInv' /\ BridgeInv'
      <3>1. UNCHANGED <<usedNonces, released>>
        BY <2>3 DEF initiate_message, bridgeVars
      <3> QED
        BY <1>2, <2>2, <2>3, <3>1, InitiateStep
    <2>4. ASSUME NEW p \in Payloads, NEW proof \in Proofs, verify_message(p, proof) PROVE RouterInv' /\ BridgeInv'
      <3>1. UNCHANGED <<usedNonces, released>>
        BY <2>4 DEF verify_message, bridgeVars
      <3> QED
        BY <1>2, <2>2, <2>4, <3>1, VerifyStep
    <2>5. ASSUME NEW u \in Users, NEW c \in Chains, NEW n \in BridgeNonces, NEW k \in SignatureCounts,
                 withdraw(u, c, n, k)
          PROVE  RouterInv' /\ BridgeInv'
      <3>0. PICK x : x = <<c, n>>
        OBVIOUS
      <3>1. /\ x \notin usedNonces /\ usedNonces' = usedNonces \cup {x} /\ released' = Append(released, x)
            /\ UNCHANGED <<messages, verified>>
        BY <2>5, <3>0 DEF withdraw, routerVars
      <3>2. IsList(released) /\ \A i \in DOMAIN released : released[i] # x
        BY <1>2, <3>1 DEF BridgeInv
      <3>3. IsInjective(released')
        BY <1>2, <3>1, <3>2, FreshAppend DEF BridgeInv
      <3>4. /\ IsList(released') /\ DOMAIN released' = 1 .. Len(released) + 1
            /\ DOMAIN released = 1 .. Len(released) /\ Len(released) \in Nat
            /\ \A i \in DOMAIN released : released'[i] = released[i]
            /\ released'[Len(released) + 1] = x
        BY <3>1, <3>2, ListAppend, ListDomain
      <3>5. ASSUME NEW i \in DOMAIN released' PROVE released'[i] \in usedNonces'
        <4>1. i \in DOMAIN released \/ i = Len(released) + 1
          BY <3>4
        <4> QED
          BY <1>2, <3>1, <3>4, <4>1 DEF BridgeInv
      <3> QED
        BY <2>1, <3>1, <3>3, <3>4, <3>5 DEF BridgeInv
    <2>6. CASE \/ \E root \in Proofs : update_light_client(root)
               \/ \E u \in Users, a \in StakedAmounts : register_validator(u, a)
               \/ \E u \in Users, p \in SlashPercentages : slash_validator(u, p)
      <3>1. UNCHANGED <<messages, verified, usedNonces, released>>
        BY <2>6 DEF update_light_client, register_validator, slash_validator, bridgeVars
      <3> QED
        BY <2>1, <2>2, <3>1
    <2>7. CASE \/ \E a \in Assets, n \in BridgeAmounts : deposit(a, n)
               \/ \E u \in Users : add_validator(u) \/ remove_validator(u)
               \/ \E a \in Assets, l \in BridgeLimits : set_rate_limit(a, l)
               \/ \E p \in BOOLEAN : set_paused(p)
               \/ UNCHANGED crossChainVars
      <3>1. UNCHANGED <<messages, verified, usedNonces, released>>
        BY <2>7 DEF deposit, add_validator, remove_validator, set_rate_limit, set_paused, routerVars,
                    crossChainVars
      <3> QED
        BY <2>1, <2>2, <3>1
    <2> QED
      BY <1>2, <2>3, <2>4, <2>5, <2>6, <2>7 DEF RouterNext, BridgeNext
  <1>3. RouterInv /\ BridgeInv => NoReplay
    BY DEF RouterInv, BridgeInv, NoReplay
  <1> QED
    BY <1>1, <1>2, <1>3, PTL DEF CrossChainSpec

-----------------------------------------------------------------------------
Spent(sp, S) == SumOver(S, LAMBDA j : sp[j].value)
Values(sp) == [j \in DOMAIN sp |-> sp[j].value]

\* What was spent by some of the executions is a sum of their values.
LEMMA SpentIsTotal ==
  ASSUME NEW sp, NEW S, IsFiniteSet(S), S \subseteq DOMAIN sp
  PROVE  Spent(sp, S) = Total(Values(sp), S)
  <1> DEFINE Step(f) == [s \in SUBSET S |-> IF s = {} THEN 0 ELSE sp[Taken(s)].value + f[s \ {Taken(s)}]]
             g == CHOOSE f : f = Step(f)
  <1>1. Spent(sp, S) = g[S]
    BY DEF Spent, SumOver, MapThenSumSet, MapThenFoldSet, Taken
  <1>2. ASSUME NEW f PROVE Step(f) = [s \in SUBSET S |-> IF s = {} THEN 0 ELSE Values(sp)[Taken(s)] + f[s \ {Taken(s)}]]
    <2>1. ASSUME NEW s \in SUBSET S, s # {} PROVE sp[Taken(s)].value = Values(sp)[Taken(s)]
      <3>1. Taken(s) \in DOMAIN sp
        BY <2>1, TakenIsMember
      <3> QED
        BY <3>1 DEF Values
    <2> QED
      BY <2>1
  <1>3. PICK h : Sums(h, Values(sp), S) /\ Total(Values(sp), S) = h[S]
    BY TotalIsSum
  <1>4. h = Step(h)
    BY <1>2, <1>3 DEF Sums
  <1> HIDE DEF Step
  <1>5. g = Step(g)
    BY <1>4
  <1> HIDE DEF g
  <1>6. Sums(g, Values(sp), S)
    BY <1>2, <1>5 DEF Sums
  <1>7. g[S] = h[S]
    BY <1>3, <1>6, SumsAgree
  <1> QED
    BY <1>1, <1>3, <1>7

UpTo(sp, f, k) == Spent(sp, {j \in 1 .. k : sp[j][f] = sp[k][f]})
Tally(sp, f, start, spent) ==
  /\ start \in Nat
  /\ \A k \in DOMAIN sp : sp[k][f] \in Nat /\ sp[k][f] <= start
  /\ spent = Spent(sp, {k \in DOMAIN sp : sp[k][f] = start})
NaturalValues(sp) == \A k \in DOMAIN sp : sp[k].value \in Nat

OneMore(sp, e, sp2) == IsList(sp) /\ NaturalValues(sp) /\ e.value \in Nat /\ sp2 = Append(sp, e)

SpentGrows(sp, e, sp2, S) ==
  /\ Spent(sp, S) \in Nat
  /\ Spent(sp2, S) = Spent(sp, S)
  /\ Spent(sp2, S \cup {Len(sp) + 1}) = Spent(sp, S) + e.value

LEMMA SpentHere ==
  ASSUME NEW field, NEW k
  PROVE  /\ SpentIn(field, k) = UpTo(spending, field, k)
         /\ SpentIn(field, k)' = UpTo(spending', field, k)
  BY DEF SpentIn, UpTo, Spent, SumOver, MapThenSumSet, MapThenFoldSet

\* One more execution leaves the sums of the earlier ones alone and adds its
\* value to those it is part of.
LEMMA SpentOneMore ==
  ASSUME NEW sp, NEW e, NEW sp2, OneMore(sp, e, sp2), NEW S \in SUBSET DOMAIN sp
  PROVE  SpentGrows(sp, e, sp2, S)
  <1> DEFINE n == Len(sp) + 1
  <1>1. /\ DOMAIN sp = 1 .. Len(sp) /\ Len(sp) \in Nat /\ DOMAIN sp2 = 1 .. n
        /\ \A i \in DOMAIN sp : sp2[i] = sp[i]
        /\ sp2[n] = e
    BY ListDomain, ListAppend DEF OneMore
  <1>2. IsFiniteSet(S) /\ n \notin S
    <2>1. IsFiniteSet(1 .. Len(sp))
      BY <1>1, FS_Interval
    <2>2. IsFiniteSet(S)
      BY <1>1, <2>1, FS_Subset
    <2>3. n \notin 1 .. Len(sp)
      BY <1>1
    <2> QED
      BY <1>1, <2>2, <2>3
  <1>3. IsFiniteSet(S \cup {n}) /\ S \subseteq DOMAIN sp2 /\ S \cup {n} \subseteq DOMAIN sp2
    BY <1>1, <1>2, FS_AddElement
  <1> HIDE DEF n
  <1>4. PICK F, G : F = Values(sp) /\ G = Values(sp2)
    OBVIOUS
  <1>5. /\ \A i \in S : F[i] = G[i] /\ F[i] \in Nat
        /\ G[n] = e.value /\ e.value \in Nat
    BY <1>1, <1>3, <1>4 DEF Values, NaturalValues, OneMore
  <1>6. Spent(sp, S) = Total(F, S) /\ Spent(sp2, S) = Total(G, S) /\ Spent(sp2, S \cup {n}) = Total(G, S \cup {n})
    BY <1>2, <1>3, <1>4, SpentIsTotal
  <1>7. Total(F, S) = Total(G, S)
    BY <1>2, <1>5, TotalAgrees
  <1>8. Total(F, S) \in Nat
    BY <1>2, <1>5, TotalNatural
  <1>9. Total(G, S \cup {n}) = Total(G, S) + G[n]
    <2>1. \A i \in S \cup {n} : G[i] \in Int
      BY <1>5
    <2> QED
      BY <1>2, <2>1, TotalAdd
  <1> QED
    BY <1>5, <1>6, <1>7, <1>8, <1>9 DEF n, SpentGrows

\* The running sum of a window is the sum over its executions.
LEMMA TallyStep ==
  ASSUME NEW sp, NEW e, NEW sp2, OneMore(sp, e, sp2), NEW f, NEW start, NEW spent,
         Tally(sp, f, start, spent), NEW D \in Nat, start <= D, e[f] = D,
         NEW total, total = (IF start # D THEN 0 ELSE spent) + e.value
  PROVE  /\ Tally(sp2, f, D, total)
         /\ UpTo(sp2, f, Len(sp) + 1) = total
         /\ \A k \in DOMAIN sp : UpTo(sp2, f, k) = UpTo(sp, f, k)
  <1>0. PICK n : n = Len(sp) + 1
    OBVIOUS
  <1>1. /\ DOMAIN sp = 1 .. Len(sp) /\ Len(sp) \in Nat /\ DOMAIN sp2 = 1 .. n
        /\ \A i \in DOMAIN sp : sp2[i] = sp[i]
        /\ sp2[n] = e
    BY <1>0, ListDomain, ListAppend DEF OneMore
  <1>2. start \in Nat /\ (\A k \in DOMAIN sp : sp[k][f] \in Nat /\ sp[k][f] <= start)
    BY DEF Tally
  <1>3. ASSUME NEW k \in DOMAIN sp PROVE UpTo(sp2, f, k) = UpTo(sp, f, k)
    <2>1. PICK S : S = {j \in 1 .. k : sp[j][f] = sp[k][f]}
      OBVIOUS
    <2>2. S \in SUBSET DOMAIN sp
      BY <1>1, <2>1
    <2>3. {j \in 1 .. k : sp2[j][f] = sp2[k][f]} = S
      BY <1>1, <2>1
    <2>4. SpentGrows(sp, e, sp2, S)
      BY <2>2, SpentOneMore
    <2>5. Spent(sp2, S) = Spent(sp, S)
      BY <2>4, Zenon DEF SpentGrows
    <2> QED
      BY <2>1, <2>3, <2>5 DEF UpTo
  <1>4. PICK S : S = {k \in DOMAIN sp : sp[k][f] = D}
    OBVIOUS
  <1>5. S \in SUBSET DOMAIN sp
    BY <1>4
  <1>6. Spent(sp, S) = IF start # D THEN 0 ELSE spent
    <2>1. CASE start = D
      BY <1>4, <2>1 DEF Tally
    <2>2. CASE start # D
      <3>1. S = {}
        BY <1>2, <1>4, <2>2
      <3>2. Spent(sp, S) = Total(Values(sp), {})
        BY <1>5, <3>1, SpentIsTotal, FS_EmptySet
      <3> QED
        BY <2>2, <3>2, TotalEmpty
    <2> QED
      BY <2>1, <2>2
  <1>7. Spent(sp2, S \cup {n}) = total
    BY <1>0, <1>5, <1>6, SpentOneMore DEF SpentGrows
  <1>8. {k \in DOMAIN sp2 : sp2[k][f] = D} = S \cup {n}
    BY <1>0, <1>1, <1>4
  <1>9. {j \in 1 .. n : sp2[j][f] = sp2[n][f]} = S \cup {n}
    BY <1>0, <1>1, <1>4
  <1>10. \A k \in DOMAIN sp2 : sp2[k][f] \in Nat /\ sp2[k][f] <= D
    BY <1>0, <1>1, <1>2
  <1>11. Tally(sp2, f, D, total)
    BY <1>7, <1>8, <1>10 DEF Tally
  <1>12. UpTo(sp2, f, n) = total
    BY <1>7, <1>9 DEF UpTo
  <1> QED
    BY <1>0, <1>3, <1>11, <1>12

LEMMA LaterPeriod ==
  ASSUME NEW n \in Nat, NEW d \in Nat \ {0}
  PROVE  n \div d \in Nat /\ n \div d <= (n + 1) \div d
  OBVIOUS

-----------------------------------------------------------------------------
\* Values are uint256, and a day and a week last.
TreasuryConstants ==
  /\ IsFiniteSet(Owners) /\ \A p \in Payments : p.value \in Nat
  /\ DayLength \in Nat \ {0} /\ WeekLength \in Nat \ {0}

Confirmers(i) == {o \in Owners : <<i, o>> \in isConfirmed}
TxShape(t) == DOMAIN t = {"payment", "executed", "numConfirmations"} /\ t.payment \in Payments
Books ==
  /\ IsList(transactions) /\ \A i \in DOMAIN transactions : TxShape(transactions[i])
  /\ isConfirmed \subseteq (DOMAIN transactions) \X Owners
Executions ==
  /\ IsList(spending) /\ NaturalValues(spending)
  /\ \A k \in DOMAIN spending :
       spending[k].index \in DOMAIN transactions /\ transactions[spending[k].index].executed
  /\ \A j, k \in DOMAIN spending : spending[j].index = spending[k].index => j = k
Windows ==
  /\ now \in Nat
  /\ Tally(spending, "day", windows.dayWindowStart, windows.daySpent) /\ windows.dayWindowStart <= Day
  /\ Tally(spending, "week", windows.weekWindowStart, windows.weekSpent) /\ windows.weekWindowStart <= Week
LimitsKept ==
  \A k \in DOMAIN spending :
    /\ WithinLimit(spending[k].limits.dailyLimit, UpTo(spending, "day", k))
    /\ WithinLimit(spending[k].limits.weeklyLimit, UpTo(spending, "week", k))
TreasuryInv == Books /\ ConfirmationsCounted /\ Executions /\ Windows /\ LimitsKept

\* Changing one field of a transaction.
LEMMA TxCounted ==
  ASSUME NEW t, TxShape(t), NEW n
  PROVE  LET x == [t EXCEPT !.numConfirmations = n]
         IN  TxShape(x) /\ x.payment = t.payment /\ x.executed = t.executed /\ x.numConfirmations = n
  BY DEF TxShape

LEMMA TxExecuted ==
  ASSUME NEW t, TxShape(t)
  PROVE  LET x == [t EXCEPT !.executed = TRUE]
         IN  TxShape(x) /\ x.payment = t.payment /\ x.executed = TRUE
             /\ x.numConfirmations = t.numConfirmations
  BY DEF TxShape

\* What depends on the executions alone stays with them.
LEMMA NoExecution ==
  ASSUME TreasuryInv, UNCHANGED <<now, spending, windows>>, Books', ConfirmationsCounted',
         \A i \in DOMAIN transactions :
           i \in DOMAIN transactions' /\ (transactions[i].executed => transactions'[i].executed)
  PROVE  TreasuryInv'
  <1>1. Executions'
    BY DEF TreasuryInv, Executions
  <1>2. Windows'
    BY DEF TreasuryInv, Windows, Day, Week
  <1>3. LimitsKept'
    BY DEF TreasuryInv, LimitsKept
  <1> QED
    BY <1>1, <1>2, <1>3 DEF TreasuryInv

\* A vote of one owner changes one count by one.
LEMMA VoteSteps ==
  ASSUME TreasuryConstants, TreasuryInv, NEW u, NEW i \in DOMAIN transactions,
         confirmTransaction(u, i) \/ revokeConfirmation(u, i)
  PROVE  TreasuryInv'
  <1>0. /\ IsList(transactions) /\ (\A j \in DOMAIN transactions : TxShape(transactions[j]))
        /\ isConfirmed \subseteq (DOMAIN transactions) \X Owners
        /\ IsFiniteSet(Owners)
    BY DEF TreasuryInv, Books, TreasuryConstants
  <1>1. u \in Owners /\ UNCHANGED <<now, spending, windows>>
    BY DEF confirmTransaction, revokeConfirmation, Votable
  <1>2. ASSUME NEW j \in DOMAIN transactions
        PROVE  /\ IsFiniteSet(Confirmers(j)) /\ Cardinality(Confirmers(j)) \in Nat
               /\ transactions[j].numConfirmations = Cardinality(Confirmers(j))
    <2>1. IsFiniteSet(Confirmers(j))
      BY <1>0, FS_Subset DEF Confirmers
    <2> QED
      BY <2>1, FS_CardinalityType DEF TreasuryInv, ConfirmationsCounted, Confirmers
  <1>3. PICK n : /\ transactions' = [transactions EXCEPT ![i].numConfirmations = n]
                 /\ n = Cardinality(Confirmers(i)')
                 /\ isConfirmed' \subseteq (DOMAIN transactions) \X Owners
                 /\ \A j \in DOMAIN transactions : j # i => Confirmers(j)' = Confirmers(j)
    <2>1. CASE confirmTransaction(u, i)
      <3>1. /\ <<i, u>> \notin isConfirmed /\ isConfirmed' = isConfirmed \cup {<<i, u>>}
            /\ transactions' = [transactions EXCEPT ![i].numConfirmations = transactions[i].numConfirmations + 1]
        BY <2>1 DEF confirmTransaction
      <3>2. u \notin Confirmers(i) /\ Confirmers(i)' = Confirmers(i) \cup {u}
        BY <1>1, <3>1 DEF Confirmers
      <3>3. Cardinality(Confirmers(i)') = Cardinality(Confirmers(i)) + 1
        BY <1>2, <3>2, FS_AddElement
      <3>4. transactions[i].numConfirmations + 1 = Cardinality(Confirmers(i)')
        BY <1>2, <3>3
      <3>5. isConfirmed' \subseteq (DOMAIN transactions) \X Owners
        BY <1>0, <1>1, <3>1
      <3>6. \A j \in DOMAIN transactions : j # i => Confirmers(j)' = Confirmers(j)
        BY <3>1 DEF Confirmers
      <3> QED
        BY <3>1, <3>4, <3>5, <3>6
    <2>2. CASE revokeConfirmation(u, i)
      <3>1. /\ <<i, u>> \in isConfirmed /\ isConfirmed' = isConfirmed \ {<<i, u>>}
            /\ transactions' = [transactions EXCEPT ![i].numConfirmations = transactions[i].numConfirmations - 1]
        BY <2>2 DEF revokeConfirmation
      <3>2. u \in Confirmers(i) /\ Confirmers(i)' = Confirmers(i) \ {u}
        BY <1>1, <3>1 DEF Confirmers
      <3>3. Cardinality(Confirmers(i)') = Cardinality(Confirmers(i)) - 1
        BY <1>2, <3>2, FS_RemoveElement
      <3>4. transactions[i].numConfirmations - 1 = Cardinality(Confirmers(i)')
        BY <1>2, <3>3
      <3>5. isConfirmed' \subseteq (DOMAIN transactions) \X Owners
        BY <1>0, <1>1, <3>1
      <3>6. \A j \in DOMAIN transactions : j # i => Confirmers(j)' = Confirmers(j)
        BY <3>1 DEF Confirmers
      <3> QED
        BY <3>1, <3>4, <3>5, <3>6
    <2> QED
      BY <2>1, <2>2
  <1>4. PICK x : /\ x = [transactions[i] EXCEPT !.numConfirmations = n]
                 /\ TxShape(x) /\ x.executed = transactions[i].executed /\ x.numConfirmations = n
    BY <1>0, TxCounted
  <1>5. /\ DOMAIN transactions' = DOMAIN transactions /\ transactions'[i] = x
        /\ \A j \in DOMAIN transactions : j # i => transactions'[j] = transactions[j]
    BY <1>3, <1>4
  <1>6. IsList(transactions')
    <2>1. PICK S : transactions \in Seq(S)
      BY <1>0 DEF IsList
    <2>2. transactions \in Seq(S \cup {x})
      BY <2>1
    <2>3. transactions' \in Seq(S \cup {x})
      BY <1>3, <1>4, <2>2
    <2> QED
      BY <2>3 DEF IsList
  <1>7. Books'
    BY <1>0, <1>3, <1>4, <1>5, <1>6 DEF Books
  <1>8. ConfirmationsCounted'
    <2>1. ASSUME NEW j \in DOMAIN transactions PROVE transactions'[j].numConfirmations = Cardinality(Confirmers(j)')
      BY <1>2, <1>3, <1>4, <1>5
    <2> QED
      BY <1>5, <2>1 DEF ConfirmationsCounted, Confirmers
  <1>9. \A j \in DOMAIN transactions :
          j \in DOMAIN transactions' /\ (transactions[j].executed => transactions'[j].executed)
    BY <1>4, <1>5
  <1> QED
    BY <1>1, <1>7, <1>8, <1>9, NoExecution

LEMMA SubmitStep ==
  ASSUME TreasuryConstants, TreasuryInv, NEW u, NEW p \in Payments, submitTransaction(u, p)
  PROVE  TreasuryInv'
  <1>0. /\ IsList(transactions) /\ (\A j \in DOMAIN transactions : TxShape(transactions[j]))
        /\ isConfirmed \subseteq (DOMAIN transactions) \X Owners
    BY DEF TreasuryInv, Books
  <1>1. PICK t : t = [payment |-> p, executed |-> FALSE, numConfirmations |-> 0]
    OBVIOUS
  <1>2. transactions' = Append(transactions, t) /\ UNCHANGED <<now, isConfirmed, spending, windows>>
    BY <1>1 DEF submitTransaction
  <1>3. TxShape(t) /\ t.numConfirmations = 0
    BY <1>1 DEF TxShape
  <1>4. /\ DOMAIN transactions = 1 .. Len(transactions) /\ Len(transactions) \in Nat
        /\ IsList(transactions') /\ DOMAIN transactions' = 1 .. Len(transactions) + 1
        /\ \A i \in DOMAIN transactions : transactions'[i] = transactions[i]
        /\ transactions'[Len(transactions) + 1] = t
    BY <1>0, <1>2, ListDomain, ListAppend
  <1>5. \A i \in DOMAIN transactions' : i \in DOMAIN transactions \/ i = Len(transactions) + 1
    BY <1>4
  <1>6. DOMAIN transactions \subseteq DOMAIN transactions' /\ Len(transactions) + 1 \notin DOMAIN transactions
    BY <1>4
  <1>7. \A i \in DOMAIN transactions' : TxShape(transactions'[i])
    BY <1>0, <1>3, <1>4, <1>5
  <1>8. Books'
    BY <1>0, <1>2, <1>4, <1>6, <1>7 DEF Books
  <1>9. ASSUME NEW i \in DOMAIN transactions'
        PROVE  transactions'[i].numConfirmations = Cardinality(Confirmers(i)')
    <2>1. Confirmers(i)' = Confirmers(i)
      BY <1>2 DEF Confirmers
    <2>2. CASE i \in DOMAIN transactions
      BY <1>4, <2>1, <2>2 DEF TreasuryInv, ConfirmationsCounted, Confirmers
    <2>3. CASE i = Len(transactions) + 1
      <3>1. Confirmers(i) = {}
        BY <1>0, <1>6, <2>3 DEF Confirmers
      <3> QED
        BY <1>3, <1>4, <2>1, <2>3, <3>1, FS_EmptySet
    <2> QED
      BY <1>5, <2>2, <2>3
  <1>10. ConfirmationsCounted'
    BY <1>9 DEF ConfirmationsCounted, Confirmers
  <1> QED
    BY <1>2, <1>4, <1>6, <1>8, <1>10, NoExecution

\* An execution adds to the day's and the week's sum what the limits were asked
\* about, and marks a transaction that was not executed.
LEMMA ExecuteStep ==
  ASSUME TreasuryConstants, TreasuryInv, NEW i \in DOMAIN transactions, executeTransaction(i)
  PROVE  TreasuryInv'
  <1>0. /\ IsList(transactions) /\ (\A j \in DOMAIN transactions : TxShape(transactions[j]))
        /\ isConfirmed \subseteq (DOMAIN transactions) \X Owners
        /\ IsList(spending) /\ NaturalValues(spending)
    BY DEF TreasuryInv, Books, Executions
  <1>1. PICK v, d, w, e :
          /\ v = transactions[i].payment.value
          /\ d = DaySpent + v /\ w = WeekSpent + v
          /\ e = [index |-> i, value |-> v, day |-> Day, week |-> Week, limits |-> limits]
    OBVIOUS
  <1>2. /\ ~transactions[i].executed
        /\ WithinLimit(limits.dailyLimit, d) /\ WithinLimit(limits.weeklyLimit, w)
        /\ windows' = [dayWindowStart |-> Day, daySpent |-> d, weekWindowStart |-> Week, weekSpent |-> w]
        /\ spending' = Append(spending, e)
        /\ transactions' = [transactions EXCEPT ![i].executed = TRUE]
        /\ UNCHANGED <<now, isConfirmed>>
    BY <1>1 DEF executeTransaction
  <1>3. /\ e.index = i /\ e.value = v /\ e["day"] = Day /\ e["week"] = Week /\ e.limits = limits
        /\ v \in Nat
    BY <1>0, <1>1 DEF TxShape, TreasuryConstants
  <1>4. OneMore(spending, e, spending')
    BY <1>0, <1>2, <1>3 DEF OneMore
  <1>5. PICK x : /\ x = [transactions[i] EXCEPT !.executed = TRUE] /\ TxShape(x) /\ x.executed
                 /\ x.numConfirmations = transactions[i].numConfirmations
    BY <1>0, TxExecuted
  <1>6. /\ DOMAIN transactions' = DOMAIN transactions /\ transactions'[i] = x
        /\ \A j \in DOMAIN transactions : j # i => transactions'[j] = transactions[j]
    BY <1>2, <1>5
  <1>7. IsList(transactions')
    <2>1. PICK S : transactions \in Seq(S)
      BY <1>0 DEF IsList
    <2>2. transactions \in Seq(S \cup {x})
      BY <2>1
    <2>3. transactions' \in Seq(S \cup {x})
      BY <1>2, <1>5, <2>2
    <2> QED
      BY <2>3 DEF IsList
  <1>8. Books'
    BY <1>0, <1>2, <1>5, <1>6, <1>7 DEF Books
  <1>9. ConfirmationsCounted'
    <2>1. \A j \in DOMAIN transactions : transactions'[j].numConfirmations = transactions[j].numConfirmations
      BY <1>5, <1>6
    <2> QED
      BY <1>2, <1>6, <2>1 DEF TreasuryInv, ConfirmationsCounted
  <1>10. PICK n : n = Len(spending) + 1
    OBVIOUS
  <1>11. /\ DOMAIN spending = 1 .. Len(spending) /\ Len(spending) \in Nat
         /\ IsList(spending') /\ DOMAIN spending' = 1 .. n
         /\ \A k \in DOMAIN spending : spending'[k] = spending[k]
         /\ spending'[n] = e
    BY <1>0, <1>2, <1>10, ListDomain, ListAppend
  <1>12. \A k \in DOMAIN spending' : k \in DOMAIN spending \/ k = n
    BY <1>10, <1>11
  <1>13. Executions'
    <2>1. NaturalValues(spending')
      BY <1>0, <1>3, <1>11, <1>12 DEF NaturalValues
    <2>2. ASSUME NEW k \in DOMAIN spending
          PROVE  /\ spending[k].index \in DOMAIN transactions /\ transactions[spending[k].index].executed
                 /\ spending[k].index # i
      BY <1>2 DEF TreasuryInv, Executions
    <2>3. ASSUME NEW k \in DOMAIN spending'
          PROVE  spending'[k].index \in DOMAIN transactions' /\ transactions'[spending'[k].index].executed
      <3>1. CASE k \in DOMAIN spending
        <4>1. spending'[k] = spending[k]
          BY <1>11, <3>1
        <4> QED
          BY <1>6, <2>2, <3>1, <4>1
      <3>2. CASE k = n
        BY <1>3, <1>5, <1>6, <1>11, <3>2
      <3> QED
        BY <1>12, <3>1, <3>2
    <2>4. ASSUME NEW j \in DOMAIN spending', NEW k \in DOMAIN spending', spending'[j].index = spending'[k].index
          PROVE  j = k
      <3>1. CASE j \in DOMAIN spending /\ k \in DOMAIN spending
        BY <1>11, <2>4, <3>1 DEF TreasuryInv, Executions
      <3>2. CASE ~(j \in DOMAIN spending /\ k \in DOMAIN spending)
        BY <1>3, <1>11, <1>12, <2>2, <2>4, <3>2
      <3> QED
        BY <3>1, <3>2
    <2> QED
      BY <1>11, <2>1, <2>3, <2>4 DEF Executions
  <1>14. /\ Day \in Nat /\ Week \in Nat
         /\ windows.dayWindowStart <= Day /\ windows.weekWindowStart <= Week
    BY LaterPeriod DEF TreasuryInv, Windows, Day, Week, TreasuryConstants
  <1>15. /\ Tally(spending', "day", Day, d) /\ UpTo(spending', "day", n) = d
         /\ \A k \in DOMAIN spending : UpTo(spending', "day", k) = UpTo(spending, "day", k)
    <2>1. Tally(spending, "day", windows.dayWindowStart, windows.daySpent)
      BY DEF TreasuryInv, Windows
    <2>2. d = (IF windows.dayWindowStart # Day THEN 0 ELSE windows.daySpent) + e.value
      BY <1>1, <1>3 DEF DaySpent
    <2> QED
      BY <1>3, <1>4, <1>10, <1>14, <2>1, <2>2, TallyStep
  <1>16. /\ Tally(spending', "week", Week, w) /\ UpTo(spending', "week", n) = w
         /\ \A k \in DOMAIN spending : UpTo(spending', "week", k) = UpTo(spending, "week", k)
    <2>1. Tally(spending, "week", windows.weekWindowStart, windows.weekSpent)
      BY DEF TreasuryInv, Windows
    <2>2. w = (IF windows.weekWindowStart # Week THEN 0 ELSE windows.weekSpent) + e.value
      BY <1>1, <1>3 DEF WeekSpent
    <2> QED
      BY <1>3, <1>4, <1>10, <1>14, <2>1, <2>2, TallyStep
  <1>17. Windows'
    <2>1. /\ windows'.dayWindowStart = Day /\ windows'.daySpent = d
          /\ windows'.weekWindowStart = Week /\ windows'.weekSpent = w
          /\ Day' = Day /\ Week' = Week /\ now' = now
      BY <1>2 DEF Day, Week
    <2>2. now \in Nat /\ Day <= Day /\ Week <= Week
      BY <1>14 DEF TreasuryInv, Windows
    <2> QED
      BY <1>15, <1>16, <2>1, <2>2 DEF Windows
  <1>18. LimitsKept'
    <2>1. ASSUME NEW k \in DOMAIN spending'
          PROVE  /\ WithinLimit(spending'[k].limits.dailyLimit, UpTo(spending', "day", k))
                 /\ WithinLimit(spending'[k].limits.weeklyLimit, UpTo(spending', "week", k))
      <3>1. CASE k \in DOMAIN spending
        BY <1>11, <1>15, <1>16, <3>1 DEF TreasuryInv, LimitsKept
      <3>2. CASE k = n
        BY <1>2, <1>3, <1>11, <1>15, <1>16, <3>2
      <3> QED
        BY <1>12, <3>1, <3>2
    <2> QED
      BY <2>1 DEF LimitsKept
  <1> QED
    BY <1>8, <1>9, <1>13, <1>17, <1>18 DEF TreasuryInv

\* The treasury's invariant holds for any owners, limits, lengths of the windows
\* and number of transactions.
LEMMA TreasuryInvHolds ==
  ASSUME TreasuryConstants
  PROVE  TreasurySpec => []TreasuryInv
  <1>1. now = 0 /\ TreasuryInit => TreasuryInv
    <2> SUFFICES ASSUME now = 0, TreasuryInit PROVE TreasuryInv
      OBVIOUS
    <2>1. /\ transactions = <<>> /\ isConfirmed = {} /\ spending = <<>>
          /\ windows.dayWindowStart = 0 /\ windows.daySpent = 0
          /\ windows.weekWindowStart = 0 /\ windows.weekSpent = 0
      BY DEF TreasuryInit
    <2>2. IsList(<<>>) /\ DOMAIN <<>> = {}
      BY <<>> \in Seq({}) DEF IsList
    <2>3. Books /\ ConfirmationsCounted /\ Executions /\ LimitsKept
      BY <2>1, <2>2 DEF Books, ConfirmationsCounted, Executions, LimitsKept, NaturalValues
    <2>4. Spent(<<>>, {}) = 0
      BY <2>2, SpentIsTotal, TotalEmpty, FS_EmptySet
    <2>5. Tally(<<>>, "day", 0, 0) /\ Tally(<<>>, "week", 0, 0)
      BY <2>2, <2>4 DEF Tally
    <2>6. 0 <= Day /\ 0 <= Week
      BY LaterPeriod DEF Day, Week, TreasuryConstants
    <2>7. Windows
      BY <2>1, <2>5, <2>6 DEF Windows
    <2> QED
      BY <2>3, <2>7 DEF TreasuryInv
  <1>2. ASSUME TreasuryInv, [TreasuryNext]_<<now, treasuryVars>> PROVE TreasuryInv'
    <2>1. ASSUME UNCHANGED <<now, transactions, isConfirmed, spending, windows>> PROVE TreasuryInv'
      BY <1>2, <2>1 DEF TreasuryInv, Books, ConfirmationsCounted, Executions, Windows, LimitsKept, Day, Week
    <2>2. CASE \/ \E amount \in Receipts : receive(amount)
               \/ \E u \in Users : emergencyFreeze(u) \/ \E setting \in LimitSettings : updateLimits(u, setting)
               \/ UNCHANGED <<now, treasuryVars>>
      <3>1. UNCHANGED <<now, transactions, isConfirmed, spending, windows>>
        BY <2>2 DEF receive, emergencyFreeze, updateLimits, treasuryVars
      <3> QED
        BY <2>1, <3>1
    <2>3. ASSUME NEW u \in Users, NEW p \in Payments, submitTransaction(u, p) PROVE TreasuryInv'
      BY <1>2, <2>3, SubmitStep
    <2>4. ASSUME NEW u \in Users, NEW i \in DOMAIN transactions,
                 confirmTransaction(u, i) \/ revokeConfirmation(u, i)
          PROVE  TreasuryInv'
      BY <1>2, <2>4, VoteSteps
    <2>5. ASSUME NEW i \in DOMAIN transactions, executeTransaction(i) PROVE TreasuryInv'
      BY <1>2, <2>5, ExecuteStep
    <2>6. CASE CloseLedger /\ UNCHANGED treasuryVars
      <3>1. now \in Nat /\ now' = now + 1 /\ UNCHANGED <<transactions, isConfirmed, spending, windows>>
        BY <1>2, <2>6 DEF CloseLedger, treasuryVars, TreasuryInv, Windows
      <3>2. /\ Day \in Nat /\ Week \in Nat /\ Day' \in Nat /\ Week' \in Nat
            /\ Day <= Day' /\ Week <= Week'
        BY <3>1, LaterPeriod DEF Day, Week, TreasuryConstants
      <3>3. windows.dayWindowStart \in Nat /\ windows.weekWindowStart \in Nat
        BY <1>2 DEF TreasuryInv, Windows, Tally
      <3>4. windows.dayWindowStart <= Day' /\ windows.weekWindowStart <= Week'
        BY <1>2, <3>2, <3>3 DEF TreasuryInv, Windows
      <3>5. Windows'
        BY <1>2, <3>1, <3>4 DEF TreasuryInv, Windows
      <3> QED
        BY <1>2, <3>1, <3>5 DEF TreasuryInv, Books, ConfirmationsCounted, Executions, LimitsKept
    <2> QED
      BY <1>2, <2>2, <2>3, <2>4, <2>5, <2>6 DEF TreasuryNext
  <1> QED
    BY <1>1, <1>2, PTL DEF TreasurySpec

\* The count a transaction carries is the number of owners who confirmed it and
\* have not revoked; a transaction is executed once, and no day and no week
\* exceeds the limit in force at each of its executions.
THEOREM TreasuryLimitsKept ==
  ASSUME TreasuryConstants
  PROVE  TreasurySpec => []TreasuryKept
  <1>1. TreasuryInv => TreasuryKept
    BY SpentHere DEF TreasuryInv, TreasuryKept, SpendingLimited, LimitsKept, Executions
  <1> QED
    BY <1>1, TreasuryInvHolds, PTL

-----------------------------------------------------------------------------
\* The contracts together: the one that is called keeps its invariant, and the
\* others are as deployed.
StakingOk == (contract = "staking" => StakingInv) /\ (contract # "staking" => Staking!StakingInit)
MiningOk == (contract = "mining" => MiningInv) /\ (contract # "mining" => Mining!MiningInit)
CoverOk == (contract = "insurance" => CoverInv) /\ (contract # "insurance" => Cover!InsuranceInit)
SynthOk == (contract = "synthetics" => SynthInv) /\ (contract # "synthetics" => Synthetics!SynthInit)

LEMMA StakingSame ==
  ASSUME StakingOk, UNCHANGED contractVars
  PROVE  StakingOk'
  <1>1. UNCHANGED <<now, contract, rewardToken, userStake, stakeBal, rewardBal, accrued, rewarded>>
    BY DEF contractVars, stakingVars
  <1> QED
    BY <1>1 DEF StakingOk, StakingInv, StakingTyped, StakeOk, StakesThere, RewardsFrom, Unclaimed, Earning, Staked, Staking!StakingInit

LEMMA MiningSame ==
  ASSUME MiningOk, UNCHANGED contractVars
  PROVE  MiningOk'
  <1>1. UNCHANGED <<now, contract, miningInit, pairs, lpStake, total_lp, locked, lpBal, miningBal, emitted>>
    BY DEF contractVars, miningVars
  <1>2. ASSUME MiningInv PROVE MiningInv'
    BY <1>1, <1>2, MiningQuiet
  <1>3. ASSUME Mining!MiningInit PROVE (Mining!MiningInit)'
    BY <1>1, <1>3 DEF Mining!MiningInit
  <1> QED
    BY <1>1, <1>2, <1>3 DEF MiningOk

LEMMA CoverSame ==
  ASSUME CoverOk, UNCHANGED contractVars
  PROVE  CoverOk'
  <1>1. UNCHANGED <<now, contract, insuranceInit, paused, riskPool, policy, provided, poolBal>>
    BY DEF contractVars, insuranceVars
  <1>2. ASSUME CoverInv PROVE CoverInv'
    <2>1. now \in Nat
      BY <1>2 DEF CoverInv, CoverTyped
    <2> QED
      BY <1>1, <1>2, <2>1, CoverQuiet
  <1>3. ASSUME Cover!InsuranceInit PROVE (Cover!InsuranceInit)'
    BY <1>1, <1>3 DEF Cover!InsuranceInit
  <1> QED
    BY <1>1, <1>2, <1>3 DEF CoverOk

LEMMA SynthSame ==
  ASSUME SynthOk, UNCHANGED contractVars
  PROVE  SynthOk'
  <1>1. UNCHANGED <<now, contract, synthInit, asset, cdp, registrations, forgotten>>
    BY DEF contractVars, synthVars
  <1> QED
    BY <1>1 DEF SynthOk, SynthInv, SynthTyped, PositionOk, Owed, PositionsIn, DebtOf, Synthetics!SynthInit

CustodyInv == StakingOk /\ MiningOk /\ CoverOk /\ SynthOk

LEMMA CustodyBegins ==
  ASSUME ContractsInit
  PROVE  CustodyInv
  <1>1. now \in Nat /\ Staking!StakingInit /\ Mining!MiningInit /\ Cover!InsuranceInit /\ Synthetics!SynthInit
    BY DEF ContractsInit
  <1> QED
    BY <1>1, FundsAssumption, StakingBegins, MiningBegins, CoverBegins, SynthBegins DEF CustodyInv, StakingOk, MiningOk, CoverOk, SynthOk

LEMMA CustodyKeeps ==
  ASSUME CustodyInv, [ContractsNext]_contractVars
  PROVE  CustodyInv'
  <1>1. CASE UNCHANGED contractVars
    BY <1>1, StakingSame, MiningSame, CoverSame, SynthSame DEF CustodyInv
  <1>2. CASE ContractsNext
    <2>1. OthersUnchanged /\ contract' = contract
      BY <1>2 DEF ContractsNext, OthersUnchanged
    <2>2. StakingOk'
      <3>1. CASE contract = "staking"
        BY <1>2, <2>1, <3>1, FundsAssumption, StakingKeeps DEF CustodyInv, StakingOk, ContractsNext
      <3>2. CASE contract # "staking"
        <4>1. UNCHANGED stakingVars
          BY <2>1, <3>2 DEF OthersUnchanged
        <4> QED
          BY <2>1, <3>2, <4>1 DEF CustodyInv, StakingOk, stakingVars, Staking!StakingInit
      <3> QED
        BY <3>1, <3>2
    <2>3. MiningOk'
      <3>1. CASE contract = "mining"
        BY <1>2, <2>1, <3>1, FundsAssumption, MiningKeeps DEF CustodyInv, MiningOk, ContractsNext
      <3>2. CASE contract # "mining"
        <4>1. UNCHANGED miningVars
          BY <2>1, <3>2 DEF OthersUnchanged
        <4> QED
          BY <2>1, <3>2, <4>1 DEF CustodyInv, MiningOk, miningVars, Mining!MiningInit
      <3> QED
        BY <3>1, <3>2
    <2>4. CoverOk'
      <3>1. CASE contract = "insurance"
        BY <1>2, <2>1, <3>1, FundsAssumption, CoverKeeps DEF CustodyInv, CoverOk, ContractsNext
      <3>2. CASE contract # "insurance"
        <4>1. UNCHANGED insuranceVars
          BY <2>1, <3>2 DEF OthersUnchanged
        <4> QED
          BY <2>1, <3>2, <4>1 DEF CustodyInv, CoverOk, insuranceVars, Cover!InsuranceInit
      <3> QED
        BY <3>1, <3>2
    <2>5. SynthOk'
      <3>1. CASE contract = "synthetics"
        BY <1>2, <2>1, <3>1, FundsAssumption, SynthKeeps DEF CustodyInv, SynthOk, ContractsNext
      <3>2. CASE contract # "synthetics"
        <4>1. UNCHANGED synthVars
          BY <2>1, <3>2 DEF OthersUnchanged
        <4> QED
          BY <2>1, <3>2, <4>1 DEF CustodyInv, SynthOk, synthVars, Synthetics!SynthInit
      <3> QED
        BY <3>1, <3>2
    <2> QED
      BY <2>2, <2>3, <2>4, <2>5 DEF CustodyInv
  <1> QED
    BY <1>1, <1>2

LEMMA CustodyHolds ==
  ASSUME CustodyInv
  PROVE  /\ Staking!StakesBacked /\ Staking!RewardsEarnedOnce
         /\ Mining!LpBacked /\ Mining!EmissionsBounded
         /\ Cover!CoverageReserved /\ Cover!PolicyPaidOnce
         /\ Synthetics!SupplyIsDebt
  <1>1. Staking!StakesBacked /\ Staking!RewardsEarnedOnce
    BY FundsAssumption, StakingHolds, StakingBegins DEF CustodyInv, StakingOk
  <1>2. Mining!LpBacked /\ Mining!EmissionsBounded
    <2>1. CASE contract = "mining"
      BY <2>1, MiningHolds DEF CustodyInv, MiningOk
    <2>2. CASE contract # "mining"
      BY <2>2, FundsAssumption, MiningBegins, LpBackedIs DEF CustodyInv, MiningOk, Mining!EmissionsBounded
    <2> QED
      BY <2>1, <2>2
  <1>3. Cover!CoverageReserved /\ Cover!PolicyPaidOnce
    BY FundsAssumption, CoverHolds, CoverBegins DEF CustodyInv, CoverOk, CoverInv
  <1>4. Synthetics!SupplyIsDebt
    BY SynthHolds, SynthBegins DEF CustodyInv, SynthOk
  <1> QED
    BY <1>1, <1>2, <1>3, <1>4

\* What a contract owes is there, whatever the calls and their order: the
\* staking contract holds every stake (stake, unstake with its penalty,
\* compound), the mining contract every LP token, the insurance pool the coverage
\* of its active policies, and the supply of a synthetic asset is the debt of
\* its positions.
THEOREM CustodyAlwaysBacked == ContractsSpec => []CustodyBacked
  <1>1. CustodyInv => CustodyBacked
    BY CustodyHolds DEF CustodyBacked
  <1> QED
    BY <1>1, CustodyBegins, CustodyKeeps, PTL DEF ContractsSpec

-----------------------------------------------------------------------------
\* Nothing is given twice.
VestingOk == (contract = "vesting" => VestingInv) /\ (contract # "vesting" => DOMAIN sched = {})
AcademyOk ==
  /\ contract = "academy" => AcademyInv
  /\ contract # "academy" => DOMAIN badge = {} /\ DOMAIN redeemed = {}
FlowOk == (contract = "bridge" => FlowInv) /\ (contract # "bridge" => DOMAIN rl = {})
GivenInv == CustodyInv /\ VestingOk /\ AcademyOk /\ FlowOk

LEMMA GivenSame ==
  ASSUME VestingOk, AcademyOk, FlowOk, UNCHANGED contractVars
  PROVE  VestingOk' /\ AcademyOk' /\ FlowOk'
  <1>1. UNCHANGED <<now, contract, sched, paidFor, badge, badgeType, redemption, usedTx, redeemed, rl, deposited>>
    BY DEF contractVars, vestingVars, academyVars, bridgeVars
  <1>2. VestingOk'
    BY <1>1 DEF VestingOk, VestingInv, GrantSettled
  <1>3. AcademyOk'
    <2>1. ASSUME AcademyInv PROVE AcademyInv'
      <3>1. \A t \in DOMAIN badgeType' : badgeType'[t] \in BadgeTerms
        BY <1>1, <2>1 DEF AcademyInv
      <3> QED
        BY <1>1, <2>1, <3>1, AcademyQuiet
    <2> QED
      BY <1>1, <2>1 DEF AcademyOk
  <1>4. FlowOk'
    BY <1>1 DEF FlowOk, FlowInv
  <1> QED
    BY <1>2, <1>3, <1>4

LEMMA GivenBegins ==
  ASSUME ContractsInit
  PROVE  GivenInv
  <1>1. now \in Nat /\ Grants!VestingInit /\ Academy!AcademyInit /\ CrossChainInit
    BY DEF ContractsInit
  <1>2. DOMAIN badge = {} /\ DOMAIN redeemed = {}
    BY <1>1 DEF Academy!AcademyInit, Academy!Empty
  <1> QED
    BY <1>1, <1>2, CustodyBegins, VestingBegins, AcademyBegins, FlowBegins
       DEF GivenInv, VestingOk, AcademyOk, FlowOk

LEMMA GivenKeeps ==
  ASSUME DistinctBatches, NaturalFlow, GivenInv, [ContractsNext]_contractVars
  PROVE  GivenInv'
  <1>1. CustodyInv'
    BY CustodyKeeps DEF GivenInv
  <1>2. CASE UNCHANGED contractVars
    BY <1>1, <1>2, GivenSame DEF GivenInv
  <1>3. CASE ContractsNext
    <2>1. OthersUnchanged /\ contract' = contract
      BY <1>3 DEF ContractsNext, OthersUnchanged
    <2>2. VestingOk'
      <3>1. CASE contract = "vesting"
        BY <1>3, <2>1, <3>1, FundsAssumption, VestingKeeps DEF GivenInv, VestingOk, ContractsNext
      <3>2. CASE contract # "vesting"
        BY <2>1, <3>2 DEF OthersUnchanged, vestingVars, GivenInv, VestingOk
      <3> QED
        BY <3>1, <3>2
    <2>3. AcademyOk'
      <3>1. CASE contract = "academy"
        BY <1>3, <2>1, <3>1, FundsAssumption, AcademyKeeps DEF GivenInv, AcademyOk, ContractsNext
      <3>2. CASE contract # "academy"
        BY <2>1, <3>2 DEF OthersUnchanged, academyVars, GivenInv, AcademyOk
      <3> QED
        BY <3>1, <3>2
    <2>4. FlowOk'
      <3>1. CASE contract = "bridge"
        BY <1>3, <2>1, <3>1, FlowKeeps DEF GivenInv, FlowOk, ContractsNext
      <3>2. CASE contract # "bridge"
        BY <2>1, <3>2 DEF OthersUnchanged, bridgeVars, GivenInv, FlowOk
      <3> QED
        BY <3>1, <3>2
    <2> QED
      BY <1>1, <2>2, <2>3, <2>4 DEF GivenInv
  <1> QED
    BY <1>2, <1>3

LEMMA GivenHolds ==
  ASSUME GivenInv
  PROVE  Grants!GrantPaidOnce /\ Academy!RedemptionsOnRecord /\ FlowBounded
  <1>1. Grants!GrantPaidOnce
    BY VestingHolds DEF GivenInv, VestingOk, Grants!GrantPaidOnce
  <1>2. Academy!RedemptionsOnRecord
    BY AcademyHolds DEF GivenInv, AcademyOk, Academy!RedemptionsOnRecord
  <1>3. FlowBounded
    BY FlowHolds DEF GivenInv, FlowOk, FlowBounded
  <1> QED
    BY <1>1, <1>2, <1>3

\* Nothing is given twice, whatever the contract and the calls: no moment of a
\* stake is rewarded twice (StakingRewards claim and compound move
\* last_claim_timestamp), a pair emits no more than its rate (update_rewards), a
\* grant and a policy pay once (the claimed flag, the policy's status), a badge
\* is redeemed within its terms and a transaction once (redeem_badge), and
\* deposits stay within twice the bridge's limit in every span of a window
\* (check_rate_limit).  It needs the two things that the code leaves to its
\* callers.
THEOREM NothingGivenTwice ==
  ASSUME DistinctBatches, NaturalFlow
  PROVE  ContractsSpec => []GivenOnce
  <1>1. GivenInv => GivenOnce
    BY CustodyHolds, GivenHolds DEF GivenInv, GivenOnce
  <1>2. GivenInv /\ [ContractsNext]_contractVars => GivenInv'
    BY GivenKeeps
  <1> QED
    BY <1>1, <1>2, GivenBegins, PTL DEF ContractsSpec

-----------------------------------------------------------------------------
\* Lists from which some elements are kept.
\* Keeping every element keeps the list.
LEMMA KeptAll ==
  ASSUME NEW S, NEW s \in Seq(S), NEW T, \A i \in DOMAIN s : s[i] \in T
  PROVE  Kept(s, T) = s
  <1>1. PICK at : at = 1 .. Len(s)
    OBVIOUS
  <1>2. {i \in DOMAIN s : s[i] \in T} = at /\ Len(s) \in Nat
    BY <1>1
  <1>3. Cardinality(at) = Len(s)
    BY <1>1, <1>2, FS_Interval
  <1>4. Kept(s, T) = [n \in 1 .. Cardinality(at) |-> s[NthOf(at, n)]]
    BY <1>2 DEF Kept
  <1>5. ASSUME NEW i \in at PROVE Cardinality({j \in at : j <= i}) = i
    <2>1. {j \in at : j <= i} = 1 .. i
      BY <1>1, <1>2
    <2>2. Cardinality(1 .. i) = i
      BY <1>1, <1>2, FS_Interval
    <2> QED
      BY <2>1, <2>2
  <1>6. \A n \in 1 .. Len(s) : NthOf(at, n) = n
    BY <1>1, <1>5 DEF NthOf
  <1>7. Kept(s, T) = [n \in 1 .. Len(s) |-> s[n]]
    BY <1>3, <1>4, <1>6
  <1> QED
    BY <1>7

Increasing(s) == \A i, j \in DOMAIN s : i < j => s[i] < s[j]

\* Dropping one element of an increasing list closes the gap.
LEMMA KeptWithout ==
  ASSUME NEW s \in Seq(Nat), Increasing(s), NEW p \in DOMAIN s
  PROVE  Kept(s, Nat \ {s[p]}) = [n \in 1 .. Len(s) - 1 |-> IF n < p THEN s[n] ELSE s[n + 1]]
  <1>1. PICK m, at : m = Len(s) /\ at = (1 .. m) \ {p}
    OBVIOUS
  <1>2. m \in Nat /\ DOMAIN s = 1 .. m /\ p \in 1 .. m
    BY <1>1
  <1>3. {i \in DOMAIN s : s[i] \in Nat \ {s[p]}} = at
    <2>1. ASSUME NEW i \in DOMAIN s, i # p PROVE s[i] # s[p]
      <3>1. i < p \/ p < i
        BY <1>2, <2>1
      <3>2. s[i] < s[p] \/ s[p] < s[i]
        BY <3>1 DEF Increasing
      <3>3. s[i] \in Nat /\ s[p] \in Nat
        OBVIOUS
      <3> QED
        BY <3>2, <3>3
    <2> QED
      BY <1>1, <1>2, <2>1
  <1>4. ASSUME NEW i \in 1 .. m
        PROVE  /\ IsFiniteSet(1 .. i) /\ Cardinality(1 .. i) = i
               /\ p \in 1 .. i => Cardinality((1 .. i) \ {p}) = i - 1
    <2>1. IsFiniteSet(1 .. i) /\ Cardinality(1 .. i) = i
      BY <1>2, FS_Interval
    <2>2. p \in 1 .. i => Cardinality((1 .. i) \ {p}) = Cardinality(1 .. i) - 1
      BY <2>1, FS_RemoveElement
    <2> QED
      BY <2>1, <2>2
  <1>5. Cardinality(at) = m - 1
    BY <1>1, <1>2, <1>4
  <1> DEFINE Rank(i) == Cardinality({j \in at : j <= i})
  <1>6. ASSUME NEW i \in at PROVE Rank(i) = IF i < p THEN i ELSE i - 1
    <2>1. i \in 1 .. m /\ i # p
      BY <1>1
    <2>2. CASE i < p
      <3>1. {j \in at : j <= i} = 1 .. i
        BY <1>1, <1>2, <2>1, <2>2
      <3> QED
        BY <1>4, <2>1, <2>2, <3>1
    <2>3. CASE ~(i < p)
      <3>1. {j \in at : j <= i} = (1 .. i) \ {p}
        BY <1>1, <1>2, <2>1, <2>3
      <3>2. p \in 1 .. i
        BY <1>2, <2>1, <2>3
      <3> QED
        BY <1>4, <2>1, <2>3, <3>1, <3>2
    <2> QED
      BY <2>2, <2>3
  <1>70. Kept(s, Nat \ {s[p]}) = [n \in 1 .. Cardinality(at) |-> s[NthOf(at, n)]]
    BY <1>3 DEF Kept
  <1> HIDE DEF Rank
  <1>7. Kept(s, Nat \ {s[p]}) = [n \in 1 .. m - 1 |-> s[NthOf(at, n)]]
    BY <1>5, <1>70
  <1>8. ASSUME NEW n \in 1 .. m - 1
        PROVE  NthOf(at, n) = IF n < p THEN n ELSE n + 1
    <2>1. PICK w : w = IF n < p THEN n ELSE n + 1
      OBVIOUS
    <2>2. w \in at /\ Rank(w) = n
      BY <1>1, <1>2, <1>6, <2>1
    <2>3. ASSUME NEW i \in at, Rank(i) = n PROVE i = w
      <3>1. i \in 1 .. m /\ i # p
        BY <1>1
      <3> QED
        BY <1>2, <1>6, <2>1, <2>3, <3>1
    <2>4. NthOf(at, n) = CHOOSE i \in at : Rank(i) = n
      BY DEF NthOf, Rank
    <2> QED
      BY <2>1, <2>2, <2>3, <2>4
  <1>9. Kept(s, Nat \ {s[p]}) = [n \in 1 .. m - 1 |-> s[IF n < p THEN n ELSE n + 1]]
    BY <1>7, <1>8
  <1> QED
    BY <1>1, <1>9

-----------------------------------------------------------------------------
\* The registry.  Votes are cast on challenges that exist, and a challenge that
\* can be read has the sum of the stakes on it as its two tallies.
IsRecord(r) ==
  /\ "is" \in DOMAIN r
  /\ r.is = "Challenge" =>
       "votes_for" \in DOMAIN r /\ "votes_against" \in DOMAIN r /\ r.votes_for \in Int /\ r.votes_against \in Int
StakesOn(c) == [u \in Users |-> Registry!StakeOf(u, c)]
Tallied(c) ==
  numbered[c].is = "Challenge" => numbered[c].votes_for + numbered[c].votes_against = Total(StakesOn(c), Users)
RegistryTyped ==
  /\ C_COUNT \in Nat
  /\ \A n \in DOMAIN numbered : IsRecord(numbered[n])
  /\ \A k \in DOMAIN voteStake : voteStake[k] \in Int /\ k[2] \in 1 .. C_COUNT
RegistryInv == RegistryTyped /\ \A c \in DOMAIN numbered : Tallied(c)

\* The sum of VotesAreStakes is the total of the stakes.
LEMMA VotesSum ==
  ASSUME NEW c
  PROVE  Registry!SumOver(Users, LAMBDA u : Registry!StakeOf(u, c)) = Total(StakesOn(c), Users)
  <1> DEFINE Step(h) == [s \in SUBSET Users |-> IF s = {} THEN 0 ELSE Registry!StakeOf(Taken(s), c) + h[s \ {Taken(s)}]]
             g == CHOOSE h : h = Step(h)
  <1>1. Registry!SumOver(Users, LAMBDA u : Registry!StakeOf(u, c)) = g[Users]
    BY DEF Registry!SumOver, Registry!MapThenSumSet, Registry!MapThenFoldSet, Taken
  <1>2. ASSUME NEW h
        PROVE  Step(h) = [s \in SUBSET Users |-> IF s = {} THEN 0 ELSE StakesOn(c)[Taken(s)] + h[s \ {Taken(s)}]]
    <2>1. ASSUME NEW s \in SUBSET Users, s # {} PROVE Registry!StakeOf(Taken(s), c) = StakesOn(c)[Taken(s)]
      <3>1. Taken(s) \in Users
        BY <2>1, TakenIsMember
      <3> QED
        BY <3>1 DEF StakesOn
    <2> QED
      BY <2>1
  <1>3. PICK h : Sums(h, StakesOn(c), Users) /\ Total(StakesOn(c), Users) = h[Users]
    BY LedgerAssumption, TotalIsSum
  <1>4. h = Step(h)
    BY <1>2, <1>3 DEF Sums
  <1> HIDE DEF Step
  <1>5. g = Step(g)
    BY <1>4
  <1> HIDE DEF g
  <1>6. Sums(g, StakesOn(c), Users)
    BY <1>2, <1>5 DEF Sums
  <1>7. g[Users] = h[Users]
    BY <1>3, <1>6, LedgerAssumption, SumsAgree
  <1> QED
    BY <1>1, <1>3, <1>7

LEMMA RegistryHolds ==
  ASSUME RegistryInv
  PROVE  Registry!VotesAreStakes
  BY VotesSum DEF RegistryInv, Tallied, Registry!VotesAreStakes, Registry!Loads, Registry!Has

LEMMA RegistryBegins ==
  ASSUME Registry!TcrInit
  PROVE  RegistryInv
  BY DEF Registry!TcrInit, Registry!Empty, RegistryInv, RegistryTyped

\* Steps that leave the stakes alone.
LEMMA StakesAlone ==
  ASSUME RegistryInv, UNCHANGED voteStake, C_COUNT' \in Nat, C_COUNT' >= C_COUNT,
         \A n \in DOMAIN numbered' : IsRecord(numbered'[n]),
         \A n \in DOMAIN numbered' : numbered'[n].is = "Challenge" =>
           numbered'[n].votes_for + numbered'[n].votes_against = Total(StakesOn(n), Users)
  PROVE  RegistryInv'
  <1>1. \A c : StakesOn(c)' = StakesOn(c)
    BY DEF StakesOn, Registry!StakeOf, Registry!Has
  <1>2. RegistryTyped'
    BY DEF RegistryInv, RegistryTyped
  <1>3. \A c \in DOMAIN numbered' : Tallied(c)'
    BY <1>1 DEF Tallied
  <1> QED
    BY <1>2, <1>3 DEF RegistryInv

LEMMA ApplyKeeps ==
  ASSUME RegistryInv, NEW u, NEW d, Registry!apply(u, d)
  PROVE  RegistryInv'
  <1> USE DEF RegistryInv, RegistryTyped, Tallied
  <1>1. PICK r : /\ r.is = "Listing" /\ "is" \in DOMAIN r
                 /\ numbered' = [k \in DOMAIN numbered \cup {L_COUNT + 1} |-> IF k = L_COUNT + 1 THEN r ELSE numbered[k]]
    BY DEF Registry!apply, Registry!Put
  <1>2. UNCHANGED <<voteStake, C_COUNT>>
    BY DEF Registry!apply
  <1>3. \A n \in DOMAIN numbered' : (n # L_COUNT + 1 => n \in DOMAIN numbered /\ numbered'[n] = numbered[n]) /\ (n = L_COUNT + 1 => numbered'[n] = r)
    BY <1>1
  <1>4. \A n \in DOMAIN numbered' : IsRecord(numbered'[n])
    BY <1>1, <1>3 DEF IsRecord
  <1>5. \A n \in DOMAIN numbered' : numbered'[n].is = "Challenge" =>
           numbered'[n].votes_for + numbered'[n].votes_against = Total(StakesOn(n), Users)
    BY <1>1, <1>3
  <1>6. C_COUNT' \in Nat /\ C_COUNT' >= C_COUNT
    BY <1>2
  <1> QED
    BY <1>2, <1>4, <1>5, <1>6, StakesAlone

LEMMA ChallengeKeeps ==
  ASSUME RegistryInv, NEW u, NEW l, NEW d, Registry!challenge(u, l, d)
  PROVE  RegistryInv'
  <1> USE DEF RegistryInv, RegistryTyped, Tallied
  <1>1. PICK m, r : /\ m = [numbered[l] EXCEPT !.status = "Challenged", !.challenge_id = C_COUNT + 1]
                    /\ r.is = "Challenge" /\ r.votes_for = 0 /\ r.votes_against = 0
                    /\ "is" \in DOMAIN r /\ "votes_for" \in DOMAIN r /\ "votes_against" \in DOMAIN r
                    /\ numbered' = Registry!Put(Registry!Put(numbered, l, m), C_COUNT + 1, r)
    BY DEF Registry!challenge
  <1>2. UNCHANGED voteStake /\ C_COUNT' = C_COUNT + 1 /\ C_COUNT \in Nat /\ l \in DOMAIN numbered /\ numbered[l].is = "Listing"
    BY DEF Registry!challenge, Registry!Loads, Registry!Has
  <1>3. m.is = "Listing" /\ "is" \in DOMAIN m
    BY <1>1, <1>2 DEF IsRecord
  <1>4. \A n \in DOMAIN numbered' :
          \/ n = C_COUNT + 1 /\ numbered'[n] = r
          \/ n = l /\ numbered'[n] = m
          \/ n \in DOMAIN numbered /\ numbered'[n] = numbered[n]
    BY <1>1 DEF Registry!Put
  <1>5. \A n \in DOMAIN numbered' : IsRecord(numbered'[n])
    <2>1. IsRecord(r)
      BY <1>1 DEF IsRecord
    <2>2. IsRecord(m)
      BY <1>3 DEF IsRecord
    <2>3. \A n \in DOMAIN numbered : IsRecord(numbered[n])
      OBVIOUS
    <2> QED
      BY <1>4, <2>1, <2>2, <2>3
  <1>6. Total(StakesOn(C_COUNT + 1), Users) = 0
    <2>1. ASSUME NEW v \in Users PROVE <<v, C_COUNT + 1>> \notin DOMAIN voteStake
      <3>1. <<v, C_COUNT + 1>>[2] \notin 1 .. C_COUNT
        BY <1>2
      <3> QED
        BY <3>1
    <2>2. \A v \in Users : StakesOn(C_COUNT + 1)[v] = 0
      BY <2>1 DEF StakesOn, Registry!StakeOf, Registry!Has
    <2> QED
      BY <2>2, LedgerAssumption, ZeroTotal
  <1>7. ASSUME NEW n \in DOMAIN numbered', numbered'[n].is = "Challenge"
        PROVE  numbered'[n].votes_for + numbered'[n].votes_against = Total(StakesOn(n), Users)
    <2>1. CASE n = C_COUNT + 1 /\ numbered'[n] = r
      BY <1>1, <1>6, <2>1
    <2>2. CASE n = l /\ numbered'[n] = m
      BY <1>3, <1>7, <2>2
    <2>3. CASE n \in DOMAIN numbered /\ numbered'[n] = numbered[n]
      BY <1>7, <2>3
    <2> QED
      BY <1>4, <2>1, <2>2, <2>3
  <1> QED
    BY <1>2, <1>5, <1>7, StakesAlone

LEMMA VoteKeeps ==
  ASSUME RegistryInv, NEW u \in Users, NEW c \in 1 .. C_COUNT, NEW s \in BOOLEAN, NEW a \in Int, Registry!vote(u, c, s, a)
  PROVE  RegistryInv'
  <1> USE DEF RegistryInv, RegistryTyped, Tallied
  <1>1. c \in DOMAIN numbered /\ numbered[c].is = "Challenge" /\ UNCHANGED C_COUNT /\ IsRecord(numbered[c])
    BY DEF Registry!vote, Registry!Loads, Registry!Has
  <1>2. PICK x, y : x = numbered[c].votes_for /\ y = numbered[c].votes_against /\ x \in Int /\ y \in Int
    BY <1>1 DEF IsRecord
  <1>3. PICK r : r = [numbered[c] EXCEPT !.votes_for = IF s THEN x + a ELSE x, !.votes_against = IF s THEN y ELSE y + a]
    OBVIOUS
  <1>4. numbered' = [numbered EXCEPT ![c] = r]
    <2>1. numbered' = [numbered EXCEPT ![c].votes_for = IF s THEN x + a ELSE x, ![c].votes_against = IF s THEN y ELSE y + a]
      BY <1>1, <1>2 DEF Registry!vote, IsRecord
    <2> QED
      BY <1>1, <1>3, <2>1
  <1>5. /\ "is" \in DOMAIN r /\ "votes_for" \in DOMAIN r /\ "votes_against" \in DOMAIN r
        /\ r.is = "Challenge" /\ r.votes_for \in Int /\ r.votes_against \in Int /\ r.votes_for + r.votes_against = x + y + a
    <2>1. CASE s
      BY <1>1, <1>2, <1>3, <2>1 DEF IsRecord
    <2>2. CASE ~s
      BY <1>1, <1>2, <1>3, <2>2 DEF IsRecord
    <2> QED
      BY <2>1, <2>2
  <1>6. PICK z : z = Registry!StakeOf(u, c)
    OBVIOUS
  <1>7. voteStake' = [k \in DOMAIN voteStake \cup {<<u, c>>} |-> IF k = <<u, c>> THEN z + a ELSE voteStake[k]]
    BY <1>6 DEF Registry!vote, Registry!Put
  <1>8. \A v, d : Registry!StakeOf(v, d) \in Int
    BY DEF Registry!StakeOf, Registry!Has
  <1>9. \A v, d : Registry!StakeOf(v, d)' = IF v = u /\ d = c THEN z + a ELSE Registry!StakeOf(v, d)
    BY <1>7 DEF Registry!StakeOf, Registry!Has
  <1>10. \A d : d # c => StakesOn(d)' = StakesOn(d)
    BY <1>9 DEF StakesOn
  <1>11. Total(StakesOn(c)', Users) = Total(StakesOn(c), Users) + a
    <2>1. PICK F, G : F = StakesOn(c) /\ G = StakesOn(c)'
      OBVIOUS
    <2>2. (\A v \in Users : F[v] \in Int) /\ F[u] = z /\ G[u] = z + a /\ G[u] \in Int
      BY <1>6, <1>8, <1>9, <2>1 DEF StakesOn
    <2>3. \A v \in Users \ {u} : G[v] = F[v]
      BY <1>9, <2>1 DEF StakesOn
    <2>4. Total(G, Users) = Total(F, Users) - F[u] + G[u] /\ Total(F, Users) \in Int
      BY <2>2, <2>3, LedgerAssumption, TotalUpdated
    <2>5. z \in Int
      BY <1>6, <1>8
    <2> QED
      BY <2>1, <2>2, <2>4, <2>5
  <1>12. RegistryTyped'
    <2>1. \A n \in DOMAIN numbered' : IsRecord(numbered'[n])
      BY <1>4, <1>5 DEF IsRecord
    <2>2. z + a \in Int
      BY <1>6, <1>8
    <2>3. ASSUME NEW k \in DOMAIN voteStake' PROVE voteStake'[k] \in Int /\ k[2] \in 1 .. C_COUNT
      <3>1. CASE k = <<u, c>>
        BY <1>7, <2>2, <3>1
      <3>2. CASE k # <<u, c>>
        BY <1>7, <3>2
      <3> QED
        BY <3>1, <3>2
    <2> QED
      BY <1>1, <2>1, <2>3
  <1>13. ASSUME NEW d \in DOMAIN numbered' PROVE Tallied(d)'
    <2>1. CASE d = c
      <3>1. x + y = Total(StakesOn(c), Users)
        BY <1>1, <1>2
      <3>2. numbered'[c] = r
        BY <1>1, <1>4
      <3> QED
        BY <1>2, <1>5, <1>11, <2>1, <3>1, <3>2
    <2>2. CASE d # c
      BY <1>4, <1>10, <2>2
    <2> QED
      BY <2>1, <2>2
  <1> QED
    BY <1>12, <1>13

LEMMA ResolveKeeps ==
  ASSUME RegistryInv, NEW l, Registry!resolve(l)
  PROVE  RegistryInv'
  <1> USE DEF RegistryInv, RegistryTyped, Tallied
  <1>1. UNCHANGED <<voteStake, C_COUNT>> /\ l \in DOMAIN numbered /\ numbered[l].is = "Listing" /\ "is" \in DOMAIN numbered[l]
    BY DEF Registry!resolve, Registry!Loads, Registry!Has, IsRecord
  <1>2. ASSUME NEW w, numbered' = [numbered EXCEPT ![l].status = w] PROVE RegistryInv'
    <2>1. PICK m : m = [numbered[l] EXCEPT !.status = w]
      OBVIOUS
    <2>2. numbered' = [numbered EXCEPT ![l] = m] /\ m.is = "Listing" /\ "is" \in DOMAIN m
      BY <1>1, <1>2, <2>1
    <2>3. \A n \in DOMAIN numbered' : n \in DOMAIN numbered /\ numbered'[n] = IF n = l THEN m ELSE numbered[n]
      BY <1>1, <2>2
    <2>4. \A n \in DOMAIN numbered' : IsRecord(numbered'[n])
      BY <2>2, <2>3 DEF IsRecord
    <2> QED
      BY <1>1, <2>2, <2>3, <2>4, StakesAlone
  <1>3. ASSUME NEW w, NEW c \in DOMAIN numbered, numbered[c].is = "Challenge",
               numbered' = [numbered EXCEPT ![c].resolved = TRUE, ![l].status = w]
        PROVE  RegistryInv'
    <2>1. PICK m, r : m = [numbered[l] EXCEPT !.status = w] /\ r = [numbered[c] EXCEPT !.resolved = TRUE]
      OBVIOUS
    <2>2. c # l
      BY <1>1, <1>3
    <2>3. numbered' = [[numbered EXCEPT ![c] = r] EXCEPT ![l] = m] /\ m.is = "Listing" /\ "is" \in DOMAIN m
      BY <1>1, <1>3, <2>1, <2>2
    <2>4. IsRecord(r) /\ r.votes_for = numbered[c].votes_for /\ r.votes_against = numbered[c].votes_against
      BY <1>3, <2>1 DEF IsRecord
    <2>5. \A n \in DOMAIN numbered' : n \in DOMAIN numbered /\ numbered'[n] = IF n = l THEN m ELSE IF n = c THEN r ELSE numbered[n]
      BY <1>1, <2>2, <2>3
    <2>6. \A n \in DOMAIN numbered' : IsRecord(numbered'[n])
      BY <2>3, <2>4, <2>5 DEF IsRecord
    <2>7. \A n \in DOMAIN numbered' : numbered'[n].is = "Challenge" =>
           numbered'[n].votes_for + numbered'[n].votes_against = Total(StakesOn(n), Users)
      BY <1>3, <2>3, <2>4, <2>5
    <2> QED
      BY <1>1, <2>6, <2>7, StakesAlone
  <1> QED
    BY <1>2, <1>3 DEF Registry!resolve, Registry!Loads, Registry!Has

LEMMA RegistryKeeps ==
  ASSUME VoteAmounts \subseteq Int, RegistryInv, Registry!TcrNext
  PROVE  RegistryInv'
  <1>1. CASE UNCHANGED tcrVars
    BY <1>1 DEF tcrVars, RegistryInv, RegistryTyped, Tallied, StakesOn, Registry!StakeOf, Registry!Has
  <1>2. CASE \E u \in Users, c \in 1 .. C_COUNT, s \in BOOLEAN, n \in VoteAmounts : Registry!vote(u, c, s, n)
    BY <1>2, VoteKeeps
  <1> QED
    BY <1>1, <1>2, ApplyKeeps, ChallengeKeeps, ResolveKeeps DEF Registry!TcrNext, Registry!tcrVars, tcrVars

-----------------------------------------------------------------------------
\* The DID registry.  A document has both lists, and they are the same.
DocumentOk(doc) ==
  /\ "methods" \in DOMAIN doc /\ "authentication" \in DOMAIN doc
  /\ doc.authentication = doc.methods
DocumentsInv == \A d \in DOMAIN dids : DocumentOk(dids[d])

LEMMA DocumentsHold ==
  ASSUME DocumentsInv
  PROVE  Ids!AuthenticationFollowsMethods
  BY DEF DocumentsInv, DocumentOk, Ids!AuthenticationFollowsMethods

LEMMA DocumentsBegin ==
  ASSUME Ids!IdentityInit
  PROVE  DocumentsInv
  BY DEF Ids!IdentityInit, Ids!Empty, DocumentsInv

LEMMA DocumentStored ==
  ASSUME DocumentsInv, NEW d, NEW u, NEW m, NEW s, Ids!Store(d, u, m, s)
  PROVE  DocumentsInv'
  <1>1. PICK doc : dids' = Ids!Put(dids, d, doc) /\ DocumentOk(doc)
    BY DEF Ids!Store, DocumentOk
  <1> QED
    BY <1>1 DEF DocumentsInv, Ids!Put

LEMMA DocumentChanged ==
  ASSUME DocumentsInv, NEW d, NEW doc, DocumentOk(doc), Ids!Changed(d, doc)
  PROVE  DocumentsInv'
  BY DEF DocumentsInv, Ids!Changed

LEMMA DocumentsKept ==
  ASSUME DocumentsInv, Ids!DidNext
  PROVE  DocumentsInv'
  <1>1. CASE \E a \in Users : Ids!did_initialize(a)
    BY <1>1 DEF Ids!did_initialize, DocumentsInv
  <1>2. CASE \E c, u \in Users, m \in MethodIds : Ids!create_stellar_did(c, u, <<m>>, <<>>)
    BY <1>2, DocumentStored DEF Ids!create_stellar_did
  <1>3. CASE \E c, u \in Users, k \in Keys, m \in MethodIds : Ids!create_key_did(c, k, u, <<m>>, <<>>)
    BY <1>3, DocumentStored DEF Ids!create_key_did
  <1>4. ASSUME NEW c, NEW d, Ids!MayChange(c, d) PROVE DocumentOk(dids[d])
    BY <1>4 DEF Ids!MayChange, Ids!Has, DocumentsInv
  <1>5. ASSUME NEW c, NEW d, NEW m, NEW s, Ids!update_did_document(c, d, m, s) PROVE DocumentsInv'
    <2>1. PICK doc : doc = [dids[d] EXCEPT !.methods = m, !.authentication = m, !.services = s] /\ Ids!Changed(d, doc)
      BY <1>5 DEF Ids!update_did_document
    <2>2. DocumentOk(dids[d])
      BY <1>4, <1>5 DEF Ids!update_did_document
    <2>3. DocumentOk(doc)
      BY <2>1, <2>2 DEF DocumentOk
    <2> QED
      BY <2>1, <2>3, DocumentChanged
  <1>6. ASSUME NEW c, NEW d, Ids!deactivate_did(c, d) PROVE DocumentsInv'
    <2>1. PICK doc : doc = [dids[d] EXCEPT !.deactivated = TRUE] /\ Ids!Changed(d, doc)
      BY <1>6 DEF Ids!deactivate_did
    <2>2. DocumentOk(dids[d])
      BY <1>4, <1>6 DEF Ids!deactivate_did
    <2>3. DocumentOk(doc)
      BY <2>1, <2>2 DEF DocumentOk
    <2> QED
      BY <2>1, <2>3, DocumentChanged
  <1>7. ASSUME NEW c, NEW d, NEW m, Ids!add_verification_method(c, d, m) PROVE DocumentsInv'
    <2>1. PICK doc : /\ doc = [dids[d] EXCEPT !.methods = Append(dids[d].methods, m),
                                             !.authentication = Append(dids[d].authentication, m)]
                     /\ Ids!Changed(d, doc)
      BY <1>7 DEF Ids!add_verification_method
    <2>2. DocumentOk(dids[d])
      BY <1>4, <1>7 DEF Ids!add_verification_method
    <2>3. DocumentOk(doc)
      BY <2>1, <2>2 DEF DocumentOk
    <2> QED
      BY <2>1, <2>3, DocumentChanged
  <1>8. ASSUME NEW c, NEW d, NEW s, Ids!add_service(c, d, s) PROVE DocumentsInv'
    <2>1. PICK doc, l : doc = [dids[d] EXCEPT !.services = l] /\ Ids!Changed(d, doc)
      BY <1>8 DEF Ids!add_service
    <2>2. DocumentOk(dids[d])
      BY <1>4, <1>8 DEF Ids!add_service
    <2>3. DocumentOk(doc)
      BY <2>1, <2>2 DEF DocumentOk
    <2> QED
      BY <2>1, <2>3, DocumentChanged
  <1> QED
    BY <1>1, <1>2, <1>3, <1>5, <1>6, <1>7, <1>8 DEF Ids!DidNext

-----------------------------------------------------------------------------
\* The AMM.  A list of ids lists a set: its elements are the set, in order.
Lists(s, S) ==
  /\ Increasing(s)
  /\ \A i \in DOMAIN s : s[i] \in S
  /\ \A id \in S : \E i \in DOMAIN s : s[i] = id

\* A new id that is greater than the others is appended; a removed one is dropped.
LEMMA AppendLists ==
  ASSUME NEW s \in Seq(Nat), NEW S, Lists(s, S), NEW id \in Nat, \A x \in S : x < id
  PROVE  Append(s, id) \in Seq(Nat) /\ Lists(Append(s, id), S \cup {id})
  <1>1. PICK m, t : m = Len(s) /\ t = Append(s, id)
    OBVIOUS
  <1>2. /\ m \in Nat /\ DOMAIN s = 1 .. m /\ DOMAIN t = 1 .. m + 1 /\ t \in Seq(Nat)
        /\ t[m + 1] = id /\ \A i \in 1 .. m : t[i] = s[i]
    BY <1>1
  <1>3. Increasing(t)
    BY <1>2 DEF Lists, Increasing
  <1>4. \A i \in DOMAIN t : t[i] \in S \cup {id}
    BY <1>2 DEF Lists
  <1>5. ASSUME NEW x \in S \cup {id} PROVE \E i \in DOMAIN t : t[i] = x
    <2>1. CASE x = id
      BY <1>2, <2>1
    <2>2. CASE x \in S
      <3>1. PICK i \in DOMAIN s : s[i] = x
        BY <2>2 DEF Lists
      <3>2. i \in DOMAIN t /\ t[i] = x
        BY <1>2, <3>1
      <3> QED
        BY <3>2
    <2> QED
      BY <2>1, <2>2
  <1> QED
    BY <1>1, <1>2, <1>3, <1>4, <1>5 DEF Lists

LEMMA WithoutLists ==
  ASSUME NEW s \in Seq(Nat), NEW S, Lists(s, S), NEW id \in S
  PROVE  Kept(s, Nat \ {id}) \in Seq(Nat) /\ Lists(Kept(s, Nat \ {id}), S \ {id})
  <1>1. PICK p \in DOMAIN s : s[p] = id
    BY DEF Lists
  <1>2. PICK m, t : m = Len(s) /\ t = Kept(s, Nat \ {id})
    OBVIOUS
  <1>3. m \in Nat /\ DOMAIN s = 1 .. m /\ p \in 1 .. m /\ \A i \in 1 .. m : s[i] \in Nat
    BY <1>1, <1>2
  <1>4. t = [n \in 1 .. m - 1 |-> IF n < p THEN s[n] ELSE s[n + 1]]
    BY <1>1, <1>2, KeptWithout DEF Lists
  <1>5. \A n \in 1 .. m - 1 : t[n] \in Nat
    BY <1>3, <1>4
  <1>6. t \in Seq(Nat) /\ DOMAIN t = 1 .. m - 1
    BY <1>3, <1>4, <1>5
  <1>70. \A i, j \in 1 .. m : i < j => s[i] < s[j]
    BY <1>3 DEF Lists, Increasing
  <1>7. ASSUME NEW i \in 1 .. m, i # p PROVE s[i] # id
    <2>1. i < p \/ p < i
      BY <1>3, <1>7
    <2>2. s[i] \in Nat /\ s[p] \in Nat
      BY <1>3
    <2> QED
      BY <1>1, <1>3, <1>70, <2>1, <2>2
  <1>8. ASSUME NEW n \in 1 .. m - 1, NEW o \in 1 .. m - 1, n < o PROVE t[n] < t[o]
    <2>1. PICK i, j : (i = IF n < p THEN n ELSE n + 1) /\ (j = IF o < p THEN o ELSE o + 1)
      OBVIOUS
    <2>2. i \in 1 .. m /\ j \in 1 .. m /\ i < j
      BY <1>3, <1>8, <2>1
    <2>3. t[n] = s[i] /\ t[o] = s[j]
      BY <1>4, <2>1
    <2> QED
      BY <1>70, <2>2, <2>3
  <1>80. Increasing(t)
    BY <1>6, <1>8 DEF Increasing
  <1>9. ASSUME NEW n \in DOMAIN t PROVE t[n] \in S \ {id}
    <2>1. PICK i : i = IF n < p THEN n ELSE n + 1
      OBVIOUS
    <2>2. i \in 1 .. m /\ i # p /\ t[n] = s[i]
      BY <1>3, <1>4, <1>6, <2>1
    <2> QED
      BY <1>3, <1>7, <2>2 DEF Lists
  <1>10. ASSUME NEW x \in S \ {id} PROVE \E n \in DOMAIN t : t[n] = x
    <2>1. PICK i \in 1 .. m : s[i] = x /\ i # p
      BY <1>1, <1>3 DEF Lists
    <2>2. PICK n : n = IF i < p THEN i ELSE i - 1
      OBVIOUS
    <2>3. n \in DOMAIN t /\ t[n] = x
      BY <1>3, <1>4, <1>6, <2>1, <2>2
    <2> QED
      BY <2>3
  <1> QED
    BY <1>2, <1>6, <1>80, <1>9, <1>10 DEF Lists

Owned(u) == {id \in DOMAIN position : position[id].owner = u}
PositionsTyped ==
  /\ pos_cnt \in Nat /\ DOMAIN position \subseteq 1 .. pos_cnt
  /\ \A id \in DOMAIN position : "owner" \in DOMAIN position[id]
  /\ own_pos \in [Users -> Seq(Nat)]
PositionsInv == PositionsTyped /\ \A u \in Users : Lists(own_pos[u], Owned(u))

\* The AMM's and the mailbox's Kept are the same operator.
LEMMA AmmKept ==
  ASSUME NEW s, NEW T
  PROVE  Amm!Kept(s, T) = Kept(s, T)
  <1>1. \A S : Amm!Cardinality(S) = Cardinality(S)
    BY DEF Amm!Cardinality, Cardinality
  <1>2. \A S, n : Amm!NthOf(S, n) = NthOf(S, n)
    BY <1>1 DEF Amm!NthOf, NthOf
  <1> QED
    BY <1>1, <1>2 DEF Amm!Kept, Kept

LEMMA PositionsHold ==
  ASSUME PositionsInv
  PROVE  Amm!PositionsIndexed
  <1> SUFFICES ASSUME NEW u \in Users
               PROVE  /\ Amm!get_owner_positions(u) = own_pos[u]
                      /\ Amm!ToSet(own_pos[u]) = Owned(u)
                      /\ Increasing(own_pos[u])
    BY DEF Amm!PositionsIndexed, Owned, Increasing
  <1>1. own_pos[u] \in Seq(Nat) /\ Lists(own_pos[u], Owned(u))
    BY DEF PositionsInv, PositionsTyped
  <1>2. \A i \in DOMAIN own_pos[u] : own_pos[u][i] \in DOMAIN position
    BY <1>1 DEF Lists, Owned
  <1>3. Kept(own_pos[u], DOMAIN position) = own_pos[u]
    BY <1>1, <1>2, KeptAll
  <1>4. Amm!get_owner_positions(u) = own_pos[u]
    BY <1>3, AmmKept DEF Amm!get_owner_positions
  <1>5. Amm!ToSet(own_pos[u]) = Owned(u)
    BY <1>1 DEF Amm!ToSet, Lists
  <1> QED
    BY <1>1, <1>4, <1>5 DEF Lists

LEMMA PositionsBegin ==
  ASSUME Amm!AmmInit
  PROVE  PositionsInv
  <1>1. pos_cnt = 0 /\ DOMAIN position = {} /\ own_pos = [u \in Users |-> <<>>]
    BY DEF Amm!AmmInit, Amm!Empty
  <1>2. PositionsTyped
    BY <1>1 DEF PositionsTyped
  <1>3. ASSUME NEW u \in Users PROVE Lists(own_pos[u], Owned(u))
    <2>1. own_pos[u] = <<>> /\ Owned(u) = {}
      BY <1>1 DEF Owned
    <2> QED
      BY <2>1 DEF Lists, Increasing
  <1> QED
    BY <1>2, <1>3 DEF PositionsInv

\* A step that rewrites a position but not its owner.
LEMMA OwnersAlone ==
  ASSUME PositionsInv, UNCHANGED <<own_pos, pos_cnt>>, DOMAIN position' = DOMAIN position,
         \A id \in DOMAIN position : "owner" \in DOMAIN position'[id] /\ position'[id].owner = position[id].owner
  PROVE  PositionsInv'
  <1>1. PositionsTyped'
    BY DEF PositionsInv, PositionsTyped
  <1>2. \A u : Owned(u)' = Owned(u)
    BY DEF Owned
  <1> QED
    BY <1>1, <1>2 DEF PositionsInv

LEMMA AddKeepsPositions ==
  ASSUME PositionsInv, NEW u \in Users, NEW k, NEW l, NEW h, NEW d, NEW f, Amm!mint_position(u, k, l, h, d, f)
  PROVE  PositionsInv'
  <1> USE DEF PositionsInv, PositionsTyped
  <1>1. PICK id, r : /\ id = pos_cnt + 1 /\ r.owner = u /\ "owner" \in DOMAIN r /\ pos_cnt' = id
                     /\ position' = Amm!Put(position, id, r)
                     /\ own_pos' = [own_pos EXCEPT ![u] = Append(own_pos[u], id)]
    <2>1. PICK r : /\ r = [owner |-> u, pool_key |-> k, lower |-> l, upper |-> h, liquidity |-> d, inside_last |-> f,
                           owed |-> <<0, 0>>]
                   /\ position' = Amm!Put(position, pos_cnt + 1, r)
      BY DEF Amm!mint_position
    <2>2. r.owner = u /\ "owner" \in DOMAIN r
      BY <2>1
    <2>3. pos_cnt' = pos_cnt + 1 /\ own_pos' = [own_pos EXCEPT ![u] = Append(own_pos[u], pos_cnt + 1)]
      BY DEF Amm!mint_position
    <2> QED
      BY <2>1, <2>2, <2>3
  <1>2. id \in Nat /\ \A x \in DOMAIN position : x < id
    BY <1>1
  <1>3. /\ DOMAIN position' = DOMAIN position \cup {id} /\ position'[id] = r
        /\ \A x \in DOMAIN position : position'[x] = position[x]
    BY <1>1, <1>2 DEF Amm!Put
  <1>4. Append(own_pos[u], id) \in Seq(Nat) /\ Lists(Append(own_pos[u], id), Owned(u) \cup {id})
    <2>1. own_pos[u] \in Seq(Nat) /\ Lists(own_pos[u], Owned(u)) /\ \A x \in Owned(u) : x < id
      BY <1>2 DEF Owned
    <2> QED
      BY <1>2, <2>1, AppendLists
  <1>5. Owned(u)' = Owned(u) \cup {id} /\ \A v \in Users \ {u} : Owned(v)' = Owned(v)
    BY <1>1, <1>3 DEF Owned
  <1>6. PositionsTyped'
    <2>1. own_pos' \in [Users -> Seq(Nat)]
      BY <1>1, <1>4
    <2>2. pos_cnt' \in Nat /\ DOMAIN position' \subseteq 1 .. pos_cnt'
      BY <1>1, <1>2, <1>3
    <2>3. \A x \in DOMAIN position' : "owner" \in DOMAIN position'[x]
      BY <1>1, <1>3
    <2> QED
      BY <2>1, <2>2, <2>3
  <1>7. ASSUME NEW v \in Users PROVE Lists(own_pos'[v], Owned(v)')
    <2>1. CASE v = u
      BY <1>1, <1>4, <1>5, <2>1
    <2>2. CASE v # u
      BY <1>1, <1>5, <2>2
    <2> QED
      BY <2>1, <2>2
  <1> QED
    BY <1>6, <1>7

LEMMA BurnKeepsPositions ==
  ASSUME PositionsInv, NEW u \in Users, NEW id \in DOMAIN position, position[id].owner = u,
         Amm!delete_position(id), Amm!deindex_owner_position(u, id), UNCHANGED pos_cnt
  PROVE  PositionsInv'
  <1> USE DEF PositionsInv, PositionsTyped
  <1>1. PICK t : t = Kept(own_pos[u], Nat \ {id})
    OBVIOUS
  <1>2. own_pos' = [own_pos EXCEPT ![u] = t]
    BY <1>1, AmmKept DEF Amm!deindex_owner_position
  <1>3. DOMAIN position' = DOMAIN position \ {id} /\ \A x \in DOMAIN position' : position'[x] = position[x]
    BY DEF Amm!delete_position, Amm!Without
  <1>4. t \in Seq(Nat) /\ Lists(t, Owned(u) \ {id})
    <2>1. own_pos[u] \in Seq(Nat) /\ Lists(own_pos[u], Owned(u)) /\ id \in Owned(u)
      BY DEF Owned
    <2> QED
      BY <1>1, <2>1, WithoutLists
  <1>5. Owned(u)' = Owned(u) \ {id} /\ \A v \in Users \ {u} : Owned(v)' = Owned(v)
    BY <1>3 DEF Owned
  <1>6. PositionsTyped'
    <2>1. own_pos' \in [Users -> Seq(Nat)]
      BY <1>2, <1>4
    <2> QED
      BY <1>3, <2>1
  <1>7. ASSUME NEW v \in Users PROVE Lists(own_pos'[v], Owned(v)')
    <2>1. CASE v = u
      BY <1>2, <1>4, <1>5, <2>1
    <2>2. CASE v # u
      BY <1>2, <1>5, <2>2
    <2> QED
      BY <2>1, <2>2
  <1> QED
    BY <1>6, <1>7

LEMMA AccrueKeepsOwner ==
  ASSUME NEW p, "owner" \in DOMAIN p, NEW f
  PROVE  "owner" \in DOMAIN Amm!accrue_position_fees(p, f) /\ Amm!accrue_position_fees(p, f).owner = p.owner
  BY DEF Amm!accrue_position_fees

LEMMA PositionsKept ==
  ASSUME PositionsInv, Amm!AmmNext
  PROVE  PositionsInv'
  <1>1. CASE UNCHANGED <<position, own_pos, pos_cnt>>
    BY <1>1 DEF PositionsInv, PositionsTyped, Owned
  <1>2. ASSUME NEW u \in Users, NEW k, NEW r, NEW d, Amm!add_liquidity(u, k, r[1], r[2], d, <<0, 0>>) PROVE PositionsInv'
    <2>1. PICK x, f : Amm!mint_position(u, k, r[1], r[2], x, f)
      BY <1>2 DEF Amm!add_liquidity
    <2> QED
      BY <2>1, AddKeepsPositions
  <1>3. ASSUME NEW id \in DOMAIN position, NEW q, "owner" \in DOMAIN q, q.owner = position[id].owner,
               position' = [position EXCEPT ![id] = q], UNCHANGED <<own_pos, pos_cnt>>
        PROVE  PositionsInv'
    <2>1. DOMAIN position' = DOMAIN position /\ \A x \in DOMAIN position : position'[x] = IF x = id THEN q ELSE position[x]
      BY <1>3
    <2>2. \A x \in DOMAIN position : "owner" \in DOMAIN position[x]
      BY DEF PositionsInv, PositionsTyped
    <2>3. \A x \in DOMAIN position : "owner" \in DOMAIN position'[x] /\ position'[x].owner = position[x].owner
      BY <1>3, <2>1, <2>2
    <2> QED
      BY <1>3, <2>1, <2>3, OwnersAlone
  <1>4. ASSUME NEW u \in Users, NEW id \in DOMAIN position, NEW n, Amm!remove_liquidity(u, id, n, <<0, 0>>)
        PROVE  PositionsInv'
    <2>1. position[id].owner = u /\ UNCHANGED pos_cnt
      BY <1>4 DEF Amm!remove_liquidity
    <2>2. CASE n = position[id].liquidity
      <3>1. Amm!delete_position(id) /\ Amm!deindex_owner_position(u, id)
        BY <1>4, <2>2 DEF Amm!remove_liquidity
      <3> QED
        BY <2>1, <3>1, BurnKeepsPositions
    <2>3. CASE n # position[id].liquidity
      <3>1. PICK f, a, q : /\ a = Amm!accrue_position_fees(position[id], f) /\ q = [a EXCEPT !.liquidity = position[id].liquidity - n]
                           /\ position' = [position EXCEPT ![id] = q] /\ UNCHANGED own_pos
        BY <1>4, <2>3 DEF Amm!remove_liquidity
      <3>2. "owner" \in DOMAIN position[id]
        BY DEF PositionsInv, PositionsTyped
      <3>3. "owner" \in DOMAIN a /\ a.owner = position[id].owner
        BY <3>1, <3>2, AccrueKeepsOwner
      <3>4. "owner" \in DOMAIN q /\ q.owner = position[id].owner
        BY <3>1, <3>3
      <3> QED
        BY <1>3, <2>1, <3>1, <3>4
    <2> QED
      BY <2>2, <2>3
  <1>5. ASSUME NEW u \in Users, NEW id \in DOMAIN position, Amm!collect_fees(u, id) PROVE PositionsInv'
    <2>1. PICK f, a, q : /\ a = Amm!accrue_position_fees(position[id], f) /\ q = [a EXCEPT !.owed = <<0, 0>>]
                         /\ position' = [position EXCEPT ![id] = q] /\ UNCHANGED <<own_pos, pos_cnt>>
      BY <1>5 DEF Amm!collect_fees
    <2>2. "owner" \in DOMAIN position[id]
      BY DEF PositionsInv, PositionsTyped
    <2>3. "owner" \in DOMAIN a /\ a.owner = position[id].owner
      BY <2>1, <2>2, AccrueKeepsOwner
    <2>4. "owner" \in DOMAIN q /\ q.owner = position[id].owner
      BY <2>1, <2>3
    <2> QED
      BY <1>3, <2>1, <2>4
  <1>6. ASSUME NEW k, NEW t, NEW p, Amm!create_pool(k, t, p) PROVE UNCHANGED <<position, own_pos, pos_cnt>>
    BY <1>6 DEF Amm!create_pool
  <1>7. ASSUME NEW u, NEW i, NEW o, NEW a, Amm!swap(u, i, o, a, 0) PROVE UNCHANGED <<position, own_pos, pos_cnt>>
    BY <1>7 DEF Amm!swap
  <1>8. ASSUME NEW k, Amm!update_dynamic_fee(k) PROVE UNCHANGED <<position, own_pos, pos_cnt>>
    BY <1>8 DEF Amm!update_dynamic_fee
  <1>9. ASSUME Amm!pause \/ Amm!unpause \/ (Amm!CloseLedger /\ UNCHANGED Amm!ammVars)
        PROVE  UNCHANGED <<position, own_pos, pos_cnt>>
    BY <1>9 DEF Amm!pause, Amm!unpause, Amm!ammVars
  <1> QED
    BY <1>1, <1>2, <1>4, <1>5, <1>6, <1>7, <1>8, <1>9 DEF Amm!AmmNext

-----------------------------------------------------------------------------
\* Messaging.  How many elements of a list are in a set.
CountIn(s, T) == Cardinality({i \in DOMAIN s : s[i] \in T})

LEMMA CountType ==
  ASSUME NEW s \in Seq(Nat), NEW T
  PROVE  IsFiniteSet({i \in DOMAIN s : s[i] \in T}) /\ CountIn(s, T) \in Nat
  <1>1. IsFiniteSet(DOMAIN s)
    BY FS_Interval
  <1>2. IsFiniteSet({i \in DOMAIN s : s[i] \in T})
    BY <1>1, FS_Subset
  <1> QED
    BY <1>2, FS_CardinalityType DEF CountIn

LEMMA CountAppend ==
  ASSUME NEW s \in Seq(Nat), NEW T, NEW id \in Nat, \A i \in DOMAIN s : s[i] # id
  PROVE  CountIn(Append(s, id), T \cup {id}) = CountIn(s, T) + 1
  <1>1. PICK m, t, A, B : /\ m = Len(s) /\ t = Append(s, id) /\ A = {i \in DOMAIN s : s[i] \in T}
                          /\ B = {i \in DOMAIN t : t[i] \in T \cup {id}}
    OBVIOUS
  <1>2. /\ m \in Nat /\ DOMAIN s = 1 .. m /\ DOMAIN t = 1 .. m + 1
        /\ t[m + 1] = id /\ \A i \in 1 .. m : t[i] = s[i]
    BY <1>1
  <1>3. B = A \cup {m + 1} /\ m + 1 \notin A
    BY <1>1, <1>2
  <1>4. IsFiniteSet(A)
    BY <1>1, CountType
  <1>5. Cardinality(B) = Cardinality(A) + 1
    BY <1>3, <1>4, FS_AddElement
  <1> QED
    BY <1>1, <1>5 DEF CountIn

\* An id that is not listed does not count.
LEMMA CountElsewhere ==
  ASSUME NEW s, NEW T, NEW R, \A i \in DOMAIN s : s[i] \in T <=> s[i] \in R
  PROVE  CountIn(s, R) = CountIn(s, T)
  <1>1. {i \in DOMAIN s : s[i] \in R} = {i \in DOMAIN s : s[i] \in T}
    OBVIOUS
  <1> QED
    BY <1>1 DEF CountIn

LEMMA CountOneLess ==
  ASSUME NEW s \in Seq(Nat), NEW S, Lists(s, S), NEW T, NEW id \in S, id \in T
  PROVE  CountIn(s, T \ {id}) = CountIn(s, T) - 1 /\ CountIn(s, T) >= 1
  <1>1. PICK p \in DOMAIN s : s[p] = id
    BY DEF Lists
  <1>2. PICK m : m = Len(s) /\ m \in Nat /\ DOMAIN s = 1 .. m /\ \A i \in 1 .. m : s[i] \in Nat
    OBVIOUS
  <1>3. ASSUME NEW i \in DOMAIN s, i # p PROVE s[i] # id
    <2>1. i < p \/ p < i
      BY <1>2, <1>3
    <2>2. s[i] < s[p] \/ s[p] < s[i]
      BY <2>1 DEF Lists, Increasing
    <2>3. s[i] \in Nat /\ s[p] \in Nat
      BY <1>2
    <2> QED
      BY <1>1, <2>2, <2>3
  <1>4. PICK A, B : A = {i \in DOMAIN s : s[i] \in T} /\ B = {i \in DOMAIN s : s[i] \in T \ {id}}
    OBVIOUS
  <1>5. B = A \ {p} /\ p \in A
    BY <1>1, <1>3, <1>4
  <1>6. IsFiniteSet(A) /\ Cardinality(A) \in Nat /\ Cardinality(B) \in Nat
    BY <1>4, CountType DEF CountIn
  <1>7. Cardinality(B) = Cardinality(A) - 1
    BY <1>5, <1>6, FS_RemoveElement
  <1> QED
    BY <1>4, <1>6, <1>7 DEF CountIn

\* What the messaging contract keeps: every message is listed once in its
\* recipient's inbox, in the order of ids, and carries a time no later than the
\* last nonce; the counters are what the lists hold.
MailMessage == [sender : Users, recipient : Users, timestamp : Int, read : BOOLEAN]
MailTyped ==
  /\ stats \in [total_messages : Nat, unread_messages : Nat, last_message_id : Nat]
  /\ unread \in [Users -> Nat]
  /\ inbox \in [Mail!Kinds -> [Users -> Seq(Nat)]]
  /\ sent \in [Mail!Kinds -> [Users -> Seq(Nat)]]
  /\ DOMAIN msgs = Mail!Kinds
  /\ nonces \in Seq(Int)
Stored(k) ==
  \A id \in DOMAIN msgs[k] :
    /\ id \in 1 .. stats.last_message_id /\ msgs[k][id] \in MailMessage
    /\ nonces # <<>> /\ msgs[k][id].timestamp <= nonces[Len(nonces)]
Received(k, u) == {id \in DOMAIN msgs[k] : msgs[k][id].recipient = u}
UnreadOf(k) == {id \in DOMAIN msgs[k] : ~msgs[k][id].read}
Filed(k, u) ==
  /\ Lists(inbox[k][u], Received(k, u))
  /\ \A i \in DOMAIN sent[k][u] : sent[k][u][i] \in DOMAIN msgs[k]
Waiting(k, u) == CountIn(inbox[k][u], UnreadOf(k))
SentBy == [u \in Users |-> Len(sent["plain"][u]) + Len(sent["encrypted"][u])]
Counted ==
  /\ \A u \in Users : unread[u] = Waiting("plain", u) + Waiting("encrypted", u)
  /\ stats.unread_messages = Total(unread, Users)
  /\ stats.total_messages = Total(SentBy, Users)
MailInv ==
  /\ MailTyped /\ Counted /\ Mail!IdsFollowTime
  /\ \A k \in Mail!Kinds : Stored(k) /\ \A u \in Users : Filed(k, u)

\* The two sums of MailboxesAgree.  What get_messages returns of the messages a
\* user sent is what the sent lists hold.
SentShown(u) == Len(Mail!get_messages(u, TRUE, FALSE, FALSE)) + Len(Mail!get_encrypted_messages(u, TRUE, FALSE, FALSE))
ShownBy == [u \in Users |-> SentShown(u)]

LEMMA UnreadSum ==
  ASSUME TRUE
  PROVE  Mail!SumOver(Users, LAMBDA u : unread[u]) = Total(unread, Users)
  <1> DEFINE Step(h) == [s \in SUBSET Users |-> IF s = {} THEN 0 ELSE unread[Taken(s)] + h[s \ {Taken(s)}]]
             g == CHOOSE h : h = Step(h)
  <1>1. Mail!SumOver(Users, LAMBDA u : unread[u]) = g[Users]
    BY DEF Mail!SumOver, Mail!MapThenSumSet, Mail!MapThenFoldSet, Taken
  <1>2. ASSUME NEW h
        PROVE  Step(h) = [s \in SUBSET Users |-> IF s = {} THEN 0 ELSE unread[Taken(s)] + h[s \ {Taken(s)}]]
    <2>1. ASSUME NEW s \in SUBSET Users, s # {} PROVE unread[Taken(s)] = unread[Taken(s)]
      <3>1. Taken(s) \in Users
        BY <2>1, TakenIsMember
      <3> QED
        BY <3>1
    <2> QED
      BY <2>1
  <1>3. PICK h : Sums(h, unread, Users) /\ Total(unread, Users) = h[Users]
    BY LedgerAssumption, TotalIsSum
  <1>4. h = Step(h)
    BY <1>2, <1>3 DEF Sums
  <1> HIDE DEF Step
  <1>5. g = Step(g)
    BY <1>4
  <1> HIDE DEF g
  <1>6. Sums(g, unread, Users)
    BY <1>2, <1>5 DEF Sums
  <1>7. g[Users] = h[Users]
    BY <1>3, <1>6, LedgerAssumption, SumsAgree
  <1> QED
    BY <1>1, <1>3, <1>7

LEMMA SentSum ==
  ASSUME TRUE
  PROVE  Mail!SumOver(Users, LAMBDA u : SentShown(u)) = Total(ShownBy, Users)
  <1> DEFINE Step(h) == [s \in SUBSET Users |-> IF s = {} THEN 0 ELSE SentShown(Taken(s)) + h[s \ {Taken(s)}]]
             g == CHOOSE h : h = Step(h)
  <1>1. Mail!SumOver(Users, LAMBDA u : SentShown(u)) = g[Users]
    BY DEF Mail!SumOver, Mail!MapThenSumSet, Mail!MapThenFoldSet, Taken
  <1>2. ASSUME NEW h
        PROVE  Step(h) = [s \in SUBSET Users |-> IF s = {} THEN 0 ELSE ShownBy[Taken(s)] + h[s \ {Taken(s)}]]
    <2>1. ASSUME NEW s \in SUBSET Users, s # {} PROVE SentShown(Taken(s)) = ShownBy[Taken(s)]
      <3>1. Taken(s) \in Users
        BY <2>1, TakenIsMember
      <3> QED
        BY <3>1 DEF ShownBy
    <2> QED
      BY <2>1
  <1>3. PICK h : Sums(h, ShownBy, Users) /\ Total(ShownBy, Users) = h[Users]
    BY LedgerAssumption, TotalIsSum
  <1>4. h = Step(h)
    BY <1>2, <1>3 DEF Sums
  <1> HIDE DEF Step
  <1>5. g = Step(g)
    BY <1>4
  <1> HIDE DEF g
  <1>6. Sums(g, ShownBy, Users)
    BY <1>2, <1>5 DEF Sums
  <1>7. g[Users] = h[Users]
    BY <1>3, <1>6, LedgerAssumption, SumsAgree
  <1> QED
    BY <1>1, <1>3, <1>7

LEMMA MailKept ==
  ASSUME NEW s, NEW T
  PROVE  Mail!Kept(s, T) = Kept(s, T)
  <1>1. \A S : Mail!Cardinality(S) = Cardinality(S)
    BY DEF Mail!Cardinality, Cardinality
  <1>2. \A S, n : Mail!NthOf(S, n) = NthOf(S, n)
    BY <1>1 DEF Mail!NthOf, NthOf
  <1> QED
    BY <1>1, <1>2 DEF Mail!Kept, Kept

\* A listing is as long as the number of ids it keeps.
LEMMA KeptShown ==
  ASSUME NEW s \in Seq(Nat), NEW T
  PROVE  Len(Kept(s, T) \o <<>>) = CountIn(s, T) /\ Len(<<>> \o Kept(s, T)) = CountIn(s, T)
  <1>1. PICK c, t : c = CountIn(s, T) /\ t = Kept(s, T)
    OBVIOUS
  <1>2. c \in Nat
    BY <1>1, CountType
  <1>3. PICK F : t = [n \in 1 .. c |-> F[n]]
    <2>1. PICK at : at = {i \in DOMAIN s : s[i] \in T}
      OBVIOUS
    <2>2. t = [n \in 1 .. Cardinality(at) |-> s[NthOf(at, n)]] /\ c = Cardinality(at)
      BY <1>1, <2>1 DEF Kept, CountIn
    <2>3. t = [n \in 1 .. c |-> t[n]]
      BY <2>2
    <2> QED
      BY <2>3
  <1>4. PICK S : S = {F[n] : n \in 1 .. c}
    OBVIOUS
  <1>5. t \in Seq(S) /\ Len(t) = c
    BY <1>2, <1>3, <1>4
  <1>6. Len(t \o <<>>) = c /\ Len(<<>> \o t) = c
    BY <1>2, <1>5
  <1> QED
    BY <1>1, <1>6

LEMMA MailHolds ==
  ASSUME MailInv
  PROVE  Mail!MailboxesAgree /\ Mail!IdsFollowTime
  <1>1. MailTyped /\ Counted
    BY DEF MailInv
  <1>2. "plain" \in Mail!Kinds /\ "encrypted" \in Mail!Kinds
    BY DEF Mail!Kinds
  <1>3. \A k \in Mail!Kinds, u \in Users : inbox[k][u] \in Seq(Nat) /\ sent[k][u] \in Seq(Nat) /\ Filed(k, u)
    BY DEF MailInv, MailTyped
  <1>4. ASSUME NEW u \in Users
        PROVE  unread[u] = Len(Mail!get_messages(u, FALSE, TRUE, TRUE)) + Len(Mail!get_encrypted_messages(u, FALSE, TRUE, TRUE))
    <2>1. ASSUME NEW k \in Mail!Kinds PROVE Len(Mail!Listed(k, inbox[k][u], TRUE) \o <<>>) = Waiting(k, u)
      <3>1. {id \in DOMAIN msgs[k] : TRUE => ~msgs[k][id].read} = UnreadOf(k)
        BY DEF UnreadOf
      <3>2. Mail!Listed(k, inbox[k][u], TRUE) = Kept(inbox[k][u], UnreadOf(k))
        BY <3>1, MailKept DEF Mail!Listed
      <3> QED
        BY <1>3, <3>2, KeptShown DEF Waiting
    <2>2. Len(Mail!get_messages(u, FALSE, TRUE, TRUE)) = Waiting("plain", u)
      BY <1>2, <2>1 DEF Mail!get_messages
    <2>3. Len(Mail!get_encrypted_messages(u, FALSE, TRUE, TRUE)) = Waiting("encrypted", u)
      BY <1>2, <2>1 DEF Mail!get_encrypted_messages
    <2> QED
      BY <1>1, <2>2, <2>3 DEF Counted
  <1>5. ASSUME NEW u \in Users PROVE ShownBy[u] = SentBy[u]
    <2>1. ASSUME NEW k \in Mail!Kinds PROVE Len(<<>> \o Mail!Listed(k, sent[k][u], FALSE)) = Len(sent[k][u])
      <3>1. {id \in DOMAIN msgs[k] : FALSE => ~msgs[k][id].read} = DOMAIN msgs[k]
        OBVIOUS
      <3>2. Mail!Listed(k, sent[k][u], FALSE) = Kept(sent[k][u], DOMAIN msgs[k])
        BY <3>1, MailKept DEF Mail!Listed
      <3>3. Kept(sent[k][u], DOMAIN msgs[k]) = sent[k][u]
        BY <1>3, KeptAll DEF Filed
      <3>4. PICK q \in Seq(Nat) : q = sent[k][u]
        BY <1>3
      <3>5. Len(<<>> \o q) = Len(q)
        OBVIOUS
      <3> QED
        BY <3>2, <3>3, <3>4, <3>5
    <2>2. Len(Mail!get_messages(u, TRUE, FALSE, FALSE)) = Len(sent["plain"][u])
      BY <1>2, <2>1 DEF Mail!get_messages
    <2>3. Len(Mail!get_encrypted_messages(u, TRUE, FALSE, FALSE)) = Len(sent["encrypted"][u])
      BY <1>2, <2>1 DEF Mail!get_encrypted_messages
    <2> QED
      BY <2>2, <2>3 DEF ShownBy, SentBy, SentShown
  <1>6. Total(ShownBy, Users) = Total(SentBy, Users)
    BY <1>5, LedgerAssumption, TotalAgrees
  <1>7. stats.unread_messages = Mail!SumOver(Users, LAMBDA u : unread[u])
    BY <1>1, UnreadSum DEF Counted
  <1>8. stats.total_messages = Mail!SumOver(Users, LAMBDA u : SentShown(u))
    BY <1>1, <1>6, SentSum DEF Counted
  <1>9. Mail!MailboxesAgree
    BY <1>4, <1>7, <1>8 DEF Mail!MailboxesAgree, Mail!get_unread_count, SentShown
  <1> QED
    BY <1>9 DEF MailInv

LEMMA MailBegins ==
  ASSUME Mail!MessagingInit
  PROVE  MailInv
  <1>1. /\ msgs = [k \in Mail!Kinds |-> Mail!Empty]
        /\ inbox = [k \in Mail!Kinds |-> [u \in Users |-> <<>>]] /\ sent = inbox
        /\ unread = [u \in Users |-> 0]
        /\ stats = [total_messages |-> 0, unread_messages |-> 0, last_message_id |-> 0]
        /\ nonces = <<>>
    BY DEF Mail!MessagingInit
  <1>2. \A k \in Mail!Kinds : DOMAIN msgs[k] = {} /\ \A u \in Users : inbox[k][u] = <<>> /\ sent[k][u] = <<>>
    BY <1>1 DEF Mail!Empty
  <1>3. MailTyped
    BY <1>1 DEF MailTyped
  <1>4. \A k \in Mail!Kinds : Stored(k)
    BY <1>2 DEF Stored
  <1>5. ASSUME NEW k \in Mail!Kinds, NEW u \in Users PROVE Filed(k, u)
    BY <1>2 DEF Filed, Received, Lists, Increasing
  <1>6. Mail!IdsFollowTime
    BY <1>2 DEF Mail!IdsFollowTime
  <1>7. Counted
    <2>1. ASSUME NEW k \in Mail!Kinds, NEW u \in Users PROVE Waiting(k, u) = 0
      <3>1. {i \in DOMAIN inbox[k][u] : inbox[k][u][i] \in UnreadOf(k)} = {}
        BY <1>2
      <3> QED
        BY <3>1, FS_EmptySet DEF Waiting, CountIn
    <2>2. "plain" \in Mail!Kinds /\ "encrypted" \in Mail!Kinds
      BY DEF Mail!Kinds
    <2>3. \A u \in Users : unread[u] = 0 /\ SentBy[u] = 0
      BY <1>1, <1>2, <2>2 DEF SentBy
    <2>4. Total(unread, Users) = 0 /\ Total(SentBy, Users) = 0
      BY <2>3, LedgerAssumption, ZeroTotal
    <2> QED
      BY <1>1, <2>1, <2>2, <2>3, <2>4 DEF Counted
  <1> QED
    BY <1>3, <1>4, <1>5, <1>6, <1>7 DEF MailInv

\* What a delivery changes: message m gets number id, is filed with its
\* recipient and with its sender, and is counted; the nonce is recorded.
Delivery(k, s, r, id, m) ==
  /\ m \in MailMessage /\ m.recipient = r /\ ~m.read /\ m.timestamp = now
  /\ id = stats.last_message_id + 1
  /\ msgs' = [msgs EXCEPT ![k] = Mail!Put(msgs[k], id, m)]
  /\ inbox' = [inbox EXCEPT ![k] = [inbox[k] EXCEPT ![r] = Append(inbox[k][r], id)]]
  /\ sent' = [sent EXCEPT ![k] = [sent[k] EXCEPT ![s] = Append(sent[k][s], id)]]
  /\ unread' = [unread EXCEPT ![r] = unread[r] + 1]
  /\ stats' = [total_messages |-> stats.total_messages + 1, unread_messages |-> stats.unread_messages + 1,
               last_message_id |-> id]
  /\ nonces' = Append(nonces, now)
  /\ nonces # <<>> => now > nonces[Len(nonces)]

LEMMA DeliveryIs ==
  ASSUME NEW k, NEW s \in Users, NEW r \in Users, NEW l, NEW f, now \in Nat,
         Mail!AdmitMessage(s, r, l, f), Mail!Deliver(k, s, r)
  PROVE  \E id, m : Delivery(k, s, r, id, m)
  <1>1. PICK m : m = [sender |-> s, recipient |-> r, timestamp |-> now, read |-> FALSE]
    OBVIOUS
  <1>2. m \in MailMessage /\ m.recipient = r /\ ~m.read /\ m.timestamp = now
    BY <1>1 DEF MailMessage
  <1>3. /\ msgs' = [msgs EXCEPT ![k] = Mail!Put(msgs[k], stats.last_message_id + 1, m)]
        /\ inbox' = [inbox EXCEPT ![k] = [inbox[k] EXCEPT ![r] = Append(inbox[k][r], stats.last_message_id + 1)]]
        /\ sent' = [sent EXCEPT ![k] = [sent[k] EXCEPT ![s] = Append(sent[k][s], stats.last_message_id + 1)]]
        /\ unread' = [unread EXCEPT ![r] = unread[r] + 1]
        /\ stats' = [total_messages |-> stats.total_messages + 1, unread_messages |-> stats.unread_messages + 1,
                     last_message_id |-> stats.last_message_id + 1]
    BY <1>1 DEF Mail!Deliver
  <1>4. nonces' = Append(nonces, now) /\ (nonces # <<>> => now > nonces[Len(nonces)])
    BY DEF Mail!AdmitMessage, Mail!record_and_verify, Mail!enforce_sequential_nonce, Mail!Last
  <1> QED
    BY <1>2, <1>3, <1>4 DEF Delivery

LEMMA DeliveryKeeps ==
  ASSUME MailInv, now \in Nat, NEW k \in Mail!Kinds, NEW s \in Users, NEW r \in Users, NEW id, NEW m, Delivery(k, s, r, id, m)
  PROVE  MailInv'
  <1>1. MailTyped /\ Counted /\ Mail!IdsFollowTime
    BY DEF MailInv
  <1>2. \A l \in Mail!Kinds : Stored(l) /\ \A u \in Users : Filed(l, u)
    BY DEF MailInv
  <1>3. PICK last : last = stats.last_message_id /\ last \in Nat /\ id = last + 1 /\ id \in Nat
    <2>1. stats.last_message_id \in Nat
      BY <1>1 DEF MailTyped
    <2>2. id = stats.last_message_id + 1
      BY DEF Delivery
    <2> QED
      BY <2>1, <2>2
  <1>4. \A l \in Mail!Kinds : \A x \in DOMAIN msgs[l] : x \in 1 .. last /\ x # id /\ x < id
    BY <1>2, <1>3 DEF Stored
  <1>5. /\ DOMAIN msgs' = Mail!Kinds
        /\ DOMAIN msgs'[k] = DOMAIN msgs[k] \cup {id} /\ msgs'[k][id] = m
        /\ \A x \in DOMAIN msgs[k] : msgs'[k][x] = msgs[k][x]
        /\ \A l \in Mail!Kinds \ {k} : msgs'[l] = msgs[l]
    BY <1>1, <1>4 DEF MailTyped, Delivery, Mail!Put
  <1>6. /\ inbox'[k][r] = Append(inbox[k][r], id) /\ \A u \in Users \ {r} : inbox'[k][u] = inbox[k][u]
        /\ \A l \in Mail!Kinds \ {k} : inbox'[l] = inbox[l]
    BY <1>1 DEF MailTyped, Delivery
  <1>7. /\ sent'[k][s] = Append(sent[k][s], id) /\ \A u \in Users \ {s} : sent'[k][u] = sent[k][u]
        /\ \A l \in Mail!Kinds \ {k} : sent'[l] = sent[l]
    BY <1>1 DEF MailTyped, Delivery
  <1>8. /\ nonces' \in Seq(Int) /\ nonces' # <<>> /\ nonces'[Len(nonces')] = now
        /\ nonces # <<>> => nonces[Len(nonces)] \in Int /\ nonces[Len(nonces)] < now
    <2>1. nonces \in Seq(Int)
      BY <1>1 DEF MailTyped
    <2>2. nonces' = Append(nonces, now) /\ (nonces # <<>> => now > nonces[Len(nonces)])
      BY DEF Delivery
    <2>3. nonces # <<>> => nonces[Len(nonces)] \in Int
      BY <2>1
    <2>4. nonces' \in Seq(Int) /\ nonces' # <<>> /\ nonces'[Len(nonces')] = now
      BY <2>1, <2>2
    <2> QED
      BY <2>2, <2>3, <2>4
  <1>9. \A l \in Mail!Kinds, u \in Users : inbox[l][u] \in Seq(Nat) /\ sent[l][u] \in Seq(Nat)
    BY <1>1 DEF MailTyped
  <1>10. MailTyped'
    <2>1. stats' \in [total_messages : Nat, unread_messages : Nat, last_message_id : Nat]
      <3>1. stats.total_messages \in Nat /\ stats.unread_messages \in Nat
        BY <1>1 DEF MailTyped
      <3>2. PICK x, y : x = stats.total_messages + 1 /\ y = stats.unread_messages + 1 /\ x \in Nat /\ y \in Nat
        BY <3>1
      <3>3. stats' = [total_messages |-> x, unread_messages |-> y, last_message_id |-> id]
        BY <3>2 DEF Delivery
      <3> QED
        BY <1>3, <3>2, <3>3
    <2>2. unread' \in [Users -> Nat]
      <3>1. unread \in [Users -> Nat]
        BY <1>1 DEF MailTyped
      <3>2. unread' = [unread EXCEPT ![r] = unread[r] + 1]
        BY DEF Delivery
      <3> QED
        BY <3>1, <3>2
    <2>3. inbox' \in [Mail!Kinds -> [Users -> Seq(Nat)]]
      <3>0. PICK p \in Seq(Nat) : p = inbox[k][r]
        BY <1>9
      <3>10. Append(p, id) \in Seq(Nat)
        BY <1>3
      <3>1. PICK q \in Seq(Nat) : q = Append(inbox[k][r], id)
        BY <3>0, <3>10
      <3>20. inbox[k] \in [Users -> Seq(Nat)]
        BY <1>1 DEF MailTyped
      <3>21. [inbox[k] EXCEPT ![r] = q] \in [Users -> Seq(Nat)]
        BY <3>20
      <3>2. PICK w \in [Users -> Seq(Nat)] : w = [inbox[k] EXCEPT ![r] = q]
        BY <3>21
      <3> QED
        BY <1>1, <3>1, <3>2 DEF MailTyped, Delivery
    <2>4. sent' \in [Mail!Kinds -> [Users -> Seq(Nat)]]
      <3>0. PICK p \in Seq(Nat) : p = sent[k][s]
        BY <1>9
      <3>10. Append(p, id) \in Seq(Nat)
        BY <1>3
      <3>1. PICK q \in Seq(Nat) : q = Append(sent[k][s], id)
        BY <3>0, <3>10
      <3>20. sent[k] \in [Users -> Seq(Nat)]
        BY <1>1 DEF MailTyped
      <3>21. [sent[k] EXCEPT ![s] = q] \in [Users -> Seq(Nat)]
        BY <3>20
      <3>2. PICK w \in [Users -> Seq(Nat)] : w = [sent[k] EXCEPT ![s] = q]
        BY <3>21
      <3> QED
        BY <1>1, <3>1, <3>2 DEF MailTyped, Delivery
    <2> QED
      BY <1>5, <1>8, <2>1, <2>2, <2>3, <2>4 DEF MailTyped
  <1>11. ASSUME NEW l \in Mail!Kinds PROVE Stored(l)'
    <2>1. stats'.last_message_id = id
      BY DEF Delivery
    <2>2. ASSUME NEW x \in DOMAIN msgs[l]
          PROVE  /\ x \in 1 .. id /\ msgs[l][x] \in MailMessage /\ msgs[l][x].timestamp <= now
      <3>1. msgs[l][x] \in MailMessage /\ nonces # <<>> /\ msgs[l][x].timestamp <= nonces[Len(nonces)]
        BY <1>2 DEF Stored
      <3>2. PICK y, z : y = msgs[l][x].timestamp /\ z = nonces[Len(nonces)] /\ y \in Int /\ z \in Int /\ z < now
        BY <1>8, <3>1 DEF MailMessage
      <3> QED
        BY <1>3, <1>4, <3>1, <3>2
    <2>3. m \in MailMessage /\ m.timestamp <= now /\ id \in 1 .. id
      BY <1>3 DEF Delivery
    <2>4. \A x \in DOMAIN msgs'[l] : x \in 1 .. id /\ msgs'[l][x] \in MailMessage /\ msgs'[l][x].timestamp <= now
      <3>1. CASE l = k
        BY <1>5, <2>2, <2>3, <3>1
      <3>2. CASE l # k
        BY <1>5, <2>2, <3>2
      <3> QED
        BY <3>1, <3>2
    <2> QED
      BY <1>8, <2>1, <2>4 DEF Stored
  <1>12. /\ Received(k, r)' = Received(k, r) \cup {id} /\ UnreadOf(k)' = UnreadOf(k) \cup {id}
         /\ \A u \in Users \ {r} : Received(k, u)' = Received(k, u)
         /\ \A l \in Mail!Kinds \ {k} : UnreadOf(l)' = UnreadOf(l) /\ \A u \in Users : Received(l, u)' = Received(l, u)
    <2>1. m.recipient = r /\ ~m.read
      BY DEF Delivery
    <2>2. id \notin DOMAIN msgs[k]
      BY <1>4
    <2> QED
      BY <1>5, <2>1, <2>2 DEF Received, UnreadOf
  <1>13. ASSUME NEW l \in Mail!Kinds, NEW u \in Users PROVE Filed(l, u)'
    <2>1. Lists(inbox'[l][u], Received(l, u)')
      <3>1. CASE l = k /\ u = r
        <4>1. Lists(inbox[k][r], Received(k, r)) /\ \A x \in Received(k, r) : x < id
          BY <1>2, <1>4 DEF Filed, Received
        <4>2. Lists(Append(inbox[k][r], id), Received(k, r) \cup {id})
          BY <1>3, <1>9, <4>1, AppendLists
        <4> QED
          BY <1>6, <1>12, <3>1, <4>2
      <3>2. CASE l # k \/ u # r
        <4>1. inbox'[l][u] = inbox[l][u] /\ Received(l, u)' = Received(l, u)
          BY <1>6, <1>12, <3>2
        <4> QED
          BY <1>2, <4>1 DEF Filed
      <3> QED
        BY <3>1, <3>2
    <2>2. DOMAIN msgs[l] \subseteq DOMAIN msgs'[l]
      BY <1>5
    <2>3. \A i \in DOMAIN sent'[l][u] : sent'[l][u][i] \in DOMAIN msgs'[l]
      <3>1. CASE l = k /\ u = s
        <4>1. PICK q \in Seq(Nat) : q = sent[k][s]
          BY <1>9
        <4>2. \A i \in DOMAIN q : q[i] \in DOMAIN msgs'[k]
          BY <1>2, <2>2, <3>1, <4>1 DEF Filed
        <4>3. id \in DOMAIN msgs'[k]
          BY <1>5
        <4>4. \A i \in DOMAIN Append(q, id) : Append(q, id)[i] \in DOMAIN msgs'[k]
          BY <1>3, <4>2, <4>3
        <4> QED
          BY <1>7, <3>1, <4>1, <4>4
      <3>2. CASE l # k \/ u # s
        <4>1. sent'[l][u] = sent[l][u]
          BY <1>7, <3>2
        <4> QED
          BY <1>2, <2>2, <4>1 DEF Filed
      <3> QED
        BY <3>1, <3>2
    <2> QED
      BY <2>1, <2>3 DEF Filed
  <1>14. ASSUME NEW l \in Mail!Kinds, NEW u \in Users
         PROVE  Waiting(l, u) \in Nat /\ Waiting(l, u)' = IF l = k /\ u = r THEN Waiting(l, u) + 1 ELSE Waiting(l, u)
    <2>1. Waiting(l, u) \in Nat
      BY <1>9, CountType DEF Waiting
    <2>2. \A i \in DOMAIN inbox[l][u] : inbox[l][u][i] # id
      BY <1>2, <1>4 DEF Filed, Lists, Received
    <2>3. CASE l = k /\ u = r
      <3>1. CountIn(Append(inbox[k][r], id), UnreadOf(k) \cup {id}) = CountIn(inbox[k][r], UnreadOf(k)) + 1
        BY <1>3, <1>9, <2>2, <2>3, CountAppend
      <3> QED
        BY <1>6, <1>12, <2>1, <2>3, <3>1 DEF Waiting
    <2>4. CASE l = k /\ u # r
      <3>1. CountIn(inbox[l][u], UnreadOf(l) \cup {id}) = CountIn(inbox[l][u], UnreadOf(l))
        BY <2>2, CountElsewhere
      <3> QED
        BY <1>6, <1>12, <2>1, <2>4, <3>1 DEF Waiting
    <2>5. CASE l # k
      BY <1>6, <1>12, <2>1, <2>5 DEF Waiting
    <2> QED
      BY <2>3, <2>4, <2>5
  <1>15. Counted'
    <2>1. "plain" \in Mail!Kinds /\ "encrypted" \in Mail!Kinds /\ k \in {"plain", "encrypted"}
      BY DEF Mail!Kinds
    <2>2. ASSUME NEW u \in Users PROVE unread'[u] = Waiting("plain", u)' + Waiting("encrypted", u)'
      <3>1. unread[u] = Waiting("plain", u) + Waiting("encrypted", u)
        BY <1>1 DEF Counted
      <3>2. unread'[u] = IF u = r THEN unread[u] + 1 ELSE unread[u]
        BY <1>1 DEF MailTyped, Delivery
      <3>3. /\ Waiting("plain", u) \in Nat
            /\ Waiting("plain", u)' = IF "plain" = k /\ u = r THEN Waiting("plain", u) + 1 ELSE Waiting("plain", u)
        BY <1>14, <2>1
      <3>4. /\ Waiting("encrypted", u) \in Nat
            /\ Waiting("encrypted", u)' = IF "encrypted" = k /\ u = r THEN Waiting("encrypted", u) + 1 ELSE Waiting("encrypted", u)
        BY <1>14, <2>1
      <3> QED
        BY <2>1, <3>1, <3>2, <3>3, <3>4
    <2>3. stats'.unread_messages = Total(unread', Users)
      <3>1. \A u \in Users : unread[u] \in Int
        BY <1>1 DEF MailTyped
      <3>20. unread \in [Users -> Nat] /\ unread' = [unread EXCEPT ![r] = unread[r] + 1]
        BY <1>1 DEF MailTyped, Delivery
      <3>2. PICK G : G = unread' /\ G[r] = unread[r] + 1 /\ \A u \in Users \ {r} : G[u] = unread[u]
        BY <3>20
      <3>3. Total(G, Users) = Total(unread, Users) - unread[r] + G[r] /\ Total(unread, Users) \in Int
        BY <3>1, <3>2, LedgerAssumption, TotalUpdated
      <3>4. stats'.unread_messages = stats.unread_messages + 1 /\ stats.unread_messages = Total(unread, Users)
        BY <1>1 DEF Delivery, Counted
      <3> QED
        BY <3>1, <3>2, <3>3, <3>4
    <2>4. stats'.total_messages = Total(SentBy', Users)
      <3>1. ASSUME NEW u \in Users PROVE SentBy[u] \in Nat
        <4>1. PICK p \in Seq(Nat), q \in Seq(Nat) : p = sent["plain"][u] /\ q = sent["encrypted"][u]
          BY <1>9, <2>1
        <4>2. Len(p) + Len(q) \in Nat
          OBVIOUS
        <4> QED
          BY <4>1, <4>2 DEF SentBy
      <3>2. ASSUME NEW l \in Mail!Kinds, NEW u \in Users
            PROVE  /\ Len(sent'[l][u]) = IF l = k /\ u = s THEN Len(sent[l][u]) + 1 ELSE Len(sent[l][u])
                   /\ Len(sent[l][u]) \in Nat
        <4>1. PICK q \in Seq(Nat) : q = sent[l][u]
          BY <1>9
        <4>2. Len(Append(q, id)) = Len(q) + 1 /\ Len(q) \in Nat
          BY <1>3
        <4>3. CASE l = k /\ u = s
          BY <1>7, <4>1, <4>2, <4>3
        <4>4. CASE l # k \/ u # s
          <5>1. sent'[l][u] = sent[l][u]
            BY <1>7, <4>4
          <5> QED
            BY <4>1, <4>2, <4>4, <5>1
        <4> QED
          BY <4>3, <4>4
      <3>3. PICK G : G = SentBy' /\ \A u \in Users : G[u] = IF u = s THEN SentBy[u] + 1 ELSE SentBy[u]
        <4>1. ASSUME NEW u \in Users
              PROVE  Len(sent'["plain"][u]) + Len(sent'["encrypted"][u])
                     = IF u = s THEN Len(sent["plain"][u]) + Len(sent["encrypted"][u]) + 1
                       ELSE Len(sent["plain"][u]) + Len(sent["encrypted"][u])
          <5>1. /\ Len(sent["plain"][u]) \in Nat
                /\ Len(sent'["plain"][u]) = IF "plain" = k /\ u = s THEN Len(sent["plain"][u]) + 1 ELSE Len(sent["plain"][u])
            BY <2>1, <3>2
          <5>2. /\ Len(sent["encrypted"][u]) \in Nat
                /\ Len(sent'["encrypted"][u]) = IF "encrypted" = k /\ u = s THEN Len(sent["encrypted"][u]) + 1 ELSE Len(sent["encrypted"][u])
            BY <2>1, <3>2
          <5>3. PICK x, y, v, w : /\ x = Len(sent["plain"][u]) /\ y = Len(sent["encrypted"][u])
                                  /\ v = Len(sent'["plain"][u]) /\ w = Len(sent'["encrypted"][u])
            OBVIOUS
          <5>4. CASE k = "plain"
            <6>1. x \in Nat /\ y \in Nat /\ w = y /\ v = IF u = s THEN x + 1 ELSE x
              BY <5>1, <5>2, <5>3, <5>4
            <6>2. v + w = IF u = s THEN x + y + 1 ELSE x + y
              BY <6>1
            <6> QED
              BY <5>3, <6>2
          <5>5. CASE k = "encrypted"
            <6>1. x \in Nat /\ y \in Nat /\ v = x /\ w = IF u = s THEN y + 1 ELSE y
              BY <5>1, <5>2, <5>3, <5>5
            <6>2. v + w = IF u = s THEN x + y + 1 ELSE x + y
              BY <6>1
            <6> QED
              BY <5>3, <6>2
          <5> QED
            BY <2>1, <5>4, <5>5
        <4>2. SentBy' = [u \in Users |-> Len(sent'["plain"][u]) + Len(sent'["encrypted"][u])]
          BY DEF SentBy
        <4>3. \A u \in Users : SentBy[u] = Len(sent["plain"][u]) + Len(sent["encrypted"][u])
          BY DEF SentBy
        <4>4. \A u \in Users : SentBy'[u] = Len(sent'["plain"][u]) + Len(sent'["encrypted"][u])
          BY <4>2
        <4>5. \A u \in Users : SentBy'[u] = IF u = s THEN SentBy[u] + 1 ELSE SentBy[u]
          BY <4>1, <4>3, <4>4
        <4> QED
          BY <4>5
      <3>4. Total(G, Users) = Total(SentBy, Users) - SentBy[s] + G[s] /\ Total(SentBy, Users) \in Int
        BY <3>1, <3>3, LedgerAssumption, TotalUpdated
      <3>5. stats'.total_messages = stats.total_messages + 1 /\ stats.total_messages = Total(SentBy, Users)
        BY <1>1 DEF Delivery, Counted
      <3> QED
        BY <3>1, <3>3, <3>4, <3>5
    <2> QED
      BY <2>2, <2>3, <2>4 DEF Counted
  <1>16. (Mail!IdsFollowTime)'
    <2> SUFFICES ASSUME NEW a \in Mail!Kinds, NEW b \in Mail!Kinds, NEW i \in DOMAIN msgs'[a], NEW j \in DOMAIN msgs'[b], i < j
                 PROVE  msgs'[a][i].timestamp < msgs'[b][j].timestamp
      BY DEF Mail!IdsFollowTime
    <2>1. m.timestamp = now
      BY DEF Delivery
    <2>2. ASSUME NEW l \in Mail!Kinds, NEW x \in DOMAIN msgs'[l]
          PROVE  (x = id /\ msgs'[l][x] = m) \/ (x \in DOMAIN msgs[l] /\ msgs'[l][x] = msgs[l][x] /\ x < id)
      <3>1. CASE l = k
        BY <1>4, <1>5, <3>1
      <3>2. CASE l # k
        BY <1>4, <1>5, <3>2
      <3> QED
        BY <3>1, <3>2
    <2>3. ASSUME NEW l \in Mail!Kinds, NEW x \in DOMAIN msgs[l] PROVE msgs[l][x].timestamp < now /\ x \in Nat
      <3>1. msgs[l][x] \in MailMessage /\ nonces # <<>> /\ msgs[l][x].timestamp <= nonces[Len(nonces)] /\ x \in 1 .. last
        BY <1>2, <1>3 DEF Stored
      <3>2. PICK y, z : y = msgs[l][x].timestamp /\ z = nonces[Len(nonces)] /\ y \in Int /\ z \in Int /\ z < now /\ y <= z
        BY <1>8, <3>1 DEF MailMessage
      <3> QED
        BY <3>1, <3>2
    <2>4. CASE i \in DOMAIN msgs[a] /\ msgs'[a][i] = msgs[a][i] /\ i < id
      <3>1. CASE j = id /\ msgs'[b][j] = m
        BY <2>1, <2>3, <2>4, <3>1
      <3>2. CASE j \in DOMAIN msgs[b] /\ msgs'[b][j] = msgs[b][j]
        BY <1>1, <2>4, <3>2 DEF Mail!IdsFollowTime
      <3> QED
        BY <2>2, <3>1, <3>2
    <2>5. CASE i = id
      <3>1. j = id \/ (j \in Nat /\ j < id)
        BY <2>2, <2>3
      <3> QED
        BY <1>3, <2>5, <3>1
    <2> QED
      BY <2>2, <2>4, <2>5
  <1> QED
    BY <1>10, <1>11, <1>13, <1>15, <1>16 DEF MailInv

LEMMA ReadingKeeps ==
  ASSUME MailInv, NEW k \in Mail!Kinds, NEW r \in Users, NEW id, Mail!MarkRead(k, r, id)
  PROVE  MailInv'
  <1>1. MailTyped /\ Counted /\ Mail!IdsFollowTime
    BY DEF MailInv
  <1>2. \A l \in Mail!Kinds : Stored(l) /\ \A u \in Users : Filed(l, u)
    BY DEF MailInv
  <1>3. id \in DOMAIN msgs[k] /\ msgs[k][id].recipient = r /\ ~msgs[k][id].read /\ UNCHANGED <<inbox, sent, nonces>>
    BY DEF Mail!MarkRead, Mail!Has
  <1>4. msgs[k][id] \in MailMessage
    BY <1>2, <1>3 DEF Stored
  <1>5. PICK m : m = [msgs[k][id] EXCEPT !.read = TRUE]
    OBVIOUS
  <1>6. m \in MailMessage /\ m.recipient = r /\ m.timestamp = msgs[k][id].timestamp /\ m.read = TRUE
    BY <1>3, <1>4, <1>5 DEF MailMessage
  <1>7. msgs' = [msgs EXCEPT ![k] = [msgs[k] EXCEPT ![id] = m]]
    BY <1>5 DEF Mail!MarkRead
  <1>8. /\ DOMAIN msgs' = Mail!Kinds
        /\ DOMAIN msgs'[k] = DOMAIN msgs[k] /\ msgs'[k][id] = m
        /\ \A x \in DOMAIN msgs[k] \ {id} : msgs'[k][x] = msgs[k][x]
        /\ \A l \in Mail!Kinds \ {k} : msgs'[l] = msgs[l]
    BY <1>1, <1>3, <1>7 DEF MailTyped
  <1>9. ASSUME NEW l \in Mail!Kinds
        PROVE  /\ DOMAIN msgs'[l] = DOMAIN msgs[l]
               /\ \A x \in DOMAIN msgs[l] : /\ msgs'[l][x].recipient = msgs[l][x].recipient
                                            /\ msgs'[l][x].timestamp = msgs[l][x].timestamp
                                            /\ msgs[l][x] \in MailMessage => msgs'[l][x] \in MailMessage
    <2>1. CASE l = k
      BY <1>3, <1>6, <1>8, <2>1
    <2>2. CASE l # k
      BY <1>8, <2>2
    <2> QED
      BY <2>1, <2>2
  <1>10. \A l \in Mail!Kinds, u \in Users : inbox[l][u] \in Seq(Nat)
    BY <1>1 DEF MailTyped
  <1>11. /\ UnreadOf(k)' = UnreadOf(k) \ {id} /\ id \in UnreadOf(k)
         /\ \A l \in Mail!Kinds \ {k} : UnreadOf(l)' = UnreadOf(l)
    BY <1>3, <1>6, <1>8 DEF UnreadOf
  <1>12. \A l \in Mail!Kinds, u \in Users : Received(l, u)' = Received(l, u)
    BY <1>9 DEF Received
  <1>13. ASSUME NEW l \in Mail!Kinds, NEW u \in Users
         PROVE  /\ Waiting(l, u) \in Nat /\ (l = k /\ u = r => Waiting(l, u) >= 1)
                /\ Waiting(l, u)' = IF l = k /\ u = r THEN Waiting(l, u) - 1 ELSE Waiting(l, u)
    <2>1. Waiting(l, u) \in Nat
      BY <1>10, CountType DEF Waiting
    <2>2. Lists(inbox[l][u], Received(l, u)) /\ inbox[l][u] \in Seq(Nat)
      BY <1>2, <1>10 DEF Filed
    <2>3. CASE l = k /\ u = r
      <3>1. id \in Received(k, r)
        BY <1>3 DEF Received
      <3>2. CountIn(inbox[k][r], UnreadOf(k) \ {id}) = CountIn(inbox[k][r], UnreadOf(k)) - 1 /\ CountIn(inbox[k][r], UnreadOf(k)) >= 1
        BY <1>11, <2>2, <2>3, <3>1, CountOneLess
      <3> QED
        BY <1>3, <1>11, <2>1, <2>3, <3>2 DEF Waiting
    <2>4. CASE l = k /\ u # r
      <3>1. \A i \in DOMAIN inbox[l][u] : inbox[l][u][i] # id
        BY <1>3, <2>2, <2>4 DEF Lists, Received
      <3>2. CountIn(inbox[l][u], UnreadOf(l) \ {id}) = CountIn(inbox[l][u], UnreadOf(l))
        BY <3>1, CountElsewhere
      <3> QED
        BY <1>3, <1>11, <2>1, <2>4, <3>2 DEF Waiting
    <2>5. CASE l # k
      BY <1>3, <1>11, <2>1, <2>5 DEF Waiting
    <2> QED
      BY <2>3, <2>4, <2>5
  <1>14. "plain" \in Mail!Kinds /\ "encrypted" \in Mail!Kinds /\ k \in {"plain", "encrypted"}
    BY DEF Mail!Kinds
  <1>15. unread \in [Users -> Nat]
    BY <1>1 DEF MailTyped
  <1>16. unread[r] >= 1
    <2>1. unread[r] = Waiting("plain", r) + Waiting("encrypted", r)
      BY <1>1 DEF Counted
    <2>2. Waiting("plain", r) \in Nat /\ (k = "plain" => Waiting("plain", r) >= 1)
      BY <1>13, <1>14
    <2>3. Waiting("encrypted", r) \in Nat /\ (k = "encrypted" => Waiting("encrypted", r) >= 1)
      BY <1>13, <1>14
    <2> QED
      BY <1>14, <2>1, <2>2, <2>3
  <1>17. unread' = [unread EXCEPT ![r] = unread[r] - 1]
    <2>1. unread' = [unread EXCEPT ![r] = IF unread[r] > 0 THEN unread[r] - 1 ELSE 0]
      BY DEF Mail!MarkRead
    <2>2. unread[r] \in Nat
      BY <1>15
    <2>3. (IF unread[r] > 0 THEN unread[r] - 1 ELSE 0) = unread[r] - 1
      BY <1>16, <2>2
    <2> QED
      BY <2>1, <2>3
  <1>18. stats.unread_messages >= 1 /\ stats.unread_messages \in Nat /\ stats.unread_messages = Total(unread, Users)
    <2>1. Total(unread, Users) >= unread[r]
      BY <1>15, LedgerAssumption, TotalAtLeast
    <2>2. stats.unread_messages = Total(unread, Users)
      BY <1>1 DEF Counted
    <2>3. stats.unread_messages \in Nat
      BY <1>1 DEF MailTyped
    <2>4. unread[r] \in Nat
      BY <1>15
    <2> QED
      BY <1>16, <2>1, <2>2, <2>3, <2>4
  <1>19. stats' = [stats EXCEPT !.unread_messages = stats.unread_messages - 1]
    <2>1. stats' = [stats EXCEPT !.unread_messages = IF stats.unread_messages > 0 THEN stats.unread_messages - 1 ELSE 0]
      BY DEF Mail!MarkRead
    <2>2. (IF stats.unread_messages > 0 THEN stats.unread_messages - 1 ELSE 0) = stats.unread_messages - 1
      BY <1>18
    <2> QED
      BY <2>1, <2>2
  <1>20. /\ stats' \in [total_messages : Nat, unread_messages : Nat, last_message_id : Nat]
         /\ stats'.total_messages = stats.total_messages /\ stats'.last_message_id = stats.last_message_id
         /\ stats'.unread_messages = stats.unread_messages - 1
    <2>1. stats \in [total_messages : Nat, unread_messages : Nat, last_message_id : Nat]
      BY <1>1 DEF MailTyped
    <2>2. PICK n \in Nat : n = stats.unread_messages - 1
      <3>1. stats.unread_messages - 1 \in Nat
        BY <1>18
      <3> QED
        BY <3>1
    <2>3. stats' = [stats EXCEPT !.unread_messages = n]
      BY <1>19, <2>2
    <2> QED
      BY <2>1, <2>2, <2>3
  <1>21. MailTyped'
    <2>1. unread[r] - 1 \in Nat
      BY <1>15, <1>16
    <2>2. unread' \in [Users -> Nat]
      BY <1>15, <1>17, <2>1
    <2> QED
      BY <1>1, <1>3, <1>8, <1>20, <2>2 DEF MailTyped
  <1>22. ASSUME NEW l \in Mail!Kinds PROVE Stored(l)'
    <2>1. \A x \in DOMAIN msgs[l] : msgs[l][x] \in MailMessage /\ msgs'[l][x] \in MailMessage /\ msgs'[l][x].timestamp = msgs[l][x].timestamp
      BY <1>2, <1>9 DEF Stored
    <2> QED
      BY <1>2, <1>3, <1>9, <1>20, <2>1 DEF Stored
  <1>23. ASSUME NEW l \in Mail!Kinds, NEW u \in Users PROVE Filed(l, u)'
    <2>1. Received(l, u)' = Received(l, u) /\ DOMAIN msgs'[l] = DOMAIN msgs[l] /\ Filed(l, u)
      BY <1>2, <1>9, <1>12
    <2> QED
      BY <1>3, <2>1 DEF Filed
  <1>24. Counted'
    <2>1. ASSUME NEW u \in Users PROVE unread'[u] = Waiting("plain", u)' + Waiting("encrypted", u)'
      <3>1. unread[u] = Waiting("plain", u) + Waiting("encrypted", u)
        BY <1>1 DEF Counted
      <3>2. unread'[u] = IF u = r THEN unread[u] - 1 ELSE unread[u]
        BY <1>15, <1>17
      <3>3. /\ Waiting("plain", u) \in Nat
            /\ Waiting("plain", u)' = IF "plain" = k /\ u = r THEN Waiting("plain", u) - 1 ELSE Waiting("plain", u)
        BY <1>13, <1>14
      <3>4. /\ Waiting("encrypted", u) \in Nat
            /\ Waiting("encrypted", u)' = IF "encrypted" = k /\ u = r THEN Waiting("encrypted", u) - 1 ELSE Waiting("encrypted", u)
        BY <1>13, <1>14
      <3> QED
        BY <1>14, <3>1, <3>2, <3>3, <3>4
    <2>2. stats'.unread_messages = Total(unread', Users)
      <3>1. PICK G : G = unread' /\ G[r] = unread[r] - 1 /\ \A u \in Users \ {r} : G[u] = unread[u]
        BY <1>15, <1>17
      <3>2. \A u \in Users : unread[u] \in Int
        BY <1>15
      <3>3. unread[r] \in Int /\ G[r] \in Int
        BY <3>1, <3>2
      <3>4. Total(G, Users) = Total(unread, Users) - unread[r] + G[r] /\ Total(unread, Users) \in Int
        BY <3>1, <3>2, <3>3, LedgerAssumption, TotalUpdated
      <3> QED
        BY <1>18, <1>20, <3>1, <3>3, <3>4
    <2>3. SentBy' = SentBy
      BY <1>3 DEF SentBy
    <2>4. stats'.total_messages = Total(SentBy', Users)
      BY <1>1, <1>20, <2>3 DEF Counted
    <2> QED
      BY <2>1, <2>2, <2>4 DEF Counted
  <1>25. (Mail!IdsFollowTime)'
    BY <1>1, <1>9 DEF Mail!IdsFollowTime
  <1> QED
    BY <1>21, <1>22, <1>23, <1>24, <1>25 DEF MailInv

LEMMA MailSame ==
  ASSUME MailInv, UNCHANGED <<msgs, inbox, sent, unread, stats, nonces>>
  PROVE  MailInv'
  <1>1. MailTyped' /\ (Mail!IdsFollowTime)'
    BY DEF MailInv, MailTyped, Mail!IdsFollowTime
  <1>2. \A k \in Mail!Kinds : Stored(k)' /\ \A u \in Users : Filed(k, u)'
    BY DEF MailInv, Stored, Filed, Received
  <1>3. Counted
    BY DEF MailInv
  <1>4. Counted'
    <2>1. SentBy' = SentBy
      BY DEF SentBy
    <2>2. \A k, u : Waiting(k, u)' = Waiting(k, u)
      BY DEF Waiting, UnreadOf
    <2> QED
      BY <1>3, <2>1, <2>2 DEF Counted
  <1> QED
    BY <1>1, <1>2, <1>4 DEF MailInv

LEMMA MailKeeps ==
  ASSUME MailInv, now \in Nat, Mail!MessagingNext
  PROVE  MailInv' /\ now' \in Nat
  <1>1. "plain" \in Mail!Kinds /\ "encrypted" \in Mail!Kinds
    BY DEF Mail!Kinds
  <1>2. ASSUME NEW s \in Users, NEW r \in Users, NEW l, Mail!send_message(s, r, l) \/ Mail!send_encrypted_message(s, r, l)
        PROVE  MailInv' /\ now' \in Nat
    <2>1. now' = now /\ \E k \in Mail!Kinds : \E f : Mail!AdmitMessage(s, r, l, f) /\ Mail!Deliver(k, s, r)
      BY <1>1, <1>2 DEF Mail!send_message, Mail!send_encrypted_message
    <2>2. \E k \in Mail!Kinds : \E id, m : Delivery(k, s, r, id, m)
      BY <2>1, DeliveryIs
    <2> QED
      BY <2>1, <2>2, DeliveryKeeps
  <1>3. ASSUME NEW r \in Users, NEW id, Mail!mark_as_read(r, id) \/ Mail!mark_encrypted_as_read(r, id)
        PROVE  MailInv' /\ now' \in Nat
    <2>1. \E k \in Mail!Kinds : Mail!MarkRead(k, r, id)
      BY <1>1, <1>3 DEF Mail!mark_as_read, Mail!mark_encrypted_as_read
    <2>2. now' = now
      BY <2>1 DEF Mail!MarkRead
    <2> QED
      BY <2>1, <2>2, ReadingKeeps
  <1>4. CASE UNCHANGED <<msgs, inbox, sent, unread, stats, nonces>> /\ now' \in Nat
    BY <1>4, MailSame
  <1>5. ASSUME NEW u, Mail!register_encryption_key(u)
        PROVE  UNCHANGED <<msgs, inbox, sent, unread, stats, nonces>> /\ now' \in Nat
    BY <1>5 DEF Mail!register_encryption_key, Mail!mailbox
  <1>6. ASSUME NEW c, Mail!set_rate_limit_config(c)
        PROVE  UNCHANGED <<msgs, inbox, sent, unread, stats, nonces>> /\ now' \in Nat
    BY <1>6 DEF Mail!set_rate_limit_config, Mail!mailbox
  <1>7. ASSUME NEW u, NEW p, Mail!set_premium_user(u, p)
        PROVE  UNCHANGED <<msgs, inbox, sent, unread, stats, nonces>> /\ now' \in Nat
    BY <1>7 DEF Mail!set_premium_user, Mail!mailbox
  <1>8. ASSUME NEW l, Mail!set_cb_pause_level(l) PROVE UNCHANGED <<msgs, inbox, sent, unread, stats, nonces>> /\ now' \in Nat
    BY <1>8 DEF Mail!set_cb_pause_level, Mail!mailbox
  <1>9. ASSUME NEW f, Mail!pause_cb_function(f) \/ Mail!unpause_cb_function(f)
        PROVE  UNCHANGED <<msgs, inbox, sent, unread, stats, nonces>> /\ now' \in Nat
    BY <1>9 DEF Mail!pause_cb_function, Mail!unpause_cb_function, Mail!mailbox
  <1>10. ASSUME Mail!CloseLedger, UNCHANGED Mail!messagingVars
         PROVE  UNCHANGED <<msgs, inbox, sent, unread, stats, nonces>> /\ now' \in Nat
    BY <1>10 DEF Mail!CloseLedger, Mail!messagingVars
  <1> QED
    BY <1>2, <1>3, <1>4, <1>5, <1>6, <1>7, <1>8, <1>9, <1>10 DEF Mail!MessagingNext

-----------------------------------------------------------------------------
\* Two records of one fact agree.
RecordsInv ==
  /\ RegistryInv /\ DocumentsInv /\ PositionsInv /\ MailInv
  /\ contract = "messaging" => now \in Nat

LEMMA RecordsBegin ==
  ASSUME ContractsInit
  PROVE  RecordsInv
  <1>1. now = 0 /\ Registry!TcrInit /\ Ids!IdentityInit /\ Amm!AmmInit /\ Mail!MessagingInit
    BY DEF ContractsInit
  <1> QED
    BY <1>1, RegistryBegins, DocumentsBegin, PositionsBegin, MailBegins DEF RecordsInv

LEMMA RegistrySame ==
  ASSUME RegistryInv, UNCHANGED tcrVars
  PROVE  RegistryInv'
  BY DEF tcrVars, RegistryInv, RegistryTyped, Tallied, StakesOn, Registry!StakeOf, Registry!Has

LEMMA DocumentsSame ==
  ASSUME DocumentsInv, UNCHANGED didVars
  PROVE  DocumentsInv'
  BY DEF didVars, DocumentsInv

LEMMA PositionsSame ==
  ASSUME PositionsInv, UNCHANGED ammVars
  PROVE  PositionsInv'
  BY DEF ammVars, PositionsInv, PositionsTyped, Owned

LEMMA MailboxSame ==
  ASSUME MailInv, UNCHANGED messagingVars
  PROVE  MailInv'
  BY MailSame DEF messagingVars

LEMMA RecordsKeep ==
  ASSUME RecordsInv, [ContractsNext]_contractVars
  PROVE  RecordsInv'
  <1>1. CASE UNCHANGED contractVars
    <2>1. UNCHANGED <<now, contract, tcrVars, didVars, ammVars, messagingVars>>
      BY <1>1 DEF contractVars
    <2> QED
      BY <2>1, RegistrySame, DocumentsSame, PositionsSame, MailboxSame DEF RecordsInv
  <1>2. CASE ContractsNext
    <2>1. OthersUnchanged /\ contract' = contract
      BY <1>2 DEF ContractsNext, OthersUnchanged
    <2>2. RegistryInv'
      <3>1. CASE contract = "registry"
        BY <1>2, <3>1, RegistryAssumption, RegistryKeeps DEF RecordsInv, ContractsNext
      <3>2. CASE contract # "registry"
        BY <2>1, <3>2, RegistrySame DEF RecordsInv, OthersUnchanged
      <3> QED
        BY <3>1, <3>2
    <2>3. DocumentsInv'
      <3>1. CASE contract = "did"
        BY <1>2, <3>1, DocumentsKept DEF RecordsInv, ContractsNext
      <3>2. CASE contract # "did"
        BY <2>1, <3>2, DocumentsSame DEF RecordsInv, OthersUnchanged
      <3> QED
        BY <3>1, <3>2
    <2>4. PositionsInv'
      <3>1. CASE contract = "amm"
        BY <1>2, <3>1, PositionsKept DEF RecordsInv, ContractsNext
      <3>2. CASE contract # "amm"
        BY <2>1, <3>2, PositionsSame DEF RecordsInv, OthersUnchanged
      <3> QED
        BY <3>1, <3>2
    <2>5. MailInv' /\ (contract' = "messaging" => now' \in Nat)
      <3>1. CASE contract = "messaging"
        BY <1>2, <3>1, MailKeeps DEF RecordsInv, ContractsNext
      <3>2. CASE contract # "messaging"
        BY <2>1, <3>2, MailboxSame DEF RecordsInv, OthersUnchanged
      <3> QED
        BY <3>1, <3>2
    <2> QED
      BY <2>2, <2>3, <2>4, <2>5 DEF RecordsInv
  <1> QED
    BY <1>1, <1>2

\* Two records of one fact agree after any calls of any users: the AMM's owner
\* index lists exactly the live positions, oldest first (mint_position,
\* deindex_owner_position); a challenge's tallies are the stakes voted on it;
\* unread counters and statistics are what get_messages lists, and message ids
\* follow time; a DID document authenticates with the methods it lists.
THEOREM RecordsAlwaysAgree == ContractsSpec => []RecordsAgree
  <1>1. RecordsInv => RecordsAgree
    BY RegistryHolds, DocumentsHold, PositionsHold, MailHolds DEF RecordsInv, RecordsAgree
  <1> QED
    BY <1>1, RecordsBegin, RecordsKeep, PTL DEF ContractsSpec
=============================================================================
