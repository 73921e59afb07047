----------------------------- MODULE ProofBasics -----------------------------
(***************************************************************************)
(* Facts about numbers and finite sums that the proofs of the contracts    *)
(* share.  MapThenSumSet is a recursive function over the subsets of a     *)
(* set; that such a function exists, that there is only one, and that the  *)
(* order in which it takes the elements does not matter follows from the   *)
(* least-number principle, which stands for induction here.                *)
(***************************************************************************)
EXTENDS Integers, FiniteSets, FiniteSetsExt, FiniteSetTheorems, WellFoundedInduction, TLAPS

\* A set of natural numbers that is not empty has a least member.
LEMMA LeastNumber ==
  ASSUME NEW T, T \subseteq Nat, T # {}
  PROVE  \E n \in T : \A m \in T : n <= m
  <1> DEFINE R == OpToRel(<, Nat)
  <1>1. IsWellFoundedOn(R, Nat)
    BY NatLessThanWellFounded
  <1>2. PICK n \in T : \A m \in T : ~(<<m, n>> \in R)
    BY <1>1, WFMin
  <1>3. ASSUME NEW m \in T PROVE n <= m
    <2>1. m \in Nat /\ n \in Nat
      OBVIOUS
    <2>2. ~(m < n)
      BY <1>2, <2>1 DEF OpToRel
    <2> HIDE DEF R
    <2> QED
      BY <2>1, <2>2
  <1> QED
    BY <1>3

\* A set of finite sets that is not empty has a member without a proper subset
\* in it.
LEMMA LeastSet ==
  ASSUME NEW W, W # {}, \A s \in W : IsFiniteSet(s)
  PROVE  \E s \in W : \A t \in W : ~(t \subseteq s /\ t # s)
  <1> DEFINE T == {Cardinality(s) : s \in W}
  <1>1. T \subseteq Nat /\ T # {}
    BY FS_CardinalityType
  <1>2. PICK n \in T : \A m \in T : n <= m
    <2> HIDE DEF T
    <2> QED
      BY <1>1, LeastNumber
  <1>3. PICK s \in W : Cardinality(s) = n
    BY <1>2
  <1>4. ASSUME NEW t \in W, t \subseteq s, t # s PROVE FALSE
    <2>1. Cardinality(t) <= Cardinality(s) /\ Cardinality(s) # Cardinality(t)
      BY <1>4, FS_Subset
    <2>2. Cardinality(t) \in T /\ Cardinality(t) \in Nat /\ Cardinality(s) \in Nat
      BY FS_CardinalityType
    <2> HIDE DEF T
    <2> QED
      BY <1>2, <1>3, <2>1, <2>2
  <1> QED
    BY <1>3, <1>4

-----------------------------------------------------------------------------
\* g is the recursive function behind the sum of F over the subsets of S.
Taken(s) == CHOOSE x \in s : TRUE
Sums(g, F, S) ==
  g = [s \in SUBSET S |-> IF s = {} THEN 0 ELSE F[Taken(s)] + g[s \ {Taken(s)}]]
Total(F, S) == MapThenSumSet(LAMBDA x : F[x], S)

LEMMA TakenIsMember ==
  ASSUME NEW s, s # {}
  PROVE  Taken(s) \in s
  BY DEF Taken

\* Two such functions agree wherever their summands do.
LEMMA SumsAgree ==
  ASSUME NEW S, NEW R, NEW F, NEW G, NEW g, NEW h, Sums(g, F, S), Sums(h, G, R),
         NEW s \in SUBSET S, s \in SUBSET R, IsFiniteSet(s), \A x \in s : F[x] = G[x]
  PROVE  g[s] = h[s]
  <1> DEFINE W == {t \in SUBSET s : g[t] # h[t]}
  <1>1. SUFFICES ASSUME W # {} PROVE FALSE
    OBVIOUS
  <1>2. PICK t \in W : \A u \in W : ~(u \subseteq t /\ u # t)
    <2>1. \A u \in W : IsFiniteSet(u)
      BY FS_Subset
    <2> HIDE DEF W
    <2> QED
      BY <1>1, <2>1, LeastSet
  <1>3. t \subseteq s /\ g[t] # h[t]
    BY <1>2
  <1>4. /\ g[t] = IF t = {} THEN 0 ELSE F[Taken(t)] + g[t \ {Taken(t)}]
        /\ h[t] = IF t = {} THEN 0 ELSE G[Taken(t)] + h[t \ {Taken(t)}]
    BY <1>3 DEF Sums
  <1>5. t # {} /\ Taken(t) \in t
    BY <1>3, <1>4, TakenIsMember
  <1>6. PICK u : u = t \ {Taken(t)}
    OBVIOUS
  <1>7. u \subseteq t /\ u # t
    BY <1>5, <1>6
  <1>8. g[u] = h[u]
    BY <1>2, <1>3, <1>7
  <1> QED
    BY <1>3, <1>4, <1>5, <1>6, <1>8

\* The function exists for every finite set.
LEMMA SumsExist ==
  ASSUME NEW F, NEW S, IsFiniteSet(S)
  PROVE  \E g : Sums(g, F, S)
  <1> DEFINE W == {T \in SUBSET S : ~\E g : Sums(g, F, T)}
  <1>1. SUFFICES ASSUME W # {} PROVE FALSE
    OBVIOUS
  <1>2. PICK T \in W : \A u \in W : ~(u \subseteq T /\ u # T)
    <2>1. \A u \in W : IsFiniteSet(u)
      BY FS_Subset
    <2> HIDE DEF W
    <2> QED
      BY <1>1, <2>1, LeastSet
  <1>3. T \subseteq S /\ ~\E g : Sums(g, F, T)
    BY <1>2
  <1>4. IsFiniteSet(T)
    BY <1>3, FS_Subset
  <1> DEFINE Part(u) == CHOOSE g : Sums(g, F, u)
             At(s) == IF s = {} THEN 0 ELSE F[Taken(s)] + Part(s \ {Taken(s)})[s \ {Taken(s)}]
             g == [s \in SUBSET T |-> At(s)]
  <1>5. ASSUME NEW u \in SUBSET T, u # T PROVE Sums(Part(u), F, u)
    <2>1. u \in SUBSET S /\ u \notin W
      BY <1>2, <1>3, <1>5
    <2>2. \E f : Sums(f, F, u)
      BY <2>1
    <2> QED
      BY <2>2
  <1>6. ASSUME NEW u \in SUBSET T, u # T PROVE At(u) = Part(u)[u]
    <2>1. Sums(Part(u), F, u)
      BY <1>6, <1>5
    <2>2. Part(u)[u] = IF u = {} THEN 0 ELSE F[Taken(u)] + Part(u)[u \ {Taken(u)}]
      <3> HIDE DEF Part
      <3> QED
        BY <2>1 DEF Sums
    <2>3. CASE u = {}
      <3> HIDE DEF Part
      <3> QED
        BY <2>2, <2>3
    <2>4. CASE u # {}
      <3>1. PICK v : v = u \ {Taken(u)}
        OBVIOUS
      <3>2. Taken(u) \in u /\ v \in SUBSET u /\ v \in SUBSET T /\ v # T
        BY <2>4, <3>1, TakenIsMember
      <3>3. Sums(Part(v), F, v) /\ IsFiniteSet(v)
        BY <1>4, <1>5, <3>2, FS_Subset
      <3> HIDE DEF Part
      <3>4. Part(u)[v] = Part(v)[v]
        BY <2>1, <3>2, <3>3, SumsAgree
      <3> QED
        BY <2>2, <2>4, <3>1, <3>4
    <2> QED
      BY <2>3, <2>4
  <1>7. ASSUME NEW s \in SUBSET T, s # {} PROVE At(s) = F[Taken(s)] + g[s \ {Taken(s)}]
    <2>1. PICK v : v = s \ {Taken(s)}
      OBVIOUS
    <2>2. Taken(s) \in s /\ v \in SUBSET T /\ v # T
      BY <1>7, <2>1, TakenIsMember
    <2>3. g[v] = At(v) /\ At(v) = Part(v)[v]
      BY <1>6, <2>2
    <2>4. At(s) = F[Taken(s)] + Part(v)[v]
      BY <1>7, <2>1
    <2> HIDE DEF At, Part, g
    <2> QED
      BY <2>1, <2>3, <2>4
  <1>8. \A s \in SUBSET T : At(s) = IF s = {} THEN 0 ELSE F[Taken(s)] + g[s \ {Taken(s)}]
    <2>1. At({}) = 0
      OBVIOUS
    <2> HIDE DEF At, g, Part
    <2> QED
      BY <1>7, <2>1
  <1>9. Sums(g, F, T)
    <2>1. g = [s \in SUBSET T |-> At(s)]
      OBVIOUS
    <2> HIDE DEF At, g, Part
    <2> QED
      BY <1>8, <2>1 DEF Sums
  <1> QED
    BY <1>3, <1>9

LEMMA TotalIsSum ==
  ASSUME NEW F, NEW S, IsFiniteSet(S)
  PROVE  \E g : Sums(g, F, S) /\ Total(F, S) = g[S]
  <1> DEFINE g == CHOOSE f : Sums(f, F, S)
  <1>1. Sums(g, F, S)
    BY SumsExist
  <1>2. Total(F, S) = g[S]
    BY DEF Total, MapThenSumSet, MapThenFoldSet, Sums, Taken
  <1> QED
    BY <1>1, <1>2

\* The sum depends on the summands alone.
LEMMA TotalAgrees ==
  ASSUME NEW F, NEW G, NEW S, IsFiniteSet(S), \A x \in S : F[x] = G[x]
  PROVE  Total(F, S) = Total(G, S)
  <1>1. PICK g : Sums(g, F, S) /\ Total(F, S) = g[S]
    BY TotalIsSum
  <1>2. PICK h : Sums(h, G, S) /\ Total(G, S) = h[S]
    BY TotalIsSum
  <1>3. g[S] = h[S]
    BY <1>1, <1>2, SumsAgree
  <1> QED
    BY <1>1, <1>2, <1>3

LEMMA TotalTakes ==
  ASSUME NEW F, NEW S, IsFiniteSet(S)
  PROVE  Total(F, S) = IF S = {} THEN 0 ELSE F[Taken(S)] + Total(F, S \ {Taken(S)})
  <1>1. PICK g : Sums(g, F, S) /\ Total(F, S) = g[S]
    BY TotalIsSum
  <1>2. PICK R : R = S \ {Taken(S)}
    OBVIOUS
  <1>3. R \in SUBSET S /\ IsFiniteSet(R)
    BY <1>2, FS_Subset
  <1>4. PICK h : Sums(h, F, R) /\ Total(F, R) = h[R]
    BY <1>3, TotalIsSum
  <1>5. g[R] = h[R]
    BY <1>1, <1>3, <1>4, SumsAgree
  <1>6. g[S] = IF S = {} THEN 0 ELSE F[Taken(S)] + g[R]
    BY <1>1, <1>2 DEF Sums
  <1> QED
    BY <1>1, <1>2, <1>4, <1>5, <1>6

LEMMA TotalEmpty ==
  ASSUME NEW F
  PROVE  Total(F, {}) = 0
  BY TotalTakes, FS_EmptySet

LEMMA TotalType ==
  ASSUME NEW F, NEW S, IsFiniteSet(S), \A x \in S : F[x] \in Int
  PROVE  Total(F, S) \in Int
  <1> DEFINE W == {s \in SUBSET S : Total(F, s) \notin Int}
  <1>1. SUFFICES ASSUME W # {} PROVE FALSE
    OBVIOUS
  <1>2. PICK t \in W : \A u \in W : ~(u \subseteq t /\ u # t)
    <2>1. \A u \in W : IsFiniteSet(u)
      BY FS_Subset
    <2> HIDE DEF W
    <2> QED
      BY <1>1, <2>1, LeastSet
  <1>3. t \subseteq S /\ Total(F, t) \notin Int
    BY <1>2
  <1>4. IsFiniteSet(t)
    BY <1>3, FS_Subset
  <1>5. t # {} /\ Taken(t) \in t
    BY <1>3, TotalEmpty, TakenIsMember
  <1>6. PICK u : u = t \ {Taken(t)}
    OBVIOUS
  <1>7. Total(F, u) \in Int
    BY <1>2, <1>3, <1>5, <1>6
  <1>8. Total(F, t) = F[Taken(t)] + Total(F, u)
    BY <1>4, <1>5, <1>6, TotalTakes
  <1> QED
    BY <1>3, <1>5, <1>7, <1>8

\* An element may be taken out of a sum first, whichever it is.
LEMMA TotalWithout ==
  ASSUME NEW F, NEW S, IsFiniteSet(S), \A x \in S : F[x] \in Int, NEW y \in S
  PROVE  Total(F, S) = F[y] + Total(F, S \ {y})
  <1> DEFINE W == {s \in SUBSET S : \E x \in s : Total(F, s) # F[x] + Total(F, s \ {x})}
  <1>1. SUFFICES ASSUME W # {} PROVE FALSE
    OBVIOUS
  <1>2. PICK t \in W : \A u \in W : ~(u \subseteq t /\ u # t)
    <2>1. \A u \in W : IsFiniteSet(u)
      BY FS_Subset
    <2> HIDE DEF W
    <2> QED
      BY <1>1, <2>1, LeastSet
  <1>3. PICK x \in t : Total(F, t) # F[x] + Total(F, t \ {x})
    BY <1>2
  <1>4. t \subseteq S /\ IsFiniteSet(t)
    BY <1>2, FS_Subset
  <1>5. PICK z : z = Taken(t) /\ z \in t
    BY <1>3, TakenIsMember
  <1>6. Total(F, t) = F[z] + Total(F, t \ {z})
    BY <1>4, <1>5, TotalTakes
  <1>7. x # z
    BY <1>3, <1>6
  <1>8. PICK u, v, w : u = t \ {z} /\ v = t \ {x} /\ w = t \ {x, z}
    OBVIOUS
  <1>9. /\ u \subseteq t /\ u # t /\ v \subseteq t /\ v # t /\ w \subseteq t
        /\ x \in u /\ z \in v /\ u \ {x} = w /\ v \ {z} = w
    BY <1>5, <1>7, <1>8
  <1>10. u \in SUBSET S /\ v \in SUBSET S /\ u \notin W /\ v \notin W
    <2> HIDE DEF W
    <2>1. u \notin W /\ v \notin W
      BY <1>2, <1>9
    <2> QED
      BY <1>4, <1>9, <2>1
  <1>11. Total(F, u) = F[x] + Total(F, w) /\ Total(F, v) = F[z] + Total(F, w)
    BY <1>9, <1>10
  <1>12. F[x] \in Int /\ F[z] \in Int /\ Total(F, w) \in Int
    <2>1. IsFiniteSet(w) /\ \A i \in w : F[i] \in Int
      BY <1>4, <1>9, FS_Subset
    <2> QED
      BY <1>4, <1>5, <2>1, TotalType
  <1> HIDE DEF W
  <1> QED
    BY <1>3, <1>6, <1>8, <1>11, <1>12

\* One more element.
LEMMA TotalAdd ==
  ASSUME NEW F, NEW S, IsFiniteSet(S), NEW y, y \notin S, \A x \in S \cup {y} : F[x] \in Int
  PROVE  Total(F, S \cup {y}) = Total(F, S) + F[y]
  <1>1. PICK T : T = S \cup {y}
    OBVIOUS
  <1>2. IsFiniteSet(T) /\ T \ {y} = S /\ y \in T /\ \A x \in T : F[x] \in Int
    BY <1>1, FS_AddElement
  <1>3. Total(F, T) = F[y] + Total(F, T \ {y})
    BY <1>2, TotalWithout
  <1>4. Total(F, S) \in Int /\ F[y] \in Int
    BY <1>2, TotalType
  <1>5. Total(F, T) = F[y] + Total(F, S)
    BY <1>2, <1>3
  <1>6. Total(F, T) = Total(F, S) + F[y]
    BY <1>4, <1>5
  <1> QED
    BY <1>1, <1>6

\* Sums of natural numbers are natural, and grow with the set.
LEMMA TotalNatural ==
  ASSUME NEW F, NEW S, IsFiniteSet(S), \A x \in S : F[x] \in Nat
  PROVE  Total(F, S) \in Nat
  <1> DEFINE W == {s \in SUBSET S : Total(F, s) \notin Nat}
  <1>1. SUFFICES ASSUME W # {} PROVE FALSE
    OBVIOUS
  <1>2. PICK t \in W : \A u \in W : ~(u \subseteq t /\ u # t)
    <2>1. \A u \in W : IsFiniteSet(u)
      BY FS_Subset
    <2> HIDE DEF W
    <2> QED
      BY <1>1, <2>1, LeastSet
  <1>3. t \subseteq S /\ Total(F, t) \notin Nat
    BY <1>2
  <1>4. IsFiniteSet(t)
    BY <1>3, FS_Subset
  <1>5. t # {} /\ Taken(t) \in t
    BY <1>3, TotalEmpty, TakenIsMember
  <1>6. PICK u : u = t \ {Taken(t)}
    OBVIOUS
  <1>7. Total(F, u) \in Nat
    BY <1>2, <1>3, <1>5, <1>6
  <1>8. Total(F, t) = F[Taken(t)] + Total(F, u)
    BY <1>4, <1>5, <1>6, TotalTakes
  <1> QED
    BY <1>3, <1>5, <1>7, <1>8

-----------------------------------------------------------------------------
\* The sum of a field of some records of a sequence, or of any function.
FieldSum(q, f, S) == MapThenSumSet(LAMBDA j : q[j][f], S)
Field(q, f) == [j \in DOMAIN q |-> q[j][f]]

\* A sum of fields is a sum of the values of a function.
LEMMA FieldSumIsTotal ==
  ASSUME NEW q, NEW f, NEW S, IsFiniteSet(S), S \subseteq DOMAIN q
  PROVE  FieldSum(q, f, S) = Total(Field(q, f), S)
  <1> DEFINE Step(h) == [s \in SUBSET S |-> IF s = {} THEN 0 ELSE q[Taken(s)][f] + h[s \ {Taken(s)}]]
             g == CHOOSE h : h = Step(h)
  <1>1. FieldSum(q, f, S) = g[S]
    BY DEF FieldSum, MapThenSumSet, MapThenFoldSet, Taken
  <1>2. ASSUME NEW h
        PROVE  Step(h) = [s \in SUBSET S |-> IF s = {} THEN 0 ELSE Field(q, f)[Taken(s)] + h[s \ {Taken(s)}]]
    <2>1. ASSUME NEW s \in SUBSET S, s # {} PROVE q[Taken(s)][f] = Field(q, f)[Taken(s)]
      <3>1. Taken(s) \in DOMAIN q
        BY <2>1, TakenIsMember
      <3> QED
        BY <3>1 DEF Field
    <2> QED
      BY <2>1
  <1>3. PICK h : Sums(h, Field(q, f), S) /\ Total(Field(q, f), S) = h[S]
    BY TotalIsSum
  <1>4. h = Step(h)
    BY <1>2, <1>3 DEF Sums
  <1> HIDE DEF Step
  <1>5. g = Step(g)
    BY <1>4
  <1> HIDE DEF g
  <1>6. Sums(g, Field(q, f), S)
    BY <1>2, <1>5 DEF Sums
  <1>7. g[S] = h[S]
    BY <1>3, <1>6, SumsAgree
  <1> QED
    BY <1>1, <1>3, <1>7

\* A sum of fields that are whole numbers is one, and takes its members apart.
LEMMA FieldSumType ==
  ASSUME NEW q, NEW f, NEW S, IsFiniteSet(S), S \subseteq DOMAIN q, \A j \in S : q[j][f] \in Int
  PROVE  FieldSum(q, f, S) \in Int
  <1>1. \A j \in S : Field(q, f)[j] \in Int
    BY DEF Field
  <1> QED
    BY <1>1, FieldSumIsTotal, TotalType

LEMMA FieldSumNatural ==
  ASSUME NEW q, NEW f, NEW S, IsFiniteSet(S), S \subseteq DOMAIN q, \A j \in S : q[j][f] \in Nat
  PROVE  FieldSum(q, f, S) \in Nat
  <1>1. \A j \in S : Field(q, f)[j] \in Nat
    BY DEF Field
  <1> QED
    BY <1>1, FieldSumIsTotal, TotalNatural

LEMMA FieldSumWithout ==
  ASSUME NEW q, NEW f, NEW S, IsFiniteSet(S), S \subseteq DOMAIN q, \A j \in S : q[j][f] \in Int, NEW i \in S
  PROVE  FieldSum(q, f, S) = q[i][f] + FieldSum(q, f, S \ {i})
  <1>1. (\A j \in S : Field(q, f)[j] \in Int) /\ Field(q, f)[i] = q[i][f]
    BY DEF Field
  <1>2. IsFiniteSet(S \ {i}) /\ S \ {i} \subseteq DOMAIN q
    BY FS_RemoveElement
  <1>3. FieldSum(q, f, S) = Total(Field(q, f), S) /\ FieldSum(q, f, S \ {i}) = Total(Field(q, f), S \ {i})
    BY <1>2, FieldSumIsTotal
  <1> QED
    BY <1>1, <1>3, TotalWithout

\* It depends on the fields alone.
LEMMA FieldSumAgrees ==
  ASSUME NEW q, NEW r, NEW f, NEW S, IsFiniteSet(S), S \subseteq DOMAIN q, S \subseteq DOMAIN r,
         \A j \in S : q[j][f] = r[j][f]
  PROVE  FieldSum(q, f, S) = FieldSum(r, f, S)
  <1>1. \A j \in S : Field(q, f)[j] = Field(r, f)[j]
    BY DEF Field
  <1>2. FieldSum(q, f, S) = Total(Field(q, f), S) /\ FieldSum(r, f, S) = Total(Field(r, f), S)
    BY FieldSumIsTotal
  <1> QED
    BY <1>1, <1>2, TotalAgrees

LEMMA FieldSumEmpty ==
  ASSUME NEW q, NEW f
  PROVE  FieldSum(q, f, {}) = 0
  BY FieldSumIsTotal, TotalEmpty, FS_EmptySet

LEMMA FieldSumAdd ==
  ASSUME NEW q, NEW r, NEW f, NEW S, IsFiniteSet(S), S \subseteq DOMAIN q, S \subseteq DOMAIN r,
         \A j \in S : q[j][f] = r[j][f] /\ q[j][f] \in Int, NEW y \in DOMAIN r, y \notin S, r[y][f] \in Int
  PROVE  FieldSum(r, f, S \cup {y}) = FieldSum(q, f, S) + r[y][f]
  <1>1. PICK T : T = S \cup {y}
    OBVIOUS
  <1>2. IsFiniteSet(T) /\ T \subseteq DOMAIN r /\ y \in T /\ T \ {y} = S
    BY <1>1, FS_AddElement
  <1>3. \A j \in T : r[j][f] \in Int
    BY <1>1
  <1>4. FieldSum(r, f, T) = r[y][f] + FieldSum(r, f, S)
    BY <1>2, <1>3, FieldSumWithout
  <1>5. FieldSum(r, f, S) = FieldSum(q, f, S)
    BY FieldSumAgrees
  <1>6. FieldSum(q, f, S) \in Int
    BY FieldSumType
  <1> QED
    BY <1>1, <1>4, <1>5, <1>6

-----------------------------------------------------------------------------
\* G has the values of F after the first m.
Follows(F, G, m, n, S) ==
  /\ m \in Nat /\ n \in Nat /\ S \subseteq 1 .. m
  /\ \A i \in 1 .. m + n : F[i] \in Int
  /\ \A k \in 1 .. n : G[k] = F[m + k]

LEMMA FinitePrefix ==
  ASSUME NEW n \in Nat
  PROVE  IsFiniteSet(1 .. n)
  BY FS_Interval

\* The sum over an interval that follows the other indices.
LEMMA TotalAppend ==
  ASSUME NEW F, NEW G, NEW m, NEW n, NEW S, Follows(F, G, m, n, S)
  PROVE  Total(F, S \cup (m + 1 .. m + n)) = Total(F, S) + Total(G, 1 .. n)
  <1>0. m \in Nat /\ n \in Nat /\ S \subseteq 1 .. m
    BY DEF Follows
  <1>4. \A i \in 1 .. m + n : F[i] \in Int
    BY DEF Follows
  <1>5. \A k \in 1 .. n : G[k] = F[m + k]
    BY DEF Follows
  <1>1. IsFiniteSet(S) /\ Total(F, S) \in Int
    <2>1. IsFiniteSet(S)
      <3>1. IsFiniteSet(1 .. m)
        BY <1>0, FinitePrefix
      <3> QED
        BY <1>0, <3>1, FS_Subset
    <2>2. \A i \in S : F[i] \in Int
      BY <1>0, <1>4
    <2> QED
      BY <2>1, <2>2, TotalType
  <1> DEFINE Holds(k) == Total(F, S \cup (m + 1 .. m + k)) = Total(F, S) + Total(G, 1 .. k)
             T == {k \in 0 .. n : ~Holds(k)}
  <1>2. T = {}
    <2>1. SUFFICES ASSUME T # {} PROVE FALSE
      OBVIOUS
    <2>2. PICK k \in T : \A x \in T : k <= x
      <3>1. T \subseteq Nat
        OBVIOUS
      <3> HIDE DEF T
      <3> QED
        BY <2>1, <3>1, LeastNumber
    <2>3. k \in 0 .. n /\ ~Holds(k)
      BY <2>2
    <2>4. CASE k = 0
      <3>1. S \cup (m + 1 .. m + k) = S /\ 1 .. k = {}
        BY <1>0, <2>4
      <3>2. Total(G, {}) = 0
        BY TotalEmpty
      <3>3. Total(F, S \cup (m + 1 .. m + k)) = Total(F, S) + Total(G, 1 .. k)
        <4>1. PICK X, Y : X = S \cup (m + 1 .. m + k) /\ Y = 1 .. k
          OBVIOUS
        <4>2. Total(F, X) = Total(F, S) /\ Total(G, Y) = 0
          BY <3>1, <3>2, <4>1
        <4>3. Total(F, X) = Total(F, S) + Total(G, Y)
          BY <1>1, <4>2
        <4> QED
          BY <4>1, <4>3
      <3> QED
        BY <2>3, <3>3
    <2>5. CASE k # 0
      <3>1. PICK j : j = k - 1
        OBVIOUS
      <3>2. j \in 0 .. n /\ ~(k <= j) /\ k \in 1 .. n /\ j + 1 = k /\ k \in Nat /\ j \in Nat
        BY <1>0, <2>3, <2>5, <3>1
      <3>3. Holds(j)
        BY <2>2, <3>2
      <3>4. PICK A, B, y : A = S \cup (m + 1 .. m + j) /\ B = 1 .. j /\ y = m + k
        OBVIOUS
      <3>5. S \cup (m + 1 .. m + k) = A \cup {y} /\ y \notin A
        <4>1. y \in Nat /\ y > m /\ y > m + j /\ y = m + j + 1
          BY <1>0, <3>2, <3>4
        <4>2. y \notin A
          <5>1. y \notin S
            BY <1>0, <4>1
          <5>2. y \notin m + 1 .. m + j
            BY <1>0, <3>2, <4>1
          <5> QED
            BY <3>4, <5>1, <5>2
        <4>3. m + 1 .. y = (m + 1 .. m + j) \cup {y}
          <5>1. PICK a, b : a = m + 1 /\ b = m + j
            OBVIOUS
          <5>2. a \in Int /\ b \in Int /\ y = b + 1 /\ a <= y
            BY <1>0, <3>2, <4>1, <5>1
          <5>3. a .. b + 1 = (a .. b) \cup {b + 1}
            BY <5>2
          <5> QED
            BY <5>1, <5>2, <5>3
        <4> QED
          BY <3>4, <4>2, <4>3
      <3>6. 1 .. k = B \cup {k} /\ k \notin B
        BY <3>2, <3>4
      <3>7. IsFiniteSet(A) /\ IsFiniteSet(B)
        <4>1. IsFiniteSet(m + 1 .. m + j) /\ IsFiniteSet(1 .. j)
          <5>1. m + 1 \in Int /\ m + j \in Int
            BY <1>0, <3>2
          <5>2. IsFiniteSet(m + 1 .. m + j)
            BY <5>1, FS_Interval
          <5> QED
            BY <3>2, <5>2, FinitePrefix
        <4> QED
          BY <1>1, <3>4, <4>1, FS_Union
      <3>8. (\A i \in A \cup {y} : F[i] \in Int) /\ \A i \in B \cup {k} : G[i] \in Int
        <4>1. \A i \in A \cup {y} : i \in 1 .. m + n
          BY <1>0, <3>2, <3>4
        <4>2. \A i \in B \cup {k} : i \in 1 .. n /\ m + i \in 1 .. m + n
          BY <1>0, <3>2, <3>4
        <4> QED
          BY <1>4, <1>5, <4>1, <4>2
      <3>9. Total(F, A \cup {y}) = Total(F, A) + F[y]
        BY <3>5, <3>7, <3>8, TotalAdd
      <3>10. Total(G, B \cup {k}) = Total(G, B) + G[k]
        BY <3>6, <3>7, <3>8, TotalAdd
      <3>11. Total(G, B) \in Int /\ G[k] \in Int /\ G[k] = F[y]
        BY <1>5, <3>2, <3>4, <3>7, <3>8, TotalType
      <3>12. Total(F, A) = Total(F, S) + Total(G, B)
        BY <3>3, <3>4
      <3>13. Total(F, A \cup {y}) = Total(F, S) + Total(G, B \cup {k})
        BY <1>1, <3>9, <3>10, <3>11, <3>12
      <3> QED
        BY <2>3, <3>5, <3>6, <3>13
    <2> QED
      BY <2>4, <2>5
  <1>3. Holds(n)
    <2>1. n \in 0 .. n
      BY <1>0
    <2> HIDE DEF Holds
    <2> QED
      BY <1>2, <2>1
  <1> QED
    BY <1>3

\* A sum over pairs: each pair adds up to nothing, or to twice the other summand.
Paired(F, G, n, c) ==
  \A k \in 1 .. n : /\ F[2 * k - 1] \in Int /\ F[2 * k] \in Int /\ G[k] \in Int
                    /\ F[2 * k - 1] + F[2 * k] = c * G[k]

LEMMA TotalPairs ==
  ASSUME NEW F, NEW G, NEW n \in Nat, NEW c \in {0, 2}, Paired(F, G, n, c)
  PROVE  Total(F, 1 .. 2 * n) = c * Total(G, 1 .. n)
  <1> DEFINE Holds(k) == /\ Total(F, 1 .. 2 * k) = c * Total(G, 1 .. k)
                         /\ \A i \in 1 .. 2 * k : F[i] \in Int
             T == {k \in 0 .. n : ~Holds(k)}
  <1>2. T = {}
    <2>1. SUFFICES ASSUME T # {} PROVE FALSE
      OBVIOUS
    <2>2. PICK k \in T : \A x \in T : k <= x
      <3>1. T \subseteq Nat
        OBVIOUS
      <3> HIDE DEF T
      <3> QED
        BY <2>1, <3>1, LeastNumber
    <2>3. k \in 0 .. n /\ ~Holds(k)
      BY <2>2
    <2>4. CASE k = 0
      <3>1. 1 .. 2 * k = {} /\ 1 .. k = {}
        BY <2>4
      <3>2. Total(G, {}) = 0 /\ Total(F, {}) = 0
        BY TotalEmpty
      <3> QED
        BY <2>3, <3>1, <3>2
    <2>5. CASE k # 0
      <3>1. PICK j : j = k - 1
        OBVIOUS
      <3>2. j \in 0 .. n /\ ~(k <= j) /\ k \in 1 .. n /\ j + 1 = k /\ k \in Nat /\ j \in Nat
        BY <2>3, <2>5, <3>1
      <3>3. Holds(j)
        BY <2>2, <3>2
      <3>4. PICK A, B, y, z : A = 1 .. 2 * j /\ B = 1 .. j /\ y = 2 * k - 1 /\ z = 2 * k
        OBVIOUS
      <3>5. 1 .. 2 * k = (A \cup {y}) \cup {z} /\ y \notin A /\ z \notin A \cup {y}
        <4>1. PICK e \in Nat : e = 2 * j
          BY <3>2
        <4>2. y = e + 1 /\ z = e + 2 /\ 2 * k = e + 2 /\ A = 1 .. e
          BY <3>2, <3>4, <4>1
        <4>3. 1 .. e + 2 = ((1 .. e) \cup {e + 1}) \cup {e + 2}
          BY <4>1
        <4> QED
          BY <4>1, <4>2, <4>3
      <3>6. 1 .. k = B \cup {k} /\ k \notin B
        BY <3>2, <3>4
      <3>7. IsFiniteSet(A) /\ IsFiniteSet(B) /\ IsFiniteSet(A \cup {y})
        <4>1. 2 * j \in Int /\ j \in Int
          BY <3>2
        <4>2. IsFiniteSet(A) /\ IsFiniteSet(B)
          BY <3>4, <4>1, FS_Interval
        <4> QED
          BY <4>2, FS_AddElement
      <3>8. /\ F[y] \in Int /\ F[z] \in Int /\ F[y] + F[z] = c * G[k] /\ G[k] \in Int
            /\ \A i \in B : G[i] \in Int
        <4>1. \A i \in B \cup {k} : i \in 1 .. n
          BY <3>2, <3>4
        <4> QED
          BY <3>2, <3>4, <4>1 DEF Paired
      <3>9. /\ \A i \in A : F[i] \in Int
            /\ Total(F, A) = c * Total(G, B)
        BY <3>3, <3>4
      <3>10. Total(F, A \cup {y}) = Total(F, A) + F[y]
        BY <3>5, <3>7, <3>8, <3>9, TotalAdd
      <3>11. Total(F, (A \cup {y}) \cup {z}) = Total(F, A \cup {y}) + F[z]
        <4>1. PICK C : C = A \cup {y}
          OBVIOUS
        <4>2. IsFiniteSet(C) /\ z \notin C /\ \A i \in C \cup {z} : F[i] \in Int
          BY <3>5, <3>7, <3>8, <3>9, <4>1
        <4>3. Total(F, C \cup {z}) = Total(F, C) + F[z]
          BY <4>2, TotalAdd
        <4> QED
          BY <4>1, <4>3
      <3>12. Total(G, B \cup {k}) = Total(G, B) + G[k] /\ Total(G, B) \in Int
        BY <3>6, <3>7, <3>8, TotalAdd, TotalType
      <3>13. Total(F, (A \cup {y}) \cup {z}) = c * Total(G, B \cup {k})
        <4>1. PICK a, b, f1, f2, g, total :
                /\ a = Total(F, A) /\ b = Total(G, B) /\ f1 = F[y] /\ f2 = F[z] /\ g = G[k]
                /\ total = Total(F, (A \cup {y}) \cup {z})
          OBVIOUS
        <4>2. /\ b \in Int /\ f1 \in Int /\ f2 \in Int /\ g \in Int /\ a = c * b /\ f1 + f2 = c * g
              /\ total = a + f1 + f2 /\ Total(G, B \cup {k}) = b + g
          BY <3>8, <3>9, <3>10, <3>11, <3>12, <4>1
        <4>3. total = c * (b + g)
          <5>1. CASE c = 0
            BY <4>2, <5>1
          <5>2. CASE c = 2
            BY <4>2, <5>2
          <5> QED
            BY <5>1, <5>2
        <4> QED
          BY <4>1, <4>2, <4>3
      <3>14. \A i \in 1 .. 2 * k : F[i] \in Int
        BY <3>5, <3>8, <3>9
      <3> QED
        BY <2>3, <3>5, <3>6, <3>13, <3>14
    <2> QED
      BY <2>4, <2>5
  <1>3. Holds(n)
    <2>1. n \in 0 .. n
      OBVIOUS
    <2> HIDE DEF Holds
    <2> QED
      BY <1>2, <2>1
  <1> QED
    BY <1>3

\* The sum of a field over one sequence followed by another.
Continues(q, r, q2, f, m, n, S) ==
  /\ S \subseteq 1 .. m /\ m \in Nat /\ n \in Nat /\ DOMAIN q = 1 .. m /\ DOMAIN r = 1 .. n /\ DOMAIN q2 = 1 .. m + n
  /\ \A i \in 1 .. m : q2[i][f] = q[i][f] /\ q[i][f] \in Int
  /\ \A k \in 1 .. n : q2[m + k][f] = r[k][f] /\ r[k][f] \in Int

LEMMA FieldSumAppend ==
  ASSUME NEW q, NEW r, NEW q2, NEW f, NEW m, NEW n, NEW S,
         Continues(q, r, q2, f, m, n, S)
  PROVE  FieldSum(q2, f, S \cup (m + 1 .. m + n)) = FieldSum(q, f, S) + FieldSum(r, f, 1 .. n)
  <1>0. /\ S \subseteq 1 .. m
        /\ m \in Nat /\ n \in Nat /\ DOMAIN q = 1 .. m /\ DOMAIN r = 1 .. n /\ DOMAIN q2 = 1 .. m + n
    BY DEF Continues
  <1>11. \A i \in 1 .. m : q2[i][f] = q[i][f] /\ q[i][f] \in Int
    BY DEF Continues
  <1>12. \A k \in 1 .. n : q2[m + k][f] = r[k][f] /\ r[k][f] \in Int
    BY DEF Continues
  <1>1. PICK A, B : A = m + 1 .. m + n /\ B = 1 .. n
    OBVIOUS
  <1>2. IsFiniteSet(S) /\ IsFiniteSet(A) /\ IsFiniteSet(B) /\ IsFiniteSet(S \cup A)
    <2>1. IsFiniteSet(1 .. m) /\ IsFiniteSet(B)
      BY <1>0, <1>1, FinitePrefix
    <2>2. IsFiniteSet(1 .. m + n) /\ A \subseteq 1 .. m + n
      <3>1. m + n \in Nat
        BY <1>0
      <3>2. A \subseteq 1 .. m + n
        BY <1>0, <1>1
      <3> QED
        BY <3>1, <3>2, FinitePrefix
    <2>3. IsFiniteSet(S) /\ IsFiniteSet(A) /\ IsFiniteSet(B)
      BY <1>0, <2>1, <2>2, FS_Subset
    <2> QED
      BY <2>3, FS_Union
  <1>3. S \cup A \subseteq DOMAIN q2 /\ S \subseteq DOMAIN q2 /\ S \subseteq DOMAIN q
    BY <1>0, <1>1
  <1>4. PICK F, G : F = Field(q2, f) /\ G = Field(r, f)
    OBVIOUS
  <1>5. ASSUME NEW i \in 1 .. m + n PROVE F[i] \in Int
    <2>1. F[i] = q2[i][f]
      BY <1>0, <1>4 DEF Field
    <2>2. CASE i \in 1 .. m
      BY <1>11, <2>1, <2>2
    <2>3. CASE i \notin 1 .. m
      <3>1. i - m \in 1 .. n /\ m + (i - m) = i
        BY <1>0, <2>3
      <3> QED
        BY <1>12, <2>1, <3>1
    <2> QED
      BY <2>2, <2>3
  <1>6. ASSUME NEW k \in 1 .. n PROVE G[k] = F[m + k]
    <2>1. m + k \in 1 .. m + n
      BY <1>0
    <2> QED
      BY <1>0, <1>12, <1>4, <2>1 DEF Field
  <1>7. Total(F, S \cup A) = Total(F, S) + Total(G, B)
    <2>1. Follows(F, G, m, n, S)
      BY <1>0, <1>5, <1>6 DEF Follows
    <2>2. Total(F, S \cup (m + 1 .. m + n)) = Total(F, S) + Total(G, 1 .. n)
      BY <2>1, TotalAppend
    <2> QED
      BY <1>1, <2>2
  <1>8. FieldSum(q2, f, S \cup A) = Total(F, S \cup A) /\ FieldSum(q2, f, S) = Total(F, S)
    BY <1>2, <1>3, <1>4, FieldSumIsTotal
  <1>9. FieldSum(r, f, B) = Total(G, B)
    BY <1>0, <1>1, <1>2, <1>4, FieldSumIsTotal
  <1>10. FieldSum(q2, f, S) = FieldSum(q, f, S)
    <2>1. PICK H : H = Field(q, f)
      OBVIOUS
    <2>2. \A i \in S : F[i] = H[i]
      BY <1>0, <1>3, <1>4, <1>11, <2>1 DEF Field
    <2>3. Total(F, S) = Total(H, S)
      BY <1>2, <2>2, TotalAgrees
    <2>4. FieldSum(q, f, S) = Total(H, S)
      BY <1>2, <1>3, <2>1, FieldSumIsTotal
    <2> QED
      BY <1>8, <2>3, <2>4
  <1> QED
    BY <1>1, <1>7, <1>8, <1>9, <1>10

-----------------------------------------------------------------------------
\* Sums that change in one place, sums of shares, and sums over covered sets.
\* Two maps that differ in one place.
Differ(m, m2, f, S, k) ==
  /\ IsFiniteSet(S) /\ S \subseteq DOMAIN m /\ S \ {k} \subseteq DOMAIN m2
  /\ \A j \in S : m[j][f] \in Int
  /\ \A j \in S \ {k} : m2[j][f] = m[j][f]

LEMMA SumChanged ==
  ASSUME NEW m, NEW m2, NEW f, NEW S, NEW k, Differ(m, m2, f, S, k),
         k \in DOMAIN m2, m2[k][f] \in Int
  PROVE  FieldSum(m2, f, S \cup {k}) = FieldSum(m, f, S) + m2[k][f] - (IF k \in S THEN m[k][f] ELSE 0)
  <1>1. PICK R : R = S \ {k}
    OBVIOUS
  <1>2. IsFiniteSet(R) /\ IsFiniteSet(S) /\ R \subseteq DOMAIN m /\ R \subseteq DOMAIN m2 /\ k \notin R
    BY <1>1, FS_Subset DEF Differ
  <1>3. \A j \in R : m[j][f] = m2[j][f] /\ m[j][f] \in Int
    BY <1>1 DEF Differ
  <1>4. FieldSum(m2, f, R \cup {k}) = FieldSum(m, f, R) + m2[k][f]
    BY <1>2, <1>3, FieldSumAdd
  <1>5. R \cup {k} = S \cup {k}
    BY <1>1
  <1>6. FieldSum(m, f, R) \in Int
    BY <1>2, <1>3, FieldSumType
  <1>7. CASE k \in S
    <2>1. \A j \in S : m[j][f] \in Int
      BY DEF Differ
    <2>2. FieldSum(m, f, S) = m[k][f] + FieldSum(m, f, S \ {k})
      BY <1>2, <1>7, <2>1, FieldSumWithout DEF Differ
    <2>3. FieldSum(m2, f, S \cup {k}) = FieldSum(m, f, R) + m2[k][f] /\ FieldSum(m, f, S) = m[k][f] + FieldSum(m, f, R)
      BY <1>1, <1>4, <1>5, <2>2
    <2>4. m[k][f] \in Int
      BY <1>7, <2>1
    <2>5. (IF k \in S THEN m[k][f] ELSE 0) = m[k][f]
      BY <1>7
    <2> QED
      BY <1>6, <2>3, <2>4, <2>5
  <1>8. CASE k \notin S
    <2>1. R = S
      BY <1>1, <1>8
    <2> QED
      BY <1>4, <1>5, <1>6, <1>8, <2>1
  <1> QED
    BY <1>7, <1>8

LEMMA SumRemoved ==
  ASSUME NEW m, NEW m2, NEW f, NEW S, NEW k, Differ(m, m2, f, S, k), k \in S
  PROVE  FieldSum(m2, f, S \ {k}) = FieldSum(m, f, S) - m[k][f]
  <1>1. PICK R : R = S \ {k}
    OBVIOUS
  <1>2. IsFiniteSet(R) /\ IsFiniteSet(S) /\ S \subseteq DOMAIN m /\ R \subseteq DOMAIN m /\ R \subseteq DOMAIN m2
    BY <1>1, FS_Subset DEF Differ
  <1>3. (\A j \in R : m[j][f] = m2[j][f] /\ m[j][f] \in Int) /\ \A j \in S : m[j][f] \in Int
    BY <1>1 DEF Differ
  <1>4. FieldSum(m, f, R) = FieldSum(m2, f, R)
    BY <1>2, <1>3, FieldSumAgrees
  <1>5. FieldSum(m, f, S) = m[k][f] + FieldSum(m, f, S \ {k})
    BY <1>2, <1>3, FieldSumWithout
  <1>6. FieldSum(m, f, R) \in Int
    BY <1>2, <1>3, FieldSumType
  <1> QED
    BY <1>1, <1>3, <1>4, <1>5, <1>6

\* Shares of an amount sum to no more than the amount.
LEMMA SharesBounded ==
  ASSUME NEW c, NEW l, NEW S, IsFiniteSet(S), NEW L \in Nat, NEW B \in Nat,
         \A x \in S : c[x] \in Nat /\ l[x] \in Nat, \A x \in S : c[x] * L <= l[x] * B
  PROVE  Total(c, S) * L <= Total(l, S) * B
  <1> DEFINE W == {s \in SUBSET S : ~(Total(c, s) * L <= Total(l, s) * B)}
  <1>1. SUFFICES ASSUME W # {} PROVE FALSE
    OBVIOUS
  <1>2. PICK t \in W : \A u \in W : ~(u \subseteq t /\ u # t)
    <2>1. \A u \in W : IsFiniteSet(u)
      BY FS_Subset
    <2> HIDE DEF W
    <2> QED
      BY <1>1, <2>1, LeastSet
  <1>3. t # {}
    <2>1. Total(c, {}) = 0 /\ Total(l, {}) = 0
      BY TotalEmpty
    <2>2. 0 * L <= 0 * B
      OBVIOUS
    <2>3. ~(Total(c, t) * L <= Total(l, t) * B)
      BY <1>2
    <2> QED
      BY <2>1, <2>2, <2>3
  <1>4. PICK x \in t : TRUE
    BY <1>3
  <1>5. PICK r : r = t \ {x}
    OBVIOUS
  <1>6. r \in SUBSET S /\ t \in SUBSET S /\ r # t /\ r \subseteq t /\ r \notin W
    BY <1>2, <1>4, <1>5
  <1>7. IsFiniteSet(t) /\ IsFiniteSet(r)
    BY <1>6, FS_Subset
  <1>8. PICK C, D : C = Total(c, r) /\ D = Total(l, r)
    OBVIOUS
  <1>9. C \in Nat /\ D \in Nat
    <2>1. \A y \in r : c[y] \in Nat /\ l[y] \in Nat
      BY <1>6
    <2> QED
      BY <1>7, <1>8, <2>1, TotalNatural
  <1>10. C * L <= D * B
    BY <1>6, <1>8
  <1>11. Total(c, t) = c[x] + C /\ Total(l, t) = l[x] + D
    <2>1. \A y \in t : c[y] \in Int /\ l[y] \in Int
      BY <1>6
    <2> QED
      BY <1>4, <1>5, <1>7, <1>8, <2>1, TotalWithout
  <1>12. PICK a, b : a = c[x] /\ b = l[x]
    OBVIOUS
  <1>13. a \in Nat /\ b \in Nat /\ a * L <= b * B
    BY <1>4, <1>6, <1>12
  <1>14. (a + C) * L = a * L + C * L /\ (b + D) * B = b * B + D * B
    BY <1>9, <1>13
  <1>15. a * L \in Nat /\ C * L \in Nat /\ b * B \in Nat /\ D * B \in Nat
    BY <1>9, <1>13
  <1>16. (a + C) * L <= (b + D) * B
    BY <1>10, <1>13, <1>14, <1>15
  <1> QED
    BY <1>2, <1>11, <1>12, <1>16

LEMMA SubsetTotal ==
  ASSUME NEW F, NEW S, IsFiniteSet(S), NEW R \in SUBSET S, \A x \in S : F[x] \in Nat
  PROVE  Total(F, R) <= Total(F, S)
  <1> DEFINE W == {s \in SUBSET S : R \subseteq s /\ ~(Total(F, R) <= Total(F, s))}
  <1>1. SUFFICES ASSUME W # {} PROVE FALSE
    OBVIOUS
  <1>2. PICK t \in W : \A u \in W : ~(u \subseteq t /\ u # t)
    <2>1. \A u \in W : IsFiniteSet(u)
      BY FS_Subset
    <2> HIDE DEF W
    <2> QED
      BY <1>1, <2>1, LeastSet
  <1>3. t \in SUBSET S /\ IsFiniteSet(t) /\ IsFiniteSet(R)
    BY <1>2, FS_Subset
  <1>4. Total(F, R) \in Nat /\ Total(F, t) \in Nat
    BY <1>3, TotalNatural
  <1>5. t # R /\ R \subseteq t
    BY <1>2, <1>4
  <1>6. PICK x \in t : x \notin R
    BY <1>5
  <1>7. PICK r : r = t \ {x}
    OBVIOUS
  <1>8. r \in SUBSET S /\ r \subseteq t /\ r # t /\ R \subseteq r /\ IsFiniteSet(r)
    BY <1>3, <1>5, <1>6, <1>7, FS_Subset
  <1>9. Total(F, R) <= Total(F, r)
    BY <1>2, <1>8
  <1>10. Total(F, t) = F[x] + Total(F, r)
    <2>1. \A y \in t : F[y] \in Int
      BY <1>3
    <2> QED
      BY <1>3, <1>6, <1>7, <2>1, TotalWithout
  <1>11. F[x] \in Nat /\ Total(F, r) \in Nat
    BY <1>3, <1>6, <1>8, TotalNatural
  <1> QED
    BY <1>2, <1>4, <1>9, <1>10, <1>11

LEMMA ZeroTotal ==
  ASSUME NEW c, NEW S, IsFiniteSet(S), \A x \in S : c[x] = 0
  PROVE  Total(c, S) = 0
  <1>1. \A x \in S : c[x] \in Nat
    OBVIOUS
  <1>2. Total(c, S) \in Nat
    BY <1>1, TotalNatural
  <1>3. Total(c, S) * 1 <= Total(c, S) * 0
    <2>1. \A x \in S : c[x] * 1 <= c[x] * 0
      OBVIOUS
    <2> QED
      BY <1>1, <2>1, SharesBounded
  <1> QED
    BY <1>2, <1>3

LEMMA TotalCovered ==
  ASSUME NEW F, NEW A, NEW B, IsFiniteSet(A), IsFiniteSet(B), \A x \in A \cup B : F[x] \in Nat
  PROVE  Total(F, A \cup B) <= Total(F, A) + Total(F, B)
  <1> DEFINE W == {s \in SUBSET B : ~(Total(F, A \cup s) <= Total(F, A) + Total(F, s))}
  <1>1. SUFFICES ASSUME W # {} PROVE FALSE
    OBVIOUS
  <1>2. PICK t \in W : \A u \in W : ~(u \subseteq t /\ u # t)
    <2>1. \A u \in W : IsFiniteSet(u)
      BY FS_Subset
    <2> HIDE DEF W
    <2> QED
      BY <1>1, <2>1, LeastSet
  <1>3. ASSUME NEW s \in SUBSET B PROVE IsFiniteSet(s) /\ IsFiniteSet(A \cup s) /\ Total(F, s) \in Nat /\ Total(F, A \cup s) \in Nat
    <2>1. IsFiniteSet(s) /\ IsFiniteSet(A \cup s)
      BY FS_Subset, FS_Union
    <2>2. PICK r : r = A \cup s
      OBVIOUS
    <2>3. (\A x \in s : F[x] \in Nat) /\ \A x \in r : F[x] \in Nat
      BY <2>2
    <2>4. Total(F, s) \in Nat
      BY <2>1, <2>3, TotalNatural
    <2>5. Total(F, r) \in Nat
      BY <2>1, <2>2, <2>3, TotalNatural
    <2> QED
      BY <2>1, <2>2, <2>4, <2>5
  <1>4. Total(F, A) \in Nat
    BY TotalNatural
  <1>5. t # {}
    <2>1. A \cup {} = A
      OBVIOUS
    <2>2. Total(F, {}) = 0
      BY TotalEmpty
    <2>3. ~(Total(F, A \cup t) <= Total(F, A) + Total(F, t))
      BY <1>2
    <2>4. Total(F, A) <= Total(F, A) + 0
      BY <1>4
    <2>5. ASSUME t = {} PROVE FALSE
      BY <2>1, <2>2, <2>3, <2>4, <2>5
    <2> QED
      BY <2>5
  <1>6. PICK x \in t : TRUE
    BY <1>5
  <1>7. PICK r : r = t \ {x}
    OBVIOUS
  <1>8. t \in SUBSET B /\ r \in SUBSET B /\ r \subseteq t /\ r # t /\ r \notin W
    BY <1>2, <1>6, <1>7
  <1>9. Total(F, A \cup r) <= Total(F, A) + Total(F, r)
    BY <1>8
  <1>10. F[x] \in Nat /\ Total(F, t) = F[x] + Total(F, r)
    <2>1. (\A y \in t : F[y] \in Int) /\ F[x] \in Nat
      BY <1>6, <1>8
    <2> QED
      BY <1>3, <1>6, <1>7, <1>8, <2>1, TotalWithout
  <1>11. Total(F, A \cup t) <= Total(F, A \cup r) + F[x]
    <2>1. CASE x \in A
      <3>1. A \cup t = A \cup r
        BY <1>6, <1>7, <2>1
      <3>2. PICK v, w : v = Total(F, A \cup r) /\ w = F[x]
        OBVIOUS
      <3>3. v \in Nat /\ w \in Nat
        BY <1>3, <1>8, <1>10, <3>2
      <3>4. v <= v + w
        BY <3>3
      <3> QED
        BY <3>1, <3>2, <3>4
    <2>2. CASE x \notin A
      <3>1. PICK s : s = A \cup r
        OBVIOUS
      <3>2. x \notin s /\ A \cup t = s \cup {x} /\ IsFiniteSet(s) /\ Total(F, s) \in Nat
        BY <1>3, <1>6, <1>7, <1>8, <2>2, <3>1
      <3>3. \A y \in s \cup {x} : F[y] \in Int
        BY <1>8, <1>10, <3>1
      <3>4. Total(F, s \cup {x}) = Total(F, s) + F[x]
        BY <3>2, <3>3, TotalAdd
      <3>5. PICK v, w : v = Total(F, s) /\ w = F[x]
        OBVIOUS
      <3>6. v + w <= v + w
        BY <1>10, <3>2, <3>5
      <3> QED
        BY <3>1, <3>2, <3>4, <3>5, <3>6
    <2> QED
      BY <2>1, <2>2
  <1>12. Total(F, A \cup r) \in Nat /\ Total(F, A \cup t) \in Nat /\ Total(F, r) \in Nat
    BY <1>3, <1>8
  <1>13. Total(F, A \cup t) <= Total(F, A) + Total(F, t)
    BY <1>4, <1>9, <1>10, <1>11, <1>12
  <1> QED
    BY <1>2, <1>13

\* A sum over places that two sets of places cover.
LEMMA SumCovered ==
  ASSUME NEW D, NEW f, NEW S, NEW A, NEW B, IsFiniteSet(DOMAIN D), \A i \in DOMAIN D : D[i][f] \in Nat,
         A \subseteq DOMAIN D, B \subseteq DOMAIN D, S \subseteq A \cup B
  PROVE  FieldSum(D, f, S) <= FieldSum(D, f, A) + FieldSum(D, f, B)
  <1>1. PICK F, U : F = Field(D, f) /\ U = A \cup B
    OBVIOUS
  <1>2. IsFiniteSet(A) /\ IsFiniteSet(B) /\ IsFiniteSet(S) /\ IsFiniteSet(U) /\ S \in SUBSET U /\ S \subseteq DOMAIN D
    <2>1. A \in SUBSET DOMAIN D /\ B \in SUBSET DOMAIN D /\ S \in SUBSET DOMAIN D /\ U \in SUBSET DOMAIN D /\ S \in SUBSET U
      BY <1>1
    <2> QED
      BY <2>1, FS_Subset
  <1>3. \A i \in DOMAIN D : F[i] \in Nat
    BY <1>1 DEF Field
  <1>4. FieldSum(D, f, S) = Total(F, S) /\ FieldSum(D, f, A) = Total(F, A) /\ FieldSum(D, f, B) = Total(F, B)
    BY <1>1, <1>2, FieldSumIsTotal
  <1>5. Total(F, S) <= Total(F, U)
    BY <1>1, <1>2, <1>3, SubsetTotal
  <1>6. Total(F, U) <= Total(F, A) + Total(F, B)
    BY <1>1, <1>2, <1>3, TotalCovered
  <1>7. Total(F, S) \in Nat /\ Total(F, U) \in Nat /\ Total(F, A) \in Nat /\ Total(F, B) \in Nat
    BY <1>1, <1>2, <1>3, TotalNatural
  <1> QED
    BY <1>4, <1>5, <1>6, <1>7

LEMMA SumWithin ==
  ASSUME NEW D, NEW f, NEW S, NEW A, IsFiniteSet(DOMAIN D), \A i \in DOMAIN D : D[i][f] \in Nat,
         A \subseteq DOMAIN D, S \subseteq A
  PROVE  FieldSum(D, f, S) <= FieldSum(D, f, A)
  <1>1. FieldSum(D, f, {}) = 0
    BY FieldSumEmpty
  <1>2. FieldSum(D, f, S) <= FieldSum(D, f, A) + FieldSum(D, f, {})
    <2>1. PICK B : B = {}
      OBVIOUS
    <2>2. FieldSum(D, f, S) <= FieldSum(D, f, A) + FieldSum(D, f, B)
      BY <2>1, SumCovered
    <2> QED
      BY <2>1, <2>2
  <1>3. FieldSum(D, f, A) \in Nat
    BY FieldSumNatural, FS_Subset
  <1> QED
    BY <1>1, <1>2, <1>3

\* Changing one value changes the sum by the difference.
LEMMA TotalUpdated ==
  ASSUME NEW F, NEW G, NEW S, IsFiniteSet(S), NEW y \in S, \A x \in S : F[x] \in Int, G[y] \in Int,
         \A x \in S \ {y} : G[x] = F[x]
  PROVE  Total(G, S) = Total(F, S) - F[y] + G[y] /\ Total(F, S) \in Int
  <1>1. PICK R : R = S \ {y}
    OBVIOUS
  <1>2. IsFiniteSet(R) /\ \A x \in R : F[x] = G[x]
    BY <1>1, FS_Subset
  <1>3. Total(F, R) = Total(G, R)
    BY <1>2, TotalAgrees
  <1>4. \A x \in S : G[x] \in Int
    OBVIOUS
  <1>5. Total(F, S) = F[y] + Total(F, R)
    BY <1>1, TotalWithout
  <1>6. Total(G, S) = G[y] + Total(G, R)
    BY <1>1, <1>4, TotalWithout
  <1>7. Total(F, R) \in Int
    BY <1>1, <1>2, TotalType
  <1>8. F[y] \in Int
    OBVIOUS
  <1> QED
    BY <1>3, <1>5, <1>6, <1>7, <1>8

\* A sum of natural numbers is at least each of them.
LEMMA TotalAtLeast ==
  ASSUME NEW F, NEW S, IsFiniteSet(S), \A x \in S : F[x] \in Nat, NEW y \in S
  PROVE  Total(F, S) >= F[y]
  <1>1. PICK R : R = S \ {y}
    OBVIOUS
  <1>2. IsFiniteSet(R) /\ \A x \in R : F[x] \in Nat
    BY <1>1, FS_Subset
  <1>3. Total(F, R) \in Nat
    BY <1>2, TotalNatural
  <1>4. Total(F, S) = F[y] + Total(F, R)
    BY <1>1, TotalWithout
  <1>5. F[y] \in Nat
    OBVIOUS
  <1> QED
    BY <1>3, <1>4, <1>5
=============================================================================
