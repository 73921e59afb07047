------------------------------- MODULE Ledger -------------------------------
(***************************************************************************)
(* What the Soroban contracts get from the ledger: its clock, and the      *)
(* token contracts they call.  Token contracts are not part of the         *)
(* repository; they are modelled from how the contracts use them.          *)
(***************************************************************************)
EXTENDS Integers, FiniteSets, FiniteSetsExt, Sequences, TLC

CONSTANTS
  Users,   \* the accounts that call the contracts
  Self,    \* env.current_contract_address()
  MaxTime  \* bound: the last ledger timestamp

ASSUME LedgerAssumption ==
  /\ IsFiniteSet(Users) /\ Self \notin Users
  /\ MaxTime \in Nat

VARIABLE now  \* env.ledger().timestamp(), or sequence() where that is read

Time == 0 .. MaxTime
Accounts == Users \cup {Self}

\* token::Client::transfer panics on a negative amount and on a short balance.
CanPay(bal, from, amount) == amount >= 0 /\ bal[from] >= amount
Pay(bal, from, to, amount) ==
  [[bal EXCEPT ![from] = @ - amount] EXCEPT ![to] = @ + amount]

\* A ledger closes: the timestamp grows between calls, never during one.
CloseLedger == now < MaxTime /\ now' = now + 1

\* Division of i128 values rounds towards zero.
Quot(a, b) == IF a < 0 THEN -((-a) \div b) ELSE a \div b

\* The sum of f over S, and storage as a map: set, has, remove.
SumOver(S, f(_)) == MapThenSumSet(f, S)
Put(map, key, value) == [k \in DOMAIN map \cup {key} |-> IF k = key THEN value ELSE map[k]]
Has(map, key) == key \in DOMAIN map
Without(map, key) == [k \in DOMAIN map \ {key} |-> map[k]]
Empty == [k \in {} |-> 0]

\* The n-th smallest number of a set.
NthOf(S, n) == CHOOSE i \in S : Cardinality({j \in S : j <= i}) = n

\* The elements of a list that are in T, in their order: what a loop that pushes
\* some elements of a Vec onto a new one builds.
Kept(s, T) ==
  LET at == {i \in DOMAIN s : s[i] \in T}
  IN  [n \in 1 .. Cardinality(at) |-> s[NthOf(at, n)]]
=============================================================================
