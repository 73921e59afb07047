--------------------------- MODULE MultisigTreasury ---------------------------
(***************************************************************************)
(* The multi-signature treasury (Contracts/contracts/MultisigTreasury.sol).*)
(*                                                                         *)
(* A call that reverts is not a step.  The call of the recipient is the    *)
(* last thing executeTransaction does that matters, and follows its        *)
(* writes: a recipient that calls back acts as if it called next, and one  *)
(* that reverts undoes the whole call.  A transaction's data is whether it *)
(* is a call of unfreezeInternal.                                          *)
(***************************************************************************)
EXTENDS Ledger

CONSTANTS
  Owners, Required,          \* the constructor's _owners and _required
  DayLength, WeekLength,     \* 1 days and 1 weeks
  Payments,                  \* what is submitted: [to, value, unfreeze]
  InitialLimits,             \* its _dailyLimit, _weeklyLimit and _threshold
  LimitSettings,             \* [dailyLimit, weeklyLimit, threshold]
  Receipts, MaxBalance, MaxTransactions  \* bounds of the exploration

VARIABLES
  transactions,  \* Transaction[]
  isConfirmed,   \* the pairs <<txIndex, owner>> that are true
  limits, frozen,
  windows,       \* dayWindowStart, daySpent, weekWindowStart, weekSpent
  balance,       \* address(this).balance
  spending       \* history: what was executed, when and under which limits

treasuryVars == <<transactions, isConfirmed, limits, frozen, windows, balance, spending>>

TreasuryTypeOK ==
  /\ \A i \in DOMAIN transactions : transactions[i] \in
       [payment : Payments, executed : BOOLEAN, numConfirmations : 0 .. Cardinality(Owners)]
  /\ isConfirmed \subseteq (DOMAIN transactions) \X Owners
  /\ limits \in LimitSettings /\ frozen \in BOOLEAN /\ balance \in 0 .. MaxBalance

TreasuryInit ==
  /\ transactions = <<>> /\ isConfirmed = {} /\ frozen = FALSE
  /\ limits = InitialLimits
  /\ windows = [dayWindowStart |-> 0, daySpent |-> 0, weekWindowStart |-> 0, weekSpent |-> 0]
  /\ balance = 0 /\ spending = <<>>

receive(amount) ==
  /\ balance + amount <= MaxBalance
  /\ balance' = balance + amount
  /\ UNCHANGED <<now, transactions, isConfirmed, limits, frozen, windows, spending>>

submitTransaction(sender, payment) ==
  /\ sender \in Owners
  /\ Len(transactions) < MaxTransactions
  /\ transactions' = Append(transactions,
       [payment |-> payment, executed |-> FALSE, numConfirmations |-> 0])
  /\ UNCHANGED <<now, isConfirmed, limits, frozen, windows, balance, spending>>

\* What confirming and revoking ask first.
Votable(sender, i) ==
  sender \in Owners /\ ~frozen /\ i \in DOMAIN transactions /\ ~transactions[i].executed

\* A bug this module must not have: an owner can confirm again.
confirmTransaction_again(sender, i) ==
  /\ Votable(sender, i)
  /\ isConfirmed' = isConfirmed \cup {<<i, sender>>}
  /\ transactions' = [transactions EXCEPT ![i].numConfirmations = @ + 1]
  /\ UNCHANGED <<now, limits, frozen, windows, balance, spending>>

confirmTransaction(sender, i) ==
  /\ Votable(sender, i)
  /\ <<i, sender>> \notin isConfirmed
  /\ isConfirmed' = isConfirmed \cup {<<i, sender>>}
  /\ transactions' = [transactions EXCEPT ![i].numConfirmations = @ + 1]
  /\ UNCHANGED <<now, limits, frozen, windows, balance, spending>>

revokeConfirmation(sender, i) ==
  /\ Votable(sender, i)
  /\ <<i, sender>> \in isConfirmed
  /\ isConfirmed' = isConfirmed \ {<<i, sender>>}
  /\ transactions' = [transactions EXCEPT ![i].numConfirmations = @ - 1]
  /\ UNCHANGED <<now, limits, frozen, windows, balance, spending>>

IsUnfreezeCall(payment) == payment.to = "self" /\ payment.unfreeze

ConfirmationsNeeded(payment) ==
  IF IsUnfreezeCall(payment) \/ payment.value > limits.threshold THEN Required ELSE 1

Day == now \div DayLength
Week == now \div WeekLength

\* A bug this module must not have: a new day also starts the week over.
WeekSpent_from_day == IF windows.dayWindowStart # Day THEN 0 ELSE windows.weekSpent
DaySpent == IF windows.dayWindowStart # Day THEN 0 ELSE windows.daySpent
WeekSpent == IF windows.weekWindowStart # Week THEN 0 ELSE windows.weekSpent

WithinLimit(limit, spent) == limit > 0 => spent <= limit

\* Only called by the treasury itself.
unfreezeInternal == frozen' = FALSE

\* Anybody may execute.  A plain call of the treasury itself is a receipt of its
\* own money; unfreezeInternal is not payable.
executeTransaction(i) ==
  /\ ~frozen
  /\ i \in DOMAIN transactions
  /\ ~transactions[i].executed
  /\ LET payment   == transactions[i].payment
         daySpent  == DaySpent + payment.value
         weekSpent == WeekSpent + payment.value
     IN  /\ transactions[i].numConfirmations >= ConfirmationsNeeded(payment)
         /\ WithinLimit(limits.dailyLimit, daySpent)
         /\ WithinLimit(limits.weeklyLimit, weekSpent)
         /\ windows' = [dayWindowStart |-> Day, daySpent |-> daySpent,
                        weekWindowStart |-> Week, weekSpent |-> weekSpent]
         /\ balance >= payment.value
         /\ IsUnfreezeCall(payment) => payment.value = 0
         /\ IF IsUnfreezeCall(payment) THEN unfreezeInternal ELSE UNCHANGED frozen
         /\ balance' = IF payment.to = "self" THEN balance ELSE balance - payment.value
         /\ spending' = Append(spending, [index |-> i, value |-> payment.value, day |-> Day,
                                          week |-> Week, limits |-> limits])
  /\ transactions' = [transactions EXCEPT ![i].executed = TRUE]
  /\ UNCHANGED <<now, isConfirmed, limits>>

updateLimits(sender, setting) ==
  /\ sender \in Owners
  /\ limits' = setting
  /\ UNCHANGED <<now, transactions, isConfirmed, frozen, windows, balance, spending>>

emergencyFreeze(sender) ==
  /\ sender \in Owners
  /\ frozen' = TRUE
  /\ UNCHANGED <<now, transactions, isConfirmed, limits, windows, balance, spending>>

TreasuryNext ==
  \/ \E amount \in Receipts : receive(amount)
  \/ \E u \in Users :
       \/ \E p \in Payments : submitTransaction(u, p)
       \/ \E i \in DOMAIN transactions : confirmTransaction(u, i) \/ revokeConfirmation(u, i)
       \/ \E setting \in LimitSettings : updateLimits(u, setting)
       \/ emergencyFreeze(u)
  \/ \E i \in DOMAIN transactions : executeTransaction(i)
  \/ CloseLedger /\ UNCHANGED treasuryVars

TreasurySpec == now = 0 /\ TreasuryInit /\ [][TreasuryNext]_<<now, treasuryVars>>

-----------------------------------------------------------------------------
\* The number of confirmations is the number of owners who confirmed and have
\* not revoked, through any mix of the two.
ConfirmationsCounted ==
  \A i \in DOMAIN transactions :
    transactions[i].numConfirmations = Cardinality({o \in Owners : <<i, o>> \in isConfirmed})

SpentIn(field, k) ==
  SumOver({j \in 1 .. k : spending[j][field] = spending[k][field]}, LAMBDA j : spending[j].value)

\* A transaction is executed once, and every execution kept to the daily and the
\* weekly limit in force at it, counting all that was executed in that day and
\* week under whatever limits, although the two windows end at different times.
SpendingLimited ==
  /\ \A j, k \in DOMAIN spending : spending[j].index = spending[k].index => j = k
  /\ \A k \in DOMAIN spending :
       /\ WithinLimit(spending[k].limits.dailyLimit, SpentIn("day", k))
       /\ WithinLimit(spending[k].limits.weeklyLimit, SpentIn("week", k))

\* Both: the money that leaves was confirmed by the owners the count stands for,
\* and stays within the limits.
TreasuryKept == ConfirmationsCounted /\ SpendingLimited

\* What README_TREASURY.md says of a frozen treasury ("To unfreeze the contract
\* after an emergency freeze, submit a transaction targeting the treasury itself
\* ... and execute it with the required multisig confirmations"): with the
\* confirmations there, unfreezeInternal can be executed.  It cannot:
\* executeTransaction is itself notFrozen.
FreezeCanBeLifted ==
  frozen => \A i \in DOMAIN transactions :
    /\ IsUnfreezeCall(transactions[i].payment) /\ transactions[i].payment.value = 0
    /\ ~transactions[i].executed /\ transactions[i].numConfirmations >= Required
    => ENABLED executeTransaction(i)
=============================================================================
