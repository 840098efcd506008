---------------------------- MODULE BankAccount -----------------------------
(***************************************************************************)
(* src/examples/bankaccount: accounts with a mutex each.  Deposit and      *)
(* Withdraw are one critical section of one mutex and so one action;       *)
(* Transfer takes two mutexes one after the other, changes one balance,    *)
(* then the other, and gives the mutexes back one after the other.         *)
(*                                                                         *)
(* An account is its seq.  Balances are machine integers in two's          *)
(* complement, so that the overflow check is itself checked.               *)
(***************************************************************************)
EXTENDS Integers

CONSTANTS
    Tellers,   \* goroutines
    Accts,     \* the seq of each account
    Opening,   \* opening balance of every account
    Amounts,   \* amounts deposited, withdrawn and transferred
    MaxInt,    \* math.MaxInt64: integers wrap around beyond it
    Nobody     \* a mutex nobody holds

BankAssumption ==
    /\ MaxInt \in Nat
    /\ Amounts \subseteq 1 .. MaxInt
    /\ Accts \subseteq Nat \ {0}
    /\ Opening \in 0 .. MaxInt
    /\ Nobody \notin Tellers

VARIABLES
    balance,  \* Account.balance
    holder,   \* holder[a]: who holds Account.mu
    pc,       \* pc[t]: out, first, second (mutex to lock), debit, credit,
              \* unlock1 or unlock2
    from,     \* from[t], to[t], amount[t]: arguments of t's Transfer
    to,
    amount

vars == <<balance, holder, pc, from, to, amount>>

Int64(x) == ((x + MaxInt + 1) % (2 * (MaxInt + 1))) - (MaxInt + 1)

Init ==
    /\ balance = [a \in Accts |-> Opening]
    /\ holder = [a \in Accts |-> Nobody]
    /\ pc = [t \in Tellers |-> "out"]
    /\ from = [t \in Tellers |-> 0]
    /\ to = [t \in Tellers |-> 0]
    /\ amount = [t \in Tellers |-> 0]

(* Broken variant: the sum is compared, and may have overflowed. *)
wouldOverflow_Sums(current, delta) == Int64(current + delta) > MaxInt

wouldOverflow(current, delta) == delta > Int64(MaxInt - current)

Deposit(a, m) ==
    /\ holder[a] = Nobody
    /\ ~wouldOverflow(balance[a], m)
    /\ balance' = [balance EXCEPT ![a] = Int64(@ + m)]
    /\ UNCHANGED <<holder, pc, from, to, amount>>

Withdraw(a, m) ==
    /\ holder[a] = Nobody
    /\ balance[a] >= m
    /\ balance' = [balance EXCEPT ![a] = Int64(@ - m)]
    /\ UNCHANGED <<holder, pc, from, to, amount>>

-----------------------------------------------------------------------------
(* Transfer *)

Goto(t, label) == pc' = [pc EXCEPT ![t] = label] /\ UNCHANGED <<from, to, amount>>

Begin(t, a, b, m) ==
    /\ pc[t] = "out"
    /\ a # b
    /\ from' = [from EXCEPT ![t] = a]
    /\ to' = [to EXCEPT ![t] = b]
    /\ amount' = [amount EXCEPT ![t] = m]
    /\ pc' = [pc EXCEPT ![t] = "first"]
    /\ UNCHANGED <<balance, holder>>

(* Broken variant: the sender is always locked first. *)
lockOrder_SenderFirst(a, b) == <<a, b>>

lockOrder(a, b) == IF a < b THEN <<a, b>> ELSE <<b, a>>

Mutexes(t) == lockOrder(from[t], to[t])

LockMutex(t, i, label) ==
    /\ holder[Mutexes(t)[i]] = Nobody
    /\ holder' = [holder EXCEPT ![Mutexes(t)[i]] = t]
    /\ Goto(t, label)
    /\ UNCHANGED balance

LockFirst(t) == pc[t] = "first" /\ LockMutex(t, 1, "second")
LockSecond(t) == pc[t] = "second" /\ LockMutex(t, 2, "debit")

Covered(t) ==
    /\ balance[from[t]] >= amount[t]
    /\ ~wouldOverflow(balance[to[t]], amount[t])

Refuse(t) ==
    /\ pc[t] = "debit"
    /\ ~Covered(t)
    /\ Goto(t, "unlock1")
    /\ UNCHANGED <<balance, holder>>

Debit(t) ==
    /\ pc[t] = "debit"
    /\ Covered(t)
    /\ balance' = [balance EXCEPT ![from[t]] = Int64(@ - amount[t])]
    /\ Goto(t, "credit")
    /\ UNCHANGED holder

Credit(t) ==
    /\ pc[t] = "credit"
    /\ balance' = [balance EXCEPT ![to[t]] = Int64(@ + amount[t])]
    /\ Goto(t, "unlock1")
    /\ UNCHANGED holder

(* Deferred calls run last in first out: the first mutex is unlocked first. *)
UnlockFirst(t) ==
    /\ pc[t] = "unlock1"
    /\ holder' = [holder EXCEPT ![Mutexes(t)[1]] = Nobody]
    /\ Goto(t, "unlock2")
    /\ UNCHANGED balance

UnlockSecond(t) ==
    /\ pc[t] = "unlock2"
    /\ holder' = [holder EXCEPT ![Mutexes(t)[2]] = Nobody]
    /\ from' = [from EXCEPT ![t] = 0]
    /\ to' = [to EXCEPT ![t] = 0]
    /\ amount' = [amount EXCEPT ![t] = 0]
    /\ pc' = [pc EXCEPT ![t] = "out"]
    /\ UNCHANGED balance

(* A Transfer that holds a mutex. *)
Transfer(t) ==
    \/ LockSecond(t)
    \/ Refuse(t) \/ Debit(t) \/ Credit(t)
    \/ UnlockFirst(t) \/ UnlockSecond(t)

Next ==
    \/ \E a \in Accts, m \in Amounts : Deposit(a, m) \/ Withdraw(a, m)
    \/ \E t \in Tellers :
          \/ \E a, b \in Accts, m \in Amounts : Begin(t, a, b, m)
          \/ LockFirst(t)
          \/ Transfer(t)

Spec == Init /\ [][Next]_vars

-----------------------------------------------------------------------------
(* Properties *)

TypeOK ==
    /\ balance \in [Accts -> 0 .. MaxInt]
    /\ holder \in [Accts -> Tellers \union {Nobody}]
    /\ pc \in [Tellers -> {"out", "first", "second", "debit", "credit",
                           "unlock1", "unlock2"}]
    /\ \A t \in Tellers : pc[t] \in {"second", "debit", "credit", "unlock1"} =>
          holder[Mutexes(t)[1]] = t

(* What is under way from a: debited, and not yet credited. *)
Settled(a) ==
    LET t == holder[a] IN
    IF t # Nobody /\ pc[t] = "credit" /\ from[t] = a
    THEN balance[a] + amount[t] ELSE balance[a]

Bank == INSTANCE Accounts WITH
    Holders <- Accts, Largest <- MaxInt, balance <- [a \in Accts |-> Settled(a)]

(* Transfers are atomic: nobody who can look at the balances sees money    *)
(* missing or there twice, and no balance overflows or goes below zero.    *)
ImplementsAccounts == Bank!Spec

(* A transfer that holds a mutex gives it back, whichever others go the    *)
(* opposite way.                                                           *)
TransfersGoOn == \A t \in Tellers : pc[t] \notin {"out", "first"} ~> pc[t] = "out"
=============================================================================
