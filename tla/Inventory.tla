----------------------------- MODULE Inventory ------------------------------
(***************************************************************************)
(* src/examples/inventory: a map of quantities under one mutex.  Add and   *)
(* Remove lock it, check, change the quantity and unlock it, one step      *)
(* each.  A quantity is a machine integer, at most MaxInt.                 *)
(***************************************************************************)
EXTENDS Integers

CONSTANTS
    Callers,     \* goroutines
    Skus,        \* items
    Quantities,  \* arguments quantity of Add and Remove
    MaxInt,      \* math.MaxInt: integers wrap around beyond it
    Nobody       \* a mutex nobody holds

InventoryAssumption ==
    /\ MaxInt \in Nat
    /\ Quantities \subseteq 1 .. MaxInt
    /\ Nobody \notin Callers

VARIABLES
    stock,   \* Store.stock; 0 for an item that is not in the map
    holder,  \* who holds Store.mu
    pc,      \* pc[c]: out, lock, check, change or unlock
    call     \* call[c]: c's operation, item and quantity, or <<>>

vars == <<stock, holder, pc, call>>

Wrap(x) == ((x + MaxInt + 1) % (2 * (MaxInt + 1))) - (MaxInt + 1)

Init ==
    /\ stock = [s \in Skus |-> 0]
    /\ holder = Nobody
    /\ pc = [c \in Callers |-> "out"]
    /\ call = [c \in Callers |-> <<>>]

Begin(c, op, s, q) ==
    /\ pc[c] = "out"
    /\ pc' = [pc EXCEPT ![c] = "lock"]
    /\ call' = [call EXCEPT ![c] = <<op, s, q>>]
    /\ UNCHANGED <<stock, holder>>

Goto(c, label) == pc' = [pc EXCEPT ![c] = label] /\ UNCHANGED call

Lock(c) ==
    /\ pc[c] = "lock"
    /\ holder = Nobody
    /\ holder' = c
    /\ Goto(c, "check")
    /\ UNCHANGED stock

(* ErrStockOverflow and ErrInsufficientStock. *)
Allowed(op, s, q) ==
    IF op = "Add" THEN q <= Wrap(MaxInt - stock[s]) ELSE stock[s] >= q

Changed(op, s, q) ==
    [stock EXCEPT ![s] = Wrap(IF op = "Add" THEN @ + q ELSE @ - q)]

Check(c) ==
    /\ pc[c] = "check"
    /\ Goto(c, IF Allowed(call[c][1], call[c][2], call[c][3])
               THEN "change" ELSE "unlock")
    /\ UNCHANGED <<stock, holder>>

Change(c) ==
    /\ pc[c] = "change"
    /\ stock' = Changed(call[c][1], call[c][2], call[c][3])
    /\ Goto(c, "unlock")
    /\ UNCHANGED holder

Unlock(c) ==
    /\ pc[c] = "unlock"
    /\ holder' = Nobody
    /\ pc' = [pc EXCEPT ![c] = "out"]
    /\ call' = [call EXCEPT ![c] = <<>>]
    /\ UNCHANGED stock

Locked(c) == Check(c) \/ Change(c) \/ Unlock(c)

Next ==
    \E c \in Callers :
        \/ \E op \in {"Add", "Remove"}, s \in Skus, q \in Quantities : Begin(c, op, s, q)
        \/ Lock(c)
        \/ Locked(c)

Spec == Init /\ [][Next]_vars

-----------------------------------------------------------------------------
(* Properties *)

TypeOK ==
    /\ stock \in [Skus -> 0 .. MaxInt]
    /\ holder \in Callers \union {Nobody}
    /\ pc \in [Callers -> {"out", "lock", "check", "change", "unlock"}]
    /\ \A c \in Callers : pc[c] \in {"check", "change", "unlock"} <=> holder = c

(* What of Accounts holds for stock: Add is a deposit, Remove a withdrawal. *)
Stock == INSTANCE Accounts WITH
    Holders <- Skus, Amounts <- Quantities, Largest <- MaxInt, balance <- stock

(* Nothing is sold twice and no quantity overflows: every change is one    *)
(* addition or removal that was allowed at that moment.                    *)
ImplementsAccounts == Stock!Spec
=============================================================================
