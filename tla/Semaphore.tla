----------------------------- MODULE Semaphore ------------------------------
(***************************************************************************)
(* src/examples/semaphore: slots are the free places of a buffered         *)
(* channel, which counts them but does not know who holds one.  Callers    *)
(* release what they have acquired, once.                                  *)
(***************************************************************************)
EXTENDS Naturals, FiniteSets

CONSTANTS
    Callers,  \* goroutines
    Limit     \* argument limit of New

SemaphoreAssumption == Limit \in Nat \ {0}

VARIABLES
    inUse,  \* number of elements in Semaphore.permits
    pc      \* pc[c]: out, waiting (in the select of Acquire) or holding

vars == <<inUse, pc>>

Init == inUse = 0 /\ pc = [c \in Callers |-> "out"]

Goto(c, label) == pc' = [pc EXCEPT ![c] = label]

(* Acquire waits, whether or not there is a slot. *)
Acquire(c) == pc[c] = "out" /\ Goto(c, "waiting") /\ UNCHANGED inUse

Acquired(c) ==
    /\ pc[c] = "waiting"
    /\ inUse < Limit
    /\ inUse' = inUse + 1
    /\ Goto(c, "holding")

AcquireCanceled(c) == pc[c] = "waiting" /\ Goto(c, "out") /\ UNCHANGED inUse

(* TryAcquire does nothing when there is no slot. *)
TryAcquire(c) ==
    /\ pc[c] = "out"
    /\ inUse < Limit
    /\ inUse' = inUse + 1
    /\ Goto(c, "holding")

(* Only a Release without an Acquire could find the channel empty. *)
Release(c) ==
    /\ pc[c] = "holding"
    /\ inUse' = inUse - 1
    /\ Goto(c, "out")

Next ==
    \E c \in Callers :
        \/ Acquire(c) \/ Acquired(c) \/ AcquireCanceled(c)
        \/ TryAcquire(c)
        \/ Release(c)

Spec == Init /\ [][Next]_vars

-----------------------------------------------------------------------------
(* Properties *)

(* Types; the channel counts the holders, and there are never too many.    *)
TypeOK ==
    /\ pc \in [Callers -> {"out", "waiting", "holding"}]
    /\ inUse = Cardinality({c \in Callers : pc[c] = "holding"})
    /\ inUse <= Limit
=============================================================================
