------------------------- MODULE DiningPhilosophers -------------------------
(***************************************************************************)
(* src/examples/diningphilosophers: one goroutine per philosopher, one     *)
(* mutex per fork, and one seat less than philosophers.  Taking a seat, a  *)
(* fork, and giving each back are one step each; the context is looked at  *)
(* only while waiting for a seat.                                          *)
(***************************************************************************)
EXTENDS Naturals, FiniteSets

CONSTANTS
    Philosophers,  \* argument philosophers of Run
    Rounds         \* argument rounds of Run

TableAssumption == Philosophers \in Nat \ {0, 1} /\ Rounds \in Nat \ {0}

VARIABLES
    ctxDone,  \* the context is done
    seats,    \* number of seats taken
    pc,       \* pc[p]: sit, left, right (fork to lock), both, one (forks
              \* held), leave, done or canceled
    rounds    \* rounds[p]: Result.Rounds

vars == <<ctxDone, seats, pc, rounds>>

Ids == 0 .. Philosophers - 1
Right(p) == (p + 1) % Philosophers

(* Broken variant: a seat for everybody. *)
Seats_ForAll == Philosophers

Seats == Philosophers - 1

Init ==
    /\ ctxDone = FALSE
    /\ seats = 0
    /\ pc = [p \in Ids |-> "sit"]
    /\ rounds = [p \in Ids |-> 0]

Goto(p, label) == pc' = [pc EXCEPT ![p] = label]

(* The mutex of a fork; fork p is left of philosopher p. *)
Unlocked(fork) ==
    \A p \in Ids :
        /\ fork = p => pc[p] \notin {"right", "both", "one"}
        /\ fork = Right(p) => pc[p] # "both"

Sit(p) ==
    /\ pc[p] = "sit"
    /\ seats < Seats
    /\ seats' = seats + 1
    /\ Goto(p, "left")
    /\ UNCHANGED <<ctxDone, rounds>>

SitCanceled(p) ==
    /\ pc[p] = "sit"
    /\ ctxDone
    /\ Goto(p, "canceled")
    /\ UNCHANGED <<ctxDone, seats, rounds>>

LockLeft(p) ==
    /\ pc[p] = "left"
    /\ Unlocked(p)
    /\ Goto(p, "right")
    /\ UNCHANGED <<ctxDone, seats, rounds>>

LockRight(p) ==
    /\ pc[p] = "right"
    /\ Unlocked(Right(p))
    /\ rounds' = [rounds EXCEPT ![p] = @ + 1]
    /\ Goto(p, "both")
    /\ UNCHANGED <<ctxDone, seats>>

UnlockRight(p) ==
    /\ pc[p] = "both"
    /\ Goto(p, "one")
    /\ UNCHANGED <<ctxDone, seats, rounds>>

UnlockLeft(p) ==
    /\ pc[p] = "one"
    /\ Goto(p, "leave")
    /\ UNCHANGED <<ctxDone, seats, rounds>>

Leave(p) ==
    /\ pc[p] = "leave"
    /\ seats' = seats - 1
    /\ Goto(p, IF rounds[p] = Rounds THEN "done" ELSE "sit")
    /\ UNCHANGED <<ctxDone, rounds>>

Cancel ==
    /\ ~ctxDone
    /\ \E p \in Ids : pc[p] \notin {"done", "canceled"}
    /\ ctxDone' = TRUE
    /\ UNCHANGED <<seats, pc, rounds>>

Dine(p) ==
    \/ Sit(p) \/ SitCanceled(p)
    \/ LockLeft(p) \/ LockRight(p)
    \/ UnlockRight(p) \/ UnlockLeft(p)
    \/ Leave(p)

Next == Cancel \/ \E p \in Ids : Dine(p)

Spec == Init /\ [][Next]_vars

-----------------------------------------------------------------------------
(* Properties *)

(* Types; a seat is taken by everybody between sit and leave.              *)
TypeOK ==
    /\ ctxDone \in BOOLEAN
    /\ pc \in [Ids -> {"sit", "left", "right", "both", "one", "leave", "done",
                       "canceled"}]
    /\ rounds \in [Ids -> 0 .. Rounds]
    /\ seats = Cardinality({p \in Ids : pc[p] \notin {"sit", "done", "canceled"}})

(* Nobody waits for a fork for ever: every philosopher gets through all    *)
(* rounds or is canceled, and Run returns.                                 *)
RunReturns == <>(\A p \in Ids : pc[p] \in {"done", "canceled"})
=============================================================================
