------------------------------ MODULE Barrier -------------------------------
(***************************************************************************)
(* src/examples/barrier: callers wait on one condition variable until      *)
(* enough of them have come or the barrier is closed.  Each critical       *)
(* section of Barrier.mu is one action; a woken caller takes the mutex     *)
(* again in a later one, and much may have happened by then.               *)
(***************************************************************************)
EXTENDS Naturals

CONSTANTS
    Callers,   \* goroutines calling Wait
    Parties,   \* argument parties of New
    MaxPhases  \* bound: how many phases may complete

BarrierAssumption == Parties \in Nat \ {0} /\ MaxPhases \in Nat

VARIABLES
    arrived,     \* Barrier.arrived
    generation,  \* Barrier.generation
    closed,      \* Barrier.closed
    pc,          \* pc[c]: out, parked (in cond.Wait) or woken
    mine,        \* mine[c]: local variable generation of c's Wait
    got          \* got[c]: what c's last Wait returned

vars == <<arrived, generation, closed, pc, mine, got>>

Init ==
    /\ arrived = 0
    /\ generation = 0
    /\ closed = FALSE
    /\ pc = [c \in Callers |-> "out"]
    /\ mine = [c \in Callers |-> 0]
    /\ got = [c \in Callers |-> "none"]

Returns(c, how) == got' = [got EXCEPT ![c] = how]

(* cond.Broadcast *)
Broadcast == pc' = [c \in Callers |-> IF pc[c] = "parked" THEN "woken" ELSE pc[c]]

Arrive(c) ==
    /\ pc[c] = "out"
    /\ ~closed
    /\ arrived + 1 # Parties /\ generation < MaxPhases
    /\ arrived' = arrived + 1
    /\ mine' = [mine EXCEPT ![c] = generation]
    /\ pc' = [pc EXCEPT ![c] = "parked"]
    /\ UNCHANGED <<generation, closed, got>>

ArriveLast(c) ==
    /\ pc[c] = "out"
    /\ ~closed
    /\ arrived + 1 = Parties /\ generation < MaxPhases
    /\ arrived' = 0
    /\ generation' = generation + 1
    /\ Broadcast
    /\ Returns(c, "nil")
    /\ UNCHANGED <<closed, mine>>

ArriveClosed(c) ==
    /\ pc[c] = "out"
    /\ closed
    /\ Returns(c, "closed")
    /\ UNCHANGED <<arrived, generation, closed, pc, mine>>

(* Broken variant: closed is looked at before the generation. *)
Verdict_ClosedFirst(c) == IF closed THEN "closed" ELSE "nil"

(* What Wait returns after its loop. *)
Verdict(c) == IF mine[c] # generation THEN "nil" ELSE "closed"

(* The mutex taken again, the condition of the loop, and the return. *)
Return(c) ==
    /\ pc[c] = "woken"
    /\ mine[c] # generation \/ closed
    /\ pc' = [pc EXCEPT ![c] = "out"]
    /\ mine' = [mine EXCEPT ![c] = 0]
    /\ Returns(c, Verdict(c))
    /\ UNCHANGED <<arrived, generation, closed>>

Close ==
    /\ ~closed
    /\ closed' = TRUE
    /\ Broadcast
    /\ UNCHANGED <<arrived, generation, mine, got>>

Next ==
    \/ \E c \in Callers : Arrive(c) \/ ArriveLast(c) \/ ArriveClosed(c) \/ Return(c)
    \/ Close

Spec == Init /\ [][Next]_vars

-----------------------------------------------------------------------------
(* Properties *)

(* Types; and arrived counts the callers parked for this generation, so a  *)
(* caller of an earlier one is never counted again.                        *)
TypeOK ==
    /\ generation \in 0 .. MaxPhases
    /\ arrived \in 0 .. Parties - 1
    /\ closed \in BOOLEAN
    /\ pc \in [Callers -> {"out", "parked", "woken"}]
    /\ mine \in [Callers -> 0 .. MaxPhases]
    /\ got \in [Callers -> {"none", "nil", "closed"}]

Phases == INSTANCE PhaseBarrier WITH
    waiting <- {c \in Callers : pc[c] # "out" /\ mine[c] = generation},
    released <- {c \in Callers : pc[c] # "out" /\ mine[c] # generation},
    shut <- closed,
    outcome <- got

(* Whoever was released by a full group returns nil, even if Close or the  *)
(* next phase came before it could look; nobody else does.                 *)
ImplementsPhases == Phases!Spec

(* A caller comes back when its phase is complete or the barrier closed.   *)
WaitReturns ==
    \A c \in Callers :
        pc[c] # "out" /\ (closed \/ mine[c] # generation) ~> pc[c] = "out"
=============================================================================
