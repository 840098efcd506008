---------------------------- MODULE PhaseBarrier ----------------------------
(***************************************************************************)
(* What a reusable barrier promises, without mutexes or generations: the   *)
(* call that completes a group releases the calls that wait, for good;     *)
(* shutting the barrier fails those still waiting, and only those.         *)
(***************************************************************************)
EXTENDS Naturals, FiniteSets

CONSTANTS
    Callers,  \* goroutines
    Parties   \* size of a group

VARIABLES
    waiting,   \* callers of the group being formed
    released,  \* callers of completed groups that have not returned yet
    shut,      \* the barrier is shut
    outcome    \* outcome[c]: what c's last call returned

vars == <<waiting, released, shut, outcome>>

Init ==
    /\ waiting = {}
    /\ released = {}
    /\ shut = FALSE
    /\ outcome = [c \in Callers |-> "none"]

Ends(c, how) == outcome' = [outcome EXCEPT ![c] = how]

Come(c) ==
    /\ c \notin waiting \union released
    /\ ~shut
    /\ IF Cardinality(waiting) + 1 = Parties
       THEN /\ released' = released \union waiting
            /\ waiting' = {}
            /\ Ends(c, "nil")
       ELSE waiting' = waiting \union {c} /\ UNCHANGED <<released, outcome>>
    /\ UNCHANGED shut

Pass(c) ==
    /\ c \in released
    /\ released' = released \ {c}
    /\ Ends(c, "nil")
    /\ UNCHANGED <<waiting, shut>>

Fail(c) ==
    /\ shut
    /\ c \notin released
    /\ waiting' = waiting \ {c}
    /\ Ends(c, "closed")
    /\ UNCHANGED <<released, shut>>

Shut == ~shut /\ shut' = TRUE /\ UNCHANGED <<waiting, released, outcome>>

Next == Shut \/ \E c \in Callers : Come(c) \/ Pass(c) \/ Fail(c)

Spec == Init /\ [][Next]_vars
=============================================================================
