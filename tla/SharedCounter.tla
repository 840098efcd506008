--------------------------- MODULE SharedCounter ----------------------------
(***************************************************************************)
(* What a counter shared by many callers promises, without goroutines or   *)
(* channels: each call is applied at most once, in one step, and returns   *)
(* what that step made of the counter; once the counter is shut a call may *)
(* fail, and its caller does not learn whether it was applied.             *)
(***************************************************************************)
EXTENDS Naturals

CONSTANTS
    Callers,  \* goroutines
    Deltas,   \* what a call may add
    Modulus,  \* the counter counts modulo this
    Nothing,  \* no value
    ErrClosed \* the outcome of a call that failed

VARIABLES
    value,   \* the counter
    shut,    \* the counter is shut
    asked,   \* asked[c]: what c's call is to add, or Nothing
    made,    \* made[c]: the value c's call has made, or Nothing
    outcome  \* outcome[c]: what c's last call returned

vars == <<value, shut, asked, made, outcome>>

Init ==
    /\ value \in 0 .. Modulus - 1
    /\ shut = FALSE
    /\ asked = [c \in Callers |-> Nothing]
    /\ made = [c \in Callers |-> Nothing]
    /\ outcome = [c \in Callers |-> Nothing]

Ask(c, d) ==
    /\ asked[c] = Nothing /\ made[c] = Nothing
    /\ asked' = [asked EXCEPT ![c] = d]
    /\ UNCHANGED <<value, shut, made, outcome>>

Apply(c) ==
    /\ asked[c] # Nothing
    /\ value' = (value + asked[c]) % Modulus
    /\ made' = [made EXCEPT ![c] = value']
    /\ asked' = [asked EXCEPT ![c] = Nothing]
    /\ UNCHANGED <<shut, outcome>>

Ends(c, how) ==
    /\ outcome' = [outcome EXCEPT ![c] = how]
    /\ asked' = [asked EXCEPT ![c] = Nothing]
    /\ made' = [made EXCEPT ![c] = Nothing]
    /\ UNCHANGED <<value, shut>>

Return(c) == made[c] # Nothing /\ Ends(c, made[c])
Fail(c) == shut /\ Ends(c, ErrClosed)

Shut == shut' = TRUE /\ UNCHANGED <<value, asked, made, outcome>>

Next ==
    \/ \E c \in Callers :
          \/ \E d \in Deltas : Ask(c, d)
          \/ Apply(c)
          \/ Return(c)
          \/ Fail(c)
    \/ Shut

Spec == Init /\ [][Next]_vars
=============================================================================
