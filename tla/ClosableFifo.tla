---------------------------- MODULE ClosableFifo ----------------------------
(***************************************************************************)
(* What a bounded queue that can be closed promises: values leave in the   *)
(* order they entered, never more than Capacity are inside, nothing enters *)
(* once it is shut, and what is inside then can still be taken out.        *)
(***************************************************************************)
EXTENDS Naturals, Sequences

CONSTANTS
    Values,    \* what is queued
    Capacity   \* how many values fit

VARIABLES
    contents,  \* the values inside, oldest first
    shut       \* whether the queue is shut

vars == <<contents, shut>>

Init == contents = <<>> /\ shut = FALSE

Put(v) ==
    /\ ~shut
    /\ Len(contents) < Capacity
    /\ contents' = Append(contents, v)
    /\ UNCHANGED shut

Take ==
    /\ contents # <<>>
    /\ contents' = Tail(contents)
    /\ UNCHANGED shut

Shut == ~shut /\ shut' = TRUE /\ UNCHANGED contents

Next == (\E v \in Values : Put(v)) \/ Take \/ Shut

Spec == Init /\ [][Next]_vars
=============================================================================
