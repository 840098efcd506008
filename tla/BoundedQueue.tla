---------------------------- MODULE BoundedQueue ----------------------------
(***************************************************************************)
(* src/examples/boundedqueue: a fixed-size FIFO guarded by one mutex and   *)
(* two condition variables, with Close.                                    *)
(*                                                                         *)
(* An action is what a goroutine does between taking Queue.mu and letting  *)
(* it go, in Wait or on return.  A sync.Cond is the sequence of goroutines *)
(* parked on it: Wait enters it under mu, Signal wakes the oldest one and  *)
(* Broadcast all.  A woken goroutine still has to take mu again, and other *)
(* callers may get there first.  An item is named after its producer.      *)
(***************************************************************************)
EXTENDS Naturals, FiniteSets, Sequences, SequencesExt

CONSTANTS
    Producers,  \* goroutines calling Enqueue
    Consumers,  \* goroutines calling Dequeue
    Capacity    \* argument capacity of New

ASSUME QueueAssumption ==
    /\ Capacity \in Nat \ {0}
    /\ IsFiniteSet(Producers)
    /\ IsFiniteSet(Consumers)
    /\ Producers \intersect Consumers = {}

VARIABLES
    items,     \* Queue.items
    closed,    \* Queue.closed
    notFull,   \* producers parked on Queue.notFull, oldest first
    notEmpty,  \* consumers parked on Queue.notEmpty, oldest first
    pc,        \* pc[g]: out, parked or woken
    closing    \* the Close that closed the queue: no, notFull or notEmpty
               \* (about to broadcast on it), or done

vars == <<items, closed, notFull, notEmpty, pc, closing>>

Init ==
    /\ items = <<>>
    /\ closed = FALSE
    /\ notFull = <<>>
    /\ notEmpty = <<>>
    /\ pc = [g \in Producers \union Consumers |-> "out"]
    /\ closing = "no"

(* A call that starts, or one that comes back from Wait, holds mu now. *)
Running(g) == pc[g] \in {"out", "woken"}

Waken(set, g) == pc' = [h \in DOMAIN pc |-> IF h \in set THEN "woken"
                                            ELSE IF h = g THEN "out"
                                            ELSE pc[h]]

-----------------------------------------------------------------------------
(* Enqueue *)

Full == Len(items) = Capacity

EnqueueWait(p) ==
    /\ Running(p)
    /\ Full
    /\ ~closed
    /\ notFull' = Append(notFull, p)
    /\ pc' = [pc EXCEPT ![p] = "parked"]
    /\ UNCHANGED <<items, closed, notEmpty, closing>>

EnqueueClosed(p) ==
    /\ Running(p)
    /\ closed
    /\ pc' = [pc EXCEPT ![p] = "out"]
    /\ UNCHANGED <<items, closed, notFull, notEmpty, closing>>

(* Broken variant: closed is not checked after Wait. *)
EnqueueItem_IgnoresClosed(p) ==
    /\ Running(p)
    /\ ~Full
    /\ items' = Append(items, p)
    /\ IF notEmpty = <<>>
       THEN Waken({}, p) /\ UNCHANGED notEmpty
       ELSE Waken({Head(notEmpty)}, p) /\ notEmpty' = Tail(notEmpty)
    /\ UNCHANGED <<closed, notFull, closing>>

(* Append the item, signal notEmpty, return. *)
EnqueueItem(p) ==
    /\ Running(p)
    /\ ~Full
    /\ ~closed
    /\ items' = Append(items, p)
    /\ IF notEmpty = <<>>
       THEN Waken({}, p) /\ UNCHANGED notEmpty
       ELSE Waken({Head(notEmpty)}, p) /\ notEmpty' = Tail(notEmpty)
    /\ UNCHANGED <<closed, notFull, closing>>

-----------------------------------------------------------------------------
(* Dequeue *)

DequeueWait(c) ==
    /\ Running(c)
    /\ items = <<>>
    /\ ~closed
    /\ notEmpty' = Append(notEmpty, c)
    /\ pc' = [pc EXCEPT ![c] = "parked"]
    /\ UNCHANGED <<items, closed, notFull, closing>>

DequeueClosed(c) ==
    /\ Running(c)
    /\ items = <<>>
    /\ closed
    /\ pc' = [pc EXCEPT ![c] = "out"]
    /\ UNCHANGED <<items, closed, notFull, notEmpty, closing>>

(* Broken variant: a signal only when the queue was full. *)
DequeueItem_SignalsIfFull(c) ==
    /\ Running(c)
    /\ items # <<>>
    /\ items' = Tail(items)
    /\ IF notFull = <<>> \/ ~Full
       THEN Waken({}, c) /\ UNCHANGED notFull
       ELSE Waken({Head(notFull)}, c) /\ notFull' = Tail(notFull)
    /\ UNCHANGED <<closed, notEmpty, closing>>

(* Remove the oldest item, signal notFull, return. *)
DequeueItem(c) ==
    /\ Running(c)
    /\ items # <<>>
    /\ items' = Tail(items)
    /\ IF notFull = <<>>
       THEN Waken({}, c) /\ UNCHANGED notFull
       ELSE Waken({Head(notFull)}, c) /\ notFull' = Tail(notFull)
    /\ UNCHANGED <<closed, notEmpty, closing>>

-----------------------------------------------------------------------------
(* Close; on a closed queue it changes nothing.  The two broadcasts come   *)
(* after mu has been released.                                             *)

Close ==
    /\ ~closed
    /\ closed' = TRUE
    /\ closing' = "notFull"
    /\ UNCHANGED <<items, notFull, notEmpty, pc>>

Broadcast(list) ==
    pc' = [g \in DOMAIN pc |-> IF g \in Range(list) THEN "woken" ELSE pc[g]]

BroadcastNotFull ==
    /\ closing = "notFull"
    /\ Broadcast(notFull)
    /\ notFull' = <<>>
    /\ closing' = "notEmpty"
    /\ UNCHANGED <<items, closed, notEmpty>>

BroadcastNotEmpty ==
    /\ closing = "notEmpty"
    /\ Broadcast(notEmpty)
    /\ notEmpty' = <<>>
    /\ closing' = "done"
    /\ UNCHANGED <<items, closed, notFull>>

-----------------------------------------------------------------------------

Enqueue(p) == EnqueueWait(p) \/ EnqueueClosed(p) \/ EnqueueItem(p)
Dequeue(c) == DequeueWait(c) \/ DequeueClosed(c) \/ DequeueItem(c)
Broadcasts == BroadcastNotFull \/ BroadcastNotEmpty

Next ==
    \/ \E p \in Producers : Enqueue(p)
    \/ \E c \in Consumers : Dequeue(c)
    \/ Close
    \/ Broadcasts

Spec == Init /\ [][Next]_vars

(* A woken goroutine gets mu sooner or later (a Go mutex does not starve), *)
(* and a Close under way goes on.  Nobody has to start a call.             *)
Scheduling ==
    /\ \A p \in Producers : WF_vars(pc[p] = "woken" /\ Enqueue(p))
    /\ \A c \in Consumers : WF_vars(pc[c] = "woken" /\ Dequeue(c))
    /\ WF_vars(Broadcasts)

FairSpec == Spec /\ Scheduling

-----------------------------------------------------------------------------
(* Properties *)

Woken(set) == {g \in set : pc[g] = "woken"}

(* Types, the capacity, and who is parked where. *)
TypeOK ==
    /\ items \in Seq(Producers) /\ Len(items) <= Capacity
    /\ closed \in BOOLEAN
    /\ notFull \in Seq(Producers) /\ IsInjective(notFull)
    /\ notEmpty \in Seq(Consumers) /\ IsInjective(notEmpty)
    /\ pc \in [Producers \union Consumers -> {"out", "parked", "woken"}]
    /\ \A g \in Producers \union Consumers :
          pc[g] = "parked" <=> g \in Range(notFull) \union Range(notEmpty)
    /\ closing \in {"no", "notFull", "notEmpty", "done"}

(* No signal is lost while the queue is open: if consumers are parked,     *)
(* enough consumers are awake to take every item buffered; if producers    *)
(* are parked, enough are awake to fill every free slot.  One Signal per   *)
(* item is only enough because callers that overtake a woken goroutine     *)
(* take what it was woken for.                                             *)
NoLostSignal ==
    ~closed =>
        /\ notEmpty # <<>> => Len(items) <= Cardinality(Woken(Consumers))
        /\ notFull # <<>> =>
              Capacity - Len(items) <= Cardinality(Woken(Producers))

(* Once Close has returned nobody is parked, and nobody parks again, even  *)
(* though both broadcasts happen without mu.                               *)
NobodyParkedAfterClose ==
    closing = "done" => notFull = <<>> /\ notEmpty = <<>>

(* The queue implements ClosableFifo. *)
Fifo == INSTANCE ClosableFifo
            WITH Values <- Producers, contents <- items, shut <- closed

ImplementsFifo == Fifo!Spec

(* Closing the queue ends every blocked call. *)
CloseReleasesAll ==
    \A g \in Producers \union Consumers :
        closed /\ pc[g] # "out" ~> pc[g] = "out"
=============================================================================
