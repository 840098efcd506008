------------------------------ MODULE FifoPool ------------------------------
(***************************************************************************)
(* What a bounded pool promises its callers, without mutexes, channels or  *)
(* contexts.  Every connection is free or owned by one caller; a caller    *)
(* that finds none free may queue; a returned connection goes to the head  *)
(* of the queue if anybody queues and becomes free otherwise; a queued     *)
(* caller may give up.  ConnectionPool is shown to implement this.         *)
(***************************************************************************)
EXTENDS Naturals, Sequences, SequencesExt

CONSTANTS
    Callers,    \* goroutines that borrow connections
    Conns,      \* the connections of the pool
    MaxQueue,   \* how many callers may queue
    Nothing     \* what a caller without a connection owns

VARIABLES
    free,       \* connections nobody owns
    owner,      \* owner[c]: the connection caller c owns, or Nothing
    queue       \* callers queued, oldest first

vars == <<free, owner, queue>>

Init ==
    /\ free = Conns
    /\ owner = [c \in Callers |-> Nothing]
    /\ queue = <<>>

Queued(c) == c \in Range(queue)

(* Nobody overtakes the queue: taking needs a free connection and no queue. *)
Take(c, k) ==
    /\ owner[c] = Nothing
    /\ queue = <<>>
    /\ k \in free
    /\ free' = free \ {k}
    /\ owner' = [owner EXCEPT ![c] = k]
    /\ UNCHANGED queue

Join(c) ==
    /\ owner[c] = Nothing
    /\ ~Queued(c)
    /\ free = {}
    /\ Len(queue) < MaxQueue
    /\ queue' = Append(queue, c)
    /\ UNCHANGED <<free, owner>>

Leave(c) ==
    /\ \E i \in DOMAIN queue :
          /\ queue[i] = c
          /\ queue' = RemoveAt(queue, i)
    /\ UNCHANGED <<free, owner>>

(* A returned connection goes to the caller that has queued longest. *)
PassOn(c) ==
    /\ owner[c] # Nothing
    /\ queue # <<>>
    /\ owner' = [owner EXCEPT ![c] = Nothing, ![Head(queue)] = owner[c]]
    /\ queue' = Tail(queue)
    /\ UNCHANGED free

PutBack(c) ==
    /\ owner[c] # Nothing
    /\ queue = <<>>
    /\ free' = free \union {owner[c]}
    /\ owner' = [owner EXCEPT ![c] = Nothing]
    /\ UNCHANGED queue

Next ==
    \E c \in Callers :
        \/ \E k \in Conns : Take(c, k)
        \/ Join(c)
        \/ Leave(c)
        \/ PassOn(c)
        \/ PutBack(c)

Spec == Init /\ [][Next]_vars
=============================================================================
