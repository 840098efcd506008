--------------------------- MODULE ConnectionPool ---------------------------
(***************************************************************************)
(* src/examples/connectionpool: a fixed set of connections lent to         *)
(* goroutines, with a bounded FIFO list of waiting Acquire calls.          *)
(*                                                                         *)
(* One action is one critical section of Pool.mu or one channel operation. *)
(* A caller is a goroutine that borrows one connection at a time (code     *)
(* that holds two is two callers) and keeps the documented contract: it    *)
(* releases only what it holds and only once.  The waiter record of a call *)
(* is identified with the caller making it, so waiters is a sequence of    *)
(* callers and ready[c] is the one-slot channel of c's current waiter.     *)
(***************************************************************************)
EXTENDS Naturals, Sequences, SequencesExt

CONSTANTS
    Callers,     \* goroutines using the pool
    Size,        \* argument size of New
    MaxWaiters,  \* argument maxWaiters of New
    NoConn       \* nil: no connection

Conns == 0 .. Size - 1

ASSUME PoolAssumption ==
    /\ Size \in Nat \ {0}
    /\ MaxWaiters \in Nat
    /\ NoConn \notin Conns

VARIABLES
    idle,     \* Pool.idle
    waiters,  \* Pool.waiters, oldest first
    ready,    \* ready[c]: content of the channel of c's waiter, or NoConn
    ctxDone,  \* callers whose context is done during the call
    held,     \* held[c]: the connection Acquire has returned to c
    pc        \* where c is: see States

vars == <<idle, waiters, ready, ctxDone, held, pc>>

(* out: not calling, holding nothing.  select: blocked in the select of    *)
(* Acquire.  leaving: took the ctx.Done branch, about to lock mu.  drain:  *)
(* no longer queued, receiving from ready.  busy: holds a connection.      *)
States == {"out", "select", "leaving", "drain", "busy"}

Init ==
    /\ idle = [i \in 1 .. Size |-> i - 1]
    /\ waiters = <<>>
    /\ ready = [c \in Callers |-> NoConn]
    /\ ctxDone = {}
    /\ held = [c \in Callers |-> NoConn]
    /\ pc = [c \in Callers |-> "out"]

-----------------------------------------------------------------------------
(* Acquire *)

Goto(c, state) == pc' = [pc EXCEPT ![c] = state]

Return(c, conn) ==
    /\ held' = [held EXCEPT ![c] = conn]
    /\ Goto(c, "busy")

FastPath == Len(idle) > 0 /\ Len(waiters) = 0

AcquireIdle(c) ==
    /\ pc[c] = "out"
    /\ FastPath
    /\ idle' = Tail(idle)
    /\ Return(c, Head(idle))
    /\ UNCHANGED <<waiters, ready, ctxDone>>

(* Broken variant: off by one. *)
WaitListFull_OneMore == Len(waiters) > MaxWaiters

WaitListFull == Len(waiters) >= MaxWaiters

(* A full wait list returns ErrTooManyWaiters from the same critical       *)
(* section.  Otherwise the call queues a fresh waiter; from then on its    *)
(* context matters, whether it is done already or only later.              *)
AcquireWait(c) ==
    /\ pc[c] = "out"
    /\ ~FastPath
    /\ ~WaitListFull
    /\ waiters' = Append(waiters, c)
    /\ ready' = [ready EXCEPT ![c] = NoConn]
    /\ ctxDone' = ctxDone \ {c}
    /\ Goto(c, "select")
    /\ UNCHANGED <<idle, held>>

AcquireRejected(c) ==
    /\ pc[c] = "out"
    /\ ~FastPath
    /\ WaitListFull
    /\ UNCHANGED vars

CtxExpires(c) ==
    /\ pc[c] = "select"
    /\ c \notin ctxDone
    /\ ctxDone' = ctxDone \union {c}
    /\ UNCHANGED <<idle, waiters, ready, held, pc>>

Receive(c) ==
    /\ ready[c] # NoConn
    /\ ready' = [ready EXCEPT ![c] = NoConn]
    /\ Return(c, ready[c])
    /\ UNCHANGED <<idle, waiters, ctxDone>>

ReceiveReady(c) == pc[c] = "select" /\ Receive(c)

(* With both channels ready the select may pick either branch. *)
SelectCtxDone(c) ==
    /\ pc[c] = "select"
    /\ c \in ctxDone
    /\ Goto(c, "leaving")
    /\ UNCHANGED <<idle, waiters, ready, ctxDone, held>>

(* Broken variants of RemoveWaiter: a waiter that lost the race returns the *)
(* context's error and forgets the hand-off; a canceled waiter is left in  *)
(* the list; the removed waiter waits for a hand-off all the same.         *)
RemoveWaiter_ForgetsHandOff(c) ==
    /\ pc[c] = "leaving"
    /\ waiters' = SelectSeq(waiters, LAMBDA w : w # c)
    /\ Goto(c, "out")
    /\ UNCHANGED <<idle, ready, ctxDone, held>>

RemoveWaiter_LeavesEntry(c) ==
    /\ pc[c] = "leaving"
    /\ Goto(c, IF c \in Range(waiters) THEN "out" ELSE "drain")
    /\ UNCHANGED <<idle, waiters, ready, ctxDone, held>>

RemoveWaiter_AlwaysDrains(c) ==
    /\ pc[c] = "leaving"
    /\ waiters' = SelectSeq(waiters, LAMBDA w : w # c)
    /\ Goto(c, "drain")
    /\ UNCHANGED <<idle, ready, ctxDone, held>>

(* removeWaiterLocked; a waiter that is gone was popped by Release, so a   *)
(* connection is in its channel and must be received.                      *)
RemoveWaiter(c) ==
    /\ pc[c] = "leaving"
    /\ IF c \in Range(waiters)
       THEN /\ \E i \in DOMAIN waiters :
                  /\ waiters[i] = c
                  /\ waiters' = RemoveAt(waiters, i)
            /\ Goto(c, "out")
       ELSE /\ Goto(c, "drain")
            /\ UNCHANGED waiters
    /\ UNCHANGED <<idle, ready, ctxDone, held>>

DrainReady(c) == pc[c] = "drain" /\ Receive(c)

-----------------------------------------------------------------------------
(* Release *)

Forget(c) ==
    /\ held' = [held EXCEPT ![c] = NoConn]
    /\ Goto(c, "out")

(* Broken variant: serves the newest waiter first. *)
ReleaseToWaiter_Lifo(c) ==
    /\ pc[c] = "busy"
    /\ waiters # <<>>
    /\ ready' = [ready EXCEPT ![Last(waiters)] = held[c]]
    /\ waiters' = Front(waiters)
    /\ Forget(c)
    /\ UNCHANGED <<idle, ctxDone>>

(* The send happens under mu: it would block if the channel were full. *)
ReleaseToWaiter(c) ==
    /\ pc[c] = "busy"
    /\ waiters # <<>>
    /\ ready[Head(waiters)] = NoConn
    /\ ready' = [ready EXCEPT ![Head(waiters)] = held[c]]
    /\ waiters' = Tail(waiters)
    /\ Forget(c)
    /\ UNCHANGED <<idle, ctxDone>>

(* Broken variant: returns a connection to the idle list past the waiters. *)
ReleaseToIdle_IgnoresWaiters(c) ==
    /\ pc[c] = "busy"
    /\ idle' = IF Len(idle) >= Size THEN idle ELSE Append(idle, held[c])
    /\ Forget(c)
    /\ UNCHANGED <<waiters, ready, ctxDone>>

(* A full idle list drops the connection and returns ErrPoolFull. *)
ReleaseToIdle(c) ==
    /\ pc[c] = "busy"
    /\ waiters = <<>>
    /\ idle' = IF Len(idle) >= Size THEN idle ELSE Append(idle, held[c])
    /\ Forget(c)
    /\ UNCHANGED <<waiters, ready, ctxDone>>

-----------------------------------------------------------------------------

Acquire(c) ==
    \/ AcquireIdle(c)
    \/ AcquireWait(c)
    \/ AcquireRejected(c)

(* The steps of a call already under way. *)
Resume(c) ==
    \/ ReceiveReady(c)
    \/ SelectCtxDone(c)
    \/ RemoveWaiter(c)
    \/ DrainReady(c)

Release(c) == ReleaseToWaiter(c) \/ ReleaseToIdle(c)

Next == \E c \in Callers : Acquire(c) \/ CtxExpires(c) \/ Resume(c) \/ Release(c)

Spec == Init /\ [][Next]_vars

(* A goroutine that can run does run. *)
Scheduling == \A c \in Callers : WF_vars(Resume(c))

(* Callers give connections back: an assumption about the users of the     *)
(* pool, needed only for WaiterServed.                                     *)
Returning == \A c \in Callers : WF_vars(Release(c))

FairSpec == Spec /\ Scheduling /\ Returning

-----------------------------------------------------------------------------
(* Properties *)

(* Types of the state, and the bounds New promises: never more than Size   *)
(* idle connections or MaxWaiters waiting calls.                           *)
TypeOK ==
    /\ idle \in Seq(Conns) /\ Len(idle) <= Size
    /\ waiters \in Seq(Callers) /\ Len(waiters) <= MaxWaiters
    /\ ready \in [Callers -> Conns \union {NoConn}]
    /\ ctxDone \subseteq Callers
    /\ held \in [Callers -> Conns \union {NoConn}]
    /\ pc \in [Callers -> States]

(* The connection each caller has or has been handed. *)
Owned == [c \in Callers |-> IF held[c] # NoConn THEN held[c] ELSE ready[c]]

(* Acquire, its cancellation and Release never give one connection to two  *)
(* owners: a connection is in at most one slot of idle, one waiter channel *)
(* or one caller's hands.                                                  *)
NoConnShared ==
    /\ IsInjective(idle)
    /\ \A c \in Callers : held[c] = NoConn \/ ready[c] = NoConn
    /\ \A c, d \in Callers : Owned[c] = Owned[d] /\ Owned[c] # NoConn => c = d
    /\ \A c \in Callers : Owned[c] \notin Range(idle)

(* No connection leaks: a hand-off that races with the waiter's context    *)
(* (lines 110-118) leaves the connection where somebody will return it.    *)
NoConnLost ==
    \A k \in Conns : k \in Range(idle) \/ \E c \in Callers : Owned[c] = k

(* Both: every connection is in exactly one place.                         *)
EachConnOnce == NoConnShared /\ NoConnLost

(* A call that waits is either still queued or has been handed a           *)
(* connection, never both (Release would block under mu) and never neither *)
(* (the final receive of line 118 would block for ever); a caller outside  *)
(* a call has left nothing behind.                                         *)
QueuedOrHanded ==
    \A c \in Callers :
        /\ pc[c] \in {"select", "leaving"} =>
              (c \in Range(waiters) <=> ready[c] = NoConn)
        /\ pc[c] = "drain" => c \notin Range(waiters) /\ ready[c] # NoConn
        /\ pc[c] \in {"out", "busy"} =>
              c \notin Range(waiters) /\ ready[c] = NoConn

(* No waiter sits in the list while a connection sits idle: removal of a   *)
(* canceled waiter, rejection and the fast path keep this.                 *)
NoIdleWhileWaiting == waiters # <<>> => idle = <<>>

(* A done context always ends the call, with the connection or the error,  *)
(* even if no caller ever releases anything again.                         *)
CanceledCallReturns ==
    \A c \in Callers :
        pc[c] = "select" /\ c \in ctxDone ~> pc[c] \in {"out", "busy"}

(* If callers give connections back, every waiting call ends: nobody       *)
(* starves in the wait list.                                               *)
WaiterServed == \A c \in Callers : pc[c] = "select" ~> pc[c] \in {"out", "busy"}

(* The pool implements FifoPool: a handed connection is already owned by   *)
(* the waiter it was handed to, and service is first come first served.    *)
Fifo == INSTANCE FifoPool
            WITH Nothing <- NoConn, MaxQueue <- MaxWaiters,
                 free <- Range(idle),
                 owner <- Owned,
                 queue <- waiters

ImplementsFifoPool == Fifo!Spec
=============================================================================
