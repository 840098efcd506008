------------------------ MODULE ConnectionPoolProofs ------------------------
(***************************************************************************)
(* Proofs about ConnectionPool for every set of callers, every pool size   *)
(* and every wait-list bound.  All of it rests on one inductive invariant, *)
(* IInv, whose parts need each other: that a hand-off does not overwrite   *)
(* another one follows from QueuedOrHanded, which needs the wait list to   *)
(* be free of duplicates, and so on.                                       *)
(***************************************************************************)
EXTENDS ConnectionPool, Facts, FiniteSetTheorems

(* A caller holds a connection exactly between Acquire and Release. *)
HoldsWhenBusy == \A c \in Callers : held[c] # NoConn <=> pc[c] = "busy"

IInv ==
    /\ TypeOK
    /\ IsInjective(waiters)
    /\ HoldsWhenBusy
    /\ QueuedOrHanded
    /\ NoConnShared
    /\ NoConnLost
    /\ NoIdleWhileWaiting

-----------------------------------------------------------------------------
(* The initial state: every connection idle, in order of its id. *)
LEMMA InitialIdle ==
    Init => /\ idle \in Seq(Conns)
            /\ Len(idle) = Size
            /\ IsInjective(idle)
            /\ Range(idle) = Conns
<1> SUFFICES ASSUME Init
             PROVE  /\ idle \in Seq(Conns) /\ Len(idle) = Size
                    /\ IsInjective(idle) /\ Range(idle) = Conns
  OBVIOUS
<1>1. Size \in Nat \ {0} /\ Conns = 0 .. Size - 1
  BY PoolAssumption DEF Conns
<1>2. /\ DOMAIN idle = 1 .. Size
      /\ \A i \in 1 .. Size : idle[i] = i - 1
      /\ idle = [i \in 1 .. Size |-> i - 1]
  BY DEF Init
<1>3. \A i \in 1 .. Size : i - 1 \in Conns
  BY <1>1
<1>4. idle \in [1 .. Size -> Conns]
  BY <1>2, <1>3
<1>5. idle \in Seq(Conns) /\ Len(idle) = Size
  BY <1>1, <1>2, <1>4, LenProperties
<1>6. IsInjective(idle)
  BY <1>1, <1>2 DEF IsInjective
<1>7. Range(idle) = Conns
  <2>1. ASSUME NEW k \in Conns PROVE k \in Range(idle)
    <3>1. k + 1 \in 1 .. Size /\ (k + 1) - 1 = k
      BY <1>1
    <3>2. k + 1 \in DOMAIN idle /\ idle[k + 1] = k
      BY <3>1, <1>2
    <3> QED BY <3>2 DEF Range
  <2>2. Range(idle) \subseteq Conns
    BY <1>5, EmptyFacts
  <2> QED BY <2>1, <2>2
<1> QED BY <1>5, <1>6, <1>7

LEMMA InitIInv == Init => IInv
<1> SUFFICES ASSUME Init PROVE IInv
  OBVIOUS
<1>1. Size \in Nat \ {0} /\ MaxWaiters \in Nat /\ NoConn \notin Conns
  BY PoolAssumption
<1>2. /\ waiters = <<>> /\ waiters \in Seq(Callers) /\ Len(waiters) = 0
      /\ Range(waiters) = {} /\ IsInjective(waiters)
  BY EmptySeq, EmptyFacts DEF Init
<1>3. /\ idle \in Seq(Conns) /\ Len(idle) = Size
      /\ IsInjective(idle) /\ Range(idle) = Conns
  BY InitialIdle
<1>4. TypeOK
  BY <1>1, <1>2, <1>3 DEF Init, TypeOK, States
<1>5. HoldsWhenBusy /\ QueuedOrHanded
  BY <1>2 DEF Init, HoldsWhenBusy, QueuedOrHanded
<1>6. NoConnShared /\ NoConnLost /\ NoIdleWhileWaiting
  BY <1>1, <1>2, <1>3
     DEF Init, NoConnShared, NoConnLost, NoIdleWhileWaiting, Owned
<1> QED BY <1>2, <1>4, <1>5, <1>6 DEF IInv

-----------------------------------------------------------------------------
(* The four kinds of step that move a connection or a waiter. *)

(* Popping the idle list: the fast path of Acquire. *)
LEMMA AcquireIdleStep ==
    ASSUME IInv, NEW c \in Callers, AcquireIdle(c)
    PROVE  IInv'
<1> USE PoolAssumption
<1>1. /\ TypeOK /\ IsInjective(waiters) /\ HoldsWhenBusy /\ QueuedOrHanded
      /\ NoConnShared /\ NoConnLost
  BY DEF IInv
<1>2. /\ pc[c] = "out" /\ idle # <<>> /\ waiters = <<>>
      /\ idle' = Tail(idle)
      /\ held' = [held EXCEPT ![c] = Head(idle)]
      /\ pc' = [pc EXCEPT ![c] = "busy"]
      /\ UNCHANGED <<waiters, ready, ctxDone>>
  BY <1>1, EmptyFacts DEF AcquireIdle, FastPath, Return, Goto, TypeOK
<1>3. /\ Head(idle) \in Conns /\ Head(idle) \in Range(idle)
      /\ idle' \in Seq(Conns) /\ Len(idle') = Len(idle) - 1
      /\ Len(idle) \in Nat
      /\ Range(idle') = Range(idle) \ {Head(idle)}
      /\ IsInjective(idle')
  BY <1>1, <1>2, TailFacts DEF TypeOK, NoConnShared
<1>4. TypeOK'
  BY <1>1, <1>2, <1>3 DEF TypeOK, States
<1>5. IsInjective(waiters)' /\ NoIdleWhileWaiting'
  BY <1>1, <1>2 DEF NoIdleWhileWaiting
<1>6. HoldsWhenBusy' /\ QueuedOrHanded'
  BY <1>1, <1>2, <1>3 DEF HoldsWhenBusy, QueuedOrHanded, TypeOK
<1>7. /\ held[c] = NoConn /\ ready[c] = NoConn
      /\ Owned'[c] = Head(idle) /\ Owned'[c] \in Conns
      /\ \A d \in Callers \ {c} : Owned'[d] = Owned[d]
  BY <1>1, <1>2, <1>3 DEF HoldsWhenBusy, QueuedOrHanded, TypeOK, Owned
<1>8. NoConnShared'
  BY <1>1, <1>2, <1>3, <1>7 DEF NoConnShared, TypeOK
<1>9. NoConnLost'
  <2> SUFFICES ASSUME NEW k \in Conns
               PROVE  k \in Range(idle') \/ \E d \in Callers : Owned'[d] = k
    BY DEF NoConnLost
  <2>1. CASE k = Head(idle)
    BY <2>1, <1>7
  <2>2. CASE k # Head(idle) /\ k \in Range(idle)
    BY <2>2, <1>3
  <2>3. ASSUME NEW d \in Callers, Owned[d] = k PROVE Owned'[d] = k
    BY <2>3, <1>7, PoolAssumption DEF Owned
  <2> QED BY <2>1, <2>2, <2>3, <1>1 DEF NoConnLost
<1> QED BY <1>4, <1>5, <1>6, <1>8, <1>9 DEF IInv

(* Queueing: the rest of the first critical section of Acquire. *)
LEMMA AcquireWaitStep ==
    ASSUME IInv, NEW c \in Callers, AcquireWait(c)
    PROVE  IInv'
<1> USE PoolAssumption
<1>1. /\ TypeOK /\ IsInjective(waiters) /\ HoldsWhenBusy /\ QueuedOrHanded
      /\ NoConnShared /\ NoConnLost /\ NoIdleWhileWaiting
  BY DEF IInv
<1>2. /\ pc[c] = "out" /\ ~FastPath /\ ~(Len(waiters) >= MaxWaiters)
      /\ waiters' = Append(waiters, c)
      /\ ready' = [ready EXCEPT ![c] = NoConn]
      /\ ctxDone' = ctxDone \ {c}
      /\ pc' = [pc EXCEPT ![c] = "select"]
      /\ UNCHANGED <<idle, held>>
  BY DEF AcquireWait, WaitListFull, Goto
<1>3. c \notin Range(waiters) /\ ready[c] = NoConn /\ ready' = ready
  BY <1>1, <1>2 DEF QueuedOrHanded, TypeOK
<1>4. /\ waiters' \in Seq(Callers) /\ Len(waiters') = Len(waiters) + 1
      /\ Range(waiters') = Range(waiters) \union {c}
      /\ IsInjective(waiters')
      /\ Len(waiters) \in Nat
  BY <1>1, <1>2, <1>3, AppendFacts, EmptyFacts DEF TypeOK
<1>5. TypeOK'
  BY <1>1, <1>2, <1>3, <1>4 DEF TypeOK, States
<1>6. HoldsWhenBusy' /\ QueuedOrHanded'
  BY <1>1, <1>2, <1>3, <1>4 DEF HoldsWhenBusy, QueuedOrHanded, TypeOK
<1>7. NoConnShared' /\ NoConnLost'
  BY <1>1, <1>2, <1>3 DEF NoConnShared, NoConnLost, Owned
<1>8. idle = <<>>
  BY <1>1, <1>2, EmptyFacts DEF FastPath, NoIdleWhileWaiting, TypeOK
<1>9. NoIdleWhileWaiting'
  BY <1>2, <1>8 DEF NoIdleWhileWaiting
<1> QED BY <1>4, <1>5, <1>6, <1>7, <1>9 DEF IInv

(* Receiving from the waiter's channel, in the select or after it. *)
LEMMA ReceiveStep ==
    ASSUME IInv, NEW c \in Callers, pc[c] \in {"select", "drain"}, Receive(c)
    PROVE  IInv'
<1> USE PoolAssumption
<1>1. /\ TypeOK /\ IsInjective(waiters) /\ HoldsWhenBusy /\ QueuedOrHanded
      /\ NoConnShared /\ NoConnLost /\ NoIdleWhileWaiting
  BY DEF IInv
<1>2. /\ ready[c] # NoConn
      /\ ready' = [ready EXCEPT ![c] = NoConn]
      /\ held' = [held EXCEPT ![c] = ready[c]]
      /\ pc' = [pc EXCEPT ![c] = "busy"]
      /\ UNCHANGED <<idle, waiters, ctxDone>>
  BY DEF Receive, Return, Goto
<1>3. c \notin Range(waiters) /\ held[c] = NoConn
  BY <1>1, <1>2 DEF QueuedOrHanded, HoldsWhenBusy
<1>4. TypeOK'
  BY <1>1, <1>2 DEF TypeOK, States
<1>5. HoldsWhenBusy' /\ QueuedOrHanded'
  BY <1>1, <1>2, <1>3 DEF HoldsWhenBusy, QueuedOrHanded, TypeOK
<1>6. \A d \in Callers : Owned'[d] = Owned[d]
  BY <1>1, <1>2, <1>3 DEF Owned, TypeOK
<1>7. NoConnShared' /\ NoConnLost' /\ NoIdleWhileWaiting'
  BY <1>1, <1>2, <1>6 DEF NoConnShared, NoConnLost, NoIdleWhileWaiting, TypeOK
<1> QED BY <1>1, <1>2, <1>4, <1>5, <1>7 DEF IInv

(* removeWaiterLocked after a done context. *)
LEMMA RemoveWaiterStep ==
    ASSUME IInv, NEW c \in Callers, RemoveWaiter(c)
    PROVE  IInv'
<1> USE PoolAssumption
<1>1. /\ TypeOK /\ IsInjective(waiters) /\ HoldsWhenBusy /\ QueuedOrHanded
      /\ NoConnShared /\ NoConnLost /\ NoIdleWhileWaiting
  BY DEF IInv
<1>2. pc[c] = "leaving" /\ UNCHANGED <<idle, ready, ctxDone, held>>
  BY DEF RemoveWaiter
<1>3. NoConnShared' /\ NoConnLost'
  BY <1>1, <1>2 DEF NoConnShared, NoConnLost, Owned
<1>4. CASE c \in Range(waiters)
  <2>1. PICK i \in DOMAIN waiters :
            waiters[i] = c /\ waiters' = RemoveAt(waiters, i)
    BY <1>4 DEF RemoveWaiter
  <2>2. pc' = [pc EXCEPT ![c] = "out"]
    BY <1>4 DEF RemoveWaiter, Goto
  <2>3. /\ waiters' \in Seq(Callers) /\ Len(waiters') = Len(waiters) - 1
        /\ Range(waiters') = Range(waiters) \ {c} /\ IsInjective(waiters')
        /\ Len(waiters) \in Nat
    BY <1>1, <2>1, RemoveAtFacts, EmptyFacts DEF TypeOK
  <2>4. TypeOK'
    BY <1>1, <1>2, <2>2, <2>3, PoolAssumption DEF TypeOK, States
  <2>5. HoldsWhenBusy' /\ QueuedOrHanded'
    BY <1>1, <1>2, <1>4, <2>2, <2>3 DEF HoldsWhenBusy, QueuedOrHanded, TypeOK
  <2>6. waiters # <<>>
    BY <1>4, EmptyFacts
  <2>7. NoIdleWhileWaiting'
    BY <1>1, <1>2, <2>6 DEF NoIdleWhileWaiting
  <2> QED BY <1>3, <2>3, <2>4, <2>5, <2>7 DEF IInv
<1>5. CASE c \notin Range(waiters)
  <2>1. pc' = [pc EXCEPT ![c] = "drain"] /\ waiters' = waiters
    BY <1>5 DEF RemoveWaiter, Goto
  <2>2. TypeOK'
    BY <1>1, <1>2, <2>1 DEF TypeOK, States
  <2>3. HoldsWhenBusy' /\ QueuedOrHanded'
    BY <1>1, <1>2, <1>5, <2>1 DEF HoldsWhenBusy, QueuedOrHanded, TypeOK
  <2> QED BY <1>1, <1>2, <1>3, <2>1, <2>2, <2>3 DEF IInv, NoIdleWhileWaiting
<1> QED BY <1>4, <1>5

(* Handing the connection to the oldest waiter. *)
LEMMA ReleaseToWaiterStep ==
    ASSUME IInv, NEW c \in Callers, ReleaseToWaiter(c)
    PROVE  IInv'
<1> USE PoolAssumption
<1> DEFINE w == Head(waiters)
<1>1. /\ TypeOK /\ IsInjective(waiters) /\ HoldsWhenBusy /\ QueuedOrHanded
      /\ NoConnShared /\ NoConnLost /\ NoIdleWhileWaiting
  BY DEF IInv
<1>2. /\ pc[c] = "busy" /\ waiters # <<>> /\ ready[w] = NoConn
      /\ ready' = [ready EXCEPT ![w] = held[c]]
      /\ waiters' = Tail(waiters)
      /\ held' = [held EXCEPT ![c] = NoConn]
      /\ pc' = [pc EXCEPT ![c] = "out"]
      /\ UNCHANGED <<idle, ctxDone>>
  BY DEF ReleaseToWaiter, Forget, Goto
<1>3. /\ w \in Callers /\ w \in Range(waiters)
      /\ waiters' \in Seq(Callers) /\ Len(waiters') = Len(waiters) - 1
      /\ Range(waiters') = Range(waiters) \ {w} /\ IsInjective(waiters')
      /\ Len(waiters) \in Nat
  BY <1>1, <1>2, TailFacts DEF TypeOK
<1> HIDE DEF w
<1>4. /\ pc[w] \in {"select", "leaving"} /\ w # c
      /\ held[w] = NoConn /\ held[c] # NoConn /\ ready[c] = NoConn
      /\ held[c] \in Conns
  BY <1>1, <1>2, <1>3 DEF QueuedOrHanded, HoldsWhenBusy, TypeOK, States
<1>5. TypeOK'
  BY <1>1, <1>2, <1>3, <1>4, PoolAssumption DEF TypeOK, States
<1>6. HoldsWhenBusy' /\ QueuedOrHanded'
  BY <1>1, <1>2, <1>3, <1>4 DEF HoldsWhenBusy, QueuedOrHanded, TypeOK
<1>7. /\ Owned[c] = held[c] /\ Owned'[c] = NoConn
      /\ Owned[w] = NoConn /\ Owned'[w] = held[c]
      /\ \A d \in Callers \ {c, w} : Owned'[d] = Owned[d]
  BY <1>1, <1>2, <1>3, <1>4 DEF Owned, TypeOK
<1>8. Range(idle) \subseteq Conns
  BY <1>1, EmptyFacts DEF TypeOK
<1>9. NoConnShared'
  <2>1. \A d \in Callers : held'[d] = NoConn \/ ready'[d] = NoConn
    BY <1>1, <1>2, <1>3, <1>4 DEF NoConnShared, TypeOK
  <2>2. \A d, e \in Callers :
            Owned'[d] = Owned'[e] /\ Owned'[d] # NoConn => d = e
    BY <1>1, <1>3, <1>4, <1>7 DEF NoConnShared
  <2>3. \A d \in Callers : Owned'[d] \notin Range(idle)
    BY <1>1, <1>3, <1>4, <1>7, <1>8 DEF NoConnShared
  <2> QED BY <1>1, <1>2, <2>1, <2>2, <2>3 DEF NoConnShared
<1>10. NoConnLost'
  BY <1>1, <1>2, <1>3, <1>4, <1>7 DEF NoConnLost
<1>11. NoIdleWhileWaiting'
  BY <1>1, <1>2 DEF NoIdleWhileWaiting
<1> QED BY <1>3, <1>5, <1>6, <1>9, <1>10, <1>11 DEF IInv

(* The idle list has room: a connection that is held is not in it, so a    *)
(* Release that keeps the contract never sees ErrPoolFull.                 *)
LEMMA RoomInIdle ==
    ASSUME TypeOK, IsInjective(idle),
           NEW k \in Conns, k \notin Range(idle)
    PROVE  Len(idle) < Size
<1> DEFINE S == 1 .. Len(idle)
           T == Conns \ {k}
<1>1. Size \in Nat \ {0} /\ Conns = 0 .. Size - 1
  BY PoolAssumption DEF Conns
<1>2. idle \in Seq(Conns) /\ Len(idle) \in Nat /\ DOMAIN idle = S
  BY LenProperties DEF TypeOK
<1>3. idle \in Injection(S, T)
  <2>1. \A i \in S : idle[i] \in T
    BY <1>2, ElementOfSeq DEF Range
  <2>2. idle \in [S -> T]
    BY <1>2, <2>1, LenProperties
  <2> QED BY <2>2 DEF Injection
<1>4. IsFiniteSet(Conns) /\ Cardinality(Conns) = Size
  <2>1. 0 \in Int /\ Size - 1 \in Int
    BY <1>1
  <2>2. /\ IsFiniteSet(0 .. Size - 1)
        /\ Cardinality(0 .. Size - 1) = IF 0 > Size - 1 THEN 0 ELSE Size - 1 - 0 + 1
    BY <2>1, FS_Interval
  <2> QED BY <1>1, <2>2
<1>5. IsFiniteSet(T) /\ Cardinality(T) = Size - 1
  BY <1>4, FS_RemoveElement
<1>6. Cardinality(S) = Len(idle)
  <2>1. 1 \in Int /\ Len(idle) \in Int
    BY <1>2
  <2>2. Cardinality(S) = IF 1 > Len(idle) THEN 0 ELSE Len(idle) - 1 + 1
    BY <2>1, FS_Interval
  <2> QED BY <1>2, <2>2
<1>7. Cardinality(S) <= Cardinality(T)
  <2> HIDE DEF S, T
  <2> QED BY <1>3, <1>5, FS_Injection
<1> QED BY <1>1, <1>2, <1>5, <1>6, <1>7

(* Putting the connection back when nobody waits. *)
LEMMA ReleaseToIdleStep ==
    ASSUME IInv, NEW c \in Callers, ReleaseToIdle(c)
    PROVE  IInv' /\ idle' = Append(idle, held[c])
<1> USE PoolAssumption
<1>1. /\ TypeOK /\ IsInjective(waiters) /\ HoldsWhenBusy /\ QueuedOrHanded
      /\ NoConnShared /\ NoConnLost /\ NoIdleWhileWaiting
  BY DEF IInv
<1>2. /\ pc[c] = "busy" /\ waiters = <<>>
      /\ idle' = IF Len(idle) >= Size THEN idle ELSE Append(idle, held[c])
      /\ held' = [held EXCEPT ![c] = NoConn]
      /\ pc' = [pc EXCEPT ![c] = "out"]
      /\ UNCHANGED <<waiters, ready, ctxDone>>
  BY DEF ReleaseToIdle, Forget, Goto
<1>3. /\ held[c] # NoConn /\ held[c] \in Conns
      /\ Owned[c] = held[c] /\ held[c] \notin Range(idle)
      /\ ready[c] = NoConn
  BY <1>1, <1>2 DEF HoldsWhenBusy, TypeOK, NoConnShared, Owned, QueuedOrHanded
<1>4. Len(idle) < Size /\ Len(idle) \in Nat
  BY <1>1, <1>3, RoomInIdle, EmptyFacts DEF NoConnShared, TypeOK
<1>5. idle' = Append(idle, held[c])
  BY <1>2, <1>4
<1>6. /\ idle' \in Seq(Conns) /\ Len(idle') = Len(idle) + 1
      /\ Range(idle') = Range(idle) \union {held[c]} /\ IsInjective(idle')
  BY <1>1, <1>3, <1>5, AppendFacts DEF TypeOK, NoConnShared
<1>7. TypeOK'
  BY <1>1, <1>2, <1>4, <1>6 DEF TypeOK, States
<1>8. HoldsWhenBusy' /\ QueuedOrHanded'
  BY <1>1, <1>2, <1>3 DEF HoldsWhenBusy, QueuedOrHanded, TypeOK
<1>9. /\ Owned'[c] = NoConn
      /\ \A d \in Callers \ {c} : Owned'[d] = Owned[d]
  BY <1>1, <1>2, <1>3 DEF Owned, TypeOK
<1>10. NoConnShared'
  <2>1. \A d \in Callers : held'[d] = NoConn \/ ready'[d] = NoConn
    BY <1>1, <1>2 DEF NoConnShared, TypeOK
  <2>2. \A d, e \in Callers :
            Owned'[d] = Owned'[e] /\ Owned'[d] # NoConn => d = e
    BY <1>1, <1>9 DEF NoConnShared
  <2>3. ASSUME NEW d \in Callers PROVE Owned'[d] \notin Range(idle')
    <3>1. CASE d = c
      BY <3>1, <1>6, <1>9, EmptyFacts
    <3>2. CASE d # c
      <4>1. Owned[d] # held[c] /\ Owned[d] \notin Range(idle)
        BY <3>2, <1>1, <1>3 DEF NoConnShared
      <4> QED BY <3>2, <4>1, <1>6, <1>9
    <3> QED BY <3>1, <3>2
  <2> QED BY <1>6, <2>1, <2>2, <2>3 DEF NoConnShared
<1>11. NoConnLost'
  <2> SUFFICES ASSUME NEW k \in Conns
               PROVE  k \in Range(idle') \/ \E d \in Callers : Owned'[d] = k
    BY DEF NoConnLost
  <2>1. CASE k \in Range(idle)
    BY <2>1, <1>6
  <2>2. ASSUME NEW d \in Callers, Owned[d] = k
        PROVE  k \in Range(idle') \/ Owned'[d] = k
    BY <2>2, <1>3, <1>6, <1>9
  <2> QED BY <2>1, <2>2, <1>1 DEF NoConnLost
<1>12. NoIdleWhileWaiting' /\ IsInjective(waiters)'
  BY <1>1, <1>2 DEF NoIdleWhileWaiting
<1> QED BY <1>5, <1>7, <1>8, <1>10, <1>11, <1>12 DEF IInv

-----------------------------------------------------------------------------
(* The invariant is inductive. *)
LEMMA NextIInv == IInv /\ [Next]_vars => IInv'
<1> SUFFICES ASSUME IInv, [Next]_vars PROVE IInv'
  OBVIOUS
<1>1. ASSUME UNCHANGED vars PROVE IInv'
  BY <1>1 DEF vars, IInv, TypeOK, HoldsWhenBusy, QueuedOrHanded,
              NoConnShared, NoConnLost, NoIdleWhileWaiting, Owned
<1>2. ASSUME NEW c \in Callers, Acquire(c) PROVE IInv'
  BY <1>1, <1>2, AcquireIdleStep, AcquireWaitStep DEF Acquire, AcquireRejected
<1>3. ASSUME NEW c \in Callers, CtxExpires(c) \/ SelectCtxDone(c) PROVE IInv'
  <2>1. /\ pc[c] = "select" /\ pc' \in {pc, [pc EXCEPT ![c] = "leaving"]}
        /\ ctxDone' \in {ctxDone, ctxDone \union {c}}
        /\ UNCHANGED <<idle, waiters, ready, held>>
    BY <1>3 DEF CtxExpires, SelectCtxDone, Goto
  <2>2. TypeOK'
    BY <2>1 DEF IInv, TypeOK, States
  <2>3. HoldsWhenBusy' /\ QueuedOrHanded'
    BY <2>1 DEF IInv, TypeOK, HoldsWhenBusy, QueuedOrHanded
  <2>4. NoConnShared' /\ NoConnLost' /\ NoIdleWhileWaiting' /\ IsInjective(waiters)'
    BY <2>1 DEF IInv, NoConnShared, NoConnLost, NoIdleWhileWaiting, Owned
  <2> QED BY <2>2, <2>3, <2>4 DEF IInv
<1>4. ASSUME NEW c \in Callers, Resume(c) PROVE IInv'
  BY <1>3, <1>4, ReceiveStep, RemoveWaiterStep
     DEF Resume, ReceiveReady, DrainReady
<1>5. ASSUME NEW c \in Callers, Release(c) PROVE IInv'
  BY <1>5, ReleaseToWaiterStep, ReleaseToIdleStep DEF Release
<1> QED BY <1>1, <1>2, <1>3, <1>4, <1>5 DEF Next

(* The invariant holds of every reachable state. *)
THEOREM Invariance == Spec => []IInv
<1> QED BY InitIInv, NextIInv, PTL DEF Spec

(* Types, and the bounds on the idle and the wait list, for every pool     *)
(* size and wait-list bound.                                               *)
THEOREM TypeCorrect == Spec => []TypeOK
<1>1. IInv => TypeOK
  BY DEF IInv
<1> QED BY <1>1, Invariance, PTL

(* No connection is ever lent twice or lost, whatever the interleaving of  *)
(* Acquire, cancellation and Release.                                      *)
THEOREM ConnsConserved == Spec => []EachConnOnce
<1>1. IInv => EachConnOnce
  BY DEF IInv, EachConnOnce
<1> QED BY <1>1, Invariance, PTL

(* A waiting call is queued or has its connection, never both or neither:  *)
(* Release cannot block under mu and the final receive cannot hang.        *)
THEOREM WaitersAccounted == Spec => []QueuedOrHanded
<1>1. IInv => QueuedOrHanded
  BY DEF IInv
<1> QED BY <1>1, Invariance, PTL

(* No connection is idle while a call waits. *)
THEOREM NoIdleConnOverlooked == Spec => []NoIdleWhileWaiting
<1>1. IInv => NoIdleWhileWaiting
  BY DEF IInv
<1> QED BY <1>1, Invariance, PTL

-----------------------------------------------------------------------------
(* Every step of the pool is a step of FifoPool or leaves it unchanged. *)
LEMMA StepSimulation ==
    IInv /\ IInv' /\ [Next]_vars => [Fifo!Next]_(Fifo!vars)
<1> SUFFICES ASSUME IInv, IInv', [Next]_vars
             PROVE  [Fifo!Next]_(Fifo!vars)
  OBVIOUS
<1> USE PoolAssumption
<1>0. /\ TypeOK /\ HoldsWhenBusy /\ QueuedOrHanded
      /\ IsInjective(waiters) /\ NoConnShared /\ NoIdleWhileWaiting
      /\ TypeOK' /\ NoIdleWhileWaiting'
  BY DEF IInv
<1>1. ASSUME UNCHANGED <<idle, waiters, ready, held>>
      PROVE  UNCHANGED Fifo!vars
  BY <1>1 DEF Fifo!vars, Owned
<1>2. ASSUME NEW c \in Callers, AcquireIdle(c)
      PROVE  Fifo!Take(c, Head(idle)) /\ Head(idle) \in Conns
  <2>1. /\ pc[c] = "out" /\ idle # <<>> /\ waiters = <<>>
        /\ idle' = Tail(idle) /\ held' = [held EXCEPT ![c] = Head(idle)]
        /\ UNCHANGED <<waiters, ready>>
    BY <1>0, <1>2, EmptyFacts DEF AcquireIdle, FastPath, Return, TypeOK
  <2>2. /\ Head(idle) \in Conns /\ Head(idle) \in Range(idle)
        /\ Range(idle') = Range(idle) \ {Head(idle)}
    BY <1>0, <2>1, TailFacts DEF TypeOK, NoConnShared
  <2>3. held[c] = NoConn /\ ready[c] = NoConn
    BY <1>0, <2>1 DEF HoldsWhenBusy, QueuedOrHanded
  <2>4. Owned[c] = NoConn /\ Owned' = [Owned EXCEPT ![c] = Head(idle)]
    BY <1>0, <2>1, <2>2, <2>3 DEF Owned, TypeOK
  <2> QED BY <2>1, <2>2, <2>4 DEF Fifo!Take
<1>3. ASSUME NEW c \in Callers, AcquireWait(c) PROVE Fifo!Join(c)
  <2>1. /\ pc[c] = "out" /\ ~FastPath /\ ~(Len(waiters) >= MaxWaiters)
        /\ waiters' = Append(waiters, c)
        /\ ready' = [ready EXCEPT ![c] = NoConn]
        /\ UNCHANGED <<idle, held>>
    BY <1>3 DEF AcquireWait, WaitListFull
  <2>2. held[c] = NoConn /\ ready[c] = NoConn /\ c \notin Range(waiters)
    BY <1>0, <2>1 DEF HoldsWhenBusy, QueuedOrHanded
  <2>3. ready' = ready /\ Owned' = Owned /\ Owned[c] = NoConn
    BY <1>0, <2>1, <2>2 DEF Owned, TypeOK
  <2>4. waiters' # <<>>
    BY <1>0, <2>1, AppendFacts DEF TypeOK
  <2>5. Range(idle) = {}
    BY <1>0, <2>1, <2>4, EmptyFacts DEF NoIdleWhileWaiting, TypeOK
  <2>6. Len(waiters) < MaxWaiters
    BY <1>0, <2>1, EmptyFacts DEF TypeOK
  <2> QED BY <2>1, <2>2, <2>3, <2>5, <2>6
       DEF Fifo!Join, Fifo!Queued, Fifo!Range, Range
<1>4. ASSUME NEW c \in Callers, RemoveWaiter(c)
      PROVE  Fifo!Leave(c) \/ UNCHANGED Fifo!vars
  <2>1. UNCHANGED <<idle, ready, held>> /\ UNCHANGED Owned
    BY <1>4 DEF RemoveWaiter, Owned
  <2>2. CASE c \in Range(waiters)
    BY <1>4, <2>1, <2>2
       DEF RemoveWaiter, Fifo!Leave, Fifo!RemoveAt, RemoveAt
  <2>3. CASE c \notin Range(waiters)
    BY <1>1, <1>4, <2>1, <2>3 DEF RemoveWaiter
  <2> QED BY <2>2, <2>3
<1>5. ASSUME NEW c \in Callers, pc[c] \in {"select", "drain"}, Receive(c)
      PROVE  UNCHANGED Fifo!vars
  <2>1. /\ ready[c] # NoConn
        /\ ready' = [ready EXCEPT ![c] = NoConn]
        /\ held' = [held EXCEPT ![c] = ready[c]]
        /\ UNCHANGED <<idle, waiters>>
    BY <1>5 DEF Receive, Return
  <2>2. held[c] = NoConn
    BY <1>0, <1>5 DEF HoldsWhenBusy
  <2>3. Owned' = Owned
    BY <1>0, <2>1, <2>2 DEF Owned, TypeOK
  <2> QED BY <2>1, <2>3 DEF Fifo!vars
<1>6. ASSUME NEW c \in Callers, ReleaseToWaiter(c) PROVE Fifo!PassOn(c)
  <2> DEFINE w == Head(waiters)
  <2>1. /\ pc[c] = "busy" /\ waiters # <<>> /\ ready[w] = NoConn
        /\ ready' = [ready EXCEPT ![w] = held[c]]
        /\ waiters' = Tail(waiters)
        /\ held' = [held EXCEPT ![c] = NoConn]
        /\ UNCHANGED idle
    BY <1>6 DEF ReleaseToWaiter, Forget
  <2>2. w \in Callers /\ w \in Range(waiters)
    BY <1>0, <2>1, TailFacts DEF TypeOK
  <2> HIDE DEF w
  <2>3. /\ held[w] = NoConn /\ held[c] # NoConn /\ ready[c] = NoConn /\ w # c
    BY <1>0, <2>1, <2>2 DEF QueuedOrHanded, HoldsWhenBusy, TypeOK, States
  <2>4. /\ Owned[c] = held[c]
        /\ Owned' = [Owned EXCEPT ![c] = NoConn, ![w] = Owned[c]]
    BY <1>0, <2>1, <2>2, <2>3 DEF Owned, TypeOK
  <2> QED BY <2>1, <2>3, <2>4 DEF Fifo!PassOn, w
<1>7. ASSUME NEW c \in Callers, ReleaseToIdle(c) PROVE Fifo!PutBack(c)
  <2>1. /\ pc[c] = "busy" /\ waiters = <<>>
        /\ held' = [held EXCEPT ![c] = NoConn]
        /\ UNCHANGED <<waiters, ready>>
    BY <1>7 DEF ReleaseToIdle, Forget
  <2>2. held[c] # NoConn /\ held[c] \in Conns /\ ready[c] = NoConn
    BY <1>0, <2>1 DEF QueuedOrHanded, HoldsWhenBusy, TypeOK
  <2>3. Owned[c] = held[c] /\ Owned' = [Owned EXCEPT ![c] = NoConn]
    BY <1>0, <2>1, <2>2 DEF Owned, TypeOK
  <2>4. idle' = Append(idle, held[c])
    BY <1>7, ReleaseToIdleStep
  <2>5. Range(idle') = Range(idle) \union {held[c]}
    BY <1>0, <2>2, <2>4, AppendFacts DEF TypeOK
  <2> QED BY <2>1, <2>2, <2>3, <2>5 DEF Fifo!PutBack
<1>8. ASSUME NEW c \in Callers, Acquire(c) PROVE [Fifo!Next]_(Fifo!vars)
  <2>1. CASE AcquireIdle(c)
    BY <2>1, <1>2 DEF Fifo!Next
  <2>2. CASE AcquireWait(c)
    BY <2>2, <1>3 DEF Fifo!Next
  <2>3. CASE AcquireRejected(c)
    BY <2>3, <1>1 DEF AcquireRejected, vars
  <2> QED BY <1>8, <2>1, <2>2, <2>3 DEF Acquire
<1>9. ASSUME NEW c \in Callers, CtxExpires(c) \/ Resume(c)
      PROVE  [Fifo!Next]_(Fifo!vars)
  <2>1. CASE CtxExpires(c) \/ SelectCtxDone(c)
    BY <2>1, <1>1 DEF CtxExpires, SelectCtxDone
  <2>2. CASE ReceiveReady(c) \/ DrainReady(c)
    BY <2>2, <1>5 DEF ReceiveReady, DrainReady
  <2>3. CASE RemoveWaiter(c)
    BY <2>3, <1>4 DEF Fifo!Next
  <2> QED BY <1>9, <2>1, <2>2, <2>3 DEF Resume
<1>10. ASSUME NEW c \in Callers, Release(c) PROVE [Fifo!Next]_(Fifo!vars)
  BY <1>10, <1>6, <1>7 DEF Release, Fifo!Next
<1> QED BY <1>1, <1>8, <1>9, <1>10 DEF Next, vars

(* The pool is a first-come-first-served pool: with hand-offs counted as   *)
(* ownership, every behaviour of the code is one of FifoPool.              *)
THEOREM PoolRefinesFifoPool == Spec => ImplementsFifoPool
<1>1. Init => Fifo!Init
  <2> SUFFICES ASSUME Init PROVE Fifo!Init
    OBVIOUS
  <2>1. Range(idle) = Conns
    BY InitialIdle
  <2>2. Owned = [c \in Callers |-> NoConn]
    BY DEF Init, Owned
  <2> QED BY <2>1, <2>2 DEF Init, Fifo!Init
<1> QED BY <1>1, Invariance, StepSimulation, PTL
        DEF Spec, ImplementsFifoPool, Fifo!Spec
=============================================================================
