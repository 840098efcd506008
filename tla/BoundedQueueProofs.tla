------------------------- MODULE BoundedQueueProofs -------------------------
(***************************************************************************)
(* Proofs about BoundedQueue for any finite sets of producers and          *)
(* consumers and any capacity.  NoLostSignal is inductive together with    *)
(* the types: a Signal goes along with the one item or slot it announces,  *)
(* and a goroutine that takes an item or slot it was not woken for leaves  *)
(* the counts of the woken ones as they are.                               *)
(***************************************************************************)
EXTENDS BoundedQueue, Facts, FiniteSetTheorems

(* closing says how far the Close that closed the queue has got, and which *)
(* lists it has emptied for good. *)
Closed ==
    /\ closed <=> closing # "no"
    /\ closing \in {"notEmpty", "done"} => notFull = <<>>
    /\ closing = "done" => notEmpty = <<>>

IInv == TypeOK /\ Closed /\ NoLostSignal

Goroutines == Producers \union Consumers

-----------------------------------------------------------------------------
(* Counting the woken goroutines of a side. *)

LEMMA WokenFinite ==
    ASSUME NEW S \in {Producers, Consumers}
    PROVE  IsFiniteSet(Woken(S)) /\ Cardinality(Woken(S)) \in Nat
<1>1. Woken(S) \in SUBSET S /\ IsFiniteSet(S)
  BY QueueAssumption DEF Woken
<1> QED BY <1>1, FS_Subset, FS_CardinalityType

(* The woken goroutines of a side when one more is woken. *)
LEMMA WokenGrow ==
    ASSUME NEW S \in {Producers, Consumers}, NEW h \in S, h \notin Woken(S),
           Woken(S)' = Woken(S) \union {h}
    PROVE  Cardinality(Woken(S)') = Cardinality(Woken(S)) + 1
BY WokenFinite, FS_AddElement

(* The woken goroutines of a side when one of them may have gone on. *)
LEMMA WokenLeave ==
    ASSUME NEW S \in {Producers, Consumers}, NEW g, Woken(S)' = Woken(S) \ {g}
    PROVE  /\ Cardinality(Woken(S)') \in Nat
           /\ Cardinality(Woken(S)') >= Cardinality(Woken(S)) - 1
<1>1. /\ Cardinality(Woken(S)') = IF g \in Woken(S)
                                  THEN Cardinality(Woken(S)) - 1
                                  ELSE Cardinality(Woken(S))
      /\ IsFiniteSet(Woken(S) \ {g})
  BY WokenFinite, FS_RemoveElement
<1> QED BY <1>1, WokenFinite, FS_CardinalityType

-----------------------------------------------------------------------------

LEMMA InitIInv == Init => IInv
<1> SUFFICES ASSUME Init PROVE IInv
  OBVIOUS
<1>1. /\ <<>> \in Seq(Producers) /\ <<>> \in Seq(Consumers)
      /\ Range(<<>>) = {} /\ IsInjective(<<>>) /\ Len(<<>>) = 0
  BY EmptyFacts, EmptySeq
<1>2. \A g \in Goroutines : pc[g] = "out"
  BY DEF Init, Goroutines
<1>3. TypeOK
  <2>1. items \in Seq(Producers) /\ Len(items) <= Capacity
    BY <1>1, QueueAssumption DEF Init
  <2>2. /\ notFull \in Seq(Producers) /\ IsInjective(notFull)
        /\ notEmpty \in Seq(Consumers) /\ IsInjective(notEmpty)
        /\ Range(notFull) \union Range(notEmpty) = {}
    BY <1>1 DEF Init
  <2>3. pc \in [Goroutines -> {"out", "parked", "woken"}]
    BY DEF Init, Goroutines
  <2> QED BY <1>2, <2>1, <2>2, <2>3 DEF Init, TypeOK, Goroutines
<1> QED BY <1>3 DEF Init, IInv, Closed, NoLostSignal

LEMMA NextIInv == IInv /\ [Next]_vars => IInv'
<1> SUFFICES ASSUME IInv, [Next]_vars PROVE IInv'
  OBVIOUS
<1> USE QueueAssumption
<1>0. /\ TypeOK /\ Closed /\ NoLostSignal
      /\ Len(items) \in Nat /\ (items = <<>> <=> Len(items) = 0)
      /\ Range(notFull) \subseteq Producers /\ Range(notEmpty) \subseteq Consumers
  BY EmptyFacts DEF IInv, TypeOK
<1>1. ASSUME NEW p \in Producers, EnqueueWait(p) PROVE IInv'
  <2>1. /\ Running(p) /\ Full /\ ~closed
        /\ notFull' = Append(notFull, p)
        /\ pc' = [pc EXCEPT ![p] = "parked"]
        /\ UNCHANGED <<items, closed, notEmpty, closing>>
    BY <1>1 DEF EnqueueWait
  <2>2. p \notin Range(notFull)
    BY <1>0, <2>1 DEF Running, TypeOK
  <2>3. TypeOK'
    BY <1>0, <2>1, <2>2, AppendFacts DEF TypeOK
  <2>4. Closed'
    BY <1>0, <2>1 DEF Closed
  <2>5. Woken(Consumers)' = Woken(Consumers)
    BY <1>0, <2>1 DEF Woken, TypeOK
  <2>6. Cardinality(Woken(Producers)') \in Nat
    <3>1. Woken(Producers)' = Woken(Producers) \ {p}
      BY <1>0, <2>1 DEF Woken, TypeOK
    <3> QED BY <3>1, WokenLeave
  <2>7. NoLostSignal'
    BY <1>0, <2>1, <2>5, <2>6 DEF NoLostSignal, Full
  <2> QED BY <2>3, <2>4, <2>7 DEF IInv
<1>2. ASSUME NEW p \in Producers, EnqueueClosed(p) PROVE IInv'
  <2>1. /\ Running(p) /\ closed
        /\ pc' = [pc EXCEPT ![p] = "out"]
        /\ UNCHANGED <<items, closed, notFull, notEmpty, closing>>
    BY <1>2 DEF EnqueueClosed
  <2>2. TypeOK'
    BY <1>0, <2>1 DEF TypeOK, Running
  <2> QED BY <1>0, <2>1, <2>2 DEF IInv, Closed, NoLostSignal
<1>3. ASSUME NEW p \in Producers, EnqueueItem(p) PROVE IInv'
  <2>1. /\ Running(p) /\ ~Full /\ ~closed
        /\ items' = Append(items, p)
        /\ UNCHANGED <<closed, notFull, closing>>
    BY <1>3 DEF EnqueueItem
  <2>2. /\ Len(items') = Len(items) + 1 /\ Len(items') <= Capacity
        /\ items' \in Seq(Producers)
    BY <1>0, <2>1, AppendFacts DEF TypeOK, Full
  <2>3. Closed'
    <3>1. closing = "no"
      BY <1>0, <2>1 DEF Closed
    <3> QED BY <1>0, <2>1, <3>1 DEF Closed
  <2>4. p \notin Consumers /\ p \in Goroutines /\ p \notin Range(notFull)
    BY <1>0, <2>1 DEF Goroutines, Running, TypeOK
  <2>5. CASE notEmpty = <<>>
    <3>1. /\ pc' = [g \in Goroutines |-> IF g = p THEN "out" ELSE pc[g]]
          /\ notEmpty' = notEmpty
      BY <1>0, <1>3, <2>5 DEF EnqueueItem, Waken, Goroutines, TypeOK
    <3>2. TypeOK'
      BY <1>0, <2>1, <2>2, <2>4, <3>1 DEF TypeOK, Goroutines, Running
    <3>3. Woken(Producers)' = Woken(Producers) \ {p}
      BY <1>0, <3>1 DEF Woken, Goroutines, TypeOK
    <3>4. /\ Cardinality(Woken(Producers)') \in Nat
          /\ Cardinality(Woken(Producers)') >= Cardinality(Woken(Producers)) - 1
      BY <3>3, WokenLeave
    <3>5. NoLostSignal'
      BY <1>0, <2>1, <2>2, <2>5, <3>1, <3>4, WokenFinite DEF NoLostSignal, TypeOK
    <3> QED BY <2>3, <3>2, <3>5 DEF IInv
  <2>6. CASE notEmpty # <<>>
    <3> DEFINE h == Head(notEmpty)
    <3>1. /\ h \in Consumers /\ h \in Range(notEmpty)
          /\ Tail(notEmpty) \in Seq(Consumers)
          /\ Range(Tail(notEmpty)) = Range(notEmpty) \ {h}
          /\ IsInjective(Tail(notEmpty))
      BY <1>0, <2>6, TailFacts DEF TypeOK
    <3>2. /\ pc' = [g \in Goroutines |-> IF g = h THEN "woken"
                                         ELSE IF g = p THEN "out" ELSE pc[g]]
          /\ notEmpty' = Tail(notEmpty)
      BY <1>0, <1>3, <2>6 DEF EnqueueItem, Waken, Goroutines, TypeOK
    <3>3. pc[h] = "parked" /\ h \notin Producers
      BY <1>0, <3>1 DEF TypeOK
    <3>4. TypeOK'
      BY <1>0, <2>1, <2>2, <2>4, <3>1, <3>2, <3>3 DEF TypeOK, Goroutines, Running
    <3>5. /\ Woken(Producers)' = Woken(Producers) \ {p}
          /\ Woken(Consumers)' = Woken(Consumers) \union {h}
          /\ h \notin Woken(Consumers)
      BY <1>0, <2>4, <3>1, <3>2, <3>3 DEF Woken, Goroutines, TypeOK
    <3>6. Cardinality(Woken(Consumers)') = Cardinality(Woken(Consumers)) + 1
      BY <3>1, <3>5, WokenGrow
    <3>7. /\ Cardinality(Woken(Producers)') \in Nat
          /\ Cardinality(Woken(Producers)') >= Cardinality(Woken(Producers)) - 1
      BY <3>5, WokenLeave
    <3>8. NoLostSignal'
      BY <1>0, <2>1, <2>2, <2>6, <3>6, <3>7, WokenFinite DEF NoLostSignal, TypeOK
    <3> QED BY <2>3, <3>4, <3>8 DEF IInv
  <2> QED BY <2>5, <2>6
<1>4. ASSUME NEW c \in Consumers, DequeueWait(c) PROVE IInv'
  <2>1. /\ Running(c) /\ items = <<>> /\ ~closed
        /\ notEmpty' = Append(notEmpty, c)
        /\ pc' = [pc EXCEPT ![c] = "parked"]
        /\ UNCHANGED <<items, closed, notFull, closing>>
    BY <1>4 DEF DequeueWait
  <2>2. c \notin Range(notEmpty)
    BY <1>0, <2>1 DEF Running, TypeOK
  <2>3. TypeOK'
    BY <1>0, <2>1, <2>2, AppendFacts DEF TypeOK
  <2>4. Closed'
    BY <1>0, <2>1 DEF Closed
  <2>5. Woken(Producers)' = Woken(Producers)
    BY <1>0, <2>1 DEF Woken, TypeOK
  <2>6. Cardinality(Woken(Consumers)') \in Nat
    <3>1. Woken(Consumers)' = Woken(Consumers) \ {c}
      BY <1>0, <2>1 DEF Woken, TypeOK
    <3> QED BY <3>1, WokenLeave
  <2>7. NoLostSignal'
    BY <1>0, <2>1, <2>5, <2>6 DEF NoLostSignal
  <2> QED BY <2>3, <2>4, <2>7 DEF IInv
<1>5. ASSUME NEW c \in Consumers, DequeueClosed(c) PROVE IInv'
  <2>1. /\ Running(c) /\ closed
        /\ pc' = [pc EXCEPT ![c] = "out"]
        /\ UNCHANGED <<items, closed, notFull, notEmpty, closing>>
    BY <1>5 DEF DequeueClosed
  <2>2. TypeOK'
    BY <1>0, <2>1 DEF TypeOK, Running
  <2> QED BY <1>0, <2>1, <2>2 DEF IInv, Closed, NoLostSignal
<1>6. ASSUME NEW c \in Consumers, DequeueItem(c) PROVE IInv'
  <2>1. /\ Running(c) /\ items # <<>>
        /\ items' = Tail(items)
        /\ UNCHANGED <<closed, notEmpty, closing>>
    BY <1>6 DEF DequeueItem
  <2>2. /\ Len(items') = Len(items) - 1 /\ Len(items') \in Nat
        /\ Len(items') <= Capacity /\ items' \in Seq(Producers)
    BY <1>0, <2>1, TailFacts DEF TypeOK
  <2>3. c \notin Producers /\ c \in Goroutines /\ c \notin Range(notEmpty)
    BY <1>0, <2>1 DEF Goroutines, Running, TypeOK
  <2>4. CASE notFull = <<>>
    <3>1. /\ pc' = [g \in Goroutines |-> IF g = c THEN "out" ELSE pc[g]]
          /\ notFull' = notFull
      BY <1>0, <1>6, <2>4 DEF DequeueItem, Waken, Goroutines, TypeOK
    <3>2. TypeOK'
      BY <1>0, <2>1, <2>2, <2>3, <3>1 DEF TypeOK, Goroutines, Running
    <3>3. Woken(Consumers)' = Woken(Consumers) \ {c}
      BY <1>0, <3>1 DEF Woken, Goroutines, TypeOK
    <3>4. /\ Cardinality(Woken(Consumers)') \in Nat
          /\ Cardinality(Woken(Consumers)') >= Cardinality(Woken(Consumers)) - 1
      BY <3>3, WokenLeave
    <3>5. NoLostSignal'
      BY <1>0, <2>1, <2>2, <2>4, <3>1, <3>4, WokenFinite DEF NoLostSignal, TypeOK
    <3>6. Closed'
      BY <1>0, <2>1, <3>1 DEF Closed
    <3> QED BY <3>2, <3>5, <3>6 DEF IInv
  <2>5. CASE notFull # <<>>
    <3> DEFINE h == Head(notFull)
    <3>1. /\ h \in Producers /\ h \in Range(notFull)
          /\ Tail(notFull) \in Seq(Producers)
          /\ Range(Tail(notFull)) = Range(notFull) \ {h}
          /\ IsInjective(Tail(notFull))
      BY <1>0, <2>5, TailFacts DEF TypeOK
    <3>2. /\ pc' = [g \in Goroutines |-> IF g = h THEN "woken"
                                         ELSE IF g = c THEN "out" ELSE pc[g]]
          /\ notFull' = Tail(notFull)
      BY <1>0, <1>6, <2>5 DEF DequeueItem, Waken, Goroutines, TypeOK
    <3>3. pc[h] = "parked" /\ h \notin Consumers
      BY <1>0, <3>1 DEF TypeOK
    <3>4. TypeOK'
      BY <1>0, <2>1, <2>2, <2>3, <3>1, <3>2, <3>3 DEF TypeOK, Goroutines, Running
    <3>5. /\ Woken(Consumers)' = Woken(Consumers) \ {c}
          /\ Woken(Producers)' = Woken(Producers) \union {h}
          /\ h \notin Woken(Producers)
      BY <1>0, <2>3, <3>1, <3>2, <3>3 DEF Woken, Goroutines, TypeOK
    <3>6. Cardinality(Woken(Producers)') = Cardinality(Woken(Producers)) + 1
      BY <3>1, <3>5, WokenGrow
    <3>7. /\ Cardinality(Woken(Consumers)') \in Nat
          /\ Cardinality(Woken(Consumers)') >= Cardinality(Woken(Consumers)) - 1
      BY <3>5, WokenLeave
    <3>8. NoLostSignal'
      BY <1>0, <2>1, <2>2, <2>5, <3>6, <3>7, WokenFinite DEF NoLostSignal, TypeOK
    <3>9. Closed'
      BY <1>0, <2>1, <2>5 DEF Closed, TypeOK
    <3> QED BY <3>4, <3>8, <3>9 DEF IInv
  <2> QED BY <2>4, <2>5
<1>7. CASE Close
  <2>1. /\ closed' = TRUE /\ closing' = "notFull"
        /\ UNCHANGED <<items, notFull, notEmpty, pc>>
    BY <1>7 DEF Close
  <2>2. TypeOK'
    BY <1>0, <2>1 DEF TypeOK
  <2> QED BY <2>1, <2>2 DEF IInv, Closed, NoLostSignal
<1>8. CASE BroadcastNotFull
  <2>1. /\ closing = "notFull" /\ closing' = "notEmpty" /\ notFull' = <<>>
        /\ pc' = [g \in Goroutines |-> IF g \in Range(notFull) THEN "woken" ELSE pc[g]]
        /\ UNCHANGED <<items, closed, notEmpty>>
    BY <1>0, <1>8 DEF BroadcastNotFull, Broadcast, Goroutines, TypeOK
  <2>2. <<>> \in Seq(Producers) /\ Range(<<>>) = {} /\ IsInjective(<<>>)
    BY EmptyFacts, EmptySeq
  <2>3. TypeOK'
    BY <1>0, <2>1, <2>2 DEF TypeOK, Goroutines
  <2> QED BY <1>0, <2>1, <2>3 DEF IInv, Closed, NoLostSignal
<1>9. CASE BroadcastNotEmpty
  <2>1. /\ closing = "notEmpty" /\ closing' = "done" /\ notEmpty' = <<>>
        /\ pc' = [g \in Goroutines |-> IF g \in Range(notEmpty) THEN "woken" ELSE pc[g]]
        /\ UNCHANGED <<items, closed, notFull>>
    BY <1>0, <1>9 DEF BroadcastNotEmpty, Broadcast, Goroutines, TypeOK
  <2>2. <<>> \in Seq(Consumers) /\ Range(<<>>) = {} /\ IsInjective(<<>>)
    BY EmptyFacts, EmptySeq
  <2>3. TypeOK'
    BY <1>0, <2>1, <2>2 DEF TypeOK, Goroutines
  <2> QED BY <1>0, <2>1, <2>3 DEF IInv, Closed, NoLostSignal
<1>10. CASE UNCHANGED vars
  BY <1>0, <1>10 DEF IInv, vars, TypeOK, Closed, NoLostSignal, Woken
<1> QED BY <1>1, <1>2, <1>3, <1>4, <1>5, <1>6, <1>7, <1>8, <1>9, <1>10
        DEF Next, Enqueue, Dequeue, Broadcasts

-----------------------------------------------------------------------------

(* The invariant holds in every reachable state. *)
THEOREM Invariance == Spec => []IInv
<1> QED BY InitIInv, NextIInv, PTL DEF Spec

(* Types, the capacity, and that a goroutine is parked on one list at most. *)
THEOREM TypeCorrect == Spec => []TypeOK
<1>1. IInv => TypeOK
  BY DEF IInv
<1> QED BY <1>1, Invariance, PTL

(* No signal is lost, for any number of producers and consumers. *)
THEOREM SignalsSuffice == Spec => []NoLostSignal
<1>1. IInv => NoLostSignal
  BY DEF IInv
<1> QED BY <1>1, Invariance, PTL

(* The broadcasts of Close, made without mu, leave nobody parked, then or  *)
(* later.                                                                  *)
THEOREM CloseWakesAll == Spec => []NobodyParkedAfterClose
<1>1. IInv => NobodyParkedAfterClose
  BY DEF IInv, Closed, NobodyParkedAfterClose
<1> QED BY <1>1, Invariance, PTL

(* The queue implements ClosableFifo: each Enqueue that adds its item is a *)
(* Put, each Dequeue that returns one a Take, and Close is Shut; the rest  *)
(* are stuttering steps.                                                   *)
THEOREM QueueRefinesFifo == Spec => ImplementsFifo
<1>1. Init => Fifo!Init
  BY DEF Init, Fifo!Init
<1>2. TypeOK /\ [Next]_vars => [Fifo!Next]_(Fifo!vars)
  <2> SUFFICES ASSUME TypeOK, [Next]_vars PROVE [Fifo!Next]_(Fifo!vars)
    OBVIOUS
  <2>1. ASSUME NEW p \in Producers, EnqueueItem(p) PROVE Fifo!Put(p)
    <3>1. Len(items) < Capacity
      BY <2>1, QueueAssumption, EmptyFacts DEF EnqueueItem, Full, TypeOK
    <3> QED BY <2>1, <3>1 DEF EnqueueItem, Fifo!Put
  <2>2. ASSUME NEW c \in Consumers, DequeueItem(c) PROVE Fifo!Take
    BY <2>2 DEF DequeueItem, Fifo!Take
  <2>3. CASE Close
    BY <2>3 DEF Close, Fifo!Shut, Fifo!Next
  <2>4. CASE UNCHANGED <<items, closed>>
    BY <2>4 DEF Fifo!vars
  <2> QED BY <2>1, <2>2, <2>3, <2>4
          DEF Next, vars, Enqueue, Dequeue, Broadcasts, EnqueueWait, EnqueueClosed,
              DequeueWait, DequeueClosed, BroadcastNotFull, BroadcastNotEmpty,
              Fifo!Next
<1> QED BY <1>1, <1>2, TypeCorrect, PTL DEF Spec, ImplementsFifo, Fifo!Spec
=============================================================================
