------------------------- MODULE SingleFlightProofs -------------------------
(***************************************************************************)
(* Proofs about SingleFlight for any number of callers, keys and calls.    *)
(* OneRunPerKey is not inductive: that two leaders never share a key       *)
(* follows from each entry being its leader's own (EntryIsLeaders) and     *)
(* from call objects being unshared among leaders and entries              *)
(* (CallsUnshared), which holds because a leader takes an unused object.   *)
(***************************************************************************)
EXTENDS SingleFlight, TLAPS

(* No two leaders and no two entries have the same call object. *)
CallsUnshared ==
    /\ \A p, q \in Callers :
          Leading(p) /\ Leading(q) /\ call[p] = call[q] => p = q
    /\ \A k, l \in Keys : calls[k] = calls[l] /\ calls[k] # NoCall => k = l

(* A leader past fn has stored the result. *)
StoredBeforeDone == \A p \in Callers : pc[p] = "done" => call[p] \in written

(* A joiner of a call still registered joined it under that key. *)
JoinersOfEntry ==
    \A p \in Callers, k \in Keys :
        pc[p] = "wait" /\ call[p] = calls[k] => key[p] = k

IInv ==
    /\ TypeOK
    /\ CallsUnshared
    /\ StoredBeforeDone
    /\ JoinersOfEntry
    /\ EntryIsLeaders
    /\ JoinersReadFinalResult

LEMMA InitIInv == Init => IInv
<1> SUFFICES ASSUME Init PROVE IInv
  OBVIOUS
<1>1. TypeOK
  BY SingleFlightAssumption DEF Init, TypeOK
<1> QED BY <1>1 DEF Init, IInv, CallsUnshared, StoredBeforeDone, JoinersOfEntry,
              EntryIsLeaders, JoinersReadFinalResult, Leading

LEMMA NextIInv == IInv /\ [Next]_vars => IInv'
<1> SUFFICES ASSUME IInv, [Next]_vars PROVE IInv'
  OBVIOUS
<1> USE SingleFlightAssumption
<1>0. /\ TypeOK /\ CallsUnshared /\ StoredBeforeDone /\ JoinersOfEntry
      /\ EntryIsLeaders /\ JoinersReadFinalResult
  BY DEF IInv
<1>1. ASSUME NEW p \in Callers, NEW k \in Keys, Join(p, k) PROVE IInv'
  <2>1. /\ pc[p] = "idle" /\ calls[k] # NoCall
        /\ key' = [key EXCEPT ![p] = k]
        /\ call' = [call EXCEPT ![p] = calls[k]]
        /\ pc' = [pc EXCEPT ![p] = "wait"]
        /\ UNCHANGED <<calls, written, finished, returned>>
    BY <1>1 DEF Join, Goto
  <2>2. TypeOK'
    BY <1>0, <2>1 DEF TypeOK
  <2>3. \A q \in Callers : Leading(q)' <=> Leading(q) /\ q # p
    BY <1>0, <2>1 DEF Leading, TypeOK
  <2>4. CallsUnshared' /\ StoredBeforeDone' /\ EntryIsLeaders'
    BY <1>0, <2>1
       DEF CallsUnshared, StoredBeforeDone, EntryIsLeaders, TypeOK, Leading
  <2>5. JoinersOfEntry'
    BY <1>0, <2>1 DEF JoinersOfEntry, CallsUnshared, TypeOK
  <2>6. JoinersReadFinalResult'
    BY <1>0, <2>1
       DEF JoinersReadFinalResult, EntryIsLeaders, CallsUnshared, Leading, TypeOK
  <2> QED BY <2>2, <2>4, <2>5, <2>6 DEF IInv
<1>2. ASSUME NEW p \in Callers, NEW k \in Keys, Lead(p, k) PROVE IInv'
  <2>1. PICK c \in Calls \ InUse :
            /\ calls' = [calls EXCEPT ![k] = c]
            /\ call' = [call EXCEPT ![p] = c]
            /\ written' = written \ {c}
            /\ finished' = finished \ {c}
            /\ returned' = returned \ {c}
    BY <1>2 DEF Lead
  <2>2. /\ pc[p] = "idle" /\ calls[k] = NoCall
        /\ key' = [key EXCEPT ![p] = k]
        /\ pc' = [pc EXCEPT ![p] = "run"]
    BY <1>2 DEF Lead, Goto
  <2>3. /\ c \in Calls /\ c # NoCall
        /\ \A q \in Callers : call[q] # c
        /\ \A l \in Keys : calls[l] # c
    BY <2>1 DEF InUse
  <2>4. TypeOK'
    BY <1>0, <2>1, <2>2, <2>3 DEF TypeOK
  <2>5. CallsUnshared' /\ StoredBeforeDone' /\ JoinersOfEntry'
    BY <1>0, <2>1, <2>2, <2>3
       DEF CallsUnshared, StoredBeforeDone, JoinersOfEntry, Leading, TypeOK
  <2>6. EntryIsLeaders'
    BY <1>0, <2>1, <2>2, <2>3 DEF EntryIsLeaders, Leading, TypeOK
  <2>7. JoinersReadFinalResult'
    BY <1>0, <2>1, <2>2, <2>3 DEF JoinersReadFinalResult, Leading, TypeOK
  <2> QED BY <2>4, <2>5, <2>6, <2>7 DEF IInv
<1>3. ASSUME NEW p \in Callers, FnReturns(p) \/ WgDone(p) PROVE IInv'
  <2>1. /\ \/ /\ pc[p] = "run" /\ pc' = [pc EXCEPT ![p] = "done"]
              /\ written' = written \union {call[p]} /\ finished' = finished
           \/ /\ pc[p] = "done" /\ pc' = [pc EXCEPT ![p] = "delete"]
              /\ finished' = finished \union {call[p]} /\ written' = written
        /\ call[p] \in Calls
        /\ UNCHANGED <<calls, returned, key, call>>
    BY <1>0, <1>3 DEF FnReturns, WgDone, Goto, TypeOK
  <2>2. TypeOK'
    BY <1>0, <2>1 DEF TypeOK
  <2>3. CallsUnshared' /\ StoredBeforeDone' /\ JoinersOfEntry'
    BY <1>0, <2>1
       DEF CallsUnshared, StoredBeforeDone, JoinersOfEntry, Leading, TypeOK
  <2>4. EntryIsLeaders'
    BY <1>0, <2>1 DEF EntryIsLeaders, Leading, TypeOK
  <2>5. JoinersReadFinalResult'
    BY <1>0, <2>1 DEF JoinersReadFinalResult, StoredBeforeDone, Leading, TypeOK
  <2> QED BY <2>2, <2>3, <2>4, <2>5 DEF IInv
<1>4. ASSUME NEW p \in Callers, FnPanics(p) \/ JoinerReturns(p) PROVE IInv'
  <2>1. /\ \/ pc[p] = "wait"
           \/ pc[p] = "run" /\ key[p] \in PanicKeys
        /\ call' = [call EXCEPT ![p] = NoCall]
        /\ pc' = [pc EXCEPT ![p] = "idle"]
        /\ returned' \in {returned, returned \union {call[p]}}
        /\ call[p] \in Calls
        /\ UNCHANGED <<calls, written, finished, key>>
    <3>1. CASE FnPanics(p)
      BY <1>0, <3>1 DEF FnPanics, Goto, TypeOK
    <3>2. CASE JoinerReturns(p)
      BY <1>0, <3>2 DEF JoinerReturns, Return, Goto, TypeOK
    <3> QED BY <1>4, <3>1, <3>2
  <2>2. TypeOK'
    BY <1>0, <2>1 DEF TypeOK
  <2>3. CallsUnshared' /\ StoredBeforeDone' /\ JoinersOfEntry'
    BY <1>0, <2>1
       DEF CallsUnshared, StoredBeforeDone, JoinersOfEntry, Leading, TypeOK
  <2>4. EntryIsLeaders'
    BY <1>0, <2>1 DEF EntryIsLeaders, Leading, TypeOK
  <2>5. JoinersReadFinalResult'
    BY <1>0, <2>1 DEF JoinersReadFinalResult, Leading, TypeOK
  <2> QED BY <2>2, <2>3, <2>4, <2>5 DEF IInv
<1>5. ASSUME NEW p \in Callers, Delete(p) PROVE IInv'
  <2>1. /\ pc[p] = "delete"
        /\ calls' = [calls EXCEPT ![key[p]] = NoCall]
        /\ call' = [call EXCEPT ![p] = NoCall]
        /\ pc' = [pc EXCEPT ![p] = "idle"]
        /\ returned' = returned \union {call[p]}
        /\ call[p] \in Calls /\ key[p] \in Keys
        /\ UNCHANGED <<written, finished, key>>
    BY <1>0, <1>5 DEF Delete, Return, Goto, TypeOK
  <2>2. TypeOK'
    BY <1>0, <2>1 DEF TypeOK
  <2>3. CallsUnshared' /\ StoredBeforeDone'
    BY <1>0, <2>1 DEF CallsUnshared, StoredBeforeDone, Leading, TypeOK
  <2>4. JoinersOfEntry'
    BY <1>0, <2>1 DEF JoinersOfEntry, TypeOK
  <2>5. EntryIsLeaders'
    <3>1. ASSUME NEW q \in Callers, q # p, Leading(q) PROVE key[q] # key[p]
      BY <1>0, <2>1, <3>1 DEF EntryIsLeaders, CallsUnshared, Leading
    <3> QED BY <1>0, <2>1, <3>1 DEF EntryIsLeaders, Leading, TypeOK
  <2>6. JoinersReadFinalResult'
    BY <1>0, <2>1 DEF JoinersReadFinalResult, Leading, TypeOK
  <2> QED BY <2>2, <2>3, <2>4, <2>5, <2>6 DEF IInv
<1>6. ASSUME UNCHANGED vars PROVE IInv'
  BY <1>0, <1>6 DEF vars, IInv, TypeOK, CallsUnshared, StoredBeforeDone,
     JoinersOfEntry, EntryIsLeaders, JoinersReadFinalResult, Leading
<1> QED BY <1>1, <1>2, <1>3, <1>4, <1>5, <1>6 DEF Next, Step

(* The invariant holds of every reachable state. *)
THEOREM Invariance == Spec => []IInv
<1> QED BY InitIInv, NextIInv, PTL DEF Spec

(* Types, for every set of callers, keys and call objects. *)
THEOREM TypeCorrect == Spec => []TypeOK
<1>1. IInv => TypeOK
  BY DEF IInv
<1> QED BY <1>1, Invariance, PTL

(* At most one function runs per key at any time. *)
THEOREM MutualExclusion == Spec => []OneRunPerKey
<1>1. IInv => OneRunPerKey
  BY DEF IInv, EntryIsLeaders, CallsUnshared, OneRunPerKey, Leading
<1> QED BY <1>1, Invariance, PTL

(* An entry of the map is its leader's until the leader deletes it, so     *)
(* that the delete, which names only the key, removes no other.            *)
THEOREM EntriesOwned == Spec => []EntryIsLeaders
<1>1. IInv => EntryIsLeaders
  BY DEF IInv
<1> QED BY <1>1, Invariance, PTL

(* A joiner reads a result that is complete and of its own key.            *)
THEOREM JoinersSafe == Spec => []JoinersReadFinalResult
<1>1. IInv => JoinersReadFinalResult
  BY DEF IInv
<1> QED BY <1>1, Invariance, PTL
=============================================================================
