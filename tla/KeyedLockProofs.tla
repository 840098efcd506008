-------------------------- MODULE KeyedLockProofs ---------------------------
(***************************************************************************)
(* Proofs about KeyedLock for any finite set of callers and any keys.      *)
(* MutualExclusion is not inductive: it holds because everybody who uses a *)
(* key uses the entry registered for it (OneEntryPerKey), and that holds   *)
(* because refs counts the users exactly (RefsCountUsers), so that the one *)
(* who brings it to zero is the last.  What the two need in addition is    *)
(* who holds the mutex of an entry (HoldersHold) and that no entry is      *)
(* registered for two keys (EntriesUnshared).                              *)
(***************************************************************************)
EXTENDS KeyedLock, FiniteSetTheorems, TLAPS

HoldersHold ==
    \A e \in Entries, g \in Callers :
        e \in InUse => (holder[e] = g <=> pc[g] = "holding" /\ entry[g] = e)

EntriesUnshared ==
    \A k, l \in Keys : locks[k] = locks[l] /\ locks[k] # NoEntry => k = l

IInv ==
    /\ TypeOK
    /\ OneEntryPerKey
    /\ EntriesUnshared
    /\ HoldersHold
    /\ RefsCountUsers

-----------------------------------------------------------------------------
(* The users of an entry when a caller comes or goes. *)

LEMMA UsersFinite ==
    ASSUME NEW e
    PROVE  IsFiniteSet(Users(e)) /\ Cardinality(Users(e)) \in Nat
BY KeyedLockAssumption, FS_Subset, FS_CardinalityType DEF Users

LEMMA UsersGrow ==
    ASSUME TypeOK, NEW g \in Callers, NEW e \in Entries, entry[g] = NoEntry,
           entry' = [entry EXCEPT ![g] = e]
    PROVE  /\ Cardinality(Users(e)') = Cardinality(Users(e)) + 1
           /\ \A f \in Entries : f # e => Users(f)' = Users(f)
<1>1. e # NoEntry
  BY KeyedLockAssumption
<1>2. Users(e)' = Users(e) \union {g} /\ g \notin Users(e)
  BY <1>1 DEF Users, TypeOK
<1>3. \A f \in Entries : f # e => Users(f)' = Users(f)
  BY KeyedLockAssumption DEF Users, TypeOK
<1> QED BY <1>2, <1>3, UsersFinite, FS_AddElement

LEMMA UsersShrink ==
    ASSUME TypeOK, NEW g \in Callers, NEW e \in Entries, entry[g] = e,
           entry' = [entry EXCEPT ![g] = NoEntry]
    PROVE  /\ Users(e)' = Users(e) \ {g}
           /\ Cardinality(Users(e)) \in Nat \ {0}
           /\ IsFiniteSet(Users(e) \ {g})
           /\ Cardinality(Users(e) \ {g}) = Cardinality(Users(e)) - 1
           /\ \A f \in Entries : f # e => Users(f)' = Users(f)
<1>1. e # NoEntry
  BY KeyedLockAssumption
<1>2. g \in Users(e)
  BY DEF Users
<1>3. Users(e)' = Users(e) \ {g}
  BY <1>1 DEF Users, TypeOK
<1>4. \A f \in Entries : f # e => Users(f)' = Users(f)
  BY KeyedLockAssumption DEF Users, TypeOK
<1>5. /\ IsFiniteSet(Users(e) \ {g})
      /\ Cardinality(Users(e) \ {g}) = Cardinality(Users(e)) - 1
      /\ Cardinality(Users(e) \ {g}) \in Nat
      /\ Cardinality(Users(e)) \in Nat
  BY <1>2, UsersFinite, FS_RemoveElement, FS_CardinalityType
<1> QED BY <1>3, <1>4, <1>5

-----------------------------------------------------------------------------

LEMMA InitIInv == Init => IInv
<1> SUFFICES ASSUME Init PROVE IInv
  OBVIOUS
<1>1. TypeOK
  BY KeyedLockAssumption DEF Init, TypeOK
<1>2. InUse \subseteq {NoEntry}
  BY DEF Init, InUse
<1>3. OneEntryPerKey /\ EntriesUnshared
  BY DEF Init, OneEntryPerKey, EntriesUnshared
<1>4. HoldersHold
  BY <1>2, KeyedLockAssumption DEF HoldersHold
<1>5. RefsCountUsers
  BY <1>2, KeyedLockAssumption DEF Init, RefsCountUsers
<1> QED BY <1>1, <1>3, <1>4, <1>5 DEF IInv

LEMMA NextIInv == IInv /\ [Next]_vars => IInv'
<1> SUFFICES ASSUME IInv, [Next]_vars PROVE IInv'
  OBVIOUS
<1> USE KeyedLockAssumption
<1>0. TypeOK /\ OneEntryPerKey /\ EntriesUnshared /\ HoldersHold /\ RefsCountUsers
  BY DEF IInv
<1>1. ASSUME NEW g \in Callers, NEW k \in Keys, ShareEntry(g, k) PROVE IInv'
  <2> DEFINE e == locks[k]
  <2>1. /\ pc[g] = "out" /\ e # NoEntry
        /\ refs' = [refs EXCEPT ![e] = @ + 1]
        /\ key' = [key EXCEPT ![g] = k]
        /\ entry' = [entry EXCEPT ![g] = e]
        /\ pc' = [pc EXCEPT ![g] = "waiting"]
        /\ UNCHANGED <<locks, holder>>
    BY <1>1 DEF ShareEntry, UseEntry, Goto
  <2>2. e \in Entries /\ entry[g] = NoEntry /\ e \in InUse
    BY <1>0, <2>1 DEF TypeOK, InUse
  <2>3. TypeOK'
    BY <1>0, <2>1, <2>2 DEF TypeOK
  <2>4. OneEntryPerKey' /\ EntriesUnshared'
    BY <1>0, <2>1, <2>2 DEF OneEntryPerKey, EntriesUnshared, TypeOK
  <2>5. InUse' \subseteq InUse \union {NoEntry}
    BY <1>0, <2>1, <2>2 DEF InUse, TypeOK
  <2>6. HoldersHold'
    BY <1>0, <2>1, <2>2, <2>5 DEF HoldersHold, TypeOK
  <2>7. \A f \in Entries : f \in InUse' => refs'[f] = Cardinality(Users(f)')
    BY <1>0, <2>1, <2>2, <2>5, UsersGrow DEF RefsCountUsers, TypeOK
  <2>8. {l \in Keys : locks'[l] # NoEntry} =
        {key'[h] : h \in {i \in Callers : pc'[i] # "out"}}
    BY <1>0, <2>1, <2>2 DEF RefsCountUsers, TypeOK
  <2>9. RefsCountUsers'
    BY <2>7, <2>8 DEF RefsCountUsers
  <2> QED BY <2>3, <2>4, <2>6, <2>9 DEF IInv
<1>2. ASSUME NEW g \in Callers, NEW k \in Keys, CreateEntry(g, k) PROVE IInv'
  <2>1. PICK e \in Entries \ InUse :
            /\ locks' = [locks EXCEPT ![k] = e]
            /\ refs' = [refs EXCEPT ![e] = 1]
            /\ holder' = [holder EXCEPT ![e] = Nobody]
            /\ key' = [key EXCEPT ![g] = k]
            /\ entry' = [entry EXCEPT ![g] = e]
            /\ pc' = [pc EXCEPT ![g] = "waiting"]
    BY <1>2 DEF CreateEntry, UseEntry, Goto
  <2>2. /\ pc[g] = "out" /\ locks[k] = NoEntry /\ entry[g] = NoEntry
        /\ \A h \in Callers : entry[h] # e
        /\ \A l \in Keys : locks[l] # e
    BY <1>0, <1>2, <2>1 DEF CreateEntry, InUse, TypeOK
  <2>3. TypeOK'
    BY <1>0, <2>1, <2>2 DEF TypeOK
  <2>4. OneEntryPerKey' /\ EntriesUnshared'
    BY <1>0, <2>1, <2>2 DEF OneEntryPerKey, EntriesUnshared, TypeOK
  <2>5. InUse' \subseteq InUse \union {e}
    BY <1>0, <2>1, <2>2 DEF InUse, TypeOK
  <2>6. HoldersHold'
    BY <1>0, <2>1, <2>2, <2>5 DEF HoldersHold, TypeOK
  <2>7. Users(e) = {}
    BY <2>2 DEF Users
  <2>8. \A f \in Entries : f \in InUse' => refs'[f] = Cardinality(Users(f)')
    <3>1. refs'[e] = 1 /\ Cardinality(Users(e)') = 0 + 1
      BY <1>0, <2>1, <2>2, <2>7, UsersGrow, FS_EmptySet DEF TypeOK
    <3>2. \A f \in Entries : f # e => refs'[f] = refs[f] /\ Users(f)' = Users(f)
      BY <1>0, <2>1, <2>2, UsersGrow DEF TypeOK
    <3> QED BY <1>0, <2>5, <3>1, <3>2 DEF RefsCountUsers
  <2>9. {l \in Keys : locks'[l] # NoEntry} =
        {key'[h] : h \in {i \in Callers : pc'[i] # "out"}}
    BY <1>0, <2>1, <2>2 DEF RefsCountUsers, TypeOK
  <2>10. RefsCountUsers'
    BY <2>8, <2>9 DEF RefsCountUsers
  <2> QED BY <2>3, <2>4, <2>6, <2>10 DEF IInv
<1>3. ASSUME NEW g \in Callers, LockEntry(g) PROVE IInv'
  <2>1. /\ pc[g] = "waiting" /\ holder[entry[g]] = Nobody
        /\ holder' = [holder EXCEPT ![entry[g]] = g]
        /\ pc' = [pc EXCEPT ![g] = "holding"]
        /\ UNCHANGED <<locks, refs, key, entry>>
    BY <1>3 DEF LockEntry, Goto
  <2>2. entry[g] \in Entries /\ entry[g] \in InUse
    BY <1>0, <2>1 DEF TypeOK, InUse
  <2>3. InUse' = InUse /\ \A e \in Entries : Users(e)' = Users(e)
    BY <2>1 DEF InUse, Users
  <2>4. TypeOK'
    BY <1>0, <2>1, <2>2 DEF TypeOK
  <2>5. OneEntryPerKey' /\ EntriesUnshared'
    BY <1>0, <2>1 DEF OneEntryPerKey, EntriesUnshared, TypeOK
  <2>6. HoldersHold'
    BY <1>0, <2>1, <2>2, <2>3 DEF HoldersHold, TypeOK
  <2>7. RefsCountUsers'
    BY <1>0, <2>1, <2>3 DEF RefsCountUsers, TypeOK
  <2> QED BY <2>4, <2>5, <2>6, <2>7 DEF IInv
<1>4. ASSUME NEW g \in Callers, UnlockEntry(g) PROVE IInv'
  <2>1. /\ pc[g] = "holding"
        /\ holder' = [holder EXCEPT ![entry[g]] = Nobody]
        /\ pc' = [pc EXCEPT ![g] = "releasing"]
        /\ UNCHANGED <<locks, refs, key, entry>>
    BY <1>4 DEF UnlockEntry, Goto
  <2>2. entry[g] \in Entries /\ entry[g] \in InUse
    BY <1>0, <2>1 DEF TypeOK, InUse
  <2>3. InUse' = InUse /\ \A e \in Entries : Users(e)' = Users(e)
    BY <2>1 DEF InUse, Users
  <2>4. TypeOK'
    BY <1>0, <2>1, <2>2 DEF TypeOK
  <2>5. OneEntryPerKey' /\ EntriesUnshared'
    BY <1>0, <2>1 DEF OneEntryPerKey, EntriesUnshared, TypeOK
  <2>6. HoldersHold'
    BY <1>0, <2>1, <2>2, <2>3 DEF HoldersHold, TypeOK
  <2>7. RefsCountUsers'
    BY <1>0, <2>1, <2>3 DEF RefsCountUsers, TypeOK
  <2> QED BY <2>4, <2>5, <2>6, <2>7 DEF IInv
<1>5. ASSUME NEW g \in Callers, ReleaseEntry(g) PROVE IInv'
  <2> DEFINE k == key[g]
  <2>0. PICK e \in Entries : e = entry[g]
    BY <1>0, <1>5 DEF ReleaseEntry, TypeOK
  <2>1. /\ pc[g] = "releasing"
        /\ refs' = [refs EXCEPT ![e] = @ - 1]
        /\ locks' = IF refs'[e] = 0 /\ locks[k] = e
                    THEN [locks EXCEPT ![k] = NoEntry]
                    ELSE locks
        /\ entry' = [entry EXCEPT ![g] = NoEntry]
        /\ pc' = [pc EXCEPT ![g] = "out"]
        /\ UNCHANGED <<holder, key>>
    BY <1>5, <2>0 DEF ReleaseEntry, Goto
  <2>2. entry[g] = e /\ e \in InUse /\ k \in Keys /\ locks[k] = e
    BY <1>0, <2>0, <2>1 DEF TypeOK, InUse, OneEntryPerKey
  <2>3. /\ Users(e)' = Users(e) \ {g}
        /\ refs[e] = Cardinality(Users(e)) /\ refs[e] \in Nat \ {0}
        /\ refs'[e] = Cardinality(Users(e) \ {g})
        /\ IsFiniteSet(Users(e) \ {g})
        /\ \A f \in Entries : f # e => Users(f)' = Users(f)
    BY <1>0, <2>1, <2>2, UsersShrink DEF RefsCountUsers, TypeOK
  <2>4. refs'[e] = 0 => \A h \in Callers : h # g => entry[h] # e
    BY <2>3, FS_EmptySet DEF Users
  <2>5. TypeOK'
    BY <1>0, <2>1, <2>2, <2>3 DEF TypeOK
  <2>6. OneEntryPerKey'
    BY <1>0, <2>1, <2>2, <2>4 DEF OneEntryPerKey, TypeOK
  <2>7. EntriesUnshared'
    BY <1>0, <2>1, <2>2 DEF EntriesUnshared, TypeOK
  <2>8. InUse' \subseteq InUse \union {NoEntry}
    BY <1>0, <2>1, <2>2 DEF InUse, TypeOK
  <2>9. HoldersHold'
    BY <1>0, <2>1, <2>2, <2>8 DEF HoldersHold, TypeOK
  <2>10. \A f \in Entries : f \in InUse' => refs'[f] = Cardinality(Users(f)')
    BY <1>0, <2>1, <2>2, <2>3, <2>8 DEF RefsCountUsers, TypeOK
  <2>11. {l \in Keys : locks'[l] # NoEntry} =
         {key'[h] : h \in {i \in Callers : pc'[i] # "out"}}
    <3>1. CASE refs'[e] = 0
      <4>1. locks' = [locks EXCEPT ![k] = NoEntry]
        BY <2>1, <2>2, <3>1
      <4>2. \A h \in Callers : h # g /\ pc[h] # "out" => key[h] # k
        BY <1>0, <2>2, <2>4, <3>1 DEF OneEntryPerKey
      <4> QED BY <1>0, <2>1, <2>2, <4>1, <4>2 DEF RefsCountUsers, TypeOK
    <3>2. CASE refs'[e] # 0
      <4>1. Users(e) \ {g} # {}
        BY <2>3, <3>2, FS_EmptySet
      <4>2. PICK h \in Callers : h # g /\ entry[h] = e
        BY <4>1 DEF Users
      <4>3. pc[h] # "out" /\ key[h] = k
        BY <1>0, <2>2, <4>2 DEF TypeOK, OneEntryPerKey, EntriesUnshared
      <4> QED BY <1>0, <2>1, <2>2, <3>2, <4>2, <4>3 DEF RefsCountUsers, TypeOK
    <3> QED BY <3>1, <3>2
  <2>12. RefsCountUsers'
    BY <2>10, <2>11 DEF RefsCountUsers
  <2> QED BY <2>5, <2>6, <2>7, <2>9, <2>12 DEF IInv
<1>6. CASE UNCHANGED vars
  BY <1>0, <1>6 DEF IInv, vars, TypeOK, OneEntryPerKey, EntriesUnshared,
                    HoldersHold, RefsCountUsers, InUse, Users
<1> QED BY <1>1, <1>2, <1>3, <1>4, <1>5, <1>6 DEF Next, Lock, Unlock

-----------------------------------------------------------------------------

(* The invariant holds in every reachable state. *)
THEOREM Invariance == Spec => []IInv
<1> QED BY InitIInv, NextIInv, PTL DEF Spec

(* Types; a reference count never becomes negative. *)
THEOREM TypeCorrect == Spec => []TypeOK
<1>1. IInv => TypeOK
  BY DEF IInv
<1> QED BY <1>1, Invariance, PTL

(* Two goroutines never hold the lock of one key at the same time, for any *)
(* number of goroutines and keys.                                          *)
THEOREM KeysExclusive == Spec => []MutualExclusion
<1>1. IInv => MutualExclusion
  <2> SUFFICES ASSUME IInv, NEW g \in Callers, NEW h \in Callers,
                      pc[g] = "holding", pc[h] = "holding", key[g] = key[h]
               PROVE  g = h
    BY DEF MutualExclusion
  <2>1. /\ entry[g] = entry[h]
        /\ entry[g] \in Entries /\ entry[g] \in InUse
    BY DEF IInv, OneEntryPerKey, TypeOK, InUse
  <2> QED BY <2>1 DEF IInv, HoldersHold
<1> QED BY <1>1, Invariance, PTL

(* Everybody who uses a key uses its registered entry, the counts of the   *)
(* entries are exact, and the map holds just the keys in use.              *)
THEOREM EntriesCounted == Spec => [](OneEntryPerKey /\ RefsCountUsers)
<1>1. IInv => OneEntryPerKey /\ RefsCountUsers
  BY DEF IInv
<1> QED BY <1>1, Invariance, PTL

(* A goroutine waits only for one that holds the same key. *)
THEOREM KeysIndependent == Spec => []BlockedBySameKeyOnly
<1>1. IInv => BlockedBySameKeyOnly
  <2> SUFFICES ASSUME IInv, NEW g \in Callers, pc[g] = "waiting",
                      holder[entry[g]] # Nobody
               PROVE  /\ pc[holder[entry[g]]] = "holding"
                      /\ key[holder[entry[g]]] = key[g]
    BY DEF BlockedBySameKeyOnly
  <2> DEFINE h == holder[entry[g]]
  <2>1. entry[g] \in Entries /\ entry[g] \in InUse /\ h \in Callers
    BY DEF IInv, TypeOK, InUse
  <2>2. pc[h] = "holding" /\ entry[h] = entry[g]
    BY <2>1 DEF IInv, HoldersHold
  <2>3. /\ locks[key[h]] = locks[key[g]] /\ locks[key[g]] \in Entries
        /\ key[g] \in Keys /\ key[h] \in Keys
    BY <2>1, <2>2 DEF IInv, OneEntryPerKey, TypeOK
  <2>4. key[h] = key[g]
    BY <2>3, KeyedLockAssumption DEF IInv, EntriesUnshared
  <2> QED BY <2>2, <2>4
<1> QED BY <1>1, Invariance, PTL
=============================================================================
