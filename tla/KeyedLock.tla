----------------------------- MODULE KeyedLock ------------------------------
(***************************************************************************)
(* src/examples/keyedlock: one mutex per active key, created on demand and *)
(* forgotten when nobody holds it or waits for it.                         *)
(*                                                                         *)
(* A critical section of Locker.mu is one action, and so is taking or      *)
(* releasing an entry's own mutex.  An entry nobody refers to any more is  *)
(* used again, so goroutines may lock without bound.  The Unlock function  *)
(* runs its body once; it is called by the goroutine that locked.          *)
(***************************************************************************)
EXTENDS Naturals, FiniteSets

CONSTANTS
    Callers,  \* goroutines calling Lock
    Keys,     \* keys
    Entries,  \* entry objects; as many as Callers are enough
    NoEntry,  \* nil: no entry
    Nobody    \* a mutex nobody holds

ASSUME KeyedLockAssumption ==
    /\ IsFiniteSet(Callers)
    /\ NoEntry \notin Entries
    /\ Nobody \notin Callers

VARIABLES
    locks,   \* Locker.locks: the entry registered for each key, or NoEntry
    refs,    \* refs[e]: entry.refs
    holder,  \* holder[e]: who holds entry.mu, or Nobody
    pc,      \* pc[g]: out, waiting (for entry.mu), holding or releasing
    key,     \* key[g]: the key of g's Lock (any key before its first one)
    entry    \* entry[g]: the entry g has got from acquireEntry, or NoEntry

vars == <<locks, refs, holder, pc, key, entry>>

Init ==
    /\ locks = [k \in Keys |-> NoEntry]
    /\ refs = [e \in Entries |-> 0]
    /\ holder = [e \in Entries |-> Nobody]
    /\ pc = [g \in Callers |-> "out"]
    /\ key \in {[g \in Callers |-> k] : k \in Keys}
    /\ entry = [g \in Callers |-> NoEntry]

Goto(g, label) == pc' = [pc EXCEPT ![g] = label]

InUse == {entry[g] : g \in Callers} \union {locks[k] : k \in Keys}

-----------------------------------------------------------------------------
(* acquireEntry: the registered entry, or a new one that it registers. *)

UseEntry(g, k, e) ==
    /\ key' = [key EXCEPT ![g] = k]
    /\ entry' = [entry EXCEPT ![g] = e]
    /\ Goto(g, "waiting")

ShareEntry(g, k) ==
    /\ pc[g] = "out"
    /\ locks[k] # NoEntry
    /\ refs' = [refs EXCEPT ![locks[k]] = @ + 1]
    /\ UseEntry(g, k, locks[k])
    /\ UNCHANGED <<locks, holder>>

CreateEntry(g, k) ==
    /\ pc[g] = "out"
    /\ locks[k] = NoEntry
    /\ \E e \in Entries \ InUse :
          /\ locks' = [locks EXCEPT ![k] = e]
          /\ refs' = [refs EXCEPT ![e] = 1]
          /\ holder' = [holder EXCEPT ![e] = Nobody]
          /\ UseEntry(g, k, e)

-----------------------------------------------------------------------------
(* e.mu.Lock, then the two steps of Unlock. *)

LockEntry(g) ==
    /\ pc[g] = "waiting"
    /\ holder[entry[g]] = Nobody
    /\ holder' = [holder EXCEPT ![entry[g]] = g]
    /\ Goto(g, "holding")
    /\ UNCHANGED <<locks, refs, key, entry>>

(* Broken variant: the entry's mutex stays locked. *)
UnlockEntry_StillHeld(g) ==
    /\ pc[g] = "holding"
    /\ Goto(g, "releasing")
    /\ UNCHANGED <<locks, refs, holder, key, entry>>

UnlockEntry(g) ==
    /\ pc[g] = "holding"
    /\ holder' = [holder EXCEPT ![entry[g]] = Nobody]
    /\ Goto(g, "releasing")
    /\ UNCHANGED <<locks, refs, key, entry>>

(* Broken variants of releaseEntry: the key is forgotten by the first one  *)
(* to release it; it is never forgotten.                                   *)
ReleaseEntry_Forgets(g) ==
    /\ pc[g] = "releasing"
    /\ refs' = [refs EXCEPT ![entry[g]] = @ - 1]
    /\ locks' = [locks EXCEPT ![key[g]] = NoEntry]
    /\ entry' = [entry EXCEPT ![g] = NoEntry]
    /\ Goto(g, "out")
    /\ UNCHANGED <<holder, key>>

ReleaseEntry_Keeps(g) ==
    /\ pc[g] = "releasing"
    /\ refs' = [refs EXCEPT ![entry[g]] = @ - 1]
    /\ entry' = [entry EXCEPT ![g] = NoEntry]
    /\ Goto(g, "out")
    /\ UNCHANGED <<locks, holder, key>>

(* The last reference takes the entry out of the map. *)
ReleaseEntry(g) ==
    /\ pc[g] = "releasing"
    /\ refs' = [refs EXCEPT ![entry[g]] = @ - 1]
    /\ locks' = IF refs'[entry[g]] = 0 /\ locks[key[g]] = entry[g]
                THEN [locks EXCEPT ![key[g]] = NoEntry]
                ELSE locks
    /\ entry' = [entry EXCEPT ![g] = NoEntry]
    /\ Goto(g, "out")
    /\ UNCHANGED <<holder, key>>

-----------------------------------------------------------------------------

Lock(g, k) == ShareEntry(g, k) \/ CreateEntry(g, k)
Unlock(g) == UnlockEntry(g) \/ ReleaseEntry(g)

Next ==
    \E g \in Callers :
        \/ \E k \in Keys : Lock(g, k)
        \/ LockEntry(g)
        \/ Unlock(g)

Spec == Init /\ [][Next]_vars

(* sync.Mutex hands itself to a goroutine that keeps waiting (starvation   *)
(* mode), hence strong fairness of LockEntry; callers do unlock.           *)
FairSpec ==
    /\ Spec
    /\ \A g \in Callers : SF_vars(LockEntry(g)) /\ WF_vars(Unlock(g))

-----------------------------------------------------------------------------
(* Properties *)

(* Types; and who has an entry. *)
TypeOK ==
    /\ locks \in [Keys -> Entries \union {NoEntry}]
    /\ refs \in [Entries -> Nat]
    /\ holder \in [Entries -> Callers \union {Nobody}]
    /\ pc \in [Callers -> {"out", "waiting", "holding", "releasing"}]
    /\ key \in [Callers -> Keys]
    /\ entry \in [Callers -> Entries \union {NoEntry}]
    /\ \A g \in Callers : pc[g] = "out" <=> entry[g] = NoEntry

(* Two goroutines never hold the lock of one key at the same time, however *)
(* the key's entry comes and goes between them.                            *)
MutualExclusion ==
    \A g, h \in Callers :
        pc[g] = "holding" /\ pc[h] = "holding" /\ key[g] = key[h] => g = h

(* Everybody who uses a key uses the entry registered for it: an entry is  *)
(* not forgotten while somebody waits for it or is about to release it.    *)
OneEntryPerKey == \A g \in Callers : pc[g] # "out" => locks[key[g]] = entry[g]

Users(e) == {g \in Callers : entry[g] = e}

(* refs counts the users of an entry, so it never underflows, and the map  *)
(* holds exactly the keys in use: ActiveKeys is right and nothing leaks.   *)
RefsCountUsers ==
    /\ \A e \in Entries : e \in InUse => refs[e] = Cardinality(Users(e))
    /\ {k \in Keys : locks[k] # NoEntry} =
       {key[g] : g \in {h \in Callers : pc[h] # "out"}}

(* A goroutine blocks only on one that holds the same key. *)
BlockedBySameKeyOnly ==
    \A g \in Callers :
        pc[g] = "waiting" /\ holder[entry[g]] # Nobody =>
            /\ pc[holder[entry[g]]] = "holding"
            /\ key[holder[entry[g]]] = key[g]

(* Every Lock call gets its lock. *)
LockGranted == \A g \in Callers : pc[g] = "waiting" ~> pc[g] = "holding"
=============================================================================
