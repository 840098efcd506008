---------------------------- MODULE SingleFlight ----------------------------
(***************************************************************************)
(* src/examples/singleflight: concurrent Do calls with one key share one   *)
(* running function.                                                       *)
(*                                                                         *)
(* A critical section of Group.mu is one action.  The result of a call is  *)
(* the call itself: what matters is whose result a Do returns and when it  *)
(* was written.  Call objects nobody refers to any more are used again, so *)
(* goroutines may call Do without bound.  fn may panic for the keys in     *)
(* PanicKeys, with the panic recovered above Do.                           *)
(***************************************************************************)
EXTENDS FiniteSets, Naturals

CONSTANTS
    Callers,    \* goroutines calling Do
    Keys,       \* keys
    PanicKeys,  \* keys whose function may panic
    Calls,      \* call objects; Callers and Keys together are enough
    NoCall      \* nil: no call

ASSUME SingleFlightAssumption ==
    /\ PanicKeys \subseteq Keys
    /\ NoCall \notin Calls

VARIABLES
    calls,     \* Group.calls: the call registered for each key, or NoCall
    written,   \* call objects whose value and err are assigned
    finished,  \* call objects whose wg has been counted down
    returned,  \* call objects whose result a Do has returned already
    pc,        \* pc[p]: idle, wait (joined), run (fn), done or delete
    key,       \* key[p]: the key of p's Do (any key before its first one)
    call       \* call[p]: existing or c of p's Do, or NoCall

vars == <<calls, written, finished, returned, pc, key, call>>

Init ==
    /\ calls = [k \in Keys |-> NoCall]
    /\ written = {}
    /\ finished = {}
    /\ returned = {}
    /\ pc = [p \in Callers |-> "idle"]
    /\ key \in {[p \in Callers |-> k] : k \in Keys}
    /\ call = [p \in Callers |-> NoCall]

Goto(p, label) == pc' = [pc EXCEPT ![p] = label]

-----------------------------------------------------------------------------

(* Joining a registered call; the wait is outside Group.mu. *)
Join(p, k) ==
    /\ pc[p] = "idle"
    /\ calls[k] # NoCall
    /\ key' = [key EXCEPT ![p] = k]
    /\ call' = [call EXCEPT ![p] = calls[k]]
    /\ Goto(p, "wait")
    /\ UNCHANGED <<calls, written, finished, returned>>

InUse == {call[p] : p \in Callers} \union {calls[k] : k \in Keys}

(* Broken variant: registers a call without looking again under the lock. *)
Lead_NoRecheck(p, k) ==
    /\ pc[p] = "idle"
    /\ \E c \in Calls \ InUse :
          /\ calls' = [calls EXCEPT ![k] = c]
          /\ call' = [call EXCEPT ![p] = c]
          /\ written' = written \ {c}
          /\ finished' = finished \ {c}
          /\ returned' = returned \ {c}
    /\ key' = [key EXCEPT ![p] = k]
    /\ Goto(p, "run")

(* No call registered: register a new one, in the same critical section. *)
Lead(p, k) ==
    /\ pc[p] = "idle"
    /\ calls[k] = NoCall
    /\ \E c \in Calls \ InUse :
          /\ calls' = [calls EXCEPT ![k] = c]
          /\ call' = [call EXCEPT ![p] = c]
          /\ written' = written \ {c}
          /\ finished' = finished \ {c}
          /\ returned' = returned \ {c}
    /\ key' = [key EXCEPT ![p] = k]
    /\ Goto(p, "run")

(* Broken variant: the joiners are let go before the result is stored. *)
FnReturns_SignalsFirst(p) ==
    /\ pc[p] = "run"
    /\ finished' = finished \union {call[p]}
    /\ Goto(p, "done")
    /\ UNCHANGED <<calls, written, returned, key, call>>

FnReturns(p) ==
    /\ pc[p] = "run"
    /\ written' = written \union {call[p]}
    /\ Goto(p, "done")
    /\ UNCHANGED <<calls, finished, returned, key, call>>

(* There is no defer: the panic leaves the call registered and unfinished. *)
FnPanics(p) ==
    /\ pc[p] = "run"
    /\ key[p] \in PanicKeys
    /\ call' = [call EXCEPT ![p] = NoCall]
    /\ Goto(p, "idle")
    /\ UNCHANGED <<calls, written, finished, returned, key>>

(* Broken variants: the entry is deleted here and once more at the end;    *)
(* the wg is never counted down.                                           *)
WgDone_DeletesToo(p) ==
    /\ pc[p] = "done"
    /\ finished' = finished \union {call[p]}
    /\ calls' = [calls EXCEPT ![key[p]] = NoCall]
    /\ Goto(p, "delete")
    /\ UNCHANGED <<written, returned, key, call>>

WgDone_Missing(p) ==
    /\ pc[p] = "done"
    /\ Goto(p, "delete")
    /\ UNCHANGED <<calls, written, finished, returned, key, call>>

WgDone(p) ==
    /\ pc[p] = "done"
    /\ finished' = finished \union {call[p]}
    /\ Goto(p, "delete")
    /\ UNCHANGED <<calls, written, returned, key, call>>

Return(p) ==
    /\ returned' = returned \union {call[p]}
    /\ call' = [call EXCEPT ![p] = NoCall]
    /\ Goto(p, "idle")

Delete(p) ==
    /\ pc[p] = "delete"
    /\ calls' = [calls EXCEPT ![key[p]] = NoCall]
    /\ Return(p)
    /\ UNCHANGED <<written, finished, key>>

JoinerReturns(p) ==
    /\ pc[p] = "wait"
    /\ call[p] \in finished
    /\ Return(p)
    /\ UNCHANGED <<calls, written, finished, key>>

-----------------------------------------------------------------------------

(* What a Do that has started does next; FnReturns is fn's business. *)
Step(p) ==
    \/ FnReturns(p)
    \/ WgDone(p)
    \/ Delete(p)
    \/ JoinerReturns(p)

Next ==
    \E p \in Callers :
        \/ \E k \in Keys : Join(p, k) \/ Lead(p, k)
        \/ Step(p)
        \/ FnPanics(p)

Spec == Init /\ [][Next]_vars

(* Goroutines that can run do run, and fn returns unless it panics. *)
FairSpec == Spec /\ \A p \in Callers : WF_vars(Step(p))

-----------------------------------------------------------------------------
(* Properties *)

(* Types; and a Do is under way exactly while it refers to a call. *)
TypeOK ==
    /\ calls \in [Keys -> Calls \union {NoCall}]
    /\ written \subseteq Calls
    /\ finished \subseteq Calls
    /\ returned \subseteq Calls
    /\ pc \in [Callers -> {"idle", "wait", "run", "done", "delete"}]
    /\ key \in [Callers -> Keys]
    /\ call \in [Callers -> Calls \union {NoCall}]
    /\ \A p \in Callers : pc[p] = "idle" <=> call[p] = NoCall

Leading(p) == pc[p] \in {"run", "done", "delete"}

(* Two functions for one key never run at the same time. *)
OneRunPerKey ==
    \A p, q \in Callers :
        pc[p] = "run" /\ pc[q] = "run" /\ key[p] = key[q] => p = q

(* The entry of a key is the leader's own until it deletes it, so the      *)
(* delete of line 81, which names only the key, never removes the call of  *)
(* a later leader; and no entry outlives its leader unless fn panicked.    *)
EntryIsLeaders ==
    /\ \A p \in Callers : Leading(p) => calls[key[p]] = call[p]
    /\ \A k \in Keys \ PanicKeys :
          calls[k] # NoCall =>
              \E p \in Callers : Leading(p) /\ call[p] = calls[k] /\ key[p] = k

(* A joiner waits for a call of its own key, and once the call's wg lets   *)
(* it go the value and error it reads have been written.                   *)
JoinersReadFinalResult ==
    /\ finished \subseteq written
    /\ \A p, q \in Callers :
          Leading(p) /\ pc[q] = "wait" /\ call[p] = call[q] => key[p] = key[q]

(* Every Do returns, unless the function of its own key may panic: a panic *)
(* wedges the key it happened for (the entry is never deleted and its wg   *)
(* never done) but no other.                                               *)
DoReturns ==
    \A p \in Callers :
        pc[p] # "idle" /\ key[p] \notin PanicKeys ~> pc[p] = "idle"

(* The doc comment of Do: once a call has finished, a later Do for the key *)
(* starts fresh work.  Here finished even means that some Do has returned  *)
(* the call's result; yet between the wg.Done of line 78 and the delete of *)
(* line 81 a Do still joins it.                                            *)
LaterDoIsFresh ==
    [][\A p \in Callers, k \in Keys : Join(p, k) => calls[k] \notin returned]_vars
=============================================================================
