------------------------------ MODULE LazyInit ------------------------------
(***************************************************************************)
(* src/examples/lazyinit: Get runs load inside a sync.Once and returns     *)
(* what that has stored.  The value and the error are stored one after the *)
(* other, without a lock.  load may fail, or panic: sync.Once takes that   *)
(* for done too, and nothing is stored.                                    *)
(***************************************************************************)
CONSTANT Callers  \* goroutines calling Get

VARIABLES
    once,    \* sync.Once: new, running or done
    value,   \* Loader.value: zero or loaded
    err,     \* Loader.err: nil or failed
    pc,      \* pc[c]: out, once (in once.Do), load, value, err (about to
             \* store) or read (about to return)
    loaded,  \* what load has returned: <<value, err>>, or <<>>
    got      \* got[c]: what c's last Get has returned, or <<>>

vars == <<once, value, err, pc, loaded, got>>

Init ==
    /\ once = "new"
    /\ value = "zero"
    /\ err = "nil"
    /\ pc = [c \in Callers |-> "out"]
    /\ loaded = <<>>
    /\ got = [c \in Callers |-> <<>>]

Goto(c, label) == pc' = [pc EXCEPT ![c] = label]

Get(c) ==
    /\ pc[c] = "out"
    /\ Goto(c, "once")
    /\ UNCHANGED <<once, value, err, loaded, got>>

EnterOnce(c) ==
    /\ pc[c] = "once"
    /\ once = "new"
    /\ once' = "running"
    /\ Goto(c, "load")
    /\ UNCHANGED <<value, err, loaded, got>>

LoadReturns(c) ==
    /\ pc[c] = "load"
    /\ loaded' \in {<<"loaded", "nil">>, <<"zero", "failed">>}
    /\ Goto(c, "value")
    /\ UNCHANGED <<once, value, err, got>>

(* The panic goes on through once.Do and Get. *)
LoadPanics(c) ==
    /\ pc[c] = "load"
    /\ once' = "done"
    /\ Goto(c, "out")
    /\ UNCHANGED <<value, err, loaded, got>>

StoreValue(c) ==
    /\ pc[c] = "value"
    /\ value' = loaded[1]
    /\ Goto(c, "err")
    /\ UNCHANGED <<once, err, loaded, got>>

StoreErr(c) ==
    /\ pc[c] = "err"
    /\ err' = loaded[2]
    /\ once' = "done"
    /\ Goto(c, "read")
    /\ UNCHANGED <<value, loaded, got>>

(* Broken variant: Get does not wait for a load that is running. *)
OnceReturns_Early == once # "new"

OnceReturns == once = "done"

PassOnce(c) ==
    /\ pc[c] = "once"
    /\ OnceReturns
    /\ Goto(c, "read")
    /\ UNCHANGED <<once, value, err, loaded, got>>

Read(c) ==
    /\ pc[c] = "read"
    /\ got' = [got EXCEPT ![c] = <<value, err>>]
    /\ Goto(c, "out")
    /\ UNCHANGED <<once, value, err, loaded>>

Load(c) == LoadReturns(c) \/ LoadPanics(c) \/ StoreValue(c) \/ StoreErr(c)

Resume(c) == EnterOnce(c) \/ Load(c) \/ PassOnce(c) \/ Read(c)

Next == \E c \in Callers : Get(c) \/ Resume(c)

Spec == Init /\ [][Next]_vars

-----------------------------------------------------------------------------
(* Properties *)

(* Types; only one caller runs load. *)
TypeOK ==
    /\ once \in {"new", "running", "done"}
    /\ value \in {"zero", "loaded"}
    /\ err \in {"nil", "failed"}
    /\ pc \in [Callers -> {"out", "once", "load", "value", "err", "read"}]
    /\ \A c, d \in Callers : {pc[c], pc[d]} \subseteq {"load", "value", "err"} => c = d

(* Every Get returns what the one load has returned, the value and the     *)
(* error of the same load: never a value half stored, and never a value    *)
(* nobody loaded without an error, unless load has panicked.               *)
GetReturnsLoaded ==
    \A c \in Callers :
        got[c] # <<>> => got[c] = IF loaded = <<>> THEN <<"zero", "nil">> ELSE loaded

(* Every Get returns, even if load panics in another one. *)
GetReturns == \A c \in Callers : pc[c] = "once" ~> pc[c] = "out"
=============================================================================
