----------------------------- MODULE TaskGroup ------------------------------
(***************************************************************************)
(* src/examples/taskgroup: Run starts every task, and the first that fails *)
(* records its error and cancels the others, inside a sync.Once; the       *)
(* others wait until that is over.  A task canceled by the group may       *)
(* return the cancellation as its error.                                   *)
(***************************************************************************)
EXTENDS Naturals

CONSTANTS
    Tasks,  \* the tasks
    NoTask  \* nobody has entered the sync.Once

GroupAssumption == NoTask \notin Tasks

VARIABLES
    parentDone,  \* the caller's context is done
    ctxDone,     \* the group's context is done
    pc,          \* pc[t]: running, failed (has an error to record), cancel
                 \* (has recorded it) or done
    err,         \* err[t]: what t has returned: none, nil, failed or canceled
    once,        \* the task that runs or ran the function of sync.Once
    firstErr,    \* local variable firstErr
    result       \* what Run has returned: none, nil, failed or canceled

vars == <<parentDone, ctxDone, pc, err, once, firstErr, result>>

Init ==
    /\ parentDone = FALSE /\ ctxDone = FALSE
    /\ pc = [t \in Tasks |-> "running"]
    /\ err = [t \in Tasks |-> "none"]
    /\ once = NoTask
    /\ firstErr = "nil"
    /\ result = "none"

Goto(t, label) == pc' = [pc EXCEPT ![t] = label]

TaskReturns(t, e) ==
    /\ pc[t] = "running"
    /\ e = "canceled" => ctxDone
    /\ err' = [err EXCEPT ![t] = e]
    /\ Goto(t, IF e = "nil" THEN "done" ELSE "failed")
    /\ UNCHANGED <<parentDone, ctxDone, once, firstErr, result>>

(* Broken variant: every error is recorded, the last one stays. *)
IsFirst_Always(t) == TRUE

IsFirst(t) == once = NoTask

(* once.Do: the first one records its error ...                            *)
RecordError(t) ==
    /\ pc[t] = "failed"
    /\ IsFirst(t)
    /\ once' = t
    /\ firstErr' = err[t]
    /\ Goto(t, "cancel")
    /\ UNCHANGED <<parentDone, ctxDone, err, result>>

(* ... and cancels the group; ...                                          *)
CancelGroup(t) ==
    /\ pc[t] = "cancel"
    /\ ctxDone' = TRUE
    /\ Goto(t, "done")
    /\ UNCHANGED <<parentDone, err, once, firstErr, result>>

(* ... the others wait for it. *)
NotFirst(t) ==
    /\ pc[t] = "failed"
    /\ once # NoTask
    /\ pc[once] = "done"
    /\ Goto(t, "done")
    /\ UNCHANGED <<parentDone, ctxDone, err, once, firstErr, result>>

Return ==
    /\ result = "none"
    /\ \A t \in Tasks : pc[t] = "done"
    /\ result' = IF firstErr # "nil" THEN firstErr
                 ELSE IF ctxDone THEN "canceled" ELSE "nil"
    /\ UNCHANGED <<parentDone, ctxDone, pc, err, once, firstErr>>

Cancel ==
    /\ ~parentDone
    /\ result = "none"
    /\ parentDone' = TRUE
    /\ ctxDone' = TRUE
    /\ UNCHANGED <<pc, err, once, firstErr, result>>

Step(t) ==
    \/ \E e \in {"nil", "failed", "canceled"} : TaskReturns(t, e)
    \/ RecordError(t) \/ CancelGroup(t) \/ NotFirst(t)

Next == (\E t \in Tasks : Step(t)) \/ Return \/ Cancel

Spec == Init /\ [][Next]_vars

-----------------------------------------------------------------------------
(* Properties *)

TypeOK ==
    /\ {parentDone, ctxDone} \subseteq BOOLEAN
    /\ pc \in [Tasks -> {"running", "failed", "cancel", "done"}]
    /\ err \in [Tasks -> {"none", "nil", "failed", "canceled"}]
    /\ once \in Tasks \union {NoTask}
    /\ firstErr \in {"nil", "failed", "canceled"}
    /\ result \in {"none", "nil", "failed", "canceled"}

(* The error of a task that was canceled because another one failed is     *)
(* never reported in place of that failure; and nil means every task       *)
(* succeeded.                                                              *)
FirstErrorIsCause ==
    /\ result = "canceled" => parentDone
    /\ result = "failed" => \E t \in Tasks : err[t] = "failed"
    /\ result = "nil" => \A t \in Tasks : err[t] = "nil"

(* Run returns, and all its goroutines have ended by then. *)
RunReturns == <>(result # "none")
=============================================================================
