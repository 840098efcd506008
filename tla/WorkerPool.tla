----------------------------- MODULE WorkerPool -----------------------------
(***************************************************************************)
(* src/examples/workerpool: Run feeds the indexes of its tasks to a fixed  *)
(* number of workers through an unbuffered channel.  It looks at the       *)
(* context before each hand-off and while it waits for a worker; the       *)
(* worker looks once more before it starts the task.                       *)
(***************************************************************************)
EXTENDS Naturals

CONSTANTS
    Tasks,    \* number of tasks
    Workers,  \* the worker goroutines, no more than tasks
    Idle      \* a worker without a task

PoolAssumption == Tasks \in Nat \ {0} /\ Workers # {} /\ Idle \notin Nat

VARIABLES
    ctxDone,    \* the context is done
    next,       \* the task to hand off next, local variable i
    feeder,     \* Run: check, offer, closed (jobs closed, waiting) or returned
    runErr,     \* local variable runErr: nil or canceled
    index,      \* index[w]: the task w has got, or Idle
    wpc,        \* wpc[w]: idle, taken, running or gone
    err,        \* err[i]: results[i].Err: nil, failed or canceled
    succeeded   \* history: tasks that have run and returned nil

vars == <<ctxDone, next, feeder, runErr, index, wpc, err, succeeded>>

Init ==
    /\ ctxDone = FALSE
    /\ next = 1
    /\ feeder = "check"
    /\ runErr = "nil"
    /\ index = [w \in Workers |-> Idle]
    /\ wpc = [w \in Workers |-> "idle"]
    /\ err = [i \in 1 .. Tasks |-> "nil"]
    /\ succeeded = {}

-----------------------------------------------------------------------------
(* The loop of Run. *)

(* Broken variant: the task being offered is left out. *)
markUnscheduled_After(start) ==
    err' = [i \in 1 .. Tasks |-> IF i > start THEN "canceled" ELSE err[i]]

markUnscheduled(start) ==
    err' = [i \in 1 .. Tasks |-> IF i >= start THEN "canceled" ELSE err[i]]

(* Cancellation seen before a hand-off or while waiting for a worker. *)
FeedCanceled ==
    /\ feeder = "offer" \/ (feeder = "check" /\ next <= Tasks)
    /\ ctxDone
    /\ runErr' = "canceled"
    /\ markUnscheduled(next)
    /\ feeder' = "closed"
    /\ UNCHANGED <<ctxDone, next, index, wpc, succeeded>>

CheckPasses ==
    /\ feeder = "check" /\ next <= Tasks
    /\ ~ctxDone
    /\ feeder' = "offer"
    /\ UNCHANGED <<ctxDone, next, runErr, index, wpc, err, succeeded>>

HandOff(w) ==
    /\ feeder = "offer"
    /\ wpc[w] = "idle"
    /\ index' = [index EXCEPT ![w] = next]
    /\ wpc' = [wpc EXCEPT ![w] = "taken"]
    /\ next' = next + 1
    /\ feeder' = "check"
    /\ UNCHANGED <<ctxDone, runErr, err, succeeded>>

AllHandedOff ==
    /\ feeder = "check" /\ next > Tasks
    /\ feeder' = "closed"
    /\ UNCHANGED <<ctxDone, next, runErr, index, wpc, err, succeeded>>

Return ==
    /\ feeder = "closed"
    /\ \A w \in Workers : wpc[w] = "gone"
    /\ feeder' = "returned"
    /\ UNCHANGED <<ctxDone, next, runErr, index, wpc, err, succeeded>>

-----------------------------------------------------------------------------
(* A worker, and runTask. *)

StartTask(w) ==
    /\ wpc[w] = "taken"
    /\ ~ctxDone
    /\ wpc' = [wpc EXCEPT ![w] = "running"]
    /\ UNCHANGED <<ctxDone, next, feeder, runErr, index, err, succeeded>>

Ends(w, how) ==
    /\ err' = [err EXCEPT ![index[w]] = how]
    /\ index' = [index EXCEPT ![w] = Idle]
    /\ wpc' = [wpc EXCEPT ![w] = "idle"]
    /\ UNCHANGED <<ctxDone, next, feeder, runErr>>

SkipTask(w) ==
    /\ wpc[w] = "taken"
    /\ ctxDone
    /\ Ends(w, "canceled")
    /\ UNCHANGED succeeded

TaskSucceeds(w) ==
    /\ wpc[w] = "running"
    /\ Ends(w, "nil")
    /\ succeeded' = succeeded \union {index[w]}

(* A nil task fails too, though without a moment in which it runs. *)
TaskFails(w) ==
    /\ wpc[w] = "running"
    /\ Ends(w, "failed")
    /\ UNCHANGED succeeded

WorkerExits(w) ==
    /\ wpc[w] = "idle"
    /\ feeder = "closed"
    /\ wpc' = [wpc EXCEPT ![w] = "gone"]
    /\ UNCHANGED <<ctxDone, next, feeder, runErr, index, err, succeeded>>

Cancel ==
    /\ ~ctxDone
    /\ feeder # "returned"
    /\ ctxDone' = TRUE
    /\ UNCHANGED <<next, feeder, runErr, index, wpc, err, succeeded>>

-----------------------------------------------------------------------------

Feed == FeedCanceled \/ CheckPasses \/ AllHandedOff \/ Return

Work(w) ==
    \/ StartTask(w) \/ SkipTask(w)
    \/ TaskSucceeds(w) \/ TaskFails(w)
    \/ WorkerExits(w)

Next == Feed \/ Cancel \/ \E w \in Workers : HandOff(w) \/ Work(w)

Spec == Init /\ [][Next]_vars

-----------------------------------------------------------------------------
(* Properties *)

TypeOK ==
    /\ ctxDone \in BOOLEAN
    /\ next \in 1 .. Tasks + 1
    /\ feeder \in {"check", "offer", "closed", "returned"}
    /\ runErr \in {"nil", "canceled"}
    /\ index \in [Workers -> 1 .. Tasks \union {Idle}]
    /\ wpc \in [Workers -> {"idle", "taken", "running", "gone"}]
    /\ \A w \in Workers : index[w] = Idle <=> wpc[w] \in {"idle", "gone"}
    /\ err \in [1 .. Tasks -> {"nil", "failed", "canceled"}]

(* Whenever cancellation comes, the results Run returns are true: a task   *)
(* without an error has run and succeeded, and one that has is not         *)
(* reported otherwise.                                                     *)
ResultsTruthful ==
    feeder = "returned" => {i \in 1 .. Tasks : err[i] = "nil"} = succeeded

(* Run returns, canceled or not, and all its workers have ended by then.   *)
RunReturns == <>(feeder = "returned")

(* The doc comment of Run: a canceled batch returns the cancellation       *)
(* error.  Run looks at the context for the last time when it hands off    *)
(* the last task; canceled after that, a task may be skipped and Run       *)
(* returns nil.                                                            *)
SkippedMeansCanceled ==
    feeder = "returned" /\ runErr = "nil" => \A i \in 1 .. Tasks : err[i] # "canceled"
=============================================================================
