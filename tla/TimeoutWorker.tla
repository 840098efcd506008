--------------------------- MODULE TimeoutWorker ----------------------------
(***************************************************************************)
(* src/examples/timeoutworker: Run starts work in a goroutine and returns  *)
(* its result, or the error of the context when that is done first.  The   *)
(* goroutine then still has to get rid of its result: channel done holds   *)
(* one.                                                                    *)
(***************************************************************************)
VARIABLES
    ctxDone,  \* the context is done: canceled, or its deadline has passed
    wpc,      \* the goroutine: working, sending or gone
    buffer,   \* number of results in channel done
    result    \* what Run has returned: none, result or deadline

vars == <<ctxDone, wpc, buffer, result>>

Init == ctxDone = FALSE /\ wpc = "working" /\ buffer = 0 /\ result = "none"

WorkReturns ==
    /\ wpc = "working"
    /\ wpc' = "sending"
    /\ UNCHANGED <<ctxDone, buffer, result>>

SendResult ==
    /\ wpc = "sending"
    /\ buffer = 0
    /\ buffer' = 1
    /\ wpc' = "gone"
    /\ UNCHANGED <<ctxDone, result>>

(* The two branches of Run's select; returning cancels the context. *)
ReturnResult ==
    /\ result = "none"
    /\ buffer = 1
    /\ buffer' = 0
    /\ result' = "result"
    /\ ctxDone' = TRUE
    /\ UNCHANGED wpc

ReturnDeadline ==
    /\ result = "none"
    /\ ctxDone
    /\ result' = "deadline"
    /\ UNCHANGED <<ctxDone, wpc, buffer>>

Expire == ~ctxDone /\ ctxDone' = TRUE /\ UNCHANGED <<wpc, buffer, result>>

Return == ReturnResult \/ ReturnDeadline
Work == WorkReturns \/ SendResult

Next == Return \/ Work \/ Expire

Spec == Init /\ [][Next]_vars

-----------------------------------------------------------------------------
(* Properties *)

TypeOK ==
    /\ ctxDone \in BOOLEAN
    /\ wpc \in {"working", "sending", "gone"}
    /\ buffer \in {0, 1}
    /\ result \in {"none", "result", "deadline"}

(* Run returns, and its goroutine ends although nobody may be there any    *)
(* more to take its result.                                                *)
RunReturns == <>(result # "none" /\ wpc = "gone")
=============================================================================
