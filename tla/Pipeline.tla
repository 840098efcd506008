------------------------------ MODULE Pipeline ------------------------------
(***************************************************************************)
(* src/examples/pipeline: Run, a chain of goroutines connected by          *)
(* unbuffered channels: a source, a filter for positive values, a map that *)
(* squares, and the caller, which collects.                                *)
(*                                                                         *)
(* Stage s sends to stage s + 1.  A channel has no state of its own: a     *)
(* send and its receive are one step of both stages, and it is closed when *)
(* the stage before it has returned (close is deferred).  In every select  *)
(* a done context may be chosen, or not, as long as the other side is      *)
(* ready too.                                                              *)
(***************************************************************************)
EXTENDS Integers, Sequences

CONSTANTS
    Inputs,  \* values of Run's argument values
    NoValue  \* a stage without a value in its hands

PipelineAssumption ==
    /\ Inputs \subseteq Seq(Int)
    /\ NoValue \notin Int

Source == 1
Filter == 2
Map == 3
Collect == 4
Stages == Source .. Collect

VARIABLES
    input,    \* argument values
    ctxDone,  \* the context is done
    sent,     \* how many values the source has sent
    pc,       \* pc[s]: recv, send or gone (returned, output closed)
    val,      \* val[s]: the value the filter or the map has to send on
    values,   \* Collect's values
    result    \* what Collect has returned: none, nil or canceled

vars == <<input, ctxDone, sent, pc, val, values, result>>

(* Run has seen that the context is not done and has started its stages.   *)
Init ==
    /\ input \in Inputs
    /\ ctxDone = FALSE
    /\ sent = 0
    /\ pc = [s \in Stages |-> IF s = Source THEN "send" ELSE "recv"]
    /\ val = [s \in Stages |-> NoValue]
    /\ values = <<>>
    /\ result = "none"

Positive(v) == v > 0
Square(v) == v * v

-----------------------------------------------------------------------------
(* One value goes from stage s to stage s + 1.                             *)

SourceSends ==
    /\ pc[Source] = "send" /\ sent < Len(input)
    /\ pc[Filter] = "recv"
    /\ sent' = sent + 1
    /\ IF Positive(input[sent + 1])
       THEN /\ val' = [val EXCEPT ![Filter] = input[sent + 1]]
            /\ pc' = [pc EXCEPT ![Filter] = "send"]
       ELSE UNCHANGED <<val, pc>>
    /\ UNCHANGED <<input, ctxDone, values, result>>

(* Broken variant: the map receives before it has sent its value on. *)
FilterSends_NoWait ==
    /\ pc[Filter] = "send"
    /\ pc[Map] \in {"recv", "send"}
    /\ val' = [val EXCEPT ![Filter] = NoValue, ![Map] = Square(val[Filter])]
    /\ pc' = [pc EXCEPT ![Filter] = "recv", ![Map] = "send"]
    /\ UNCHANGED <<input, ctxDone, sent, values, result>>

FilterSends ==
    /\ pc[Filter] = "send"
    /\ pc[Map] = "recv"
    /\ val' = [val EXCEPT ![Filter] = NoValue, ![Map] = Square(val[Filter])]
    /\ pc' = [pc EXCEPT ![Filter] = "recv", ![Map] = "send"]
    /\ UNCHANGED <<input, ctxDone, sent, values, result>>

MapSends ==
    /\ pc[Map] = "send"
    /\ pc[Collect] = "recv"
    /\ values' = Append(values, val[Map])
    /\ val' = [val EXCEPT ![Map] = NoValue]
    /\ pc' = [pc EXCEPT ![Map] = "recv"]
    /\ UNCHANGED <<input, ctxDone, sent, result>>

-----------------------------------------------------------------------------
(* A stage returns. *)

Gone(s) == pc' = [pc EXCEPT ![s] = "gone"]

(* The source has no values left. *)
SourceEnds ==
    /\ pc[Source] = "send" /\ sent = Len(input)
    /\ Gone(Source)
    /\ UNCHANGED <<input, ctxDone, sent, val, values, result>>

(* The input of the filter or the map is closed. *)
InputCloses(s) ==
    /\ s \in {Filter, Map}
    /\ pc[s] = "recv" /\ pc[s - 1] = "gone"
    /\ Gone(s)
    /\ UNCHANGED <<input, ctxDone, sent, val, values, result>>

(* The source, the filter or the map chooses ctx.Done; a value in its      *)
(* hands is dropped (val keeps it for the properties).  The source has no  *)
(* select left once it has sent everything.                                *)
StageCanceled(s) ==
    /\ s \in {Source, Filter, Map}
    /\ ctxDone
    /\ pc[s] # "gone"
    /\ s = Source => sent < Len(input)
    /\ Gone(s)
    /\ UNCHANGED <<input, ctxDone, sent, val, values, result>>

CollectCanceled ==
    /\ ctxDone
    /\ pc[Collect] = "recv"
    /\ Gone(Collect)
    /\ result' = "canceled"
    /\ UNCHANGED <<input, ctxDone, sent, val, values>>

(* Broken variant: a closed input is taken for the end of the values. *)
CollectInputCloses_NoCheck ==
    /\ pc[Collect] = "recv" /\ pc[Map] = "gone"
    /\ Gone(Collect)
    /\ result' = "nil"
    /\ UNCHANGED <<input, ctxDone, sent, val, values>>

(* The input is closed; ctx.Err then tells whether that was the end.       *)
CollectInputCloses ==
    /\ pc[Collect] = "recv" /\ pc[Map] = "gone"
    /\ Gone(Collect)
    /\ result' = IF ctxDone THEN "canceled" ELSE "nil"
    /\ UNCHANGED <<input, ctxDone, sent, val, values>>

Cancel ==
    /\ ~ctxDone
    /\ \E s \in Stages : pc[s] # "gone"
    /\ ctxDone' = TRUE
    /\ UNCHANGED <<input, sent, pc, val, values, result>>

-----------------------------------------------------------------------------

Send == SourceSends \/ FilterSends \/ MapSends

End(s) ==
    \/ s = Source /\ SourceEnds
    \/ InputCloses(s)
    \/ StageCanceled(s)
    \/ s = Collect /\ (CollectCanceled \/ CollectInputCloses)

Next == Send \/ (\E s \in Stages : End(s)) \/ Cancel

Spec == Init /\ [][Next]_vars

(* Goroutines that can run do run. *)
FairSpec ==
    /\ Spec
    /\ WF_vars(SourceSends) /\ WF_vars(FilterSends) /\ WF_vars(MapSends)
    /\ \A s \in Stages : WF_vars(End(s))

-----------------------------------------------------------------------------
(* Properties *)

(* Types, and what the filter and the map have in their hands. *)
TypeOK ==
    /\ input \in Inputs
    /\ ctxDone \in BOOLEAN
    /\ sent \in 0 .. Len(input)
    /\ pc \in [Stages -> {"recv", "send", "gone"}]
    /\ val \in [Stages -> Int \union {NoValue}]
    /\ \A s \in {Filter, Map} : pc[s] = "send" => val[s] # NoValue
    /\ val[Filter] # NoValue => Positive(val[Filter])
    /\ values \in Seq(Int)
    /\ result \in {"none", "nil", "canceled"}

(* Wanted[n]: what Run is to return for the first n values of its input.   *)
Wanted[n \in 0 .. Len(input)] ==
    IF n = 0 THEN <<>>
    ELSE IF Positive(input[n]) THEN Append(Wanted[n - 1], Square(input[n]))
    ELSE Wanted[n - 1]

(* What is in the hands of the filter or the map, as results to come. *)
Accepted == IF val[Filter] = NoValue THEN <<>> ELSE <<Square(val[Filter])>>
Squared == IF val[Map] = NoValue THEN <<>> ELSE <<val[Map]>>

(* Between the source and the caller nothing is lost, doubled or overtaken: *)
(* the results collected, the one in the hands of the map and the one in   *)
(* those of the filter are, in that order, those of the values sent.       *)
NothingLostInFlight == values \o Squared \o Accepted = Wanted[sent]

(* A nil error means the whole result, whichever stages cancellation has   *)
(* made close their channels early.                                        *)
NilMeansComplete == result = "nil" => values = Wanted[Len(input)]

(* No goroutine is left behind and Run returns, canceled or not, even if   *)
(* the stage after a blocked one has gone.                                 *)
EveryStageReturns == \A s \in Stages : <>(pc[s] = "gone")
=============================================================================
