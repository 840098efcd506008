------------------------------- MODULE Batcher ------------------------------
(***************************************************************************)
(* src/examples/batcher: one goroutine that groups the items of its input  *)
(* into batches, sent when they are full, when the first item has waited   *)
(* for maxDelay, or when the input closes.                                 *)
(*                                                                         *)
(* Time is what the timer does.  go.mod asks for Go 1.22, whose timers are *)
(* separate actors: an armed timer expires, the runtime takes it off its   *)
(* heap, and then puts a tick into the one-slot channel.  Stop reports     *)
(* false as soon as the timer has expired, so stopTimer can find the       *)
(* channel still empty and the tick comes later.  Items are numbered in    *)
(* the order of the input; the consumer of the output may be slow.         *)
(***************************************************************************)
EXTENDS Naturals, Sequences

CONSTANTS
    MaxSizes,  \* values of Batch's argument maxSize
    MaxItems   \* bound: how many items the input may deliver

BatcherAssumption ==
    /\ MaxSizes \subseteq Nat \ {0}
    /\ MaxItems \in Nat

VARIABLES
    maxSize,   \* argument maxSize
    ctxDone,   \* the context is done
    inClosed,  \* the input is closed
    taken,     \* how many items have been received
    batch,     \* batch
    timerC,    \* timerC is not nil
    armed,     \* the timer is running
    expired,   \* how many ticks of the expired timer are not yet sent
    tick,      \* there is a tick in timer.C
    elapsed,   \* maxDelay has passed since the timer was last reset
    pc,        \* start, loop, full (about to flush), flush (offering items)
               \* or gone (returned, output closed)
    items,     \* the batch offered
    last,      \* run returns after this flush
    output     \* the items of the batches received by the consumer

timerVars == <<timerC, armed, expired, tick, elapsed>>
vars == <<maxSize, ctxDone, inClosed, taken, batch, timerVars, pc, items, last,
          output>>

(* NewTimer has just started the timer. *)
Init ==
    /\ maxSize \in MaxSizes
    /\ ctxDone = FALSE
    /\ inClosed = FALSE
    /\ taken = 0
    /\ batch = <<>>
    /\ timerC = FALSE
    /\ armed = TRUE
    /\ expired = 0
    /\ tick = FALSE
    /\ elapsed = FALSE
    /\ pc = "start"
    /\ items = <<>>
    /\ last = FALSE
    /\ output = <<>>

-----------------------------------------------------------------------------
(* The timer. *)

Expire ==
    /\ armed
    /\ armed' = FALSE
    /\ expired' = expired + 1
    /\ elapsed' = TRUE
    /\ UNCHANGED <<maxSize, ctxDone, inClosed, taken, batch, timerC, tick, pc,
                   items, last, output>>

(* A tick that finds another one in the channel is dropped. *)
SendTick ==
    /\ expired > 0
    /\ expired' = expired - 1
    /\ tick' = TRUE
    /\ UNCHANGED <<maxSize, ctxDone, inClosed, taken, batch, timerC, armed,
                   elapsed, pc, items, last, output>>

(* stopTimer: only a timer that was not running any more has its channel   *)
(* drained, and without waiting for the tick.                              *)
StopTimer ==
    /\ armed' = FALSE
    /\ tick' = IF armed THEN tick ELSE FALSE
    /\ UNCHANGED <<expired, elapsed>>

StartTimer ==
    /\ timerC' = TRUE
    /\ IF timerC
       THEN UNCHANGED <<armed, elapsed>>
       ELSE armed' = TRUE /\ elapsed' = FALSE
    /\ UNCHANGED <<expired, tick>>

(* Broken variant: timerC is not reset. *)
StopActiveTimer_KeepsTimerC ==
    /\ UNCHANGED timerC
    /\ IF timerC THEN StopTimer ELSE UNCHANGED <<armed, expired, tick, elapsed>>

StopActiveTimer ==
    /\ timerC' = FALSE
    /\ IF timerC THEN StopTimer ELSE UNCHANGED <<armed, expired, tick, elapsed>>

-----------------------------------------------------------------------------
(* flush *)

(* Broken variant: the batch sent is not taken out of batch. *)
BeginFlush_KeepsBatch(returns) ==
    /\ items' = batch
    /\ last' = returns
    /\ pc' = "flush"
    /\ UNCHANGED batch

(* The beginning of flush with a batch to send; stopActiveTimer follows.   *)
BeginFlush(returns) ==
    /\ items' = batch
    /\ batch' = <<>>
    /\ last' = returns
    /\ pc' = "flush"

(* The consumer receives. *)
Emit ==
    /\ pc = "flush"
    /\ output' = output \o items
    /\ items' = <<>>
    /\ pc' = IF last THEN "gone" ELSE "loop"
    /\ UNCHANGED <<maxSize, ctxDone, inClosed, taken, batch, timerVars, last>>

FlushCanceled ==
    /\ pc = "flush"
    /\ ctxDone
    /\ pc' = "gone"
    /\ UNCHANGED <<maxSize, ctxDone, inClosed, taken, batch, timerVars, items,
                   last, output>>

-----------------------------------------------------------------------------
(* run; its select may choose any branch that is ready. *)

StartRun ==
    /\ pc = "start"
    /\ StopTimer
    /\ pc' = "loop"
    /\ UNCHANGED <<maxSize, ctxDone, inClosed, taken, batch, timerC, items,
                   last, output>>

LoopCanceled ==
    /\ pc = "loop"
    /\ ctxDone
    /\ pc' = "gone"
    /\ UNCHANGED <<maxSize, ctxDone, inClosed, taken, batch, timerVars, items,
                   last, output>>

(* Broken variant: off by one. *)
TakeItem_OneMore ==
    /\ pc = "loop"
    /\ ~inClosed /\ taken < MaxItems
    /\ taken' = taken + 1
    /\ batch' = Append(batch, taken')
    /\ IF batch = <<>> THEN StartTimer ELSE UNCHANGED timerVars
    /\ pc' = IF Len(batch') > maxSize THEN "full" ELSE "loop"
    /\ UNCHANGED <<maxSize, ctxDone, inClosed, items, last, output>>

TakeItem ==
    /\ pc = "loop"
    /\ ~inClosed /\ taken < MaxItems
    /\ taken' = taken + 1
    /\ batch' = Append(batch, taken')
    /\ IF batch = <<>> THEN StartTimer ELSE UNCHANGED timerVars
    /\ pc' = IF Len(batch') >= maxSize THEN "full" ELSE "loop"
    /\ UNCHANGED <<maxSize, ctxDone, inClosed, items, last, output>>

FlushFull ==
    /\ pc = "full"
    /\ BeginFlush(FALSE)
    /\ StopActiveTimer
    /\ UNCHANGED <<maxSize, ctxDone, inClosed, taken, output>>

(* Broken variant: run returns without the last flush. *)
InputCloses_NoFlush ==
    /\ pc = "loop"
    /\ inClosed
    /\ pc' = "gone"
    /\ UNCHANGED <<maxSize, ctxDone, inClosed, taken, batch, timerVars, items,
                   last, output>>

InputCloses ==
    /\ pc = "loop"
    /\ inClosed
    /\ IF batch = <<>>
       THEN pc' = "gone" /\ UNCHANGED <<batch, timerVars, items, last>>
       ELSE BeginFlush(TRUE) /\ StopActiveTimer
    /\ UNCHANGED <<maxSize, ctxDone, inClosed, taken, output>>

(* stopActiveTimer has nothing to stop: timerC is nil by now. *)
TimerFires ==
    /\ pc = "loop"
    /\ timerC /\ tick
    /\ timerC' = FALSE
    /\ tick' = FALSE
    /\ IF batch = <<>>
       THEN UNCHANGED <<pc, batch, items, last>>
       ELSE BeginFlush(FALSE)
    /\ UNCHANGED <<maxSize, ctxDone, inClosed, taken, armed, expired, elapsed,
                   output>>

(* The owner of the input, and of the context. *)
CloseInput ==
    /\ ~inClosed
    /\ inClosed' = TRUE
    /\ UNCHANGED <<maxSize, ctxDone, taken, batch, timerVars, pc, items, last,
                   output>>

Cancel ==
    /\ ~ctxDone
    /\ pc # "gone"
    /\ ctxDone' = TRUE
    /\ UNCHANGED <<maxSize, inClosed, taken, batch, timerVars, pc, items, last,
                   output>>

-----------------------------------------------------------------------------

Run ==
    \/ StartRun
    \/ LoopCanceled
    \/ TakeItem
    \/ FlushFull
    \/ InputCloses
    \/ TimerFires
    \/ FlushCanceled

Timer == Expire \/ SendTick

Next == Run \/ Emit \/ Timer \/ CloseInput \/ Cancel

Spec == Init /\ [][Next]_vars

(* The goroutine and the timer run, and the consumer keeps receiving.      *)
FairSpec == Spec /\ WF_vars(Run) /\ WF_vars(Emit) /\ WF_vars(Timer)

-----------------------------------------------------------------------------
(* Properties *)

(* Types, and the size of a batch. *)
TypeOK ==
    /\ maxSize \in MaxSizes
    /\ ctxDone \in BOOLEAN
    /\ inClosed \in BOOLEAN
    /\ taken \in 0 .. MaxItems
    /\ batch \in Seq(1 .. MaxItems)
    /\ Len(batch) <= maxSize
    /\ pc = "loop" => Len(batch) < maxSize
    /\ timerC \in BOOLEAN
    /\ armed \in BOOLEAN
    /\ expired \in Nat
    /\ tick \in BOOLEAN
    /\ elapsed \in BOOLEAN
    /\ pc \in {"start", "loop", "full", "flush", "gone"}
    /\ items \in Seq(1 .. MaxItems)
    /\ Len(items) <= maxSize
    /\ last \in BOOLEAN
    /\ output \in Seq(1 .. MaxItems)

(* Every item received is in exactly one place, in order: in a batch the   *)
(* consumer has, in the one offered to it, or in the one being filled.     *)
EachItemOnce == output \o items \o batch = [i \in 1 .. taken |-> i]

(* If the output is closed although nobody canceled, the input was closed  *)
(* and the consumer has everything.                                        *)
ClosedMeansAllOut ==
    pc = "gone" /\ ~ctxDone => inClosed /\ Len(output) = taken

(* An item never waits for a full batch for ever: whatever ticks are late  *)
(* or left over, the timer flushes the batch it is in.                     *)
BatchGoesOut ==
    \A i \in 1 .. MaxItems : taken >= i ~> Len(output) >= i \/ ctxDone

(* Cancellation and the end of the input both end the goroutine, although  *)
(* its select may go on to choose items and ticks.                         *)
RunEnds == ctxDone \/ inClosed ~> pc = "gone"

(* The doc comment of Batch: a pending batch is emitted when it is full,   *)
(* when maxDelay has passed after its first item, or when input closes.  A *)
(* tick left over from an earlier timer makes it go out sooner.            *)
TickIsDue == pc = "loop" /\ timerC /\ tick => elapsed
=============================================================================
