---------------------------- MODULE RateLimiter -----------------------------
(***************************************************************************)
(* src/examples/ratelimiter: permits in a buffered channel, a goroutine    *)
(* that refills it at every tick, and Stop, which sets done, then closes   *)
(* stopped for the callers, then closes stop for the refill goroutine.     *)
(*                                                                         *)
(* Wait and TryAllow look at done, take a permit, look at done again and   *)
(* return: four steps, and Stop may come between any two.  A call that has *)
(* looked for the second time returns nil or true even if Stop comes then. *)
(* A select takes any branch that is ready.  sync.Once lets one Stop do    *)
(* the work and the others wait for it, so the steps of Stop need no       *)
(* caller of their own.                                                    *)
(***************************************************************************)
EXTENDS Integers, FiniteSetsExt

CONSTANTS
    Callers,  \* goroutines calling Wait and TryAllow
    Burst,    \* argument burst of New
    MaxTicks  \* bound: how often the ticker may fire

LimiterAssumption == Burst \in Nat \ {0} /\ MaxTicks \in Nat

VARIABLES
    tokens,     \* number of permits in Limiter.tokens
    done,       \* Limiter.done
    stopped,    \* channel stopped is closed
    stop,       \* channel stop is closed
    tick,       \* there is a tick in ticker.C
    ticks,      \* ticks so far
    refilling,  \* the goroutine of refill runs
    pc,         \* pc[c]: out, waiting (in Wait's select), trying (at
                \* TryAllow's select), checking (done, with a permit) or
                \* allowed (about to return nil or true)
    granted,    \* history: how many calls have returned with a permit
    overflow    \* history: how many ticks found the channel full

vars == <<tokens, done, stopped, stop, tick, ticks, refilling, pc, granted,
          overflow>>

Init ==
    /\ tokens = Burst
    /\ done = FALSE /\ stopped = FALSE /\ stop = FALSE
    /\ tick = FALSE /\ ticks = 0
    /\ refilling = TRUE
    /\ pc = [c \in Callers |-> "out"]
    /\ granted = 0
    /\ overflow = 0

-----------------------------------------------------------------------------
(* Wait and TryAllow *)

Goto(c, label) ==
    /\ pc' = [pc EXCEPT ![c] = label]
    /\ UNCHANGED <<done, stopped, stop, tick, ticks, refilling, overflow>>

(* Broken variant: the first look at done is left out. *)
Call_Unchecked(c, how) ==
    /\ pc[c] = "out"
    /\ Goto(c, how)
    /\ UNCHANGED <<tokens, granted>>

(* The first look at done; when it is set the call returns at once.        *)
Call(c, how) ==
    /\ pc[c] = "out"
    /\ ~done
    /\ Goto(c, how)
    /\ UNCHANGED <<tokens, granted>>

TakePermit(c) ==
    /\ pc[c] \in {"waiting", "trying"}
    /\ tokens > 0
    /\ tokens' = tokens - 1
    /\ Goto(c, "checking")
    /\ UNCHANGED granted

(* The default branch of TryAllow. *)
NoPermit(c) ==
    /\ pc[c] = "trying"
    /\ tokens = 0
    /\ Goto(c, "out")
    /\ UNCHANGED <<tokens, granted>>

(* The second look at done.  A permit taken too late is lost. *)
LookAgain(c) ==
    /\ pc[c] = "checking"
    /\ Goto(c, IF done THEN "out" ELSE "allowed")
    /\ UNCHANGED <<tokens, granted>>

ReturnAllowed(c) ==
    /\ pc[c] = "allowed"
    /\ granted' = granted + 1
    /\ Goto(c, "out")
    /\ UNCHANGED tokens

(* The other two branches of Wait's select; a context may end any time.    *)
WaitStopped(c) ==
    /\ pc[c] = "waiting"
    /\ stopped
    /\ Goto(c, "out")
    /\ UNCHANGED <<tokens, granted>>

WaitCanceled(c) ==
    /\ pc[c] = "waiting"
    /\ Goto(c, "out")
    /\ UNCHANGED <<tokens, granted>>

-----------------------------------------------------------------------------
(* Stop, the ticker and refill *)

SetDone ==
    /\ ~done
    /\ done' = TRUE
    /\ UNCHANGED <<tokens, stopped, stop, tick, ticks, refilling, pc, granted,
                   overflow>>

CloseStopped ==
    /\ done /\ ~stopped
    /\ stopped' = TRUE
    /\ UNCHANGED <<tokens, done, stop, tick, ticks, refilling, pc, granted,
                   overflow>>

CloseStop ==
    /\ stopped /\ ~stop
    /\ stop' = TRUE
    /\ UNCHANGED <<tokens, done, stopped, tick, ticks, refilling, pc, granted,
                   overflow>>

Stop == SetDone \/ CloseStopped \/ CloseStop

(* The ticker drops a tick that finds the last one still in its channel.   *)
Tick ==
    /\ refilling
    /\ ~tick /\ ticks < MaxTicks
    /\ tick' = TRUE
    /\ ticks' = ticks + 1
    /\ UNCHANGED <<tokens, done, stopped, stop, refilling, pc, granted,
                   overflow>>

(* Broken variant: a tick adds a permit to a channel that is full. *)
Refilled_PastBurst == tokens + 1

Refilled == Min({tokens + 1, Burst})

Refill ==
    /\ refilling
    /\ tick
    /\ tick' = FALSE
    /\ tokens' = Refilled
    /\ overflow' = IF tokens = Burst THEN overflow + 1 ELSE overflow
    /\ UNCHANGED <<done, stopped, stop, ticks, refilling, pc, granted>>

RefillStops ==
    /\ refilling
    /\ stop
    /\ refilling' = FALSE
    /\ UNCHANGED <<tokens, done, stopped, stop, tick, ticks, pc, granted,
                   overflow>>

-----------------------------------------------------------------------------

(* What a call does next unless its context ends. *)
Resume(c) ==
    \/ TakePermit(c)
    \/ LookAgain(c)
    \/ ReturnAllowed(c)
    \/ NoPermit(c)
    \/ WaitStopped(c)

Next ==
    \/ \E c \in Callers :
          \/ \E how \in {"waiting", "trying"} : Call(c, how)
          \/ Resume(c)
          \/ WaitCanceled(c)
    \/ Stop
    \/ Tick
    \/ Refill
    \/ RefillStops

Spec == Init /\ [][Next]_vars

-----------------------------------------------------------------------------
(* Properties *)

(* Types; no more permits are given than the burst and one for each tick.  *)
TypeOK ==
    /\ tokens \in 0 .. Burst
    /\ {done, stopped, stop, tick, refilling} \subseteq BOOLEAN
    /\ ticks \in 0 .. MaxTicks
    /\ pc \in [Callers -> {"out", "waiting", "trying", "checking", "allowed"}]
    /\ granted \in 0 .. Burst + ticks
    /\ overflow \in 0 .. ticks

Ended == {c \in Callers : pc[c] = "out"}
InHand == {c \in Callers : pc[c] \in {"checking", "allowed"}}
Unreceived == IF tick THEN 1 ELSE 0

(* Of the permits of the burst and the ticks, those that are neither in    *)
(* the channel, on the way there, refused by it, with a caller nor granted *)
Lost ==
    Burst + ticks
        - (tokens + Unreceived + overflow + Cardinality(InHand) + granted)

(* No permit is lost before Stop, whichever calls give up when, and none   *)
(* is there twice.  Each call under way at Stop may lose the permit it has *)
(* taken, by the time it has ended, and nobody drains the channel later.   *)
PermitsConserved ==
    IF done THEN Lost \in 0 .. Cardinality(Ended) ELSE Lost = 0

(* Stop wakes the callers waiting in Wait and ends the refill goroutine.   *)
StopEndsAll ==
    /\ \A c \in Callers : stopped ~> pc[c] = "out"
    /\ stop ~> ~refilling
=============================================================================
