--------------------------- MODULE AtomicCounter ----------------------------
(***************************************************************************)
(* src/examples/atomiccounter: five atomic counters and no lock.  Every    *)
(* atomic operation is one step: a Start is four or more of them, and the  *)
(* peak is kept by a loop of Load and CompareAndSwap.  Snapshot loads the  *)
(* counters one after the other, Reset stores zero into them one after the *)
(* other.  Another goroutine calls one of the two at some time, or never.  *)
(***************************************************************************)
EXTENDS Integers, Sequences, FiniteSetsExt

CONSTANTS
    Callers,   \* goroutines that record requests
    MaxStarts  \* bound: how many requests start

MetricsAssumption == MaxStarts \in Nat

VARIABLES
    metrics,   \* the counters of Metrics
    starts,    \* how many requests have started
    pc,        \* pc[c]: out, counted, load, swap, active or ended
    mine,      \* mine[c]: the value recordPeak is called with
    seen,      \* seen[c]: local variable current of recordPeak
    snapshot,  \* the counters Snapshot has loaded so far
    cleared,   \* how many counters Reset has cleared so far
    highest    \* history: the highest number of active requests so far

vars == <<metrics, starts, pc, mine, seen, snapshot, cleared, highest>>

(* The order in which Snapshot and Reset go through the counters. *)
Counters == <<"requests", "success", "failure", "inFlight", "peak">>

Init ==
    /\ metrics = [n \in {Counters[i] : i \in DOMAIN Counters} |-> 0]
    /\ starts = 0
    /\ pc = [c \in Callers |-> "out"]
    /\ mine = [c \in Callers |-> 0]
    /\ seen = [c \in Callers |-> 0]
    /\ snapshot = <<>>
    /\ cleared = 0
    /\ highest = 0

Add(n, d) == metrics' = [metrics EXCEPT ![n] = @ + d]
Goto(c, label) ==
    /\ pc' = [pc EXCEPT ![c] = label]
    /\ UNCHANGED <<snapshot, cleared>>

-----------------------------------------------------------------------------
(* Start *)

CountRequest(c) ==
    /\ pc[c] = "out"
    /\ starts < MaxStarts
    /\ starts' = starts + 1
    /\ Add("requests", 1)
    /\ Goto(c, "counted")
    /\ UNCHANGED <<mine, seen, highest>>

CountInFlight(c) ==
    /\ pc[c] = "counted"
    /\ Add("inFlight", 1)
    /\ mine' = [mine EXCEPT ![c] = metrics'.inFlight]
    /\ highest' = Max({highest, metrics'.inFlight})
    /\ Goto(c, "load")
    /\ UNCHANGED <<starts, seen>>

LoadPeak(c) ==
    /\ pc[c] = "load"
    /\ seen' = [seen EXCEPT ![c] = metrics.peak]
    /\ Goto(c, IF mine[c] <= metrics.peak THEN "active" ELSE "swap")
    /\ UNCHANGED <<metrics, starts, mine, highest>>

(* Broken variant: the new value is stored whatever is there by now. *)
Swaps_Always(c) == TRUE

Swaps(c) == metrics.peak = seen[c]

SwapPeak(c) ==
    /\ pc[c] = "swap"
    /\ IF Swaps(c)
       THEN metrics' = [metrics EXCEPT !.peak = mine[c]] /\ Goto(c, "active")
       ELSE UNCHANGED metrics /\ Goto(c, "load")
    /\ UNCHANGED <<starts, mine, seen, highest>>

-----------------------------------------------------------------------------
(* Succeed and Fail; Snapshot and Reset *)

Finish(c, how) ==
    /\ pc[c] = "active"
    /\ Add(how, 1)
    /\ Goto(c, "ended")
    /\ UNCHANGED <<starts, mine, seen, highest>>

Leave(c) ==
    /\ pc[c] = "ended"
    /\ Add("inFlight", -1)
    /\ mine' = [mine EXCEPT ![c] = 0]
    /\ seen' = [seen EXCEPT ![c] = 0]
    /\ Goto(c, "out")
    /\ UNCHANGED <<starts, highest>>

Snapshot ==
    /\ cleared = 0 /\ Len(snapshot) < Len(Counters)
    /\ snapshot' = Append(snapshot, metrics[Counters[Len(snapshot) + 1]])
    /\ UNCHANGED <<metrics, starts, pc, mine, seen, cleared, highest>>

Reset ==
    /\ snapshot = <<>> /\ cleared < Len(Counters)
    /\ cleared' = cleared + 1
    /\ metrics' = [metrics EXCEPT ![Counters[cleared']] = 0]
    /\ UNCHANGED <<starts, pc, mine, seen, snapshot, highest>>

Record(c) == CountInFlight(c) \/ LoadPeak(c) \/ SwapPeak(c)

Next ==
    \/ \E c \in Callers :
          \/ CountRequest(c)
          \/ Record(c)
          \/ \E how \in {"success", "failure"} : Finish(c, how)
          \/ Leave(c)
    \/ Snapshot
    \/ Reset

Spec == Init /\ [][Next]_vars

-----------------------------------------------------------------------------
(* Properties *)

TypeOK ==
    /\ DOMAIN metrics = {Counters[i] : i \in DOMAIN Counters}
    /\ metrics.inFlight \in Int
    /\ \A n \in DOMAIN metrics \ {"inFlight"} : metrics[n] \in 0 .. MaxStarts
    /\ pc \in [Callers -> {"out", "counted", "load", "swap", "active", "ended"}]
    /\ snapshot \in Seq(Int)

(* However the loops of several recordPeak calls interleave, a lower value *)
(* never replaces a higher one: unless Reset is called, the peak is the    *)
(* highest number of active requests as soon as nobody is recording it.    *)
PeakIsHighest ==
    cleared = 0 =>
        /\ metrics.peak <= highest
        /\ (\A c \in Callers : pc[c] \notin {"load", "swap"}) => metrics.peak = highest

(* Recording ends: a failed CompareAndSwap means that another succeeded.   *)
StartReturns == \A c \in Callers : pc[c] = "counted" ~> pc[c] = "active"

(* The doc comment of Snapshot: the values at a moment in time.  At every  *)
(* moment no more requests have ended than have started; a snapshot may    *)
(* say otherwise, because it loads requests before the others.             *)
SnapshotIsPossible ==
    Len(snapshot) = Len(Counters) /\ cleared = 0 =>
        snapshot[2] + snapshot[3] <= snapshot[1]
=============================================================================
