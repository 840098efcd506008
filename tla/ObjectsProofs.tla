--------------------------- MODULE ObjectsProofs ----------------------------
(***************************************************************************)
(* Proofs about the packages whose objects many goroutines share, for any  *)
(* finite sets of goroutines and any values of the other constants.  A     *)
(* behaviour of SharedObjects is one of each package (Projection), so each *)
(* section proves an inductive invariant from the Init and Next of one     *)
(* package and carries it over.                                            *)
(***************************************************************************)
EXTENDS SharedObjects, BoundedQueueProofs

LEMMA InitProjection ==
    ASSUME ObjectsInit
    PROVE  /\ Init /\ Ba!Init /\ Li!Init /\ Ac!Init /\ Bk!Init /\ Me!Init
           /\ Se!Init /\ Lo!Init /\ In!Init
BY DEF ObjectsInit

LEMMA NextProjection ==
    ASSUME [ObjectsNext]_all
    PROVE  /\ [Next]_vars
           /\ [Ba!Next]_barrier
           /\ [Li!Next]_limiter
           /\ [Ac!Next]_actor
           /\ [Bk!Next]_bank
           /\ [Me!Next]_recorder
           /\ [Se!Next]_semaphore
           /\ [Lo!Next]_lazy
           /\ [In!Next]_inventory
BY DEF ObjectsNext, Others, Still, all

(* A behaviour of the whole, as seen by each package. *)
LEMMA Projection ==
    ObjectsSpec =>
        /\ Spec
        /\ Ba!Init /\ [][Ba!Next]_barrier
        /\ Li!Init /\ [][Li!Next]_limiter
        /\ Ac!Init /\ [][Ac!Next]_actor
        /\ Bk!Init /\ [][Bk!Next]_bank
        /\ Me!Init /\ [][Me!Next]_recorder
        /\ Se!Init /\ [][Se!Next]_semaphore
        /\ Lo!Init /\ [][Lo!Next]_lazy
        /\ In!Init /\ [][In!Next]_inventory
<1>1. ObjectsInit =>
        /\ Init /\ Ba!Init /\ Li!Init /\ Ac!Init /\ Bk!Init /\ Me!Init
        /\ Se!Init /\ Lo!Init /\ In!Init
  BY InitProjection
<1>2. [ObjectsNext]_all =>
        /\ [Next]_vars /\ [Ba!Next]_barrier /\ [Li!Next]_limiter
        /\ [Ac!Next]_actor /\ [Bk!Next]_bank /\ [Me!Next]_recorder
        /\ [Se!Next]_semaphore /\ [Lo!Next]_lazy /\ [In!Next]_inventory
  BY NextProjection
<1> QED BY <1>1, <1>2, PTL DEF ObjectsSpec, Spec

-----------------------------------------------------------------------------
(* atomiccounter.  The highest number of active requests so far is either  *)
(* the peak already or the value of a recordPeak that has not ended, and a *)
(* value about to be swapped in is higher than the one it replaces.        *)

Recording == {c \in Few : mepc[c] \in {"load", "swap"}}
Started == {c \in Few : mepc[c] # "out"}
Open == {c \in Few : mepc[c] \in {"counted", "load", "swap", "active"}}
InFlight == {c \in Few : mepc[c] \in {"load", "swap", "active", "ended"}}

PeakKept ==
    cleared = 0 =>
        /\ metrics.peak <= highest
        /\ \A c \in Recording : mine[c] <= highest
        /\ metrics.peak = highest \/ \E c \in Recording : mine[c] = highest

MetricsType ==
    /\ metrics \in [{"requests", "success", "failure", "inFlight", "peak"} -> Int]
    /\ starts \in 0 .. MaxStarts
    /\ mepc \in [Few -> {"out", "counted", "load", "swap", "active", "ended"}]
    /\ mine \in [Few -> Int] /\ seen \in [Few -> Int]
    /\ snapshot \in Seq(Int)
    /\ cleared \in 0 .. 5
    /\ highest \in Nat

(* The counters as far as they are bounded by the requests started.        *)
MetricsBounded ==
    /\ 0 <= metrics.requests /\ metrics.requests <= starts
    /\ 0 <= metrics.success /\ 0 <= metrics.failure
    /\ metrics.success + metrics.failure + Cardinality(Open) <= starts
    /\ Cardinality(Started) <= starts
    /\ metrics.inFlight <= Cardinality(InFlight)
    /\ metrics.peak \in 0 .. MaxStarts
    /\ \A c \in Few : mine[c] <= MaxStarts
    /\ \A c \in Few : mepc[c] = "swap" => 0 <= seen[c] /\ seen[c] < mine[c]

MetricsInv == MetricsType /\ MetricsBounded /\ PeakKept

LEMMA CounterFacts ==
    /\ Me!Counters \in [1 .. 5 -> {"requests", "success", "failure", "inFlight", "peak"}]
    /\ Len(Me!Counters) = 5
    /\ {Me!Counters[i] : i \in DOMAIN Me!Counters} =
           {"requests", "success", "failure", "inFlight", "peak"}
BY DEF Me!Counters

LEMMA MaxOfTwo ==
    ASSUME NEW a \in Int, NEW b \in Int
    PROVE  Me!Max({a, b}) = IF a >= b THEN a ELSE b
BY DEF Me!Max

(* Counting some of the callers when one comes or leaves. *)
LEMMA CountFew ==
    ASSUME NEW S \in SUBSET Few
    PROVE  /\ Cardinality(S) \in Nat
           /\ \A c \in Few \ S : Cardinality(S \union {c}) = Cardinality(S) + 1
           /\ \A c \in S : Cardinality(S \ {c}) = Cardinality(S) - 1
<1>1. IsFiniteSet(S)
  BY ObjectsAssumption, FS_Subset
<1> QED BY <1>1, FS_CardinalityType, FS_AddElement, FS_RemoveElement

LEMMA MetricsInit == Me!Init => MetricsInv
<1> SUFFICES ASSUME Me!Init PROVE MetricsInv
  OBVIOUS
<1>1. Recording = {} /\ Started = {} /\ Open = {} /\ InFlight = {}
  BY DEF Me!Init, Recording, Started, Open, InFlight
<1>2. Cardinality({}) = 0
  BY FS_EmptySet
<1>3. MaxStarts \in Nat
  BY ObjectsAssumption DEF Me!MetricsAssumption
<1>4. metrics = [n \in {"requests", "success", "failure", "inFlight", "peak"} |-> 0]
  BY CounterFacts DEF Me!Init
<1>5. <<>> \in Seq(Int)
  BY EmptySeq
<1>6. MetricsType
  BY <1>3, <1>4, <1>5 DEF Me!Init, MetricsType
<1>7. /\ \A n \in {"requests", "success", "failure", "inFlight", "peak"} : metrics[n] = 0
      /\ starts = 0 /\ highest = 0
      /\ \A c \in Few : mepc[c] = "out" /\ mine[c] = 0
  BY <1>4 DEF Me!Init
<1>8. MetricsBounded
  BY <1>1, <1>2, <1>3, <1>7 DEF MetricsBounded
<1>9. PeakKept
  BY <1>1, <1>7 DEF PeakKept
<1> QED BY <1>6, <1>8, <1>9 DEF MetricsInv

(* A step of one caller: its place in the sets of callers.                 *)
LEMMA CallerMoves ==
    ASSUME MetricsType, NEW c \in Few, NEW label,
           mepc' = [mepc EXCEPT ![c] = label]
    PROVE  /\ Recording' = IF label \in {"load", "swap"}
                           THEN Recording \union {c} ELSE Recording \ {c}
           /\ Started' = IF label # "out" THEN Started \union {c} ELSE Started \ {c}
           /\ Open' = IF label \in {"counted", "load", "swap", "active"}
                      THEN Open \union {c} ELSE Open \ {c}
           /\ InFlight' = IF label \in {"load", "swap", "active", "ended"}
                          THEN InFlight \union {c} ELSE InFlight \ {c}
BY DEF MetricsType, Recording, Started, Open, InFlight

(* One step per action. *)

LEMMA MetricsCountRequest ==
    ASSUME MetricsInv, NEW c \in Few, Me!CountRequest(c)
    PROVE  MetricsInv'
<1> USE DEF MetricsInv
<1>1. /\ mepc[c] = "out" /\ starts < MaxStarts
      /\ starts' = starts + 1
      /\ metrics' = [metrics EXCEPT !["requests"] = @ + 1]
      /\ mepc' = [mepc EXCEPT ![c] = "counted"]
      /\ UNCHANGED <<mine, seen, highest, snapshot, cleared>>
  BY DEF Me!CountRequest, Me!Add, Me!Goto
<1>2. MaxStarts \in Nat
  BY ObjectsAssumption DEF Me!MetricsAssumption
<1>3. MetricsType'
  BY <1>1, <1>2 DEF MetricsType
<1>4. /\ Recording' = Recording /\ InFlight' = InFlight
      /\ Started' = Started \union {c} /\ c \notin Started
      /\ Open' = Open \union {c} /\ c \notin Open
  BY <1>1 DEF MetricsType, Recording, Started, Open, InFlight
<1>5. /\ Cardinality(Started') = Cardinality(Started) + 1
      /\ Cardinality(Open') = Cardinality(Open) + 1
  BY <1>4, CountFew DEF Started, Open
<1>6. Cardinality(Started) \in Nat /\ Cardinality(Open) \in Nat
      /\ Cardinality(InFlight) \in Nat
  BY CountFew DEF Started, Open, InFlight
<1>7. MetricsBounded'
  <2>1. /\ metrics'.requests = metrics.requests + 1
        /\ metrics'.success = metrics.success /\ metrics'.failure = metrics.failure
        /\ metrics'.inFlight = metrics.inFlight /\ metrics'.peak = metrics.peak
    BY <1>1 DEF MetricsType
  <2>2. \A d \in Few : mepc'[d] = "swap" => mepc[d] = "swap"
    BY <1>1 DEF MetricsType
  <2> QED BY <1>1, <1>3, <1>4, <1>5, <1>6, <2>1, <2>2 DEF MetricsType, MetricsBounded
<1>8. PeakKept'
  BY <1>1, <1>4 DEF MetricsType, PeakKept
<1> QED BY <1>3, <1>7, <1>8

LEMMA MetricsCountInFlight ==
    ASSUME MetricsInv, NEW c \in Few, Me!CountInFlight(c)
    PROVE  MetricsInv'
<1> USE DEF MetricsInv
<1> DEFINE n == metrics.inFlight + 1
<1>1. /\ mepc[c] = "counted"
      /\ metrics' = [metrics EXCEPT !["inFlight"] = @ + 1]
      /\ mine' = [mine EXCEPT ![c] = metrics'.inFlight]
      /\ highest' = Me!Max({highest, metrics'.inFlight})
      /\ mepc' = [mepc EXCEPT ![c] = "load"]
      /\ UNCHANGED <<starts, seen, snapshot, cleared>>
  BY DEF Me!CountInFlight, Me!Add, Me!Goto
<1>2. n \in Int /\ metrics'.inFlight = n
  BY <1>1 DEF MetricsType
<1> HIDE DEF n
<1>3. highest' = IF highest >= n THEN highest ELSE n
  <2>1. highest' = Me!Max({highest, n})
    BY <1>1, <1>2
  <2>2. highest \in Int
    BY DEF MetricsType
  <2> QED BY <1>2, <2>1, <2>2, MaxOfTwo
<1>4. MetricsType'
  <2>1. metrics' \in [{"requests", "success", "failure", "inFlight", "peak"} -> Int]
    BY <1>1 DEF MetricsType
  <2>2. mine' \in [Few -> Int]
    BY <1>1, <1>2 DEF MetricsType
  <2>3. mepc' \in [Few -> {"out", "counted", "load", "swap", "active", "ended"}]
    BY <1>1 DEF MetricsType
  <2>4. highest' \in Nat
    BY <1>2, <1>3 DEF MetricsType
  <2> QED BY <1>1, <2>1, <2>2, <2>3, <2>4 DEF MetricsType
<1>5. /\ Recording' = Recording \union {c} /\ c \notin Recording
      /\ Started' = Started /\ Open' = Open
      /\ InFlight' = InFlight \union {c} /\ c \notin InFlight
      /\ InFlight' \subseteq Started
  BY <1>1 DEF MetricsType, Recording, Started, Open, InFlight
<1>6. /\ Cardinality(InFlight') = Cardinality(InFlight) + 1
      /\ Cardinality(InFlight) \in Nat
  BY <1>5, CountFew DEF InFlight
<1>7. Cardinality(InFlight') <= Cardinality(Started) /\ Cardinality(Started) \in Nat
  <2>1. Started \in SUBSET Few /\ IsFiniteSet(Started)
    BY ObjectsAssumption, FS_Subset DEF Started
  <2> QED BY <1>5, <2>1, FS_Subset, CountFew
<1>8. n <= MaxStarts
  BY <1>1, <1>2, <1>6, <1>7, ObjectsAssumption
  DEF n, MetricsType, MetricsBounded, Me!MetricsAssumption
<1>9. MetricsBounded'
  BY <1>1, <1>2, <1>5, <1>6, <1>8 DEF n, MetricsType, MetricsBounded
<1>10. ASSUME cleared = 0 PROVE PeakKept'
  <2>1. mine'[c] = n /\ \A d \in Recording : mine'[d] = mine[d]
    BY <1>1, <1>2, <1>5 DEF MetricsType, Recording
  <2>2. \A d \in Recording' : mine'[d] <= highest'
    BY <1>2, <1>3, <1>5, <1>10, <2>1 DEF MetricsType, PeakKept, Recording
  <2>3. metrics'.peak = highest' \/ \E d \in Recording' : mine'[d] = highest'
    BY <1>1, <1>2, <1>3, <1>5, <1>10, <2>1 DEF MetricsType, PeakKept
  <2>4. metrics'.peak = metrics.peak
    BY <1>1 DEF MetricsType
  <2>5. metrics'.peak <= highest'
    BY <1>3, <1>10, <2>4, <1>2 DEF MetricsType, PeakKept
  <2> QED BY <2>2, <2>3, <2>5 DEF PeakKept
<1> QED BY <1>1, <1>4, <1>9, <1>10 DEF PeakKept

LEMMA MetricsLoadPeak ==
    ASSUME MetricsInv, NEW c \in Few, Me!LoadPeak(c)
    PROVE  MetricsInv'
<1> USE DEF MetricsInv
<1>1. /\ mepc[c] = "load"
      /\ seen' = [seen EXCEPT ![c] = metrics.peak]
      /\ mepc' = [mepc EXCEPT ![c] = IF mine[c] <= metrics.peak
                                     THEN "active" ELSE "swap"]
      /\ UNCHANGED <<metrics, starts, mine, highest, snapshot, cleared>>
  BY DEF Me!LoadPeak, Me!Goto
<1>2. MetricsType'
  BY <1>1 DEF MetricsType
<1>3. /\ Recording' = IF mine[c] <= metrics.peak THEN Recording \ {c} ELSE Recording
      /\ Started' = Started /\ Open' = Open /\ InFlight' = InFlight
      /\ c \in Recording
  BY <1>1 DEF MetricsType, Recording, Started, Open, InFlight
<1>4. MetricsBounded'
  BY <1>1, <1>3 DEF MetricsType, MetricsBounded
<1>5. PeakKept'
  BY <1>1, <1>3 DEF MetricsType, PeakKept, Recording
<1> QED BY <1>2, <1>4, <1>5

LEMMA MetricsSwapPeak ==
    ASSUME MetricsInv, NEW c \in Few, Me!SwapPeak(c)
    PROVE  MetricsInv'
<1> USE DEF MetricsInv
<1>1. /\ mepc[c] = "swap"
      /\ UNCHANGED <<starts, mine, seen, highest, snapshot, cleared>>
  BY DEF Me!SwapPeak, Me!Goto
<1>2. CASE metrics.peak = seen[c]
  <2>1. /\ metrics' = [metrics EXCEPT !["peak"] = mine[c]]
        /\ mepc' = [mepc EXCEPT ![c] = "active"]
    BY <1>2 DEF Me!SwapPeak, Me!Swaps, Me!Goto
  <2>2. MetricsType'
    BY <1>1, <2>1 DEF MetricsType
  <2>3. /\ Recording' = Recording \ {c} /\ c \in Recording
        /\ Started' = Started /\ Open' = Open /\ InFlight' = InFlight
    BY <1>1, <2>1 DEF MetricsType, Recording, Started, Open, InFlight
  <2>4. metrics.peak < mine[c] /\ mine[c] \in 0 .. MaxStarts
    BY <1>1, <1>2, ObjectsAssumption DEF MetricsType, MetricsBounded, Me!MetricsAssumption
  <2>5. MetricsBounded'
    BY <1>1, <2>1, <2>3, <2>4 DEF MetricsType, MetricsBounded
  <2>6. PeakKept'
    BY <1>1, <2>1, <2>3, <2>4 DEF MetricsType, PeakKept, Recording
  <2> QED BY <2>2, <2>5, <2>6
<1>3. CASE metrics.peak # seen[c]
  <2>1. metrics' = metrics /\ mepc' = [mepc EXCEPT ![c] = "load"]
    BY <1>3 DEF Me!SwapPeak, Me!Swaps, Me!Goto
  <2>2. /\ Recording' = Recording
        /\ Started' = Started /\ Open' = Open /\ InFlight' = InFlight
    BY <1>1, <2>1 DEF MetricsType, Recording, Started, Open, InFlight
  <2> QED BY <1>1, <2>1, <2>2 DEF MetricsType, MetricsBounded, PeakKept
<1> QED BY <1>2, <1>3

LEMMA MetricsFinish ==
    ASSUME MetricsInv, NEW c \in Few, NEW how \in {"success", "failure"},
           Me!Finish(c, how)
    PROVE  MetricsInv'
<1> USE DEF MetricsInv
<1>1. /\ mepc[c] = "active"
      /\ metrics' = [metrics EXCEPT ![how] = @ + 1]
      /\ mepc' = [mepc EXCEPT ![c] = "ended"]
      /\ UNCHANGED <<starts, mine, seen, highest, snapshot, cleared>>
  BY DEF Me!Finish, Me!Add, Me!Goto
<1>2. MetricsType'
  BY <1>1 DEF MetricsType
<1>3. /\ Recording' = Recording /\ Started' = Started /\ InFlight' = InFlight
      /\ Open' = Open \ {c} /\ c \in Open
  BY <1>1 DEF MetricsType, Recording, Started, Open, InFlight
<1>4. Cardinality(Open') = Cardinality(Open) - 1 /\ Cardinality(Open) \in Nat
  BY <1>3, CountFew DEF Open
<1>5. MetricsBounded'
  BY <1>1, <1>3, <1>4 DEF MetricsType, MetricsBounded
<1>6. PeakKept'
  BY <1>1, <1>3 DEF MetricsType, PeakKept
<1> QED BY <1>2, <1>5, <1>6

LEMMA MetricsLeave ==
    ASSUME MetricsInv, NEW c \in Few, Me!Leave(c)
    PROVE  MetricsInv'
<1> USE DEF MetricsInv
<1>1. /\ mepc[c] = "ended"
      /\ metrics' = [metrics EXCEPT !["inFlight"] = @ + -1]
      /\ mine' = [mine EXCEPT ![c] = 0]
      /\ seen' = [seen EXCEPT ![c] = 0]
      /\ mepc' = [mepc EXCEPT ![c] = "out"]
      /\ UNCHANGED <<starts, highest, snapshot, cleared>>
  BY DEF Me!Leave, Me!Add, Me!Goto
<1>2. MetricsType'
  BY <1>1 DEF MetricsType
<1>3. /\ Recording' = Recording /\ c \notin Recording /\ Open' = Open
      /\ Started' = Started \ {c} /\ c \in Started
      /\ InFlight' = InFlight \ {c} /\ c \in InFlight
  BY <1>1 DEF MetricsType, Recording, Started, Open, InFlight
<1>4. /\ Cardinality(Started') = Cardinality(Started) - 1
      /\ Cardinality(InFlight') = Cardinality(InFlight) - 1
      /\ Cardinality(Started) \in Nat /\ Cardinality(InFlight) \in Nat
  BY <1>3, CountFew DEF Started, InFlight
<1>5. MetricsBounded'
  BY <1>1, <1>3, <1>4, ObjectsAssumption
  DEF MetricsType, MetricsBounded, Me!MetricsAssumption
<1>6. PeakKept'
  BY <1>1, <1>3 DEF MetricsType, PeakKept, Recording
<1> QED BY <1>2, <1>5, <1>6

LEMMA MetricsSnapshot ==
    ASSUME MetricsInv, Me!Snapshot
    PROVE  MetricsInv'
<1> USE DEF MetricsInv
<1>1. /\ Len(snapshot) < 5
      /\ snapshot' = Append(snapshot, metrics[Me!Counters[Len(snapshot) + 1]])
      /\ UNCHANGED <<metrics, starts, mepc, mine, seen, cleared, highest>>
  BY CounterFacts DEF Me!Snapshot
<1>2. Len(snapshot) + 1 \in 1 .. 5
  BY <1>1, LenProperties DEF MetricsType
<1>3. metrics[Me!Counters[Len(snapshot) + 1]] \in Int
  BY <1>2, CounterFacts DEF MetricsType
<1>4. snapshot' \in Seq(Int)
  BY <1>1, <1>3, AppendProperties DEF MetricsType
<1>5. Recording' = Recording /\ Started' = Started /\ Open' = Open /\ InFlight' = InFlight
  BY <1>1 DEF Recording, Started, Open, InFlight
<1> QED BY <1>1, <1>4, <1>5 DEF MetricsType, MetricsBounded, PeakKept

LEMMA MetricsReset ==
    ASSUME MetricsInv, Me!Reset
    PROVE  MetricsInv'
<1> USE DEF MetricsInv
<1>1. /\ cleared < 5 /\ cleared' = cleared + 1
      /\ metrics' = [metrics EXCEPT ![Me!Counters[cleared']] = 0]
      /\ UNCHANGED <<starts, mepc, mine, seen, snapshot, highest>>
  BY CounterFacts DEF Me!Reset
<1>2. cleared' \in 1 .. 5
  BY <1>1 DEF MetricsType
<1>3. PICK n \in {"requests", "success", "failure", "inFlight", "peak"} :
          metrics' = [metrics EXCEPT ![n] = 0]
  BY <1>1, <1>2, CounterFacts
<1>4. MetricsType'
  <2>1. metrics' \in [{"requests", "success", "failure", "inFlight", "peak"} -> Int]
    BY <1>3 DEF MetricsType
  <2> QED BY <1>1, <1>2, <2>1 DEF MetricsType
<1>5. Recording' = Recording /\ Started' = Started /\ Open' = Open /\ InFlight' = InFlight
  BY <1>1 DEF Recording, Started, Open, InFlight
<1>6. Cardinality(Open) \in Nat /\ Cardinality(InFlight) \in Nat
  BY CountFew DEF Open, InFlight
<1>7. MetricsBounded'
  BY <1>1, <1>3, <1>5, <1>6, ObjectsAssumption
  DEF MetricsType, MetricsBounded, Me!MetricsAssumption
<1>8. PeakKept'
  BY <1>2 DEF PeakKept
<1> QED BY <1>4, <1>7, <1>8

LEMMA MetricsNext == MetricsInv /\ [Me!Next]_recorder => MetricsInv'
<1> SUFFICES ASSUME MetricsInv, [Me!Next]_recorder PROVE MetricsInv'
  OBVIOUS
<1>1. ASSUME NEW c \in Few,
             \/ Me!CountRequest(c) \/ Me!Record(c) \/ Me!Leave(c)
             \/ \E how \in {"success", "failure"} : Me!Finish(c, how)
      PROVE  MetricsInv'
  BY <1>1, MetricsCountRequest, MetricsCountInFlight, MetricsLoadPeak,
     MetricsSwapPeak, MetricsFinish, MetricsLeave DEF Me!Record
<1>2. CASE UNCHANGED recorder
  BY <1>2 DEF recorder, MetricsInv, MetricsType, MetricsBounded, PeakKept,
              Recording, Started, Open, InFlight
<1> QED BY <1>1, <1>2, MetricsSnapshot, MetricsReset DEF Me!Next

LEMMA MetricsInvariance == ObjectsSpec => []MetricsInv
BY Projection, MetricsInit, MetricsNext, PTL

(* recordPeak: however the loops of several calls interleave, the peak is  *)
(* the highest number of active requests as soon as nobody records one,    *)
(* for any number of callers and requests.                                 *)
THEOREM PeakIsTheHighest == ObjectsSpec => []PeakIsHighest
<1>1. MetricsInv => PeakIsHighest
  BY DEF MetricsInv, MetricsType, PeakKept, Recording, PeakIsHighest, Me!PeakIsHighest
<1> QED BY <1>1, MetricsInvariance, PTL

LEMMA MetricsTypes == ObjectsSpec => []Me!TypeOK
<1>1. ASSUME MetricsInv PROVE Me!TypeOK
  <2> USE <1>1 DEF MetricsInv
  <2>1. Cardinality(Open) \in Nat /\ MaxStarts \in Nat
    BY CountFew, ObjectsAssumption DEF Open, Me!MetricsAssumption
  <2>2. \A n \in {"requests", "success", "failure", "peak"} : metrics[n] \in 0 .. MaxStarts
    BY <2>1 DEF MetricsType, MetricsBounded
  <2>3. DOMAIN metrics = {"requests", "success", "failure", "inFlight", "peak"}
    BY DEF MetricsType
  <2> QED BY <2>2, <2>3, CounterFacts DEF MetricsType, Me!TypeOK
<1> QED BY <1>1, MetricsInvariance, PTL

-----------------------------------------------------------------------------
(* lazyinit.  Whoever is inside load has the once to itself, nobody reads  *)
(* before the once is done, and by then value and err are those of load.   *)

Outcomes == {<<"loaded", "nil">>, <<"zero", "failed">>}
Loading == {c \in Many : lopc[c] \in {"load", "value", "err"}}

(* What a Get that reads now returns. *)
Stored == IF loaded = <<>> THEN <<"zero", "nil">> ELSE loaded

LazyType ==
    /\ once \in {"new", "running", "done"}
    /\ value \in {"zero", "loaded"} /\ err \in {"nil", "failed"}
    /\ lopc \in [Many -> {"out", "once", "load", "value", "err", "read"}]
    /\ loaded \in Outcomes \union {<<>>}
    /\ loGot \in [Many -> Outcomes \union {<<>>, <<"zero", "nil">>}]
    /\ \A c, d \in Loading : c = d

OnceOrder ==
    /\ Loading # {} => once = "running"
    /\ once # "done" => \A c \in Many : lopc[c] # "read" /\ loGot[c] = <<>>
    /\ once = "done" => <<value, err>> = Stored
    /\ once = "new" => value = "zero" /\ err = "nil" /\ loaded = <<>>
    /\ \A c \in Many :
          /\ lopc[c] = "load" => value = "zero" /\ err = "nil" /\ loaded = <<>>
          /\ lopc[c] = "value" => value = "zero" /\ err = "nil" /\ loaded # <<>>
          /\ lopc[c] = "err" => value = loaded[1] /\ err = "nil" /\ loaded # <<>>

LazyInv ==
    /\ LazyType
    /\ OnceOrder
    /\ \A c \in Many : loGot[c] # <<>> => loGot[c] = Stored

LEMMA LazyStarts == Lo!Init => LazyInv
BY DEF Lo!Init, LazyInv, LazyType, OnceOrder, Loading, Stored

LEMMA LazyEnter ==
    ASSUME LazyInv, NEW c \in Many, Lo!Get(c) \/ Lo!EnterOnce(c) \/ Lo!PassOnce(c)
    PROVE  LazyInv'
<1> USE DEF LazyInv, LazyType
<1>1. CASE Lo!Get(c)
  <2>1. Loading' = Loading /\ Stored' = Stored
    BY <1>1 DEF Lo!Get, Lo!Goto, Loading, Stored
  <2> QED BY <1>1, <2>1 DEF Lo!Get, Lo!Goto, OnceOrder
<1>2. CASE Lo!EnterOnce(c)
  <2>1. Loading' = {c} /\ Stored' = Stored /\ Loading = {}
    BY <1>2 DEF Lo!EnterOnce, Lo!Goto, Loading, Stored, OnceOrder
  <2> QED BY <1>2, <2>1 DEF Lo!EnterOnce, Lo!Goto, OnceOrder
<1>3. CASE Lo!PassOnce(c)
  <2>1. Loading' = Loading /\ Stored' = Stored
    BY <1>3 DEF Lo!PassOnce, Lo!Goto, Loading, Stored
  <2> QED BY <1>3, <2>1 DEF Lo!PassOnce, Lo!OnceReturns, Lo!Goto, OnceOrder
<1> QED BY <1>1, <1>2, <1>3

LEMMA LazyLoad ==
    ASSUME LazyInv, NEW c \in Many, Lo!Load(c)
    PROVE  LazyInv'
<1> USE DEF LazyInv, LazyType
<1>1. /\ c \in Loading /\ \A d \in Many \ {c} : d \notin Loading
      /\ once = "running"
      /\ \A d \in Many : loGot[d] = <<>> /\ lopc[d] # "read"
  BY DEF Lo!Load, Lo!LoadReturns, Lo!LoadPanics, Lo!StoreValue, Lo!StoreErr,
         Loading, OnceOrder
<1>2. CASE Lo!LoadReturns(c)
  <2>1. Loading' = Loading /\ loaded' \in Outcomes /\ loaded' # <<>>
    BY <1>2 DEF Lo!LoadReturns, Lo!Goto, Loading, Outcomes
  <2> QED BY <1>1, <1>2, <2>1 DEF Lo!LoadReturns, Lo!Goto, OnceOrder, Loading
<1>3. CASE Lo!LoadPanics(c)
  <2>1. Loading' = {} /\ Stored' = <<"zero", "nil">>
    BY <1>1, <1>3 DEF Lo!LoadPanics, Lo!Goto, Loading, Stored, OnceOrder
  <2> QED BY <1>1, <1>3, <2>1 DEF Lo!LoadPanics, Lo!Goto, OnceOrder, Loading
<1>4. CASE Lo!StoreValue(c)
  <2>1. Loading' = Loading
    BY <1>4 DEF Lo!StoreValue, Lo!Goto, Loading
  <2>2. value' \in {"zero", "loaded"}
    BY <1>4 DEF Lo!StoreValue, Outcomes, OnceOrder
  <2> QED BY <1>1, <1>4, <2>1, <2>2 DEF Lo!StoreValue, Lo!Goto, OnceOrder, Loading
<1>5. CASE Lo!StoreErr(c)
  <2>1. Loading' = {}
    BY <1>1, <1>5 DEF Lo!StoreErr, Lo!Goto, Loading
  <2>2. <<value', err'>> = loaded /\ Stored' = loaded
    BY <1>5 DEF Lo!StoreErr, Outcomes, OnceOrder, Stored
  <2>3. err' \in {"nil", "failed"}
    BY <1>5 DEF Lo!StoreErr, Outcomes, OnceOrder
  <2> QED BY <1>1, <1>5, <2>1, <2>2, <2>3 DEF Lo!StoreErr, Lo!Goto, OnceOrder, Loading
<1> QED BY <1>2, <1>3, <1>4, <1>5 DEF Lo!Load

LEMMA LazyRead ==
    ASSUME LazyInv, NEW c \in Many, Lo!Read(c)
    PROVE  LazyInv'
<1> USE DEF LazyInv, LazyType
<1>1. Loading' = Loading /\ Stored' = Stored /\ once = "done"
  BY DEF Lo!Read, Lo!Goto, Loading, Stored, OnceOrder
<1>2. loGot' = [loGot EXCEPT ![c] = Stored]
  BY <1>1 DEF Lo!Read, OnceOrder
<1>3. Stored \in Outcomes \union {<<"zero", "nil">>}
  BY DEF Stored
<1> QED BY <1>1, <1>2, <1>3 DEF Lo!Read, Lo!Goto, OnceOrder

LEMMA LazyNext == LazyInv /\ [Lo!Next]_lazy => LazyInv'
<1> SUFFICES ASSUME LazyInv, [Lo!Next]_lazy PROVE LazyInv'
  OBVIOUS
<1>1. CASE UNCHANGED lazy
  BY <1>1 DEF lazy, LazyInv, LazyType, OnceOrder, Loading, Stored
<1> QED BY <1>1, LazyEnter, LazyLoad, LazyRead DEF Lo!Next, Lo!Resume

LEMMA LazyInvariance == ObjectsSpec => []LazyInv
BY Projection, LazyStarts, LazyNext, PTL

(* Get: whatever caller runs load and whenever the others come, all of     *)
(* them return its value together with its error.                          *)
THEOREM GetsAgree == ObjectsSpec => []GetReturnsLoaded
<1>1. LazyInv => GetReturnsLoaded
  BY DEF LazyInv, GetReturnsLoaded, Lo!GetReturnsLoaded, Stored
<1> QED BY <1>1, LazyInvariance, PTL

-----------------------------------------------------------------------------
(* semaphore.  The channel counts the holders: each step moves both.       *)

Holding == {c \in Many : sepc[c] = "holding"}

SemaphoreInv ==
    /\ sepc \in [Many -> {"out", "waiting", "holding"}]
    /\ inUse = Cardinality(Holding)
    /\ inUse <= Limit

LEMMA CountMany ==
    ASSUME NEW S \in SUBSET Many
    PROVE  /\ Cardinality(S) \in Nat
           /\ \A c \in Many \ S : Cardinality(S \union {c}) = Cardinality(S) + 1
           /\ \A c \in S : Cardinality(S \ {c}) = Cardinality(S) - 1
<1>1. IsFiniteSet(S)
  BY ObjectsAssumption, FS_Subset
<1> QED BY <1>1, FS_CardinalityType, FS_AddElement, FS_RemoveElement

LEMMA SemaphoreInit == Se!Init => SemaphoreInv
<1> SUFFICES ASSUME Se!Init PROVE SemaphoreInv
  OBVIOUS
<1>1. Holding = {}
  BY DEF Se!Init, Holding
<1> QED BY <1>1, FS_EmptySet, ObjectsAssumption
        DEF Se!Init, SemaphoreInv, Se!SemaphoreAssumption

LEMMA SemaphoreNext == SemaphoreInv /\ [Se!Next]_semaphore => SemaphoreInv'
<1> SUFFICES ASSUME SemaphoreInv, [Se!Next]_semaphore PROVE SemaphoreInv'
  OBVIOUS
<1> USE DEF SemaphoreInv, Se!Goto
<1>0. Limit \in Nat /\ Cardinality(Holding) \in Nat
  BY CountMany, ObjectsAssumption DEF Se!SemaphoreAssumption, Holding
<1>1. ASSUME NEW c \in Many, Se!Acquire(c) \/ Se!AcquireCanceled(c)
      PROVE  SemaphoreInv'
  <2>1. Holding' = Holding
    BY <1>1 DEF Se!Acquire, Se!AcquireCanceled, Holding
  <2> QED BY <1>1, <2>1 DEF Se!Acquire, Se!AcquireCanceled
<1>2. ASSUME NEW c \in Many, Se!Acquired(c) \/ Se!TryAcquire(c)
      PROVE  SemaphoreInv'
  <2>1. Holding' = Holding \union {c} /\ c \notin Holding
    BY <1>2 DEF Se!Acquired, Se!TryAcquire, Holding
  <2>2. Cardinality(Holding') = Cardinality(Holding) + 1
    BY <2>1, CountMany DEF Holding
  <2> QED BY <1>0, <1>2, <2>2 DEF Se!Acquired, Se!TryAcquire
<1>3. ASSUME NEW c \in Many, Se!Release(c)
      PROVE  SemaphoreInv'
  <2>1. Holding' = Holding \ {c} /\ c \in Holding
    BY <1>3 DEF Se!Release, Holding
  <2>2. Cardinality(Holding') = Cardinality(Holding) - 1
    BY <2>1, CountMany DEF Holding
  <2> QED BY <1>0, <1>3, <2>2 DEF Se!Release
<1>4. CASE UNCHANGED semaphore
  BY <1>4 DEF semaphore, Holding
<1> QED BY <1>1, <1>2, <1>3, <1>4 DEF Se!Next

LEMMA SemaphoreInvariance == ObjectsSpec => []SemaphoreInv
BY Projection, SemaphoreInit, SemaphoreNext, PTL

-----------------------------------------------------------------------------
(* ratelimiter.  The permits add up: before Stop exactly, and afterwards   *)
(* each call under way loses at most the one it has taken.                 *)

(* The instance of RateLimiter has its own name for Cardinality. *)
LEMMA CountCallers ==
    ASSUME NEW S \in SUBSET Few
    PROVE  /\ Li!Cardinality(S) \in Nat
           /\ \A c \in Few \ S : Li!Cardinality(S \union {c}) = Li!Cardinality(S) + 1
           /\ \A c \in S : Li!Cardinality(S \ {c}) = Li!Cardinality(S) - 1
<1>1. \A T : Li!Cardinality(T) = Cardinality(T)
  BY DEF Li!Cardinality, Cardinality
<1> QED BY <1>1, CountFew

Flags ==
    /\ done \in BOOLEAN /\ stopped \in BOOLEAN /\ stop \in BOOLEAN
    /\ tick \in BOOLEAN /\ refilling \in BOOLEAN

LimiterInv ==
    /\ Flags
    /\ Burst \in Nat \ {0}
    /\ tokens \in 0 .. Burst
    /\ ticks \in 0 .. MaxTicks
    /\ lipc \in [Few -> {"out", "waiting", "trying", "checking", "allowed"}]
    /\ granted \in Nat
    /\ overflow \in Nat
    /\ overflow + Li!Unreceived <= ticks
    /\ Li!PermitsConserved

LEMMA LimiterInit == Li!Init => LimiterInv
<1> SUFFICES ASSUME Li!Init PROVE LimiterInv
  OBVIOUS
<1>1. Li!InHand = {} /\ Li!Unreceived = 0
  BY DEF Li!Init, Li!InHand, Li!Unreceived
<1>2. Li!Cardinality(Li!InHand) = 0
  <2>1. Li!Cardinality({}) = Cardinality({})
    BY DEF Li!Cardinality, Cardinality
  <2> QED BY <1>1, <2>1, FS_EmptySet
<1>3. Burst \in Nat \ {0} /\ MaxTicks \in Nat
  BY ObjectsAssumption DEF Li!LimiterAssumption
<1>4. Flags
  BY DEF Li!Init, Flags
<1>5. Li!PermitsConserved
  BY <1>1, <1>2, <1>3 DEF Li!Init, Li!PermitsConserved, Li!Lost
<1> QED BY <1>1, <1>3, <1>4, <1>5 DEF Li!Init, LimiterInv

LEMMA LimiterCalls ==
    ASSUME LimiterInv, NEW c \in Few,
           \/ \E how \in {"waiting", "trying"} : Li!Call(c, how)
           \/ Li!Resume(c) \/ Li!WaitCanceled(c)
    PROVE  LimiterInv'
<1> USE DEF LimiterInv, Li!Goto
<1> DEFINE InHand == Li!InHand
           Ended == Li!Ended
           Count(S) == Li!Cardinality(S)
<1>0. Count(InHand) \in Nat /\ Count(Ended) \in Nat /\ Count(Ended') \in Nat
  BY CountCallers DEF Li!InHand, Li!Ended
<1>1. /\ UNCHANGED <<done, stopped, stop, tick, ticks, refilling, overflow>>
      /\ Flags' /\ Li!Unreceived' = Li!Unreceived /\ Li!Unreceived \in Nat
  <2>1. UNCHANGED <<done, stopped, stop, tick, ticks, refilling, overflow>>
    BY DEF Li!Call, Li!Resume, Li!TakePermit, Li!NoPermit, Li!LookAgain,
           Li!ReturnAllowed, Li!WaitStopped, Li!WaitCanceled
  <2> QED BY <2>1 DEF Flags, Li!Unreceived
<1>2. CASE \E how \in {"waiting", "trying"} : Li!Call(c, how)
  <2>1. InHand' = InHand /\ UNCHANGED <<tokens, granted>> /\ ~done
    BY <1>2 DEF Li!Call, Li!InHand
  <2>2. Li!PermitsConserved'
    BY <1>1, <2>1 DEF Li!PermitsConserved, Li!Lost
  <2> QED BY <1>1, <1>2, <2>1, <2>2 DEF Li!Call
<1>3. CASE Li!NoPermit(c) \/ Li!WaitStopped(c) \/ Li!WaitCanceled(c)
  <2>1. /\ InHand' = InHand /\ UNCHANGED <<tokens, granted>>
        /\ lipc' = [lipc EXCEPT ![c] = "out"]
    BY <1>3 DEF Li!NoPermit, Li!WaitStopped, Li!WaitCanceled, Li!InHand
  <2>2. Ended' = Ended \union {c} /\ c \notin Ended
    BY <1>3 DEF Li!NoPermit, Li!WaitStopped, Li!WaitCanceled, Li!Ended
  <2>3. Count(Ended') = Count(Ended) + 1
    BY <2>2, CountCallers DEF Li!Ended
  <2>4. Li!PermitsConserved'
    BY <1>0, <1>1, <2>1, <2>3 DEF Li!PermitsConserved, Li!Lost
  <2> QED BY <1>1, <2>1, <2>4
<1>4. CASE Li!TakePermit(c)
  <2>1. /\ InHand' = InHand \union {c} /\ c \notin InHand
        /\ Ended' = Ended
    BY <1>4 DEF Li!TakePermit, Li!InHand, Li!Ended
  <2>2. Count(InHand') = Count(InHand) + 1
    BY <2>1, CountCallers DEF Li!InHand
  <2>3. tokens' = tokens - 1 /\ tokens > 0 /\ granted' = granted
    BY <1>4 DEF Li!TakePermit
  <2>4. Li!PermitsConserved'
    BY <1>0, <1>1, <2>1, <2>2, <2>3 DEF Li!PermitsConserved, Li!Lost
  <2> QED BY <1>1, <1>4, <2>3, <2>4 DEF Li!TakePermit
<1>5. CASE Li!LookAgain(c) /\ ~done
  <2>1. InHand' = InHand /\ UNCHANGED <<tokens, granted>>
    BY <1>5 DEF Li!LookAgain, Li!InHand
  <2>2. Li!PermitsConserved'
    BY <1>1, <1>5, <2>1 DEF Li!PermitsConserved, Li!Lost
  <2> QED BY <1>1, <1>5, <2>1, <2>2 DEF Li!LookAgain
<1>6. CASE (Li!LookAgain(c) /\ done) \/ Li!ReturnAllowed(c)
  <2>1. /\ lipc' = [lipc EXCEPT ![c] = "out"] /\ lipc[c] \in {"checking", "allowed"}
        /\ tokens' = tokens
    BY <1>6 DEF Li!LookAgain, Li!ReturnAllowed
  <2>2. /\ InHand' = InHand \ {c} /\ c \in InHand
        /\ Ended' = Ended \union {c} /\ c \notin Ended
    BY <2>1 DEF Li!InHand, Li!Ended
  <2>3. Count(InHand') = Count(InHand) - 1 /\ Count(Ended') = Count(Ended) + 1
    BY <2>2, CountCallers DEF Li!InHand, Li!Ended
  <2>4. /\ granted' \in {granted, granted + 1}
        /\ ~done => granted' = granted + 1
    BY <1>6 DEF Li!LookAgain, Li!ReturnAllowed
  <2>5. Li!PermitsConserved'
    BY <1>0, <1>1, <2>1, <2>3, <2>4 DEF Li!PermitsConserved, Li!Lost
  <2> QED BY <1>1, <2>1, <2>4, <2>5
<1> QED BY <1>2, <1>3, <1>4, <1>5, <1>6 DEF Li!Resume

LEMMA LimiterTicks ==
    ASSUME LimiterInv, Li!Stop \/ Li!Tick \/ Li!Refill \/ Li!RefillStops
    PROVE  LimiterInv'
<1> USE DEF LimiterInv
<1> DEFINE InHand == Li!InHand
           Ended == Li!Ended
           Count(S) == Li!Cardinality(S)
<1>0. Count(InHand) \in Nat /\ Count(Ended) \in Nat
  BY CountCallers DEF Li!InHand, Li!Ended
<1>1. lipc' = lipc /\ InHand' = InHand /\ Ended' = Ended /\ granted' = granted
  BY DEF Li!Stop, Li!SetDone, Li!CloseStopped, Li!CloseStop, Li!Tick,
         Li!Refill, Li!RefillStops, Li!InHand, Li!Ended
<1>2. Flags'
  BY Zenon DEF Li!Stop, Li!SetDone, Li!CloseStopped, Li!CloseStop, Li!Tick,
               Li!Refill, Li!RefillStops, Flags
<1>3. CASE Li!Stop \/ Li!RefillStops
  <2>1. /\ UNCHANGED <<tokens, tick, ticks, overflow>>
        /\ Li!Unreceived' = Li!Unreceived
        /\ done' = done \/ ~done
    BY <1>3 DEF Li!Stop, Li!SetDone, Li!CloseStopped, Li!CloseStop,
                Li!RefillStops, Li!Unreceived
  <2>2. Li!PermitsConserved'
    BY <1>0, <1>1, <2>1 DEF Li!PermitsConserved, Li!Lost
  <2> QED BY <1>1, <1>2, <2>1, <2>2
<1>4. CASE Li!Tick
  <2>1. /\ Li!Unreceived = 0 /\ Li!Unreceived' = 1
        /\ ticks' = ticks + 1 /\ ticks' \in 0 .. MaxTicks
        /\ UNCHANGED <<tokens, overflow, done>>
    BY <1>4, ObjectsAssumption DEF Li!Tick, Li!Unreceived, Li!LimiterAssumption
  <2>2. Li!PermitsConserved'
    BY <1>0, <1>1, <2>1 DEF Li!PermitsConserved, Li!Lost
  <2> QED BY <1>1, <1>2, <2>1, <2>2
<1>5. CASE Li!Refill
  <2>1. Li!Unreceived = 1 /\ Li!Unreceived' = 0 /\ ticks' = ticks /\ done' = done
    BY <1>5 DEF Li!Refill, Li!Unreceived
  <2>2. \/ tokens < Burst /\ tokens' = tokens + 1 /\ overflow' = overflow
        \/ tokens = Burst /\ tokens' = tokens /\ overflow' = overflow + 1
    <3>1. Li!Min({tokens + 1, Burst}) =
              IF tokens + 1 <= Burst THEN tokens + 1 ELSE Burst
      BY DEF Li!Min
    <3> QED BY <1>5, <3>1 DEF Li!Refill, Li!Refilled
  <2>3. Li!PermitsConserved'
    BY <1>0, <1>1, <2>1, <2>2 DEF Li!PermitsConserved, Li!Lost
  <2> QED BY <1>1, <1>2, <2>1, <2>2, <2>3
<1> QED BY <1>3, <1>4, <1>5

LEMMA LimiterNext == LimiterInv /\ [Li!Next]_limiter => LimiterInv'
<1> SUFFICES ASSUME LimiterInv, [Li!Next]_limiter PROVE LimiterInv'
  OBVIOUS
<1>1. CASE UNCHANGED limiter
  BY <1>1 DEF limiter, LimiterInv, Flags, Li!Unreceived, Li!PermitsConserved,
              Li!Lost, Li!InHand, Li!Ended
<1> QED BY <1>1, LimiterCalls, LimiterTicks DEF Li!Next

LEMMA LimiterInvariance == ObjectsSpec => []LimiterInv
BY Projection, LimiterInit, LimiterNext, PTL

LEMMA LimiterTypes == ObjectsSpec => []Li!TypeOK
<1>1. ASSUME LimiterInv PROVE Li!TypeOK
  <2>1. /\ Li!Cardinality(Li!InHand) \in Nat /\ Li!Cardinality(Li!Ended) \in Nat
        /\ Li!Unreceived \in Nat
    BY CountCallers DEF Li!InHand, Li!Ended, Li!Unreceived
  <2>2. granted <= Burst + ticks
    BY <1>1, <2>1 DEF LimiterInv, Li!PermitsConserved, Li!Lost
  <2> QED BY <1>1, <2>1, <2>2 DEF LimiterInv, Flags, Li!TypeOK
<1> QED BY <1>1, LimiterInvariance, PTL

(* Whenever contexts end, TryAllow finds no permit or Stop cuts in: every  *)
(* permit of the burst and the ticks is in the channel, with a caller or   *)
(* granted, except those that calls under way at Stop give up, one each.   *)
THEOREM PermitsAddUp == ObjectsSpec => []PermitsConserved
<1>1. LimiterInv => PermitsConserved
  BY DEF LimiterInv, PermitsConserved
<1> QED BY <1>1, LimiterInvariance, PTL

-----------------------------------------------------------------------------
(* bankaccount.  A transfer between its two changes holds both mutexes, so *)
(* what it has found, that the sum fits, still holds when it adds it; and  *)
(* whoever holds no mutex sees every balance settled.                      *)

BankType ==
    /\ balance \in [Accts -> 0 .. MaxInt]
    /\ holder \in [Accts -> Few \union {Nobody}]
    /\ bkpc \in [Few -> {"out", "first", "second", "debit", "credit",
                         "unlock1", "unlock2"}]
    /\ from \in [Few -> Int] /\ to \in [Few -> Int] /\ amount \in [Few -> Int]
    /\ \A t \in Few : bkpc[t] # "out" =>
          from[t] \in Accts /\ to[t] \in Accts /\ from[t] # to[t] /\ amount[t] \in Amounts

MutexesHeld ==
    \A t \in Few :
        /\ bkpc[t] \in {"second", "debit", "credit", "unlock1"} =>
              holder[Bk!Mutexes(t)[1]] = t
        /\ bkpc[t] \in {"debit", "credit", "unlock1", "unlock2"} =>
              holder[Bk!Mutexes(t)[2]] = t

CreditFits ==
    \A t \in Few : bkpc[t] = "credit" => balance[to[t]] + amount[t] <= MaxInt

BankInv == BankType /\ MutexesHeld /\ CreditFits

AllSettled == [a \in Accts |-> Bk!Settled(a)]

LEMMA BankConstants ==
    /\ MaxInt \in Nat /\ Amounts \subseteq 1 .. MaxInt
    /\ Accts \subseteq Nat \ {0} /\ Opening \in 0 .. MaxInt
    /\ Nobody \notin Few
BY ObjectsAssumption DEF Bk!BankAssumption

LEMMA ModSmall ==
    ASSUME NEW a \in Nat, NEW b \in Nat \ {0}, a < b
    PROVE  a % b = a
OBVIOUS

(* An integer that fits is left as it is. *)
LEMMA NoWrap ==
    ASSUME NEW x \in Int, 0 <= x, x <= MaxInt
    PROVE  Bk!Int64(x) = x /\ In!Wrap(x) = x
<1>1. /\ x + MaxInt + 1 \in Nat /\ 2 * (MaxInt + 1) \in Nat \ {0}
      /\ x + MaxInt + 1 < 2 * (MaxInt + 1)
  BY BankConstants
<1>2. (x + MaxInt + 1) % (2 * (MaxInt + 1)) = x + MaxInt + 1
  BY <1>1, ModSmall
<1> QED BY <1>1, <1>2, BankConstants DEF Bk!Int64, In!Wrap

(* The overflow check of the code is the one that was meant. *)
LEMMA OverflowCheck ==
    ASSUME NEW x \in 0 .. MaxInt, NEW m \in 0 .. MaxInt
    PROVE  Bk!wouldOverflow(x, m) <=> x + m > MaxInt
<1>1. MaxInt - x \in Int /\ 0 <= MaxInt - x /\ MaxInt - x <= MaxInt
  BY BankConstants
<1>2. Bk!Int64(MaxInt - x) = MaxInt - x
  BY <1>1, NoWrap
<1> QED BY <1>2, BankConstants DEF Bk!wouldOverflow

LEMMA MutexesAre ==
    ASSUME BankType, NEW t \in Few, bkpc[t] # "out"
    PROVE  /\ Bk!Mutexes(t)[1] \in Accts /\ Bk!Mutexes(t)[2] \in Accts
           /\ Bk!Mutexes(t)[1] # Bk!Mutexes(t)[2]
           /\ {Bk!Mutexes(t)[1], Bk!Mutexes(t)[2]} = {from[t], to[t]}
BY DEF BankType, Bk!Mutexes, Bk!lockOrder

(* Between the checks and the unlocking a transfer holds both accounts.    *)
LEMMA BothHeld ==
    ASSUME BankInv, NEW t \in Few, bkpc[t] \in {"debit", "credit"}
    PROVE  holder[from[t]] = t /\ holder[to[t]] = t
<1>1. holder[Bk!Mutexes(t)[1]] = t /\ holder[Bk!Mutexes(t)[2]] = t
  BY DEF BankInv, MutexesHeld
<1> QED BY <1>1, MutexesAre DEF BankInv

LEMMA BankInit == Bk!Init => BankInv /\ Bk!Bank!Init
<1> SUFFICES ASSUME Bk!Init PROVE BankInv /\ Bk!Bank!Init
  OBVIOUS
<1>1. BankInv
  BY BankConstants DEF Bk!Init, BankInv, BankType, MutexesHeld, CreditFits
<1>2. \A a \in Accts : Bk!Settled(a) = Opening
  BY DEF Bk!Init, Bk!Settled
<1> QED BY <1>1, <1>2, BankConstants DEF Bk!Bank!Init

LEMMA BankDeposit ==
    ASSUME BankInv, NEW a \in Accts, NEW m \in Amounts, Bk!Deposit(a, m)
    PROVE  BankInv' /\ Bk!Bank!Next
<1> USE DEF BankInv
<1>1. holder[a] = Nobody /\ UNCHANGED <<holder, bkpc, from, to, amount>>
  BY DEF Bk!Deposit
<1>2. balance[a] \in 0 .. MaxInt /\ m \in 1 .. MaxInt
  BY BankConstants DEF BankType
<1>3. balance[a] + m <= MaxInt
  <2>1. ~Bk!wouldOverflow(balance[a], m) /\ m \in 0 .. MaxInt
    BY <1>2 DEF Bk!Deposit
  <2> QED BY <1>2, <2>1, OverflowCheck, BankConstants
<1>4. balance' = [balance EXCEPT ![a] = balance[a] + m]
  <2>1. Bk!Int64(balance[a] + m) = balance[a] + m
    BY <1>2, <1>3, NoWrap
  <2> QED BY <2>1 DEF Bk!Deposit
<1>5. BankType' /\ MutexesHeld'
  BY <1>1, <1>2, <1>3, <1>4 DEF BankType, MutexesHeld, Bk!Mutexes
<1>6. CreditFits'
  <2>1. ASSUME NEW t \in Few, bkpc[t] = "credit" PROVE to[t] # a
    BY <1>1, <2>1, BothHeld, BankConstants
  <2> QED BY <1>1, <1>4, <2>1 DEF BankType, CreditFits
<1>7. AllSettled' = [AllSettled EXCEPT ![a] = @ + m] /\ AllSettled[a] = balance[a]
  BY <1>1, <1>2, <1>4 DEF BankType, AllSettled, Bk!Settled
<1>8. Bk!Bank!Deposit(a, m)
  BY <1>3, <1>7 DEF Bk!Bank!Deposit, AllSettled
<1> QED BY <1>5, <1>6, <1>8 DEF Bk!Bank!Next

LEMMA BankWithdraw ==
    ASSUME BankInv, NEW a \in Accts, NEW m \in Amounts, Bk!Withdraw(a, m)
    PROVE  BankInv' /\ Bk!Bank!Next
<1> USE DEF BankInv
<1>1. /\ holder[a] = Nobody /\ balance[a] >= m
      /\ UNCHANGED <<holder, bkpc, from, to, amount>>
  BY DEF Bk!Withdraw
<1>2. balance[a] \in 0 .. MaxInt /\ m \in 1 .. MaxInt
  BY BankConstants DEF BankType
<1>3. balance' = [balance EXCEPT ![a] = balance[a] - m]
  <2>1. /\ balance[a] - m \in Int /\ 0 <= balance[a] - m
        /\ balance[a] - m <= MaxInt
    BY <1>1, <1>2, BankConstants
  <2>2. Bk!Int64(balance[a] - m) = balance[a] - m
    BY <2>1, NoWrap
  <2> QED BY <2>2 DEF Bk!Withdraw
<1>4. BankType' /\ MutexesHeld'
  <2>1. balance[a] - m \in 0 .. MaxInt
    BY <1>1, <1>2, BankConstants
  <2> QED BY <1>1, <1>3, <2>1 DEF BankType, MutexesHeld, Bk!Mutexes
<1>5. CreditFits'
  <2>1. ASSUME NEW t \in Few, bkpc[t] = "credit" PROVE to[t] # a
    BY <1>1, <2>1, BothHeld, BankConstants
  <2> QED BY <1>1, <1>3, <2>1 DEF BankType, CreditFits
<1>6. AllSettled' = [AllSettled EXCEPT ![a] = @ - m] /\ AllSettled[a] = balance[a]
  BY <1>1, <1>2, <1>3 DEF BankType, AllSettled, Bk!Settled
<1>7. Bk!Bank!Withdraw(a, m)
  BY <1>1, <1>6 DEF Bk!Bank!Withdraw, AllSettled
<1> QED BY <1>4, <1>5, <1>7 DEF Bk!Bank!Next

(* A step of a transfer that changes no balance and leaves credit to others. *)
LEMMA BankSettled ==
    ASSUME BankType, NEW t \in Few, NEW label \in {"first", "second", "debit", "unlock1",
                                     "unlock2", "out"},
           bkpc[t] # "credit",
           bkpc' = [bkpc EXCEPT ![t] = label],
           balance' = balance,
           \A d \in Few \ {t} : from'[d] = from[d] /\ amount'[d] = amount[d],
           \A a \in Accts : holder'[a] = holder[a] \/ {holder[a], holder'[a]} \subseteq {t, Nobody}
    PROVE  AllSettled' = AllSettled
<1> SUFFICES ASSUME NEW a \in Accts PROVE Bk!Settled(a)' = Bk!Settled(a)
  BY DEF AllSettled
<1>1. CASE holder'[a] = holder[a] /\ holder[a] # t
  BY <1>1 DEF BankType, Bk!Settled
<1>2. CASE {holder[a], holder'[a]} \subseteq {t, Nobody}
  BY <1>2, BankConstants DEF BankType, Bk!Settled
<1> QED BY <1>1, <1>2, BankConstants

LEMMA BankBegin ==
    ASSUME BankInv, NEW t \in Few, NEW a \in Accts, NEW b \in Accts,
           NEW m \in Amounts, Bk!Begin(t, a, b, m)
    PROVE  BankInv' /\ AllSettled' = AllSettled
<1> USE DEF BankInv
<1>1. /\ bkpc[t] = "out" /\ a # b
      /\ from' = [from EXCEPT ![t] = a] /\ to' = [to EXCEPT ![t] = b]
      /\ amount' = [amount EXCEPT ![t] = m]
      /\ bkpc' = [bkpc EXCEPT ![t] = "first"]
      /\ UNCHANGED <<balance, holder>>
  BY DEF Bk!Begin
<1>2. BankType'
  BY <1>1, BankConstants DEF BankType
<1>3. MutexesHeld'
  BY <1>1 DEF BankType, MutexesHeld, Bk!Mutexes
<1>4. CreditFits'
  BY <1>1 DEF BankType, CreditFits
<1>5. AllSettled' = AllSettled
  BY <1>1, BankSettled DEF BankType
<1> QED BY <1>2, <1>3, <1>4, <1>5

LEMMA BankLock ==
    ASSUME BankInv, NEW t \in Few, Bk!LockFirst(t) \/ Bk!LockSecond(t)
    PROVE  BankInv' /\ AllSettled' = AllSettled
<1> USE DEF BankInv
<1>1. PICK i \in 1 .. 2 :
          /\ bkpc[t] = (IF i = 1 THEN "first" ELSE "second")
          /\ holder[Bk!Mutexes(t)[i]] = Nobody
          /\ holder' = [holder EXCEPT ![Bk!Mutexes(t)[i]] = t]
          /\ bkpc' = [bkpc EXCEPT ![t] = IF i = 1 THEN "second" ELSE "debit"]
          /\ UNCHANGED <<balance, from, to, amount>>
  BY DEF Bk!LockFirst, Bk!LockSecond, Bk!LockMutex, Bk!Goto
<1>2. /\ Bk!Mutexes(t)[i] \in Accts
      /\ \A d \in Few : Bk!Mutexes(d)' = Bk!Mutexes(d)
  BY <1>1, MutexesAre DEF Bk!Mutexes
<1>3. BankType'
  BY <1>1, <1>2 DEF BankType
<1>4. MutexesHeld'
  BY <1>1, <1>2, MutexesAre, BankConstants DEF BankType, MutexesHeld
<1>5. CreditFits'
  BY <1>1 DEF BankType, CreditFits
<1>6. AllSettled' = AllSettled
  BY <1>1, <1>2, BankSettled DEF BankType
<1> QED BY <1>3, <1>4, <1>5, <1>6

LEMMA BankRefuse ==
    ASSUME BankInv, NEW t \in Few, Bk!Refuse(t)
    PROVE  BankInv' /\ AllSettled' = AllSettled
<1> USE DEF BankInv
<1>1. /\ bkpc[t] = "debit"
      /\ bkpc' = [bkpc EXCEPT ![t] = "unlock1"]
      /\ UNCHANGED <<balance, holder, from, to, amount>>
  BY DEF Bk!Refuse, Bk!Goto
<1>2. BankType' /\ MutexesHeld' /\ CreditFits'
  BY <1>1 DEF BankType, MutexesHeld, CreditFits, Bk!Mutexes
<1>3. AllSettled' = AllSettled
  BY <1>1, BankSettled
<1> QED BY <1>2, <1>3

(* The sender's balance is lower, but what is under way counts as his.     *)
LEMMA BankDebit ==
    ASSUME BankInv, NEW t \in Few, Bk!Debit(t)
    PROVE  BankInv' /\ AllSettled' = AllSettled
<1> USE DEF BankInv
<1> DEFINE a == from[t]
           b == to[t]
           m == amount[t]
<1>1. /\ bkpc[t] = "debit" /\ Bk!Covered(t)
      /\ balance' = [balance EXCEPT ![a] = Bk!Int64(@ - m)]
      /\ bkpc' = [bkpc EXCEPT ![t] = "credit"]
      /\ UNCHANGED <<holder, from, to, amount>>
  BY DEF Bk!Debit, Bk!Goto
<1>2. /\ a \in Accts /\ b \in Accts /\ a # b /\ m \in 1 .. MaxInt
      /\ balance[a] \in 0 .. MaxInt /\ balance[b] \in 0 .. MaxInt
      /\ holder[a] = t /\ holder[b] = t
  BY <1>1, BothHeld, BankConstants DEF BankType
<1> HIDE DEF a, b, m
<1>3. balance[a] >= m /\ balance[b] + m <= MaxInt
  <2>1. balance[a] >= m /\ ~Bk!wouldOverflow(balance[b], m)
    BY <1>1 DEF Bk!Covered, a, b, m
  <2>2. m \in 0 .. MaxInt
    BY <1>2
  <2> QED BY <1>2, <2>1, <2>2, OverflowCheck, BankConstants
<1>4. /\ balance[a] - m \in 0 .. MaxInt /\ balance[a] - m \in Int
      /\ balance[a] - m >= 0 /\ balance[a] - m <= MaxInt
  BY <1>2, <1>3, BankConstants
<1>5. balance' = [balance EXCEPT ![a] = balance[a] - m]
  BY <1>1, <1>4, NoWrap
<1>6. BankType' /\ MutexesHeld'
  BY <1>1, <1>2, <1>4, <1>5 DEF BankType, MutexesHeld, Bk!Mutexes
<1>7. CreditFits'
  <2>1. ASSUME NEW d \in Few, bkpc'[d] = "credit"
        PROVE  balance'[to[d]] + amount[d] <= MaxInt
    <3>1. CASE d = t
      BY <1>2, <1>3, <1>5, <3>1 DEF b, m, BankType
    <3>2. CASE d # t
      <4>1. bkpc[d] = "credit" /\ to[d] # a
        BY <1>1, <1>2, <2>1, <3>2, BothHeld DEF BankType
      <4> QED BY <1>5, <4>1 DEF BankType, CreditFits
    <3> QED BY <3>1, <3>2
  <2> QED BY <1>1, <2>1 DEF CreditFits
<1>8. ASSUME NEW e \in Accts PROVE Bk!Settled(e)' = Bk!Settled(e)
  <2>1. CASE e = a
    BY <1>1, <1>2, <1>5, <2>1, BankConstants DEF BankType, Bk!Settled, a, m
  <2>2. CASE e # a /\ holder[e] = t
    BY <1>1, <1>2, <1>5, <2>2 DEF BankType, Bk!Settled, a, m
  <2>3. CASE e # a /\ holder[e] # t
    BY <1>1, <1>5, <2>3 DEF BankType, Bk!Settled
  <2> QED BY <2>1, <2>2, <2>3
<1> QED BY <1>6, <1>7, <1>8 DEF AllSettled

(* The one step of a transfer others can see. *)
LEMMA BankCredit ==
    ASSUME BankInv, NEW t \in Few, Bk!Credit(t)
    PROVE  BankInv' /\ Bk!Bank!Next
<1> USE DEF BankInv
<1>0. PICK a \in Accts, b \in Accts, m \in Amounts :
          a = from[t] /\ b = to[t] /\ m = amount[t] /\ a # b
  BY DEF Bk!Credit, BankType
<1>1. /\ bkpc[t] = "credit"
      /\ balance' = [balance EXCEPT ![b] = Bk!Int64(@ + m)]
      /\ bkpc' = [bkpc EXCEPT ![t] = "unlock1"]
      /\ UNCHANGED <<holder, from, to, amount>>
  BY <1>0 DEF Bk!Credit, Bk!Goto
<1>2. /\ m \in 1 .. MaxInt
      /\ balance[a] \in 0 .. MaxInt /\ balance[b] \in 0 .. MaxInt
      /\ holder[a] = t /\ holder[b] = t
      /\ balance[b] + m <= MaxInt
  BY <1>0, <1>1, BothHeld, BankConstants DEF BankType, CreditFits
<1>3. balance[b] + m \in 0 .. MaxInt /\ balance[b] + m \in Int /\ 0 <= balance[b] + m
  BY <1>2
<1>4. balance' = [balance EXCEPT ![b] = balance[b] + m]
  BY <1>1, <1>2, <1>3, NoWrap
<1>5. BankType' /\ MutexesHeld'
  BY <1>1, <1>2, <1>3, <1>4 DEF BankType, MutexesHeld, Bk!Mutexes
<1>6. CreditFits'
  <2>1. ASSUME NEW d \in Few, bkpc'[d] = "credit"
        PROVE  balance'[to[d]] + amount[d] <= MaxInt
    <3>1. bkpc[d] = "credit" /\ to[d] # b
      BY <1>0, <1>1, <1>2, <2>1, BothHeld DEF BankType
    <3> QED BY <1>4, <3>1 DEF BankType, CreditFits
  <2> QED BY <1>1, <2>1 DEF CreditFits
<1>7. /\ Bk!Settled(a) = balance[a] + m /\ Bk!Settled(a)' = balance[a]
      /\ Bk!Settled(b) = balance[b] /\ Bk!Settled(b)' = balance[b] + m
  BY <1>0, <1>1, <1>2, <1>4, BankConstants DEF BankType, Bk!Settled
<1>8. ASSUME NEW e \in Accts \ {a, b} PROVE Bk!Settled(e)' = Bk!Settled(e)
  <2>1. CASE holder[e] = t
    BY <1>0, <1>1, <1>4, <2>1 DEF BankType, Bk!Settled
  <2>2. CASE holder[e] # t
    BY <1>0, <1>1, <1>4, <2>2 DEF BankType, Bk!Settled
  <2> QED BY <2>1, <2>2
<1>9. AllSettled' = [AllSettled EXCEPT ![a] = AllSettled[a] - m,
                                       ![b] = AllSettled[b] + m]
  BY <1>0, <1>2, <1>7, <1>8 DEF AllSettled
<1>10. Bk!Bank!Transfer(a, b, m)
  BY <1>0, <1>2, <1>7, <1>9 DEF Bk!Bank!Transfer, AllSettled
<1> QED BY <1>0, <1>5, <1>6, <1>10 DEF Bk!Bank!Next

LEMMA BankUnlock ==
    ASSUME BankInv, NEW t \in Few, Bk!UnlockFirst(t) \/ Bk!UnlockSecond(t)
    PROVE  BankInv' /\ AllSettled' = AllSettled
<1> USE DEF BankInv
<1>1. CASE Bk!UnlockFirst(t)
  <2>1. /\ bkpc[t] = "unlock1"
        /\ holder' = [holder EXCEPT ![Bk!Mutexes(t)[1]] = Nobody]
        /\ bkpc' = [bkpc EXCEPT ![t] = "unlock2"]
        /\ UNCHANGED <<balance, from, to, amount>>
    BY <1>1 DEF Bk!UnlockFirst, Bk!Goto
  <2>2. /\ Bk!Mutexes(t)[1] \in Accts /\ holder[Bk!Mutexes(t)[1]] = t
        /\ Bk!Mutexes(t)[1] # Bk!Mutexes(t)[2]
        /\ \A d \in Few : Bk!Mutexes(d)' = Bk!Mutexes(d)
    BY <2>1, MutexesAre DEF Bk!Mutexes, MutexesHeld
  <2>3. BankType' /\ CreditFits'
    BY <2>1, <2>2 DEF BankType, CreditFits
  <2>4. MutexesHeld'
    BY <2>1, <2>2, MutexesAre DEF BankType, MutexesHeld
  <2>5. AllSettled' = AllSettled
    BY <2>1, <2>2, BankSettled DEF BankType
  <2> QED BY <2>3, <2>4, <2>5
<1>2. CASE Bk!UnlockSecond(t)
  <2>1. /\ bkpc[t] = "unlock2"
        /\ holder' = [holder EXCEPT ![Bk!Mutexes(t)[2]] = Nobody]
        /\ from' = [from EXCEPT ![t] = 0] /\ to' = [to EXCEPT ![t] = 0]
        /\ amount' = [amount EXCEPT ![t] = 0]
        /\ bkpc' = [bkpc EXCEPT ![t] = "out"]
        /\ UNCHANGED balance
    BY <1>2 DEF Bk!UnlockSecond
  <2>2. /\ Bk!Mutexes(t)[2] \in Accts /\ holder[Bk!Mutexes(t)[2]] = t
        /\ \A d \in Few \ {t} : Bk!Mutexes(d)' = Bk!Mutexes(d)
    BY <2>1, MutexesAre DEF BankType, Bk!Mutexes, MutexesHeld
  <2>3. BankType' /\ CreditFits'
    BY <2>1, <2>2 DEF BankType, CreditFits
  <2>4. MutexesHeld'
    BY <2>1, <2>2, MutexesAre DEF BankType, MutexesHeld
  <2>5. AllSettled' = AllSettled
    BY <2>1, <2>2, BankSettled DEF BankType
  <2> QED BY <2>3, <2>4, <2>5
<1> QED BY <1>1, <1>2

LEMMA BankNext ==
    BankInv /\ [Bk!Next]_bank => BankInv' /\ [Bk!Bank!Next]_AllSettled
<1> SUFFICES ASSUME BankInv, [Bk!Next]_bank
             PROVE  BankInv' /\ [Bk!Bank!Next]_AllSettled
  OBVIOUS
<1>1. CASE UNCHANGED bank
  BY <1>1 DEF bank, BankInv, BankType, MutexesHeld, CreditFits, Bk!Mutexes,
              AllSettled, Bk!Settled
<1>2. ASSUME NEW t \in Few, Bk!LockFirst(t) \/ Bk!Transfer(t)
      PROVE  BankInv' /\ [Bk!Bank!Next]_AllSettled
  BY <1>2, BankLock, BankRefuse, BankDebit, BankCredit, BankUnlock DEF Bk!Transfer
<1>3. ASSUME NEW t \in Few, NEW a \in Accts, NEW b \in Accts, NEW m \in Amounts,
             Bk!Begin(t, a, b, m)
      PROVE  BankInv' /\ [Bk!Bank!Next]_AllSettled
  BY <1>3, BankBegin
<1> QED BY <1>1, <1>2, <1>3, BankDeposit, BankWithdraw DEF Bk!Next

LEMMA BankInvariance == ObjectsSpec => []BankInv
BY Projection, BankInit, BankNext, PTL

(* Transfer, Deposit and Withdraw: atomic for everybody who can look at    *)
(* the balances, and within the range of an int64, for any accounts and    *)
(* amounts.                                                                *)
LEMMA BankRefinesAccounts == ObjectsSpec => Bk!ImplementsAccounts
BY Projection, BankInit, BankNext, PTL DEF Bk!ImplementsAccounts, Bk!Bank!Spec, AllSettled

-----------------------------------------------------------------------------
(* inventory.  What was allowed when the caller checked is still allowed   *)
(* when it changes the quantity, because it holds the mutex in between.    *)

StockArgs == {"Add", "Remove"} \X Skus \X Quantities

StockType ==
    /\ stock \in [Skus -> 0 .. MaxInt]
    /\ inHolder \in Few \union {Nobody}
    /\ inpc \in [Few -> {"out", "lock", "check", "change", "unlock"}]
    /\ call \in [Few -> StockArgs \union {<<>>}]
    /\ \A c \in Few : inpc[c] # "out" => call[c] \in StockArgs

OneInside ==
    \A c \in Few : inpc[c] \in {"check", "change", "unlock"} <=> inHolder = c

StillAllowed ==
    \A c \in Few : inpc[c] = "change" =>
        IF call[c][1] = "Add" THEN stock[call[c][2]] + call[c][3] <= MaxInt
                              ELSE stock[call[c][2]] >= call[c][3]

StockInv == StockType /\ OneInside /\ StillAllowed

LEMMA StockConstants ==
    MaxInt \in Nat /\ Quantities \subseteq 1 .. MaxInt /\ Nobody \notin Few
BY ObjectsAssumption DEF In!InventoryAssumption

LEMMA StockInit == In!Init => StockInv /\ In!Stock!Init
BY StockConstants
DEF In!Init, StockInv, StockType, OneInside, StillAllowed, In!Stock!Init

LEMMA StockBegin ==
    ASSUME StockInv, NEW c \in Few, NEW op \in {"Add", "Remove"}, NEW sku \in Skus,
           NEW q \in Quantities, In!Begin(c, op, sku, q)
    PROVE  StockInv' /\ stock' = stock
<1> USE DEF StockInv
<1>1. /\ inpc[c] = "out"
      /\ inpc' = [inpc EXCEPT ![c] = "lock"]
      /\ call' = [call EXCEPT ![c] = <<op, sku, q>>]
      /\ UNCHANGED <<stock, inHolder>>
  BY DEF In!Begin
<1>2. <<op, sku, q>> \in StockArgs
  BY DEF StockArgs
<1>3. StockType'
  BY <1>1, <1>2 DEF StockType
<1>4. OneInside' /\ StillAllowed'
  BY <1>1 DEF StockType, OneInside, StillAllowed
<1> QED BY <1>1, <1>3, <1>4

LEMMA StockLock ==
    ASSUME StockInv, NEW c \in Few, In!Lock(c) \/ In!Unlock(c)
    PROVE  StockInv' /\ stock' = stock
<1> USE StockConstants DEF StockInv
<1>1. CASE In!Lock(c)
  BY <1>1 DEF In!Lock, In!Goto, StockType, OneInside, StillAllowed
<1>2. CASE In!Unlock(c)
  BY <1>2 DEF In!Unlock, StockType, OneInside, StillAllowed
<1> QED BY <1>1, <1>2

LEMMA StockCheck ==
    ASSUME StockInv, NEW c \in Few, In!Check(c)
    PROVE  StockInv' /\ stock' = stock
<1> USE DEF StockInv
<1> DEFINE ok == In!Allowed(call[c][1], call[c][2], call[c][3])
<1>1. /\ inpc[c] = "check"
      /\ inpc' = [inpc EXCEPT ![c] = IF ok THEN "change" ELSE "unlock"]
      /\ UNCHANGED <<stock, inHolder, call>>
  BY DEF In!Check, In!Goto
<1> HIDE DEF ok
<1>2. PICK op \in {"Add", "Remove"}, sku \in Skus, q \in Quantities :
          call[c] = <<op, sku, q>>
  BY <1>1 DEF StockType, StockArgs
<1>3. /\ stock[sku] \in 0 .. MaxInt
      /\ In!Wrap(MaxInt - stock[sku]) = MaxInt - stock[sku]
  <2>1. stock[sku] \in 0 .. MaxInt
    BY DEF StockType
  <2>2. /\ MaxInt - stock[sku] \in Int /\ 0 <= MaxInt - stock[sku]
        /\ MaxInt - stock[sku] <= MaxInt
    BY <2>1, StockConstants
  <2> QED BY <2>1, <2>2, NoWrap
<1>4. ok => IF op = "Add" THEN stock[sku] + q <= MaxInt ELSE stock[sku] >= q
  <2>1. ok <=> IF op = "Add" THEN q <= MaxInt - stock[sku] ELSE stock[sku] >= q
    BY <1>2, <1>3 DEF In!Allowed, ok
  <2>2. q \in 1 .. MaxInt
    BY StockConstants
  <2>3. q <= MaxInt - stock[sku] <=> stock[sku] + q <= MaxInt
    BY <1>3, <2>2, StockConstants
  <2> QED BY <2>1, <2>3
<1>5. StockType' /\ OneInside'
  BY <1>1 DEF StockType, OneInside
<1>6. StillAllowed'
  BY <1>1, <1>2, <1>4 DEF StockType, StillAllowed
<1> QED BY <1>1, <1>5, <1>6

LEMMA StockChange ==
    ASSUME StockInv, NEW c \in Few, In!Change(c)
    PROVE  StockInv' /\ In!Stock!Next
<1> USE DEF StockInv
<1>1. PICK op \in {"Add", "Remove"}, sku \in Skus, q \in Quantities :
          call[c] = <<op, sku, q>>
  BY DEF In!Change, StockType, StockArgs
<1>2. /\ inpc[c] = "change" /\ inHolder = c
      /\ inpc' = [inpc EXCEPT ![c] = "unlock"]
      /\ UNCHANGED <<inHolder, call>>
      /\ stock' = [stock EXCEPT ![sku] =
                       In!Wrap(IF op = "Add" THEN @ + q ELSE @ - q)]
  BY <1>1 DEF In!Change, In!Changed, In!Goto, OneInside
<1>3. /\ stock[sku] \in 0 .. MaxInt /\ q \in 1 .. MaxInt
      /\ IF op = "Add" THEN stock[sku] + q <= MaxInt ELSE stock[sku] >= q
  BY <1>1, <1>2, StockConstants DEF StockType, StillAllowed
<1>4. ASSUME NEW n \in 0 .. MaxInt, stock' = [stock EXCEPT ![sku] = n]
      PROVE  StockInv'
  <2>1. StockType' /\ OneInside'
    BY <1>2, <1>4 DEF StockType, OneInside
  <2>2. \A d \in Few : inpc'[d] # "change"
    BY <1>2 DEF StockType, OneInside
  <2> QED BY <2>1, <2>2 DEF StillAllowed
<1>5. CASE op = "Add"
  <2>1. stock[sku] + q \in 0 .. MaxInt /\ In!Wrap(stock[sku] + q) = stock[sku] + q
    BY <1>3, <1>5, NoWrap, StockConstants
  <2>2. stock' = [stock EXCEPT ![sku] = stock[sku] + q]
    BY <1>2, <1>5, <2>1
  <2>3. In!Stock!Deposit(sku, q)
    BY <1>3, <1>5, <2>2 DEF In!Stock!Deposit
  <2> QED BY <1>4, <2>1, <2>2, <2>3 DEF In!Stock!Next
<1>6. CASE op = "Remove"
  <2>1. stock[sku] - q \in 0 .. MaxInt /\ In!Wrap(stock[sku] - q) = stock[sku] - q
    BY <1>3, <1>6, NoWrap, StockConstants
  <2>2. stock' = [stock EXCEPT ![sku] = stock[sku] - q]
    BY <1>2, <1>6, <2>1
  <2>3. In!Stock!Withdraw(sku, q)
    BY <1>3, <1>6, <2>2 DEF In!Stock!Withdraw
  <2> QED BY <1>4, <2>1, <2>2, <2>3 DEF In!Stock!Next
<1> QED BY <1>5, <1>6

LEMMA StockNext ==
    StockInv /\ [In!Next]_inventory => StockInv' /\ [In!Stock!Next]_stock
<1> SUFFICES ASSUME StockInv, [In!Next]_inventory
             PROVE  StockInv' /\ [In!Stock!Next]_stock
  OBVIOUS
<1>1. CASE UNCHANGED inventory
  BY <1>1 DEF inventory, StockInv, StockType, OneInside, StillAllowed
<1>2. ASSUME NEW c \in Few, In!Lock(c) \/ In!Locked(c)
      PROVE  StockInv' /\ [In!Stock!Next]_stock
  BY <1>2, StockLock, StockCheck, StockChange DEF In!Locked
<1> QED BY <1>1, <1>2, StockBegin DEF In!Next

LEMMA StockInvariance == ObjectsSpec => []StockInv
BY Projection, StockInit, StockNext, PTL

LEMMA StockRefinesAccounts == ObjectsSpec => In!ImplementsAccounts
BY Projection, StockInit, StockNext, PTL DEF In!ImplementsAccounts, In!Stock!Spec

(* bankaccount and inventory: deposits, withdrawals and transfers, and     *)
(* additions and removals, are atomic for everybody who can look at the    *)
(* balances and quantities, which stay in the range of a machine integer:  *)
(* for any accounts, items, amounts and largest integer.                   *)
THEOREM UpdatesAreAtomic == ObjectsSpec => UpdatesAtomic
BY BankRefinesAccounts, StockRefinesAccounts, PTL DEF UpdatesAtomic

-----------------------------------------------------------------------------
(* bankaccount: why transfers in opposite directions do not block each     *)
(* other.  A mutex is only held by a transfer that has yet to unlock it    *)
(* (HeldByTransfer), and its first mutex is the smaller one.               *)

HeldByTransfer ==
    \A a \in Accts :
        holder[a] # Nobody =>
            \/ /\ a = Bk!Mutexes(holder[a])[1]
               /\ bkpc[holder[a]] \in {"second", "debit", "credit", "unlock1"}
            \/ /\ a = Bk!Mutexes(holder[a])[2]
               /\ bkpc[holder[a]] \in {"debit", "credit", "unlock1", "unlock2"}

(* What lets a transfer take its next step. *)
TransferCanGoOn(t) ==
    \/ bkpc[t] = "first" /\ holder[Bk!Mutexes(t)[1]] = Nobody
    \/ bkpc[t] = "second" /\ holder[Bk!Mutexes(t)[2]] = Nobody
    \/ bkpc[t] \in {"debit", "credit", "unlock1", "unlock2"}

NoLockCycle ==
    \/ \A t \in Few : bkpc[t] = "out"
    \/ \E t \in Few : TransferCanGoOn(t)

LEMMA MutexesOrdered ==
    ASSUME BankType, NEW t \in Few, bkpc[t] # "out"
    PROVE  /\ Bk!Mutexes(t)[1] \in Nat /\ Bk!Mutexes(t)[2] \in Nat
           /\ Bk!Mutexes(t)[1] < Bk!Mutexes(t)[2]
<1>1. from[t] \in Nat /\ to[t] \in Nat /\ from[t] # to[t]
  BY BankConstants DEF BankType
<1> QED BY <1>1 DEF Bk!Mutexes, Bk!lockOrder

LEMMA HeldStep ==
    ASSUME BankInv, HeldByTransfer, [Bk!Next]_bank
    PROVE  HeldByTransfer'
<1> USE DEF BankInv
<1>1. ASSUME NEW t \in Few, Bk!Transfer(t) \/ Bk!LockFirst(t)
      PROVE  HeldByTransfer'
  <2>0. ASSUME UNCHANGED <<from, to>> PROVE \A d \in Few : Bk!Mutexes(d)' = Bk!Mutexes(d)
    BY <2>0 DEF Bk!Mutexes
  <2>1. CASE Bk!LockFirst(t) \/ Bk!LockSecond(t)
    <3>1. PICK i \in {1, 2}, label \in {"second", "debit"} :
              /\ bkpc[t] = IF i = 1 THEN "first" ELSE "second"
              /\ label = IF i = 1 THEN "second" ELSE "debit"
              /\ holder[Bk!Mutexes(t)[i]] = Nobody
              /\ holder' = [holder EXCEPT ![Bk!Mutexes(t)[i]] = t]
              /\ bkpc' = [bkpc EXCEPT ![t] = label]
              /\ UNCHANGED <<from, to>>
      BY <2>1 DEF Bk!LockFirst, Bk!LockSecond, Bk!LockMutex, Bk!Goto
    <3>2. \A a \in Accts : a # Bk!Mutexes(t)[i] => holder'[a] = holder[a]
      BY <3>1 DEF BankType
    <3>3. \A d \in Few : d # t => bkpc'[d] = bkpc[d]
      BY <3>1 DEF BankType
    <3>4. bkpc'[t] = label
      BY <3>1 DEF BankType
    <3>5. Bk!Mutexes(t)[i] \in Accts => holder'[Bk!Mutexes(t)[i]] = t
      BY <3>1 DEF BankType
    <3>6. \A a \in Accts : holder[a] # Nobody => holder[a] \in Few
      BY DEF BankType
    <3>7. \A d \in Few : Bk!Mutexes(d)' = Bk!Mutexes(d)
      BY <2>0, <3>1
    <3> SUFFICES ASSUME NEW a \in Accts, holder'[a] # Nobody
                 PROVE  \/ /\ a = Bk!Mutexes(holder'[a])[1]
                           /\ bkpc'[holder'[a]] \in {"second", "debit", "credit", "unlock1"}
                        \/ /\ a = Bk!Mutexes(holder'[a])[2]
                           /\ bkpc'[holder'[a]] \in {"debit", "credit", "unlock1", "unlock2"}
      <4>1. \A a \in Accts : holder'[a] # Nobody => holder'[a] \in Few
        BY <3>2, <3>5, <3>6
      <4> QED BY <3>7, <4>1 DEF HeldByTransfer
    <3>8. CASE a = Bk!Mutexes(t)[i]
      BY <3>1, <3>4, <3>5, <3>8
    <3>9. CASE a # Bk!Mutexes(t)[i] /\ holder[a] = t
      BY <3>1, <3>2, <3>4, <3>9 DEF HeldByTransfer
    <3>10. CASE a # Bk!Mutexes(t)[i] /\ holder[a] # t
      BY <3>2, <3>3, <3>6, <3>10 DEF HeldByTransfer
    <3> QED BY <3>8, <3>9, <3>10
  <2>2. CASE Bk!Refuse(t) \/ Bk!Debit(t) \/ Bk!Credit(t)
    <3>1. /\ bkpc[t] \in {"debit", "credit"}
          /\ \/ bkpc' = [bkpc EXCEPT ![t] = "credit"]
             \/ bkpc' = [bkpc EXCEPT ![t] = "unlock1"]
          /\ UNCHANGED <<holder, from, to>>
      BY <2>2 DEF Bk!Refuse, Bk!Debit, Bk!Credit, Bk!Goto
    <3>2. /\ bkpc'[t] \in {"credit", "unlock1"}
          /\ \A d \in Few : d # t => bkpc'[d] = bkpc[d]
      BY <3>1 DEF BankType
    <3> QED BY <2>0, <3>1, <3>2 DEF HeldByTransfer, BankType
  <2>3. CASE Bk!UnlockFirst(t)
    <3>1. /\ bkpc[t] = "unlock1"
          /\ holder' = [holder EXCEPT ![Bk!Mutexes(t)[1]] = Nobody]
          /\ bkpc' = [bkpc EXCEPT ![t] = "unlock2"]
          /\ UNCHANGED <<from, to>>
      BY <2>3 DEF Bk!UnlockFirst, Bk!Goto
    <3>2. /\ bkpc'[t] = "unlock2"
          /\ \A d \in Few : d # t => bkpc'[d] = bkpc[d]
          /\ \A a \in Accts : holder'[a] = IF a = Bk!Mutexes(t)[1] THEN Nobody ELSE holder[a]
      BY <3>1 DEF BankType
    <3> QED BY <2>0, <3>1, <3>2 DEF HeldByTransfer, BankType
  <2>4. CASE Bk!UnlockSecond(t)
    <3>1. /\ bkpc[t] = "unlock2"
          /\ holder' = [holder EXCEPT ![Bk!Mutexes(t)[2]] = Nobody]
          /\ bkpc' = [bkpc EXCEPT ![t] = "out"]
          /\ from' = [from EXCEPT ![t] = 0] /\ to' = [to EXCEPT ![t] = 0]
      BY <2>4 DEF Bk!UnlockSecond
    <3>2. /\ \A d \in Few : d # t => bkpc'[d] = bkpc[d] /\ Bk!Mutexes(d)' = Bk!Mutexes(d)
          /\ \A a \in Accts : holder'[a] = IF a = Bk!Mutexes(t)[2] THEN Nobody ELSE holder[a]
      BY <3>1 DEF BankType, Bk!Mutexes
    <3>3. \A a \in Accts : holder[a] = t => a = Bk!Mutexes(t)[2]
      BY <3>1, BankConstants DEF HeldByTransfer
    <3>4. \A a \in Accts :
              holder'[a] # Nobody => holder'[a] = holder[a] /\ holder[a] \in Few \ {t}
      BY <3>2, <3>3 DEF BankType
    <3> QED BY <3>2, <3>4 DEF HeldByTransfer
  <2> QED BY <1>1, <2>1, <2>2, <2>3, <2>4 DEF Bk!Transfer
<1>2. ASSUME NEW t \in Few, NEW a \in Accts, NEW b \in Accts, NEW m \in Amounts,
             Bk!Begin(t, a, b, m)
      PROVE  HeldByTransfer'
  <2>1. /\ bkpc[t] = "out"
        /\ bkpc' = [bkpc EXCEPT ![t] = "first"]
        /\ from' = [from EXCEPT ![t] = a] /\ to' = [to EXCEPT ![t] = b]
        /\ UNCHANGED holder
    BY <1>2 DEF Bk!Begin
  <2>2. \A d \in Few : d # t => bkpc'[d] = bkpc[d] /\ Bk!Mutexes(d)' = Bk!Mutexes(d)
    BY <2>1 DEF BankType, Bk!Mutexes
  <2>3. \A e \in Accts : holder[e] # Nobody => holder[e] \in Few \ {t}
    BY <2>1 DEF HeldByTransfer, BankType
  <2> QED BY <2>1, <2>2, <2>3 DEF HeldByTransfer
<1>3. ASSUME UNCHANGED <<holder, bkpc, from, to>> PROVE HeldByTransfer'
  BY <1>3 DEF HeldByTransfer, Bk!Mutexes
<1> QED BY <1>1, <1>2, <1>3 DEF Bk!Next, Bk!Deposit, Bk!Withdraw, bank

(* Transfer: while transfers are under way, one of them has a next step to *)
(* take.  Were all of them waiting, the one that waits for the largest     *)
(* mutex would wait for a transfer that waits for a larger one.  For any   *)
(* number of accounts and tellers.                                         *)
THEOREM TransfersNeverDeadlock == ObjectsSpec => []NoLockCycle
<1>1. Bk!Init => HeldByTransfer
  BY DEF Bk!Init, HeldByTransfer
<1>2. BankInv /\ HeldByTransfer /\ [Bk!Next]_bank => HeldByTransfer'
  BY HeldStep
<1>3. ASSUME BankInv, HeldByTransfer PROVE NoLockCycle
  <2> SUFFICES ASSUME NEW o \in Few, bkpc[o] # "out",
                      \A t \in Few : ~TransferCanGoOn(t)
               PROVE  FALSE
    BY DEF NoLockCycle
  <2> DEFINE S == {t \in Few : bkpc[t] = "second"}
             f == [t \in S |-> Bk!Mutexes(t)[2]]
  <2>0. BankType
    BY <1>3 DEF BankInv
  <2>1. \A t \in Few : bkpc[t] \in {"out", "first", "second"}
    BY <2>0 DEF BankType, TransferCanGoOn
  <2>2. ASSUME NEW a \in Accts, holder[a] # Nobody
        PROVE  holder[a] \in S /\ a = Bk!Mutexes(holder[a])[1]
    <3>1. holder[a] \in Few
      BY <2>0, <2>2 DEF BankType
    <3> QED BY <1>3, <2>1, <2>2, <3>1 DEF HeldByTransfer
  <2>3. S # {}
    <3>1. CASE bkpc[o] = "first"
      <4>1. Bk!Mutexes(o)[1] \in Accts /\ holder[Bk!Mutexes(o)[1]] # Nobody
        BY <2>0, <3>1, MutexesAre DEF TransferCanGoOn
      <4> QED BY <2>2, <4>1
    <3> QED BY <2>1, <3>1
  <2>4. f \in [S -> Nat] /\ \A t \in S : f[t] = Bk!Mutexes(t)[2]
    BY <2>0, MutexesOrdered
  <2>5. IsFiniteSet(S)
    BY ObjectsAssumption, FS_Subset
  <2>6. PICK t \in S : \A u \in S : f[u] <= f[t]
    <3> HIDE DEF S, f
    <3> QED BY <2>3, <2>4, <2>5, LargestValue
  <2>7. Bk!Mutexes(t)[2] \in Accts /\ holder[Bk!Mutexes(t)[2]] # Nobody
    BY <2>0, MutexesAre DEF TransferCanGoOn
  <2>8. PICK u \in S : Bk!Mutexes(u)[1] = Bk!Mutexes(t)[2]
    BY <2>2, <2>7
  <2>9. f[t] < f[u] /\ f[t] \in Nat /\ f[u] \in Nat
    BY <2>0, <2>4, <2>8, MutexesOrdered
  <2> QED BY <2>6, <2>9
<1> QED BY <1>1, <1>2, <1>3, BankInvariance, Projection, PTL

-----------------------------------------------------------------------------
(* actor.  A reply is there exactly while its caller waits for it, and the *)
(* actor is gone only after Close has been called.                         *)

ActorFlags == acStop \in BOOLEAN /\ acDone \in BOOLEAN /\ (acDone => acStop)

ActorType ==
    /\ current \in Ac!Ints
    /\ acpc \in [Few -> {"out", "sending", "waiting"}]
    /\ delta \in [Few -> Deltas \union {0}]
    /\ reply \in [Few -> Ac!Ints \union {NoReply}]
    /\ acGot \in [Few -> Ac!Ints \union {NoReply, ErrClosed}]

RepliesAwaited == \A c \in Few : acpc[c] = "waiting" <=> reply[c] # NoReply

ActorInv == ActorFlags /\ ActorType /\ RepliesAwaited

(* asked of SharedCounter. *)
Asked == [c \in Few |-> IF acpc[c] = "sending" THEN delta[c] ELSE NoReply]

LEMMA ActorConstants ==
    /\ Modulus \in Nat \ {0} /\ 0 \in Ac!Ints
    /\ Deltas \subseteq Ac!Ints
    /\ NoReply \notin Ac!Ints /\ ErrClosed \notin Ac!Ints
BY ObjectsAssumption DEF Ac!ActorAssumption, Ac!Ints

LEMMA AddWraps ==
    ASSUME NEW x \in Ac!Ints, NEW d \in Ac!Ints
    PROVE  (x + d) % Modulus \in Ac!Ints
BY ActorConstants DEF Ac!Ints

LEMMA ActorInit == Ac!Init => ActorInv /\ Ac!Shared!Init
<1> SUFFICES ASSUME Ac!Init PROVE ActorInv /\ Ac!Shared!Init
  OBVIOUS
<1>1. ActorFlags
  BY DEF Ac!Init, ActorFlags
<1>2. ActorType /\ RepliesAwaited
  BY ActorConstants DEF Ac!Init, ActorType, RepliesAwaited
<1>3. Ac!Shared!Init
  BY DEF Ac!Init, Ac!Ints, Ac!Shared!Init
<1> QED BY <1>1, <1>2, <1>3 DEF ActorInv

LEMMA ActorCall ==
    ASSUME ActorInv, NEW c \in Few, NEW d \in Deltas, Ac!Call(c, d)
    PROVE  ActorInv' /\ Ac!Shared!Ask(c, d)
<1> USE DEF ActorInv
<1>1. /\ acpc[c] = "out"
      /\ acpc' = [acpc EXCEPT ![c] = "sending"]
      /\ delta' = [delta EXCEPT ![c] = d]
      /\ UNCHANGED <<current, acStop, acDone, reply, acGot>>
  BY DEF Ac!Call
<1>2. ActorFlags' /\ ActorType' /\ RepliesAwaited'
  BY <1>1 DEF ActorFlags, ActorType, RepliesAwaited
<1>3. /\ Asked' = [Asked EXCEPT ![c] = d]
      /\ Asked[c] = NoReply /\ reply[c] = NoReply
  BY <1>1 DEF ActorType, RepliesAwaited, Asked
<1> QED BY <1>1, <1>2, <1>3 DEF Ac!Shared!Ask, Asked

LEMMA ActorServe ==
    ASSUME ActorInv, NEW c \in Few, Ac!Serve(c)
    PROVE  ActorInv' /\ Ac!Shared!Apply(c)
<1> USE DEF ActorInv
<1>1. /\ acpc[c] = "sending"
      /\ current' = (current + delta[c]) % Modulus
      /\ reply' = [reply EXCEPT ![c] = current']
      /\ acpc' = [acpc EXCEPT ![c] = "waiting"]
      /\ UNCHANGED <<acStop, acDone, delta, acGot>>
  BY DEF Ac!Serve, Ac!Answer
<1>2. delta[c] \in Ac!Ints /\ current \in Ac!Ints
  BY ActorConstants DEF ActorType
<1>3. current' \in Ac!Ints /\ current' # NoReply
  BY <1>1, <1>2, AddWraps, ActorConstants
<1>4. ActorFlags' /\ ActorType' /\ RepliesAwaited'
  BY <1>1, <1>3 DEF ActorFlags, ActorType, RepliesAwaited
<1>5. /\ Asked' = [Asked EXCEPT ![c] = NoReply]
      /\ Asked[c] = delta[c] /\ delta[c] # NoReply
  BY <1>1, <1>2, ActorConstants DEF ActorType, Asked
<1>6. Ac!Shared!Apply(c)
  BY <1>1, <1>5 DEF Ac!Shared!Apply, Asked
<1> QED BY <1>4, <1>6

LEMMA ActorReturn ==
    ASSUME ActorInv, NEW c \in Few, Ac!Return(c)
    PROVE  ActorInv' /\ (Ac!Shared!Return(c) \/ Ac!Shared!Fail(c))
<1> USE DEF ActorInv
<1>1. PICK what \in Ac!Ints \union {ErrClosed} :
          /\ Ac!Returns(c, what)
          /\ \/ what = reply[c] /\ reply[c] # NoReply
             \/ what = ErrClosed /\ acStop
  <2>1. CASE Ac!ReadReply(c)
    BY <2>1 DEF Ac!ReadReply, ActorType, RepliesAwaited
  <2>2. CASE Ac!SeeDone(c)
    BY <2>2 DEF Ac!SeeDone, ActorFlags
  <2> QED BY <2>1, <2>2 DEF Ac!Return
<1>2. /\ acpc' = [acpc EXCEPT ![c] = "out"]
      /\ delta' = [delta EXCEPT ![c] = 0]
      /\ reply' = [reply EXCEPT ![c] = NoReply]
      /\ acGot' = [acGot EXCEPT ![c] = what]
      /\ UNCHANGED <<current, acStop, acDone>>
  BY <1>1 DEF Ac!Returns
<1>3. ActorFlags' /\ ActorType' /\ RepliesAwaited'
  BY <1>2 DEF ActorFlags, ActorType, RepliesAwaited
<1>4. Asked' = [Asked EXCEPT ![c] = NoReply]
  BY <1>2 DEF ActorType, Asked
<1>5. Ac!Shared!Ends(c, what)
  BY <1>2, <1>4 DEF Ac!Shared!Ends, Asked
<1> QED BY <1>1, <1>3, <1>5 DEF Ac!Shared!Return, Ac!Shared!Fail, Ac!Shared!Ends

LEMMA ActorNext ==
    ActorInv /\ [Ac!Next]_actor => ActorInv' /\ [Ac!Shared!Next]_(Ac!Shared!vars)
<1> SUFFICES ASSUME ActorInv, [Ac!Next]_actor
             PROVE  ActorInv' /\ [Ac!Shared!Next]_(Ac!Shared!vars)
  OBVIOUS
<1> USE DEF ActorInv
<1>1. ASSUME NEW c \in Few,
             (\E d \in Deltas : Ac!Call(c, d)) \/ Ac!Serve(c) \/ Ac!Return(c)
      PROVE  ActorInv' /\ Ac!Shared!Next
  BY <1>1, ActorCall, ActorServe, ActorReturn DEF Ac!Shared!Next
<1>2. CASE Ac!Close
  <2>1. acStop' = TRUE /\ UNCHANGED <<current, acDone, acpc, delta, reply, acGot>>
    BY <1>2 DEF Ac!Close
  <2>2. ActorFlags' /\ ActorType' /\ RepliesAwaited' /\ Asked' = Asked
    BY <2>1 DEF ActorFlags, ActorType, RepliesAwaited, Asked
  <2> QED BY <2>1, <2>2 DEF Ac!Shared!Next, Ac!Shared!Shut, Asked
<1>3. CASE Ac!ActorReturns \/ UNCHANGED actor
  <2>1. UNCHANGED <<current, acStop, acpc, delta, reply, acGot>> /\ Asked' = Asked
    BY <1>3 DEF Ac!ActorReturns, actor, Asked
  <2>2. ActorFlags'
    <3>1. acStop' = acStop /\ (acDone' = acDone \/ (acStop /\ acDone' = TRUE))
      BY <1>3 DEF Ac!ActorReturns, actor
    <3>2. CASE acDone' = acDone
      BY <3>1, <3>2 DEF ActorFlags
    <3>3. CASE acStop /\ acDone' = TRUE
      BY <3>1, <3>3 DEF ActorFlags
    <3> QED BY <3>1, <3>2, <3>3
  <2> QED BY <2>1, <2>2 DEF ActorType, RepliesAwaited, Ac!Shared!vars, Asked
<1> QED BY <1>1, <1>2, <1>3 DEF Ac!Next

LEMMA ActorInvariance == ObjectsSpec => []ActorInv
BY Projection, ActorInit, ActorNext, PTL

(* Add, Value and Close: every call takes effect once, between its start   *)
(* and its return, and returns the value it made, unless it ends with      *)
(* ErrClosed after Close: for any number of callers, deltas and width.     *)
THEOREM ActorRefinesCounter == ObjectsSpec => ImplementsSharedCounter
BY Projection, ActorInit, ActorNext, PTL
DEF ImplementsSharedCounter, Ac!ImplementsSharedCounter, Ac!Shared!Spec

-----------------------------------------------------------------------------
(* barrier.  arrived is the number of callers still waiting for this       *)
(* generation, until Close, and no caller is ahead of the generation, so   *)
(* that a completed group leaves nobody behind in the next one.            *)

Waiting == {c \in Many : bapc[c] # "out" /\ phase[c] = generation}
Released == {c \in Many : bapc[c] # "out" /\ phase[c] # generation}

ArrivedCounts == ~shut => arrived = Cardinality(Waiting)

NobodyAhead == \A c \in Many : phase[c] <= generation

BarrierInv ==
    /\ Ba!TypeOK
    /\ ArrivedCounts
    /\ NobodyAhead

(* An abstract group is formed by the same callers, and its size counted   *)
(* the same way.                                                           *)
LEMMA SameCount == \A S : Ba!Phases!Cardinality(S) = Cardinality(S)
BY DEF Ba!Phases!Cardinality, Cardinality

LEMMA WaitingFinite == IsFiniteSet(Waiting) /\ Cardinality(Waiting) \in Nat
BY ObjectsAssumption, FS_Subset, FS_CardinalityType DEF Waiting

LEMMA BarrierConstants == Parties \in Nat \ {0} /\ MaxPhases \in Nat
BY ObjectsAssumption DEF Ba!BarrierAssumption

(* Each action: the invariant, and the step of PhaseBarrier that it is.    *)

LEMMA ArriveStep ==
    ASSUME BarrierInv, NEW c \in Many, Ba!Arrive(c)
    PROVE  BarrierInv' /\ Ba!Phases!Come(c)
<1> USE BarrierConstants DEF BarrierInv
<1>1. /\ bapc[c] = "out" /\ ~shut /\ arrived + 1 # Parties
      /\ arrived' = arrived + 1
      /\ phase' = [phase EXCEPT ![c] = generation]
      /\ bapc' = [bapc EXCEPT ![c] = "parked"]
      /\ UNCHANGED <<generation, shut, baGot>>
  BY DEF Ba!Arrive
<1>2. Waiting' = Waiting \union {c} /\ c \notin Waiting
  BY <1>1 DEF Waiting, Ba!TypeOK
<1>3. Released' = Released /\ c \notin Released
  BY <1>1 DEF Released, Ba!TypeOK
<1>4. /\ arrived = Cardinality(Waiting)
      /\ Cardinality(Waiting') = Cardinality(Waiting) + 1
  BY <1>1, <1>2, WaitingFinite, FS_AddElement DEF ArrivedCounts
<1>5. Ba!TypeOK' /\ ArrivedCounts' /\ NobodyAhead'
  BY <1>1, <1>4
  DEF Ba!TypeOK, ArrivedCounts, NobodyAhead
<1>6. Ba!Phases!Come(c)
  BY <1>1, <1>2, <1>3, <1>4, SameCount DEF Ba!Phases!Come, Waiting, Released
<1> QED BY <1>5, <1>6

LEMMA ArriveLastStep ==
    ASSUME BarrierInv, NEW c \in Many, Ba!ArriveLast(c)
    PROVE  BarrierInv' /\ Ba!Phases!Come(c)
<1> USE BarrierConstants DEF BarrierInv
<1>1. /\ bapc[c] = "out" /\ ~shut /\ arrived + 1 = Parties /\ generation < MaxPhases
      /\ arrived' = 0
      /\ generation' = generation + 1
      /\ bapc' = [d \in Many |-> IF bapc[d] = "parked" THEN "woken" ELSE bapc[d]]
      /\ baGot' = [baGot EXCEPT ![c] = "nil"]
      /\ UNCHANGED <<shut, phase>>
  BY DEF Ba!ArriveLast, Ba!Broadcast, Ba!Returns
<1>2. \A d \in Many : (bapc'[d] # "out" <=> bapc[d] # "out") /\ phase[d] < generation'
  BY <1>1 DEF Ba!TypeOK, NobodyAhead
<1>3. Waiting' = {} /\ Released' = Released \union Waiting
  BY <1>1, <1>2 DEF Waiting, Released, Ba!TypeOK
<1>4. arrived = Cardinality(Waiting) /\ Cardinality(Waiting') = 0
  BY <1>1, <1>3, FS_EmptySet DEF ArrivedCounts
<1>5. Ba!TypeOK' /\ ArrivedCounts' /\ NobodyAhead'
  BY <1>1, <1>2, <1>4
  DEF Ba!TypeOK, ArrivedCounts, NobodyAhead
<1>6. c \notin Waiting \union Released
  BY <1>1 DEF Waiting, Released
<1>7. Ba!Phases!Come(c)
  BY <1>1, <1>3, <1>4, <1>6, SameCount
  DEF Ba!Phases!Come, Ba!Phases!Ends, Waiting, Released
<1> QED BY <1>5, <1>7

LEMMA ArriveClosedStep ==
    ASSUME BarrierInv, NEW c \in Many, Ba!ArriveClosed(c)
    PROVE  BarrierInv' /\ Ba!Phases!Fail(c)
<1> USE BarrierConstants DEF BarrierInv
<1>1. /\ bapc[c] = "out" /\ shut
      /\ baGot' = [baGot EXCEPT ![c] = "closed"]
      /\ UNCHANGED <<arrived, generation, shut, bapc, phase>>
  BY DEF Ba!ArriveClosed, Ba!Returns
<1>2. /\ Waiting' = Waiting /\ Released' = Released
      /\ c \notin Waiting /\ c \notin Released
  BY <1>1 DEF Waiting, Released
<1>3. Ba!TypeOK' /\ ArrivedCounts' /\ NobodyAhead'
  BY <1>1 DEF Ba!TypeOK, ArrivedCounts, NobodyAhead
<1>4. Ba!Phases!Fail(c)
  BY <1>1, <1>2 DEF Ba!Phases!Fail, Ba!Phases!Ends, Waiting, Released
<1> QED BY <1>3, <1>4

LEMMA ReturnStep ==
    ASSUME BarrierInv, NEW c \in Many, Ba!Return(c)
    PROVE  BarrierInv' /\ (Ba!Phases!Pass(c) \/ Ba!Phases!Fail(c))
<1> USE BarrierConstants DEF BarrierInv
<1>1. /\ bapc[c] = "woken" /\ (phase[c] # generation \/ shut)
      /\ bapc' = [bapc EXCEPT ![c] = "out"]
      /\ phase' = [phase EXCEPT ![c] = 0]
      /\ baGot' = [baGot EXCEPT ![c] = IF phase[c] # generation THEN "nil" ELSE "closed"]
      /\ UNCHANGED <<arrived, generation, shut>>
  BY DEF Ba!Return, Ba!Returns, Ba!Verdict
<1>2. Waiting' = Waiting \ {c} /\ Released' = Released \ {c}
  BY <1>1 DEF Waiting, Released, Ba!TypeOK
<1>3. ArrivedCounts'
  <2>1. CASE shut
    BY <1>1, <2>1 DEF ArrivedCounts
  <2>2. CASE ~shut
    <3>1. Waiting' = Waiting
      BY <1>1, <1>2, <2>2 DEF Waiting
    <3> QED BY <1>1, <2>2, <3>1 DEF ArrivedCounts
  <2> QED BY <2>1, <2>2
<1>4. Ba!TypeOK' /\ NobodyAhead'
  BY <1>1 DEF Ba!TypeOK, NobodyAhead
<1>5. CASE phase[c] # generation
  <2>1. c \in Released /\ Waiting' = Waiting
    BY <1>1, <1>2, <1>5 DEF Waiting, Released
  <2>2. Ba!Phases!Pass(c)
    BY <1>1, <1>2, <1>5, <2>1 DEF Ba!Phases!Pass, Ba!Phases!Ends, Waiting, Released
  <2> QED BY <1>3, <1>4, <2>2
<1>6. CASE phase[c] = generation
  <2>1. c \notin Released /\ Released' = Released
    BY <1>2, <1>6 DEF Released
  <2>2. Ba!Phases!Fail(c)
    BY <1>1, <1>2, <1>6, <2>1 DEF Ba!Phases!Fail, Ba!Phases!Ends, Waiting, Released
  <2> QED BY <1>3, <1>4, <2>2
<1> QED BY <1>5, <1>6

LEMMA CloseStep ==
    ASSUME BarrierInv, Ba!Close
    PROVE  BarrierInv' /\ Ba!Phases!Shut
<1> USE BarrierConstants DEF BarrierInv
<1>1. /\ ~shut /\ shut' = TRUE
      /\ bapc' = [d \in Many |-> IF bapc[d] = "parked" THEN "woken" ELSE bapc[d]]
      /\ UNCHANGED <<arrived, generation, phase, baGot>>
  BY DEF Ba!Close, Ba!Broadcast
<1>2. \A d \in Many : bapc'[d] # "out" <=> bapc[d] # "out"
  BY <1>1 DEF Ba!TypeOK
<1>3. Waiting' = Waiting /\ Released' = Released
  BY <1>1, <1>2 DEF Waiting, Released
<1>4. Ba!TypeOK' /\ ArrivedCounts' /\ NobodyAhead'
  BY <1>1 DEF Ba!TypeOK, ArrivedCounts, NobodyAhead
<1>5. Ba!Phases!Shut
  BY <1>1, <1>3 DEF Ba!Phases!Shut, Waiting, Released
<1> QED BY <1>4, <1>5


LEMMA BarrierInit == Ba!Init => BarrierInv /\ Ba!Phases!Init
<1> SUFFICES ASSUME Ba!Init PROVE BarrierInv /\ Ba!Phases!Init
  OBVIOUS
<1>1. Waiting = {} /\ Released = {}
  BY DEF Ba!Init, Waiting, Released
<1>2. Ba!TypeOK
  <2>1. 0 \in 0 .. MaxPhases /\ 0 \in 0 .. Parties - 1
    BY BarrierConstants
  <2> QED BY <2>1 DEF Ba!Init, Ba!TypeOK
<1>3. ArrivedCounts /\ NobodyAhead
  BY <1>1, FS_EmptySet DEF Ba!Init, ArrivedCounts, NobodyAhead
<1>4. Ba!Phases!Init
  BY <1>1 DEF Ba!Init, Ba!Phases!Init, Waiting, Released
<1> QED BY <1>2, <1>3, <1>4 DEF BarrierInv

LEMMA BarrierNext ==
    BarrierInv /\ [Ba!Next]_barrier =>
        BarrierInv' /\ [Ba!Phases!Next]_(Ba!Phases!vars)
<1> SUFFICES ASSUME BarrierInv, [Ba!Next]_barrier
             PROVE  BarrierInv' /\ [Ba!Phases!Next]_(Ba!Phases!vars)
  OBVIOUS
<1>1. ASSUME NEW c \in Many, Ba!Arrive(c) \/ Ba!ArriveLast(c)
      PROVE  BarrierInv' /\ Ba!Phases!Next
  BY <1>1, ArriveStep, ArriveLastStep DEF Ba!Phases!Next
<1>2. ASSUME NEW c \in Many, Ba!ArriveClosed(c) \/ Ba!Return(c)
      PROVE  BarrierInv' /\ Ba!Phases!Next
  BY <1>2, ArriveClosedStep, ReturnStep DEF Ba!Phases!Next
<1>3. CASE Ba!Close
  BY <1>3, CloseStep DEF Ba!Phases!Next
<1>4. CASE UNCHANGED barrier
  <2>1. Waiting' = Waiting /\ Released' = Released
    BY <1>4 DEF barrier, Waiting, Released
  <2>2. BarrierInv'
    BY <1>4, <2>1 DEF barrier, BarrierInv, Ba!TypeOK, ArrivedCounts, NobodyAhead
  <2>3. UNCHANGED Ba!Phases!vars
    BY <1>4, <2>1 DEF barrier, Ba!Phases!vars, Waiting, Released
  <2> QED BY <2>2, <2>3
<1> QED BY <1>1, <1>2, <1>3, <1>4 DEF Ba!Next

LEMMA BarrierInvariance == ObjectsSpec => []BarrierInv
BY Projection, BarrierInit, BarrierNext, PTL

(* While the barrier is open arrived is the number of callers waiting for  *)
(* the group being formed: none of an earlier group is counted again, and  *)
(* none of this one is forgotten.                                          *)
THEOREM ArrivedIsWaiting == ObjectsSpec => [](Ba!TypeOK /\ ArrivedCounts)
<1>1. BarrierInv => Ba!TypeOK /\ ArrivedCounts
  BY DEF BarrierInv
<1> QED BY <1>1, BarrierInvariance, PTL

(* Wait and Close implement PhaseBarrier: a caller released by a full      *)
(* group returns nil, whatever happens before it can look, and only those  *)
(* still waiting when the barrier is closed get ErrClosed.                 *)
THEOREM BarrierRefinesPhases == ObjectsSpec => ImplementsPhases
BY Projection, BarrierInit, BarrierNext, PTL
DEF ImplementsPhases, Ba!ImplementsPhases, Ba!Phases!Spec

-----------------------------------------------------------------------------

(* All of them together: every variable keeps its type, there are never    *)
(* more permits than burst and ticks allow, nor slots than holders.        *)
THEOREM ObjectsTypesOK == ObjectsSpec => []ObjectsTypeOK
<1>1. BankInv => Bk!TypeOK
  BY DEF BankInv, BankType, MutexesHeld, Bk!TypeOK
<1>2. StockInv => In!TypeOK
  BY DEF StockInv, StockType, OneInside, In!TypeOK
<1>3. LazyInv => Lo!TypeOK
  BY DEF LazyInv, LazyType, OnceOrder, Loading, Stored, Outcomes, Lo!TypeOK
<1>4. SemaphoreInv => Se!TypeOK
  BY DEF SemaphoreInv, Holding, Se!TypeOK, Se!Cardinality, Cardinality
<1>5. ActorInv => Ac!TypeOK
  BY DEF ActorInv, ActorFlags, ActorType, RepliesAwaited, Ac!TypeOK
<1> QED BY <1>1, <1>2, <1>3, <1>4, <1>5, Projection, TypeCorrect, BankInvariance,
           StockInvariance, LazyInvariance, SemaphoreInvariance, ActorInvariance,
           ArrivedIsWaiting, LimiterTypes, MetricsTypes, PTL
        DEF ObjectsTypeOK
=============================================================================
