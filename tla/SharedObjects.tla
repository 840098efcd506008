--------------------------- MODULE SharedObjects ----------------------------
(***************************************************************************)
(* The packages whose objects many goroutines share.  They have no code in *)
(* common and do not call one another, so one of them is at work in a      *)
(* behaviour, the one example names, and the others stay in their initial  *)
(* states: a behaviour of this module is one of theirs.                    *)
(***************************************************************************)
EXTENDS BoundedQueue

CONSTANTS
    Many,        \* goroutines that share a barrier, a semaphore or a loader
    Few,         \* goroutines that share one of the other objects
    Parties, MaxPhases,                  \* barrier
    Burst, MaxTicks,                     \* ratelimiter
    Deltas, Modulus, NoReply, ErrClosed, \* actor
    Accts, Opening, Amounts,             \* bankaccount
    MaxStarts,                           \* atomiccounter
    Limit,                               \* semaphore
    Skus, Quantities,                    \* inventory
    MaxInt, Nobody                       \* bankaccount and inventory

VARIABLES
    example,  \* the package at work
    arrived, generation, shut, bapc, phase, baGot,
    tokens, done, stopped, stop, tick, ticks, refilling, lipc, granted,
    overflow,
    current, acStop, acDone, acpc, delta, reply, acGot,
    balance, holder, bkpc, from, to, amount,
    metrics, starts, mepc, mine, seen, snapshot, cleared, highest,
    inUse, sepc,
    once, value, err, lopc, loaded, loGot,
    stock, inHolder, inpc, call

Ba == INSTANCE Barrier WITH
    Callers <- Many,
    closed <- shut, pc <- bapc, got <- baGot, mine <- phase
Li == INSTANCE RateLimiter WITH Callers <- Few, pc <- lipc
Ac == INSTANCE Actor WITH
    Callers <- Few, stop <- acStop, done <- acDone, pc <- acpc, got <- acGot
Bk == INSTANCE BankAccount WITH Tellers <- Few, pc <- bkpc
Me == INSTANCE AtomicCounter WITH Callers <- Few, pc <- mepc
Se == INSTANCE Semaphore WITH Callers <- Many, pc <- sepc
Lo == INSTANCE LazyInit WITH Callers <- Many, pc <- lopc, got <- loGot
In == INSTANCE Inventory WITH Callers <- Few, pc <- inpc, holder <- inHolder

ASSUME ObjectsAssumption ==
    /\ IsFiniteSet(Many) /\ IsFiniteSet(Few)
    /\ Ba!BarrierAssumption
    /\ Li!LimiterAssumption
    /\ Ac!ActorAssumption
    /\ Bk!BankAssumption
    /\ Me!MetricsAssumption
    /\ Se!SemaphoreAssumption
    /\ In!InventoryAssumption

barrier == <<arrived, generation, shut, bapc, phase, baGot>>
limiter == <<tokens, done, stopped, stop, tick, ticks, refilling, lipc, granted,
             overflow>>
actor == <<current, acStop, acDone, acpc, delta, reply, acGot>>
bank == <<balance, holder, bkpc, from, to, amount>>
recorder == <<metrics, starts, mepc, mine, seen, snapshot, cleared, highest>>
semaphore == <<inUse, sepc>>
lazy == <<once, value, err, lopc, loaded, loGot>>
inventory == <<stock, inHolder, inpc, call>>

Examples == {"queue", "barrier", "limiter", "actor", "bank", "metrics",
             "semaphore", "loader", "inventory"}

(* The initial value of a counter nobody uses does not matter. *)
ObjectsInit ==
    /\ example \in Examples
    /\ Init /\ Ba!Init /\ Li!Init /\ Ac!Init /\ Bk!Init /\ Me!Init
    /\ Se!Init /\ Lo!Init /\ In!Init
    /\ example # "actor" => current = 0

Still(name, state) == IF example = name THEN TRUE ELSE UNCHANGED state

Others ==
    /\ UNCHANGED example
    /\ Still("queue", vars)
    /\ Still("barrier", barrier)
    /\ Still("limiter", limiter)
    /\ Still("actor", actor)
    /\ Still("bank", bank)
    /\ Still("metrics", recorder)
    /\ Still("semaphore", semaphore)
    /\ Still("loader", lazy)
    /\ Still("inventory", inventory)

ObjectsNext ==
    \/ example = "queue" /\ Next /\ Others
    \/ example = "barrier" /\ Ba!Next /\ Others
    \/ example = "limiter" /\ Li!Next /\ Others
    \/ example = "actor" /\ Ac!Next /\ Others
    \/ example = "bank" /\ Bk!Next /\ Others
    \/ example = "metrics" /\ Me!Next /\ Others
    \/ example = "semaphore" /\ Se!Next /\ Others
    \/ example = "loader" /\ Lo!Next /\ Others
    \/ example = "inventory" /\ In!Next /\ Others

all == <<example, vars, barrier, limiter, actor, bank, recorder, semaphore,
         lazy, inventory>>

(* Goroutines that can run do run, a select whose branch stays ready takes *)
(* it sooner or later, and holders of mutexes and slots give them back.    *)
(* Nobody has to start a call.                                             *)
ObjectsFairness ==
    /\ \A p \in Producers : WF_vars(example = "queue" /\ pc[p] = "woken" /\ Enqueue(p))
    /\ \A c \in Consumers : WF_vars(example = "queue" /\ pc[c] = "woken" /\ Dequeue(c))
    /\ WF_vars(example = "queue" /\ Broadcasts)
    /\ \A c \in Many : WF_barrier(example = "barrier" /\ Ba!Return(c))
    /\ WF_limiter(example = "limiter" /\ Li!Stop)
    /\ WF_limiter(example = "limiter" /\ Li!RefillStops)
    /\ \A c \in Few : WF_limiter(example = "limiter" /\ Li!Resume(c))
    /\ WF_actor(example = "actor" /\ Ac!ActorReturns)
    /\ \A c \in Few : WF_actor(example = "actor" /\ Ac!Serve(c))
    /\ \A c \in Few : WF_actor(example = "actor" /\ Ac!Return(c))
    /\ \A t \in Few : WF_bank(example = "bank" /\ Bk!Transfer(t))
    /\ \A c \in Few : WF_recorder(example = "metrics" /\ Me!Record(c))
    /\ \A c \in Many : WF_lazy(example = "loader" /\ Lo!Resume(c))

ObjectsSpec == ObjectsInit /\ [][ObjectsNext]_all /\ ObjectsFairness

-----------------------------------------------------------------------------
(* Properties *)

(* Types, and what each TypeOK says beyond them: never more permits than   *)
(* burst and ticks allow, as many slots in use as there are holders.       *)
ObjectsTypeOK ==
    /\ TypeOK
    /\ Ba!TypeOK /\ Li!TypeOK /\ Ac!TypeOK /\ Bk!TypeOK /\ Me!TypeOK
    /\ Se!TypeOK /\ Lo!TypeOK /\ In!TypeOK

(* barrier: whoever was released by a full group returns nil, even if      *)
(* Close or the next phase came before it could look; nobody else does.    *)
ImplementsPhases == Ba!ImplementsPhases

(* ratelimiter: no permit is lost or doubled before Stop; then each call   *)
(* under way may lose the one it has taken, and no other is lost.          *)
PermitsConserved == Li!PermitsConserved

(* actor: every call takes effect once, between its start and its return,  *)
(* and returns the value it made; ErrClosed leaves that open, but only     *)
(* after Close has been called.                                            *)
ImplementsSharedCounter == Ac!ImplementsSharedCounter

(* bankaccount: transfers are atomic for everybody who can look at the     *)
(* balances, and no balance overflows or goes below zero; inventory:       *)
(* nothing is sold twice and no quantity overflows.                        *)
UpdatesAtomic == Bk!ImplementsAccounts /\ In!ImplementsAccounts

(* atomiccounter: the peak is the highest number of active requests,       *)
(* however the loops of recordPeak interleave.                             *)
PeakIsHighest == Me!PeakIsHighest

(* lazyinit: every Get returns what the one load returned, complete.       *)
GetReturnsLoaded == Lo!GetReturnsLoaded

(* Calls that wait come back when what they wait for has happened, and     *)
(* what Stop and Close end does end: nobody is forgotten and nobody waits  *)
(* for everybody.                                                          *)
CallsReturn ==
    /\ CloseReleasesAll
    /\ Ba!WaitReturns
    /\ Li!StopEndsAll
    /\ Ac!CallReturns
    /\ Bk!TransfersGoOn
    /\ Me!StartReturns
    /\ Lo!GetReturns
=============================================================================
