# Verification of go-concurrency-examples

The repository is a collection of twenty small Go packages under
`src/examples/`, each a concurrency primitive with its own contract. No package
imports another: what is hard about each of them is inside it, between the
goroutines that call it, the goroutines it starts, its mutexes and its
channels. This directory models those packages in TLA+, one module per package,
checks them with TLC on small instances, and proves the properties that matter
most with TLAPS for every value of the constants.

## 1. Inventory

State is what the package keeps between or during calls; "hard" is what its
tests hardly reach.

| package | state | operations | what is hard | what makes it correct |
|---|---|---|---|---|
| connectionpool | idle connections, FIFO wait list, one-slot channel per waiter | Acquire, AcquireTimeout, Release | a context that ends while Release is handing over | no connection shared, lost, or idle beside a waiter; first come, first served |
| pubsub | map of subscribers; per subscriber a channel, a done channel, a WaitGroup of senders | Subscribe, Publish, Unsubscribe, Close | publishers inside a select on a channel that others want to close | no send on a closed channel, no double close, every channel closed in the end, nobody stuck on a slow subscriber |
| singleflight | map from key to the call under way | Do | joiners are released before the entry is deleted; a panic of the function | one run per key, the delete removes the leader's own entry, joiners read a complete result |
| boundedqueue | items, two condition variables, closed | Enqueue, Dequeue, Close | one Signal per item, goroutines that overtake a woken one, broadcasts after the unlock | FIFO, capacity, no lost wake-up, nobody left parked after Close |
| keyedlock | map from key to a counted entry with a mutex | Lock, Unlock | an entry forgotten while others come in | mutual exclusion per key, exact counts, keys independent |
| webcrawler | scheduled and fetched pages, errors, a WaitGroup of pending work, a jobs channel | Crawl with its workers | Add from a worker racing with Wait; cancellation at any step | jobs closed exactly when nobody sends any more, pages fetched once, Crawl returns, nil means complete |
| pipeline | unbuffered channels between four stages | Source, Filter, Map, Collect, Run | stages that close their channel because of the context | nothing lost in flight, nil means complete, no goroutine left behind |
| batcher | the pending batch, a timer used again and again | Batch | a tick that arrives after the timer was stopped; select picks any ready branch | each item in one batch, in order, and out in time |
| workerpool | task channel, results by index | Run | cancellation between the check, the hand-off and the run | every task has a result or an error |
| ratelimiter | token channel, refill goroutine, done channel | Wait, TryAllow, Stop | Stop between taking a token and looking at done | permits neither lost nor doubled while contexts end and calls give up; after Stop each call under way loses at most one |
| actor | an owner goroutine with the value, command and reply channels | Add, Value, Close | the actor stops after it has applied a command | commands applied once, replies belong to their command |
| barrier | count, generation, closed, condition variable | Wait, Close | callers of the next phase before those of this one have woken | nobody passes before all have arrived |
| diningphilosophers | forks, seats | Run | circular waiting | no deadlock, everybody eats |
| bankaccount | balances with a mutex each | Deposit, Withdraw, Transfer, ... | two locks; overflow at the limits | money conserved, no deadlock, no overflow |
| atomiccounter | five atomic counters | Start/finish, Snapshot | the compare-and-swap loop; snapshots taken counter by counter | the peak never decreases |
| taskgroup | first error, derived context | Run | failures caused by the cancellation of the siblings | the first error is reported, all tasks have ended |
| semaphore | a buffered channel | Acquire, TryAcquire, Release | cancellation and a free slot at once | never more holders than slots |
| timeoutworker | one result channel | Run | result and deadline at the same time; a result nobody waits for | one of the two is returned, the goroutine ends |
| lazyinit | a sync.Once, value and error | Get | value and error are stored one after the other; load may panic | everybody gets the outcome of the one load |
| inventory | a map under a mutex | Add, Remove | quantities at the limits of int | nothing sold twice, no overflow |

All twenty are modelled. The twelve from workerpool on have modules of a page or
two, because their code is that short.

## 2. How the modules are written

One action is one step nobody else can see into: a critical section of a mutex,
a channel operation, the choice a select makes, the beginning or the end of a
wait. Where the code holds a mutex *while it waits* (`unsubscribe` in pubsub)
the mutex is a variable. Variables and actions have the names of the fields and
functions of the code, and PROJECT.json gives the source lines of each
definition. Messages, results and items are reduced to what the properties
distinguish. Definitions named `X_Something` before a definition `X` are *broken
variants*: `X` with a plausible bug. Putting one in the place of `X` makes TLC
find a property violated, which shows that the property depends on the code
being the way it is.

Left out everywhere: checks of arguments and nil receivers, accessors that only
read (`Stats`, `Len`, `ActiveKeys`, `SubscriberCount`, `Balance`, `Available`,
`InUse`), and the copying and sorting of results. An accessor that takes the
mutex and reads sees a state of the model in which that mutex is free.
Machine integers go up to the constant `MaxInt` (bankaccount, inventory) or are
counted modulo the constant `Modulus` (actor), and wrap.

| module | models | notes |
|---|---|---|
| ConnectionPool | connectionpool/pool.go | The waiter record of a call is its caller. `AcquireTimeout` is an Acquire whose context may expire at any moment. Broken contracts of callers (double release) are not modelled. |
| FifoPool | - | What a pool promises: free connections, owners, a queue. ConnectionPool implements it with `owner` = held or already in the waiter's channel. |
| PubSub | pubsub/broker.go | Every step of `send`, `unsubscribe` and `Close`; a channel is the number of messages in it. |
| SingleFlight | singleflight/group.go | A result is named by its call. Unused call objects are used again, so the run covers unbounded histories with a finite state space. |
| BoundedQueue | boundedqueue/queue.go | A condition variable is the FIFO list of goroutines parked on it, as in sync.Cond; a woken goroutine still competes for the mutex. |
| ClosableFifo | - | What a closable bounded queue promises. BoundedQueue implements it. |
| KeyedLock | keyedlock/locker.go | Lock is `acquireEntry`, then the mutex of the entry; Unlock is the mutex, then `releaseEntry`. Entries are reused like calls above. |
| WebCrawler | webcrawler/crawler.go | `offers` are the goroutines that `enqueue` starts; a job passes to a worker in one step because jobs is unbuffered. A fetch that fails is failed by its page or by the context. |
| Pipeline | pipeline/pipeline.go | The stages as `Run` connects them. A send and its receive are one step. `val` keeps a value dropped by a canceled stage, so that the properties can name it. Squares are mathematical integers. |
| Batcher | batcher/batcher.go | The timer is an actor of its own, as before Go 1.23 (go.mod: 1.22): it expires, and only later puts its tick into the channel; a timer reset in between can owe several ticks (`expired`, at most one for each reset, so bounded by the items). Time is otherwise just whether maxDelay has passed since the last reset. |
| WorkerPool | workerpool/pool.go | The feeder of Run looks at the context, then offers an index to whichever worker is idle; the worker looks once more. |
| RateLimiter | ratelimiter/limiter.go | A call is four steps, with a look at `done` before and after taking a permit. Stop is three steps: done, stopped, stop. The ticker is an actor that fires at most `MaxTicks` times. `granted` and `overflow` are history variables: permits given away, and ticks that found the channel full. |
| Actor | actor/counter.go | The hand-over of a command, its effect and its reply are one step: the reply channel has room for it. NewCounter may be given any initial value. |
| SharedCounter | - | What a counter shared by many callers promises; Actor implements it. |
| Barrier | barrier/barrier.go | Callers parked on the condition variable, and woken ones that still have to take the mutex. At most `MaxPhases` phases complete. |
| PhaseBarrier | - | What a reusable barrier promises; Barrier implements it. |
| BankAccount | bankaccount/account.go | A Transfer locks, debits, credits and unlocks in six steps. |
| Inventory | inventory/store.go | Add and Remove under the store's mutex. |
| Accounts | - | Balances changed by atomic deposits, withdrawals and transfers. BankAccount implements it with a debited amount counted as still there until it is credited; Inventory implements it as well. |
| AtomicCounter | atomiccounter/metrics.go | Every atomic operation is a step. `highest` is a history variable: the most requests ever active. At most `MaxStarts` requests. |
| Semaphore | semaphore/semaphore.go | Slots in use, and who holds one. |
| TaskGroup | taskgroup/group.go | The sync.Once around recording the first error and canceling: later failures wait for it. |
| DiningPhilosophers | diningphilosophers/table.go | One goroutine per philosopher; a fork is held by whoever is past taking it. |
| TimeoutWorker | timeoutworker/worker.go | Run, the goroutine it starts, and the channel of one place between them. |
| LazyInit | lazyinit/loader.go | sync.Once as a state: new, running, done. `loaded` remembers what load returned. |

The packages have no code in common, so composing them would only multiply
their states. SharedObjects and GoroutineGroups therefore put several packages
side by side with a variable `example` that picks one in the initial state: only
that one takes steps, the others stay as they are, and the states of a run are
the sum of theirs. A behaviour of the whole is thus a behaviour of each of its
packages (`Projection` in the proofs). SharedObjects holds the packages whose
objects many goroutines share (boundedqueue, barrier, ratelimiter, actor,
bankaccount, atomiccounter, semaphore, lazyinit, inventory), GoroutineGroups
those in which one call starts a group of goroutines (webcrawler, pipeline,
batcher, workerpool, taskgroup, timeoutworker, diningphilosophers).

MC modules give the constants their values for TLC. `Facts` holds the lemmas
that several proof modules need: induction over the natural numbers and its
consequence that a function on a finite set has a largest value, and what
appending and removing do to a sequence, its elements and their distinctness.

## 3. Runs

All pass except the ones marked *violated*, which are described in section 6.
CHECK_DEADLOCK is off only where the system may really stop: a closed broker,
queue, barrier, actor or limiter with all calls returned, a key wedged by a
panic, a call that has returned.

- **connection_pool** (five callers, two connections, two places in the wait
  list; 110464 states). `EachConnOnce`: a connection is idle, in one waiter's
  channel or held by one caller, and nowhere else. `QueuedOrHanded`: a waiting
  call is on the list or has a connection in its channel, never both or neither,
  so the drain after cancellation neither hangs nor leaks. `NoIdleWhileWaiting`,
  `CanceledCallReturns`, `WaiterServed`, and the refinement `ImplementsFifoPool`.
  Five callers are the fewest that fill the pool and the wait list and
  leave one to be rejected.
- **pub_sub** (two subscribers, two publishers, two Close calls, buffers of 0 and
  1; 204507 states). `NoSendOnClosedChannel`, `ChannelClosedOnce`,
  `PublishSkipsOnlyClosed` (a failed send is not mistaken for a delivery),
  `CloseLeavesNoOpenChannel`, and `CallsReturn`: Close, Unsubscribe and, after
  Close, Publish return though no subscriber receives. Two of each is what the
  races need: two senders in one WaitGroup, Unsubscribe against Close, one
  subscriber closed while the other blocks.
- **pub_sub_unsubscribe** *violated*.
- **single_flight** (three callers, two keys, one of which may panic, four call
  objects). `OneRunPerKey`, `EntryIsLeaders` (the key-only delete removes the
  leader's own entry), `JoinersReadFinalResult`, `DoReturns` (a panic wedges its
  own key only).
- **single_flight_fresh** *violated*.
- **keyed_lock** (three goroutines, two keys, three entries; 2144 states).
  `MutualExclusion`, `RefsCountUsers`, `LockGranted`. Three goroutines can hold,
  wait and release one key at once while the entry is to be forgotten.
- **shared_objects** (46441 states).
  - queue (three producers, three consumers, capacity 2): `NoLostSignal`: with the
    queue open, if consumers are parked then enough are awake to take all items,
    and likewise for producers and slots; and the refinement `ImplementsFifo`.
    Three on each side allow two parked and one that overtakes.
  - barrier (three callers in groups of two, `MaxPhases` 3): the refinement
    `ImplementsPhases`. A caller can be left over for the next group, and a group
    can be complete before the callers of the one before have returned.
  - limiter (burst 2, `MaxTicks` 2, two callers): `PermitsConserved`. The permits
    of the burst and the ticks are accounted for one by one: in the channel, on
    the way there, refused because it is full, in the hands of a call, granted or
    lost. Before Stop none is lost, whichever contexts end and whichever TryAllow
    gives up; after it no more than the calls then under way, one each. Two
    callers can both hold a permit when Stop comes, and a third tick would add
    nothing that two, received or refused, do not.
  - actor (two callers, a counter that wraps at 4): the refinement
    `ImplementsSharedCounter`: a call told ErrClosed may or may not have been
    applied, every other takes effect once and learns the value it made.
  - bank (two tellers, two accounts, balances up to `MaxInt` 3, so that both ends of
    the range are met) and inventory (two callers, one item): the refinements in
    `UpdatesAtomic`.
  - metrics (two callers, `MaxStarts` 2): `PeakIsHighest`.
  - loader (three callers): `GetReturnsLoaded`.
  - semaphore (three callers, two slots): part of `ObjectsTypeOK`, which counts
    the holders.
  - `CallsReturn`: whoever waits in one of these comes back when what it waits
    for has happened or the object is closed; transfers in opposite directions
    never block each other.
- **goroutine_groups** (19853 states).
  - crawler (two workers, four pages with a cycle and two paths of different
    length, two pages that may fail, maxDepth 1 to 3): `NoSendOnClosedJobs`,
    `EachPageOnce`, `OkIsComplete`.
  - pipeline (every input of up to three of the values -1, 1, 2):
    `NothingLostInFlight`, `NilMeansComplete`.
  - batcher (maxSize 1 to 3, `MaxItems` 6, which lets the timer be reset twice
    after a late tick): `EachItemOnce`, `ClosedMeansAllOut`, `BatchGoesOut` (no
    late or stale tick keeps a batch from being flushed).
  - pool (two workers, three tasks): `ResultsTruthful`.
  - group (three tasks): `FirstErrorIsCause`. Three, so that two can lose.
  - table (three philosophers, two rounds) and timeout (one call).
  - `EveryRunEnds`: every one of these calls returns and leaves no goroutine
    behind, canceled or not.
- **web_crawler_depth**, **batcher_tick**, **worker_pool_canceled** (two workers,
  two tasks), **metrics_snapshot** (two callers, two requests): *violated*.

Each module has one type invariant, `TypeOK`, which also carries its bounds. All
are proved; those of SharedObjects and GoroutineGroups are also run, together, as
`ObjectsTypeOK` and `GroupsTypeOK`.

## 4. Fairness

Weak fairness of a goroutine's own steps: the Go scheduler runs every runnable
goroutine. Nothing is assumed of the environment that the code does not ask
for: subscribers need not receive, contexts need not end, nobody has to call
Close. What is assumed beyond that is named in the modules:

- `WaiterServed` (connectionpool) assumes that callers return what they borrow;
  `CanceledCallReturns` does not.
- `LockGranted` (keyedlock) assumes strong fairness of taking an entry's mutex,
  which sync.Mutex gives by its starvation mode, and that holders unlock.
- `CrawlReturns` assumes that Fetch returns.
- `DoReturns` (singleflight) assumes that fn returns or panics.
- `CloseReleasesAll` (boundedqueue, in `CallsReturn`) assumes that a goroutine
  woken gets the mutex in the end.
- `CallsReturn` assumes for bankaccount only that a Transfer that already holds a
  mutex goes on; for the selects of ratelimiter and actor that a branch that
  stays ready is taken; for the actor's callers that the scheduler runs the
  actor. Nobody has to call, and the limiter's ticker need not fire.
- `EveryRunEnds` assumes that fetches, tasks and the work function return, not
  that they succeed, and for the table that every philosopher's goroutine runs.
- `BatchGoesOut` assumes that the consumer keeps receiving, as the unbuffered
  output requires, and that an armed timer expires.

## 5. Proofs

Every invariant, action property and refinement that a passing run checks is
also a theorem, for all values of the constants that satisfy the assumption of
its module. A proof module extends its component's module and shows an inductive
invariant, usually a conjunction of named parts, from which the theorems
follow. The invariants below were checked by TLC on the instances of section 3
before they were proved.

**ConnectionPoolProofs** (`PoolAssumption`: Size at least 1, MaxWaiters
natural). No part of `IInv` is inductive alone: that a hand-off does not
overwrite another one needs `QueuedOrHanded`, which needs a wait list without
duplicates, and conservation needs both. Theorems: `TypeCorrect`,
`ConnsConserved`, `WaitersAccounted`, `NoIdleConnOverlooked`, and the
refinement `PoolRefinesFifoPool`.

**PubSubProofs** (`PubSubAssumption`: buffer sizes natural). `IInv` says who is
counted in which WaitGroup, that a closed channel has no sender, that at most
one goroutine is between marking a subscriber and closing its channel, and that
a subscriber not yet marked is in the map or on the list of the Close call.
Theorems: `TypeCorrect`, `PublishNeverPanics`, `ChannelsClosedOnce`,
`PublishDelivers`, `CloseIsComplete`, and `WaitGroupsDrain`: nobody joins the
WaitGroup that Close and Unsubscribe wait for, and whoever is in it can leave
without a mutex or a receiver.

**SingleFlightProofs** (`SingleFlightAssumption`). `OneRunPerKey` needs that an
entry is its leader's own and that call objects are not shared among leaders.
Theorems: `TypeCorrect`, `MutualExclusion`, `EntriesOwned`, `JoinersSafe`.

**BoundedQueueProofs** (`QueueAssumption`: capacity at least 1, finite disjoint
sets of goroutines). `NoLostSignal` is inductive together with the types and
with how far Close has got. Theorems: `TypeCorrect`, `SignalsSuffice`,
`CloseWakesAll` (nobody is parked once Close has returned), and the refinement
`QueueRefinesFifo`.

**KeyedLockProofs** (`KeyedLockAssumption`: finitely many goroutines). Mutual
exclusion follows from `OneEntryPerKey`, which follows from `refs` being the
number of users, so that whoever brings it to zero is the last. Theorems:
`TypeCorrect`, `KeysExclusive`, `EntriesCounted`, `KeysIndependent` (a
goroutine is blocked only by a holder of its own key).

**ObjectsProofs** (`ObjectsAssumption`: finite sets of goroutines, and the
assumption of each package about its constants). `Projection` reduces each
theorem to the Init and Next of one package.

- bankaccount and inventory: `UpdatesAreAtomic`, the refinement of Accounts. The
  steps of a transfer are mapped to one step of Accounts, its credit: until then
  the amount counts as still there (`Settled`). This needs that both mutexes are
  held from the debit on (`MutexesHeld`), so that the overflow check made before
  the debit still holds at the credit (`CreditFits`).
  `TransfersNeverDeadlock` needs that a mutex is held only by a transfer that
  still has to unlock it (`HeldByTransfer`): of the transfers that wait for
  their second mutex, the one that waits for the highest account waits for a
  transfer that waits for nobody.
- barrier: `ArrivedIsWaiting` (the count is the number of callers of this
  generation, `ArrivedCounts`) and the refinement `BarrierRefinesPhases`, which
  also needs that nobody is ahead of the generation (`NobodyAhead`). Both hold
  for any `MaxPhases`: that bound is one of the run only.
- actor: the refinement `ActorRefinesCounter`; a reply is in its channel exactly
  while its caller waits for it (`RepliesAwaited`).
- atomiccounter: `PeakIsTheHighest`. `highest` is the peak or the value some
  caller still in recordPeak is about to record, which survives a failed
  compare-and-swap because the peak only grows (`PeakKept`, `MetricsBounded`).
- ratelimiter: `PermitsAddUp`, for any burst and any number of ticks and callers.
  After Stop a permit is lost only by a call that ends with it, and no call
  begins any more, so the calls that have ended (`Ended`) bound the permits lost;
  of the ticks, those refused and the one not yet received are part
  (`LimiterInv`). That no more permits are granted than the burst and the ticks
  gave, in `ObjectsTypesOK`, follows from it.
- lazyinit: `GetsAgree`. `OnceOrder` says how much of the outcome is stored while
  the sync.Once runs and that nobody reads before.
- all nine: `ObjectsTypesOK`, with the number of a semaphore's holders and the
  permits a limiter has given away (at most burst plus one per tick).

**GroupsProofs** (`CrawlerAssumption`, `GroupsAssumption`), again by `Projection`.

- webcrawler: closing jobs is safe because `pending` is the number of jobs
  offered plus the number worked on (`PendingCounts`), and pages are fetched once
  because every page offered or worked on is already in `scheduled`
  (`AllScheduled`); both are parts of `CrawlInv`. Theorems: `TypeCorrect`,
  `ClosingIsSafe`, `PagesFetchedOnce`, and, by the same equation,
  `PendingEndsAtZero` and `CrawlNeverDeadlocks`.
- webcrawler, completeness: `OkMeansComplete` and `CrawlStaysWithinDepth`, with the
  hypothesis that there are finitely many pages, without which a crawl need not
  end and `Reach` need not be exhausted. The errors of a finished crawl are known
  only at its end, so the invariant `CompleteInv` speaks of the pages whose links
  a worker has begun to follow (`Followed`), a set that only grows. Every page
  scheduled is reached through them within maxDepth steps, and the page of a job
  in as many as its depth (`AllReached`); every link of one of them leads to a
  scheduled page or is still to be enqueued (`LinksScheduled`); and a job at
  depth d has d other pages scheduled before it (`DepthBounded`), so that a
  maxDepth of at least the number of other pages cuts off nothing.
- pipeline: `NothingIsLost`, `NilIsComplete`. `StagesHold` says that a stage that
  waits has no value and that one that ended without cancellation ended after
  the stage before it and after all values had passed.
- batcher: `ItemsKept`, `OutputComplete` (`FlushHolds`: where items can be while run
  is at each point), and `BatchNeverForgotten` (`TimerInv`): while run waits with
  items, a tick that its select looks at has come or is to come.
- workerpool: `ResultsAreTruthful`. `TaskAccounted` keeps apart the three things a
  result without an error can stand for: a task that succeeded, one not handed
  off, and one in a worker's hands.
- taskgroup: `FirstErrorReported`. Until the task in the sync.Once has canceled the
  group, only the caller can have canceled anything (`CanceledByParent`).
- diningphilosophers: `TableNeverDeadlocks`, for any number of philosophers: were
  all blocked, each one seated would wait for a fork of the next one, who then
  is seated too, and so all round; but one seat is missing (`TableInv`).
- all seven: `GroupsTypesOK`.

`Reach` and `Wanted` are recursive functions. What the proofs need of them is
proved from the definition: that it has a solution (`ReachExists`, `WantedExists`)
and what it is at each argument, by induction over a *set* of natural numbers
(`NatSetInduction`, from the library's `WFMin`), since the library's own induction
theorems have an operator as their parameter.

`CrawlNeverDeadlocks`, `TableNeverDeadlocks`, `TransfersNeverDeadlock` and
`WaitGroupsDrain` write out what each goroutine waits for instead of using
ENABLED, which the provers do not support. With the fairness of section 4
they are the safety half of the liveness that the runs check.

Only model-checked: the liveness properties (`CanceledCallReturns`,
`WaiterServed`, `CallsReturn` of pubsub and of the shared objects, `DoReturns`,
`LockGranted`, `BatchGoesOut`, `EveryRunEnds`), for the prover has no rule for
fairness, and the six disagreements of section 6, which are counterexamples.

## 6. Where the code and its comments disagree

- `Unsubscribe` (pubsub/broker.go:188): "After it returns, the subscriber channel
  is closed". When Close has emptied the map and not yet reached the
  subscriber, Unsubscribe finds nothing to do and returns while the channel is
  open (run pub_sub_unsubscribe). The channel is closed in the end.
- `Do` (singleflight/group.go:78): "Once a call finishes, a later Do with the same
  key starts fresh work." Joiners are let go before the entry is deleted, so a
  Do called after another Do has returned may still join the old call (run
  single_flight_fresh).
- `Crawl` (webcrawler/crawler.go:147): "visits pages reachable from start up to
  maxDepth". A page first scheduled along a longer path keeps that depth, so its
  links may be cut off although a shorter path reaches them within maxDepth (run
  web_crawler_depth).
- `Batch` (batcher/batcher.go:117): "A pending batch is emitted when it reaches
  maxSize, when maxDelay passes after the first pending item, or when input
  closes." With Go 1.22 timers the tick of a stopped timer may arrive after
  `stopTimer` has looked into the channel, and then flushes the next batch before
  its delay has passed (run batcher_tick).
- `Run` (workerpool/pool.go:70): "If the caller cancels the batch, Run stops
  starting new jobs, waits for active jobs to finish, and returns the
  cancellation error." The context is looked at for the last time when the last
  task is handed off; if it ends after that, the worker skips the task but Run's
  error is nil (run worker_pool_canceled). The result of the task carries the
  cancellation.
- `Snapshot` (atomiccounter/metrics.go:66): "reports the metric values at a moment
  in time". The counters are loaded one after the other, requests first, so a
  snapshot can show more requests ended than started (run metrics_snapshot).

Four more behaviours of the models that a reader of the code may not expect,
without a run of their own:

- `Batch` (batcher/batcher.go:87): after cancellation its select may still choose
  the input or the timer, so batches can go out before it looks at the context,
  although batcher.go:18-19 says that batching stops.
- `Wait` (ratelimiter/limiter.go:85): a call that has looked at done for the
  second time returns nil even if Stop has returned before it does.
- `Run` (diningphilosophers): the context is looked at only while waiting for a
  seat, so a context that ends later leaves the result nil.
- `Get` (lazyinit/loader.go:58): when load panics, sync.Once takes it for done, and
  later calls return the zero value with a nil error.

## 7. Not modelled

- The tests, the package comments and the build files: read for what they say
  about the code, with nothing to model.
- Argument and nil checks, read-only accessors, and the copying and sorting of
  results, as said in section 2. Contracts that callers break (a connection or a
  slot released twice) are not modelled either.
- More than one Snapshot or Reset at a time (atomiccounter): the doc comment of
  Reset promises nothing about requests under way.

## 8. What could follow

The safety half of the other calls that end: that a pipeline, a worker pool, a
task group and the actor's callers always have a step to take, as is proved for
the crawler and the table, and measures that each step makes smaller. Progress
of an open boundedqueue under a fairness of its mutex. An abstract lock that
KeyedLock implements key by key.
