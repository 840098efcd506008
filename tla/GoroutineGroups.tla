--------------------------- MODULE GoroutineGroups --------------------------
(***************************************************************************)
(* The packages in which one call starts a group of goroutines.  As in     *)
(* SharedObjects one of them is at work in a behaviour, the one example    *)
(* names, and the others stay in their initial states.                     *)
(***************************************************************************)
EXTENDS WebCrawler

CONSTANTS
    Inputs, NoValue,       \* pipeline
    MaxSizes, MaxItems,    \* batcher
    PoolTasks, Idle,       \* workerpool, whose workers are Workers too
    Tasks, NoTask,         \* taskgroup
    Philosophers, Rounds   \* diningphilosophers

VARIABLES
    example,  \* the package at work
    input, pictx, sent, pipc, val, values, piResult,
    maxSize, bactx, inClosed, taken, batch, timerC, armed, expired, tick,
    elapsed, bapc, items, last, output,
    poctx, next, feeder, runErr, index, popc, err, succeeded,
    parentDone, grctx, grpc, grErr, once, firstErr, grResult,
    tictx, tipc, buffer, tiResult,
    tactx, seats, tapc, rounds

Pi == INSTANCE Pipeline WITH
    ctxDone <- pictx, pc <- pipc, result <- piResult
Ba == INSTANCE Batcher WITH
    ctxDone <- bactx, pc <- bapc
Po == INSTANCE WorkerPool WITH
    Tasks <- PoolTasks, ctxDone <- poctx, wpc <- popc
Gr == INSTANCE TaskGroup WITH
    ctxDone <- grctx, pc <- grpc, err <- grErr, result <- grResult
Ti == INSTANCE TimeoutWorker WITH
    ctxDone <- tictx, wpc <- tipc, result <- tiResult
Ta == INSTANCE DiningPhilosophers WITH
    ctxDone <- tactx, pc <- tapc

ASSUME GroupsAssumption ==
    /\ Pi!PipelineAssumption
    /\ Ba!BatcherAssumption
    /\ Po!PoolAssumption
    /\ Gr!GroupAssumption
    /\ Ta!TableAssumption

pipeline == <<input, pictx, sent, pipc, val, values, piResult>>
batcher == <<maxSize, bactx, inClosed, taken, batch, timerC, armed, expired,
             tick, elapsed, bapc, items, last, output>>
pool == <<poctx, next, feeder, runErr, index, popc, err, succeeded>>
group == <<parentDone, grctx, grpc, grErr, once, firstErr, grResult>>
timeout == <<tictx, tipc, buffer, tiResult>>
table == <<tactx, seats, tapc, rounds>>

Examples == {"crawler", "pipeline", "batcher", "pool", "group", "timeout",
             "table"}

(* The arguments of the calls that are not made do not matter. *)
GroupsInit ==
    /\ example \in Examples
    /\ Init /\ Pi!Init /\ Ba!Init /\ Po!Init /\ Gr!Init /\ Ti!Init /\ Ta!Init
    /\ example # "crawler" => maxDepth = CHOOSE d \in MaxDepths : TRUE
    /\ example # "pipeline" => input = CHOOSE i \in Inputs : TRUE
    /\ example # "batcher" => maxSize = CHOOSE n \in MaxSizes : TRUE

Still(name, state) == IF example = name THEN TRUE ELSE UNCHANGED state

Others ==
    /\ UNCHANGED example
    /\ Still("crawler", vars)
    /\ Still("pipeline", pipeline)
    /\ Still("batcher", batcher)
    /\ Still("pool", pool)
    /\ Still("group", group)
    /\ Still("timeout", timeout)
    /\ Still("table", table)

GroupsNext ==
    \/ example = "crawler" /\ Next /\ Others
    \/ example = "pipeline" /\ Pi!Next /\ Others
    \/ example = "batcher" /\ Ba!Next /\ Others
    \/ example = "pool" /\ Po!Next /\ Others
    \/ example = "group" /\ Gr!Next /\ Others
    \/ example = "timeout" /\ Ti!Next /\ Others
    \/ example = "table" /\ Ta!Next /\ Others

all == <<example, vars, pipeline, batcher, pool, group, timeout, table>>

(* Goroutines that can run do run; fetches, tasks and the functions given  *)
(* to Run return; and the consumer of the batches keeps receiving.         *)
GroupsFairness ==
    /\ \A w \in Workers : WF_vars(example = "crawler" /\ WorkerStep(w))
    /\ WF_vars(example = "crawler" /\ CrawlStep)
    /\ WF_pipeline(example = "pipeline" /\ Pi!SourceSends)
    /\ WF_pipeline(example = "pipeline" /\ Pi!FilterSends)
    /\ WF_pipeline(example = "pipeline" /\ Pi!MapSends)
    /\ \A stage \in 1 .. 4 : WF_pipeline(example = "pipeline" /\ Pi!End(stage))
    /\ WF_batcher(example = "batcher" /\ Ba!Run)
    /\ WF_batcher(example = "batcher" /\ Ba!Emit)
    /\ WF_batcher(example = "batcher" /\ Ba!Timer)
    /\ WF_pool(example = "pool" /\ Po!Feed)
    /\ \A w \in Workers : WF_pool(example = "pool" /\ (Po!HandOff(w) \/ Po!Work(w)))
    /\ WF_group(example = "group" /\ Gr!Return)
    /\ \A k \in Tasks : WF_group(example = "group" /\ Gr!Step(k))
    /\ WF_timeout(example = "timeout" /\ Ti!Work)
    /\ WF_timeout(example = "timeout" /\ Ti!Return)
    /\ \A p \in Ta!Ids : WF_table(example = "table" /\ Ta!Dine(p))

GroupsSpec == GroupsInit /\ [][GroupsNext]_all /\ GroupsFairness

-----------------------------------------------------------------------------
(* Properties *)

(* Types, and what each TypeOK says beyond them: a batch is never larger   *)
(* than maxSize, as many seats are taken as philosophers sit.              *)
GroupsTypeOK ==
    /\ TypeOK
    /\ Pi!TypeOK /\ Ba!TypeOK /\ Po!TypeOK /\ Gr!TypeOK /\ Ti!TypeOK
    /\ Ta!TypeOK

(* pipeline: between the source and the caller nothing is lost, doubled or *)
(* overtaken.                                                              *)
NothingLostInFlight == Pi!NothingLostInFlight

(* pipeline: a nil error means the whole result, whichever stages          *)
(* cancellation has made close their channels early.                       *)
NilMeansComplete == Pi!NilMeansComplete

(* batcher: every item received is in one batch, in order, or on its way.  *)
EachItemOnce == Ba!EachItemOnce

(* batcher: an output closed without cancellation has delivered all.       *)
ClosedMeansAllOut == Ba!ClosedMeansAllOut

(* batcher: no item waits for a full batch for ever, whatever ticks are    *)
(* late or left over.                                                      *)
BatchGoesOut == Ba!BatchGoesOut

(* workerpool: a result without an error belongs to a task that has run    *)
(* and succeeded, whenever cancellation comes.                             *)
ResultsTruthful == Po!ResultsTruthful

(* taskgroup: the error returned is the cause of the cancellation and not  *)
(* one of its consequences.                                                *)
FirstErrorIsCause == Gr!FirstErrorIsCause

(* Every call returns, canceled or not and whatever fails, and leaves no   *)
(* goroutine behind.                                                       *)
EveryRunEnds ==
    /\ example = "crawler" => CrawlReturns
    /\ example = "pipeline" => Pi!EveryStageReturns
    /\ Ba!RunEnds
    /\ example = "pool" => Po!RunReturns
    /\ example = "group" => Gr!RunReturns
    /\ example = "timeout" => Ti!RunReturns
    /\ example = "table" => Ta!RunReturns
=============================================================================
