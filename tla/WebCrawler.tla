----------------------------- MODULE WebCrawler -----------------------------
(***************************************************************************)
(* src/examples/webcrawler: one Crawl with a fixed number of workers, one  *)
(* short-lived goroutine per scheduled page that offers its job to them,   *)
(* and a WaitGroup that says when nothing is left to do.                   *)
(*                                                                         *)
(* A scheduled page is <<page, depth>>; its goroutine is in offers until a *)
(* worker takes the job or the context is done.  jobs is unbuffered, so    *)
(* handing a job over is one step of both.  enqueue marks the page under   *)
(* crawler.mu and then adds to pending and starts the goroutine: one step, *)
(* because the job that calls it is itself still pending.                  *)
(***************************************************************************)
EXTENDS Naturals, FiniteSets

CONSTANTS
    Pages,      \* URLs, and the links between them:
    Links,      \* Links[u]: pages the fetcher finds on page u
    Failing,    \* pages whose fetch may fail
    Start,      \* argument start of Crawl
    MaxDepths,  \* values of Crawl's argument maxDepth
    Workers,    \* the worker goroutines
    NoJob       \* what an idle worker works on

ASSUME CrawlerAssumption ==
    /\ Links \in [Pages -> SUBSET Pages]
    /\ Start \in Pages
    /\ MaxDepths \subseteq Nat
    /\ Workers # {} /\ IsFiniteSet(Workers)
    /\ NoJob \notin Pages \X Nat

VARIABLES
    maxDepth,   \* crawler.maxDepth
    ctxDone,    \* the context is done
    scheduled,  \* crawler.scheduled
    fetched,    \* crawler.fetched
    errors,     \* domain of crawler.errors
    offers,     \* jobs offered by goroutines of enqueue
    pending,    \* crawler.pending
    closed,     \* crawler.jobs is closed
    wpc,        \* wpc[w]: idle, taken, fetching, linking or gone
    job,        \* job[w]: the job w works on
    links,      \* links[w]: links w has yet to enqueue
    main        \* Crawl: start, waiting, closed, ok or canceled

vars == <<maxDepth, ctxDone, scheduled, fetched, errors, offers, pending,
          closed, wpc, job, links, main>>

Jobs == {<<u, d>> : u \in Pages, d \in 0 .. maxDepth}
Url(j) == j[1]
Depth(j) == j[2]

Init ==
    /\ maxDepth \in MaxDepths
    /\ ctxDone = FALSE
    /\ scheduled = {}
    /\ fetched = {}
    /\ errors = {}
    /\ offers = {}
    /\ pending = 0
    /\ closed = FALSE
    /\ wpc = [w \in Workers |-> "idle"]
    /\ job = [w \in Workers |-> NoJob]
    /\ links = [w \in Workers |-> {}]
    /\ main = "start"

-----------------------------------------------------------------------------
(* enqueue; a page already scheduled, at whatever depth, is skipped.       *)

(* Broken variant: enqueue skips the pages fetched instead of those scheduled. *)
Enqueue_ChecksFetched(u, d) ==
    IF u \in fetched
    THEN UNCHANGED <<scheduled, offers, pending>>
    ELSE /\ scheduled' = scheduled \union {u}
         /\ offers' = offers \union {<<u, d>>}
         /\ pending' = pending + 1

Enqueue(u, d) ==
    IF u \in scheduled
    THEN UNCHANGED <<scheduled, offers, pending>>
    ELSE /\ scheduled' = scheduled \union {u}
         /\ offers' = offers \union {<<u, d>>}
         /\ pending' = pending + 1

(* The goroutine of enqueue gives up its job. *)
OfferCanceled(j) ==
    /\ j \in offers
    /\ ctxDone
    /\ offers' = offers \ {j}
    /\ pending' = pending - 1
    /\ UNCHANGED <<maxDepth, ctxDone, scheduled, fetched, errors, closed, wpc,
                   job, links, main>>

-----------------------------------------------------------------------------
(* A worker: work, fetch. *)

TakeJob(w, j) ==
    /\ wpc[w] = "idle"
    /\ j \in offers
    /\ offers' = offers \ {j}
    /\ job' = [job EXCEPT ![w] = j]
    /\ wpc' = [wpc EXCEPT ![w] = "taken"]
    /\ UNCHANGED <<maxDepth, ctxDone, scheduled, fetched, errors, pending,
                   closed, links, main>>

(* fetch has returned: pending.Done. *)
FinishJob(w) ==
    /\ pending' = pending - 1
    /\ job' = [job EXCEPT ![w] = NoJob]
    /\ wpc' = [wpc EXCEPT ![w] = "idle"]

StartFetch(w) ==
    /\ wpc[w] = "taken"
    /\ ~ctxDone
    /\ fetched' = fetched \union {Url(job[w])}
    /\ wpc' = [wpc EXCEPT ![w] = "fetching"]
    /\ UNCHANGED <<maxDepth, ctxDone, scheduled, errors, offers, pending,
                   closed, job, links, main>>

SkipFetch(w) ==
    /\ wpc[w] = "taken"
    /\ ctxDone
    /\ FinishJob(w)
    /\ UNCHANGED <<maxDepth, ctxDone, scheduled, fetched, errors, offers,
                   closed, links, main>>

(* Broken variant: no failure is recorded. *)
FetchFails_Unrecorded(w) ==
    /\ wpc[w] = "fetching"
    /\ Url(job[w]) \in Failing \/ ctxDone
    /\ FinishJob(w)
    /\ UNCHANGED <<maxDepth, ctxDone, scheduled, fetched, errors, offers,
                   closed, links, main>>

(* Fetch fails for a page of Failing, or because the context is done; only *)
(* a failure of the first kind is recorded.                                *)
FetchFails(w) ==
    /\ wpc[w] = "fetching"
    /\ Url(job[w]) \in Failing \/ ctxDone
    /\ errors' = IF ctxDone THEN errors ELSE errors \union {Url(job[w])}
    /\ FinishJob(w)
    /\ UNCHANGED <<maxDepth, ctxDone, scheduled, fetched, offers, closed,
                   links, main>>

FetchSucceeds(w) ==
    /\ wpc[w] = "fetching"
    /\ links' = [links EXCEPT ![w] = IF Depth(job[w]) >= maxDepth
                                     THEN {} ELSE Links[Url(job[w])]]
    /\ wpc' = [wpc EXCEPT ![w] = "linking"]
    /\ UNCHANGED <<maxDepth, ctxDone, scheduled, fetched, errors, offers,
                   pending, closed, job, main>>

FollowLink(w, u) ==
    /\ wpc[w] = "linking"
    /\ u \in links[w]
    /\ links' = [links EXCEPT ![w] = @ \ {u}]
    /\ Enqueue(u, Depth(job[w]) + 1)
    /\ UNCHANGED <<maxDepth, ctxDone, fetched, errors, closed, wpc, job, main>>

LinksDone(w) ==
    /\ wpc[w] = "linking"
    /\ links[w] = {}
    /\ FinishJob(w)
    /\ UNCHANGED <<maxDepth, ctxDone, scheduled, fetched, errors, offers,
                   closed, links, main>>

WorkerExits(w) ==
    /\ wpc[w] = "idle"
    /\ closed
    /\ wpc' = [wpc EXCEPT ![w] = "gone"]
    /\ UNCHANGED <<maxDepth, ctxDone, scheduled, fetched, errors, offers,
                   pending, closed, job, links, main>>

-----------------------------------------------------------------------------
(* Crawl, after its arguments have been checked. *)

EnqueueStart ==
    /\ main = "start"
    /\ Enqueue(Start, 0)
    /\ main' = "waiting"
    /\ UNCHANGED <<maxDepth, ctxDone, fetched, errors, closed, wpc, job, links>>

(* Broken variant: a done context closes jobs without waiting for pending. *)
CloseJobs_OnCancel ==
    /\ main = "waiting"
    /\ pending = 0 \/ ctxDone
    /\ closed' = TRUE
    /\ main' = "closed"
    /\ UNCHANGED <<maxDepth, ctxDone, scheduled, fetched, errors, offers,
                   pending, wpc, job, links>>

CloseJobs ==
    /\ main = "waiting"
    /\ pending = 0
    /\ closed' = TRUE
    /\ main' = "closed"
    /\ UNCHANGED <<maxDepth, ctxDone, scheduled, fetched, errors, offers,
                   pending, wpc, job, links>>

Return ==
    /\ main = "closed"
    /\ \A w \in Workers : wpc[w] = "gone"
    /\ main' = IF ctxDone THEN "canceled" ELSE "ok"
    /\ UNCHANGED <<maxDepth, ctxDone, scheduled, fetched, errors, offers,
                   pending, closed, wpc, job, links>>

Cancel ==
    /\ ~ctxDone
    /\ main \notin {"ok", "canceled"}
    /\ ctxDone' = TRUE
    /\ UNCHANGED <<maxDepth, scheduled, fetched, errors, offers, pending,
                   closed, wpc, job, links, main>>

-----------------------------------------------------------------------------

WorkerStep(w) ==
    \/ \E j \in offers : TakeJob(w, j)
    \/ StartFetch(w)
    \/ SkipFetch(w)
    \/ FetchFails(w)
    \/ FetchSucceeds(w)
    \/ \E u \in Pages : FollowLink(w, u)
    \/ LinksDone(w)
    \/ WorkerExits(w)

CrawlStep == EnqueueStart \/ CloseJobs \/ Return

Next ==
    \/ \E w \in Workers : WorkerStep(w)
    \/ \E j \in offers : OfferCanceled(j)
    \/ CrawlStep
    \/ Cancel

Spec == Init /\ [][Next]_vars

(* Goroutines that can run do run, and every Fetch returns. *)
FairSpec ==
    /\ Spec
    /\ \A w \in Workers : WF_vars(WorkerStep(w))
    /\ WF_vars(CrawlStep)

-----------------------------------------------------------------------------
(* Properties *)

Busy == {w \in Workers : wpc[w] \in {"taken", "fetching", "linking"}}

TypeOK ==
    /\ maxDepth \in MaxDepths
    /\ ctxDone \in BOOLEAN
    /\ scheduled \subseteq Pages
    /\ fetched \subseteq Pages
    /\ errors \subseteq fetched
    /\ offers \subseteq Jobs
    /\ pending \in Nat
    /\ closed \in BOOLEAN
    /\ wpc \in [Workers -> {"idle", "taken", "fetching", "linking", "gone"}]
    /\ job \in [Workers -> Jobs \union {NoJob}]
    /\ \A w \in Workers : job[w] = NoJob <=> w \notin Busy
    /\ links \in [Workers -> SUBSET Pages]
    /\ main \in {"start", "waiting", "closed", "ok", "canceled"}

(* jobs is closed only when no goroutine of enqueue can still send on it   *)
(* (it would panic) and no worker will start one.                          *)
NoSendOnClosedJobs == closed => offers = {} /\ Busy = {}

(* No page is fetched twice, by whichever paths and workers it is reached: *)
(* a page offered or taken has not been fetched, and no other job has it.  *)
EachPageOnce ==
    /\ \A j \in offers :
          /\ Url(j) \notin fetched
          /\ \A i \in offers : Url(i) = Url(j) => i = j
          /\ \A w \in Busy : Url(job[w]) # Url(j)
    /\ \A w \in Busy :
          /\ wpc[w] = "taken" => Url(job[w]) \notin fetched
          /\ \A v \in Busy : Url(job[v]) = Url(job[w]) => v = w

(* Reach(follow)[d]: pages at most d links away from Start when the links  *)
(* of the pages in follow only are followed.                               *)
Reach(follow) ==
    LET reach[d \in 0 .. maxDepth] ==
            IF d = 0 THEN {Start}
            ELSE reach[d - 1] \union
                 UNION {Links[u] : u \in reach[d - 1] \intersect follow}
    IN  reach

(* A nil error means a complete crawl wherever maxDepth cuts nothing off:  *)
(* every page reachable through pages that did not fail has been fetched.  *)
OkIsComplete ==
    main = "ok" /\ maxDepth >= Cardinality(Pages) - 1 =>
        fetched = Reach(Pages \ errors)[maxDepth]

(* Crawl returns, canceled or not, and whatever fails. *)
CrawlReturns == <>(main \in {"ok", "canceled"})

(* The doc comment of Crawl: it visits pages reachable from start up to    *)
(* maxDepth.  With a smaller maxDepth it may not: a page first scheduled   *)
(* along a longer path is not looked at again when a worker finds the      *)
(* shorter one, and then its links are beyond maxDepth.                    *)
VisitsAllWithinDepth ==
    main = "ok" => Reach(Pages \ errors)[maxDepth] \subseteq fetched
=============================================================================
