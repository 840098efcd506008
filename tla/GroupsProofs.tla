---------------------------- MODULE GroupsProofs ----------------------------
(***************************************************************************)
(* Proofs about the packages in which one call starts a group of           *)
(* goroutines, for any values of the constants.  A behaviour of            *)
(* GoroutineGroups is one of each package (Projection), so each section    *)
(* proves an inductive invariant from the Init and Next of one package and *)
(* carries it over.                                                        *)
(***************************************************************************)
EXTENDS GoroutineGroups, Facts

LEMMA InitProjection ==
    ASSUME GroupsInit
    PROVE  /\ Init /\ Pi!Init /\ Ba!Init /\ Po!Init /\ Gr!Init /\ Ti!Init
           /\ Ta!Init
BY DEF GroupsInit

LEMMA NextProjection ==
    ASSUME [GroupsNext]_all
    PROVE  /\ [Next]_vars
           /\ [Pi!Next]_pipeline
           /\ [Ba!Next]_batcher
           /\ [Po!Next]_pool
           /\ [Gr!Next]_group
           /\ [Ti!Next]_timeout
           /\ [Ta!Next]_table
BY DEF GroupsNext, Others, Still, all

(* A behaviour of the whole, as seen by each package. *)
LEMMA Projection ==
    GroupsSpec =>
        /\ Spec
        /\ Pi!Init /\ [][Pi!Next]_pipeline
        /\ Ba!Init /\ [][Ba!Next]_batcher
        /\ Po!Init /\ [][Po!Next]_pool
        /\ Gr!Init /\ [][Gr!Next]_group
        /\ Ti!Init /\ [][Ti!Next]_timeout
        /\ Ta!Init /\ [][Ta!Next]_table
<1>1. GroupsInit =>
        /\ Init /\ Pi!Init /\ Ba!Init /\ Po!Init /\ Gr!Init /\ Ti!Init /\ Ta!Init
  BY InitProjection
<1>2. [GroupsNext]_all =>
        /\ [Next]_vars /\ [Pi!Next]_pipeline /\ [Ba!Next]_batcher
        /\ [Po!Next]_pool /\ [Gr!Next]_group /\ [Ti!Next]_timeout
        /\ [Ta!Next]_table
  BY NextProjection
<1> QED BY <1>1, <1>2, PTL DEF GroupsSpec, Spec

-----------------------------------------------------------------------------
(* webcrawler.  What makes closing jobs safe is an equation: pending is    *)
(* the number of jobs offered plus the number being worked on              *)
(* (PendingCounts), so that zero means that no goroutine holds a job that  *)
(* could lead to another.  No page is fetched twice because each one       *)
(* offered or worked on is already marked (AllScheduled), before anybody   *)
(* can look for it.                                                        *)

PendingCounts ==
    /\ IsFiniteSet(offers)
    /\ pending = Cardinality(offers) + Cardinality(Busy)

AllScheduled ==
    /\ fetched \subseteq scheduled
    /\ \A j \in offers : Url(j) \in scheduled
    /\ \A w \in Busy : Url(job[w]) \in scheduled

(* A page being fetched is recorded, and links are followed only above     *)
(* maxDepth.                                                               *)
BusyRecorded ==
    \A w \in Busy :
        /\ wpc[w] # "taken" => Url(job[w]) \in fetched
        /\ wpc[w] = "linking" /\ links[w] # {} => Depth(job[w]) < maxDepth

CrawlInv ==
    /\ TypeOK
    /\ PendingCounts
    /\ AllScheduled
    /\ BusyRecorded
    /\ EachPageOnce
    /\ NoSendOnClosedJobs
    /\ closed <=> main \in {"closed", "ok", "canceled"}

-----------------------------------------------------------------------------
(* What the counts do when workers and offers come and go. *)

LEMMA BusyFinite == IsFiniteSet(Busy) /\ Cardinality(Busy) \in Nat
BY CrawlerAssumption, FS_Subset, FS_CardinalityType DEF Busy

LEMMA JobTypes ==
    ASSUME TypeOK
    PROVE  /\ \A j \in Jobs : j # NoJob /\ Url(j) \in Pages /\ Depth(j) \in 0 .. maxDepth
           /\ \A w \in Busy : w \in Workers /\ job[w] \in Jobs
           /\ maxDepth \in Nat
BY CrawlerAssumption DEF TypeOK, Jobs, Url, Depth, Busy

(* A page is enqueued while the number of workers at work stays the same. *)
LEMMA EnqueueKeeps ==
    ASSUME CrawlInv, NEW u \in Pages, NEW d \in 0 .. maxDepth, Enqueue(u, d),
           ~closed, UNCHANGED <<maxDepth, fetched, closed, wpc, job>>
    PROVE  /\ scheduled' \subseteq Pages /\ offers' \subseteq Jobs' /\ pending' \in Nat
           /\ PendingCounts'
           /\ AllScheduled'
           /\ EachPageOnce'
           /\ NoSendOnClosedJobs'
<1>0. /\ TypeOK /\ PendingCounts /\ AllScheduled /\ EachPageOnce
  BY DEF CrawlInv
<1>1. Busy' = Busy /\ Jobs' = Jobs
  BY DEF Busy, Jobs
<1>2. NoSendOnClosedJobs'
  BY DEF NoSendOnClosedJobs
<1>3. CASE u \in scheduled
  <2>1. UNCHANGED <<scheduled, offers, pending>>
    BY <1>3 DEF Enqueue
  <2> QED BY <1>0, <1>1, <1>2, <2>1 DEF TypeOK, PendingCounts, AllScheduled, EachPageOnce
<1>4. CASE u \notin scheduled
  <2>1. /\ scheduled' = scheduled \union {u}
        /\ offers' = offers \union {<<u, d>>}
        /\ pending' = pending + 1
    BY <1>4 DEF Enqueue
  <2>2. /\ <<u, d>> \in Jobs
        /\ Url(<<u, d>>) = u
        /\ <<u, d>> \notin offers
        /\ \A j \in offers : Url(j) # u
        /\ \A w \in Busy : Url(job[w]) # u
        /\ u \notin fetched
    BY <1>0, <1>4 DEF AllScheduled, Jobs, Url
  <2>3. /\ scheduled' \subseteq Pages /\ offers' \subseteq Jobs' /\ pending' \in Nat
    BY <1>0, <1>1, <2>1, <2>2 DEF TypeOK
  <2>4. /\ IsFiniteSet(offers')
        /\ Cardinality(offers') = Cardinality(offers) + 1
    BY <1>0, <2>1, <2>2, FS_AddElement DEF PendingCounts
  <2>5. PendingCounts'
    BY <1>0, <1>1, <2>1, <2>4, BusyFinite, FS_CardinalityType DEF PendingCounts
  <2>6. AllScheduled'
    BY <1>0, <1>1, <2>1, <2>2 DEF AllScheduled
  <2>7. EachPageOnce'
    BY <1>0, <1>1, <2>1, <2>2 DEF EachPageOnce
  <2> QED BY <1>2, <2>3, <2>5, <2>6, <2>7
<1> QED BY <1>3, <1>4

(* A worker has done its job. *)
LEMMA FinishKeeps ==
    ASSUME CrawlInv, NEW w \in Busy, FinishJob(w),
           errors' \subseteq fetched,
           UNCHANGED <<maxDepth, ctxDone, scheduled, fetched, offers, closed,
                       links, main>>
    PROVE  CrawlInv'
<1>0. /\ TypeOK /\ PendingCounts /\ AllScheduled /\ BusyRecorded /\ EachPageOnce
      /\ NoSendOnClosedJobs /\ (closed <=> main \in {"closed", "ok", "canceled"})
  BY DEF CrawlInv
<1>1. /\ pending' = pending - 1
      /\ job' = [job EXCEPT ![w] = NoJob]
      /\ wpc' = [wpc EXCEPT ![w] = "idle"]
      /\ w \in Workers
  BY DEF FinishJob, Busy
<1>2. Busy' = Busy \ {w} /\ Jobs' = Jobs
  BY <1>0, <1>1 DEF Busy, TypeOK, Jobs
<1>3. /\ IsFiniteSet(Busy')
      /\ Cardinality(Busy') = Cardinality(Busy) - 1
      /\ Cardinality(Busy') \in Nat
  BY <1>2, BusyFinite, FS_RemoveElement, FS_CardinalityType
<1>4. PendingCounts' /\ pending' \in Nat
  BY <1>0, <1>1, <1>3, BusyFinite, FS_CardinalityType DEF PendingCounts
<1>5. \A v \in Busy' : v \in Busy /\ job'[v] = job[v] /\ wpc'[v] = wpc[v]
  BY <1>0, <1>1, <1>2, JobTypes DEF TypeOK
<1>6. TypeOK'
  BY <1>0, <1>1, <1>2, <1>4 DEF TypeOK
<1>7. AllScheduled'
  BY <1>0, <1>5 DEF AllScheduled
<1>8. BusyRecorded'
  BY <1>0, <1>5 DEF BusyRecorded
<1>9. EachPageOnce'
  BY <1>0, <1>5 DEF EachPageOnce
<1>10. NoSendOnClosedJobs'
  BY <1>0, <1>2 DEF NoSendOnClosedJobs
<1> QED BY <1>0, <1>4, <1>6, <1>7, <1>8, <1>9, <1>10 DEF CrawlInv

-----------------------------------------------------------------------------

LEMMA CrawlStarts == Init => CrawlInv
<1> SUFFICES ASSUME Init PROVE CrawlInv
  OBVIOUS
<1>1. Busy = {}
  BY DEF Init, Busy
<1>2. TypeOK
  BY <1>1, CrawlerAssumption DEF Init, TypeOK
<1>3. PendingCounts
  BY <1>1, FS_EmptySet DEF Init, PendingCounts
<1> QED
  BY <1>1, <1>2, <1>3
  DEF Init, CrawlInv, AllScheduled, BusyRecorded, EachPageOnce, NoSendOnClosedJobs

LEMMA CrawlNext == CrawlInv /\ [Next]_vars => CrawlInv'
<1> SUFFICES ASSUME CrawlInv, [Next]_vars PROVE CrawlInv'
  OBVIOUS
<1>0. /\ TypeOK /\ PendingCounts /\ AllScheduled /\ BusyRecorded /\ EachPageOnce
      /\ NoSendOnClosedJobs /\ (closed <=> main \in {"closed", "ok", "canceled"})
  BY DEF CrawlInv
<1>1. ASSUME NEW w \in Workers, NEW j \in offers, TakeJob(w, j) PROVE CrawlInv'
  <2>1. /\ wpc[w] = "idle"
        /\ offers' = offers \ {j}
        /\ job' = [job EXCEPT ![w] = j]
        /\ wpc' = [wpc EXCEPT ![w] = "taken"]
        /\ UNCHANGED <<maxDepth, ctxDone, scheduled, fetched, errors, pending,
                       closed, links, main>>
    BY <1>1 DEF TakeJob
  <2>2. /\ Busy' = Busy \union {w} /\ w \notin Busy /\ Jobs' = Jobs
        /\ job'[w] = j /\ wpc'[w] = "taken" /\ j \in Jobs /\ j # NoJob
        /\ \A v \in Busy : job'[v] = job[v] /\ wpc'[v] = wpc[v]
    BY <1>0, <2>1, JobTypes DEF Busy, TypeOK, Jobs
  <2>3. /\ Cardinality(Busy') = Cardinality(Busy) + 1
        /\ IsFiniteSet(offers')
        /\ Cardinality(offers') = Cardinality(offers) - 1
    BY <1>0, <2>1, <2>2, BusyFinite, FS_AddElement, FS_RemoveElement DEF PendingCounts
  <2>4. PendingCounts'
    BY <1>0, <2>1, <2>3, BusyFinite, FS_CardinalityType DEF PendingCounts
  <2>5. TypeOK'
    BY <1>0, <2>1, <2>2 DEF TypeOK
  <2>6. AllScheduled'
    BY <1>0, <2>1, <2>2 DEF AllScheduled
  <2>7. BusyRecorded'
    BY <1>0, <2>1, <2>2 DEF BusyRecorded
  <2>8. EachPageOnce'
    BY <1>0, <2>1, <2>2 DEF EachPageOnce
  <2>9. NoSendOnClosedJobs'
    BY <1>0, <2>1 DEF NoSendOnClosedJobs
  <2> QED BY <1>0, <2>1, <2>4, <2>5, <2>6, <2>7, <2>8, <2>9 DEF CrawlInv
<1>2. ASSUME NEW w \in Workers, StartFetch(w) PROVE CrawlInv'
  <2>1. /\ wpc[w] = "taken"
        /\ fetched' = fetched \union {Url(job[w])}
        /\ wpc' = [wpc EXCEPT ![w] = "fetching"]
        /\ UNCHANGED <<maxDepth, ctxDone, scheduled, errors, offers, pending,
                       closed, job, links, main>>
    BY <1>2 DEF StartFetch
  <2>2. /\ Busy' = Busy /\ w \in Busy /\ Jobs' = Jobs
        /\ Url(job[w]) \in Pages /\ wpc'[w] = "fetching"
        /\ \A v \in Busy : v # w => wpc'[v] = wpc[v]
    BY <1>0, <2>1, JobTypes DEF Busy, TypeOK, Jobs
  <2>3. TypeOK'
    BY <1>0, <2>1, <2>2 DEF TypeOK
  <2>4. PendingCounts' /\ NoSendOnClosedJobs'
    BY <1>0, <2>1, <2>2 DEF PendingCounts, NoSendOnClosedJobs
  <2>5. AllScheduled'
    BY <1>0, <2>1, <2>2 DEF AllScheduled
  <2>6. BusyRecorded'
    BY <1>0, <2>1, <2>2 DEF BusyRecorded
  <2>7. EachPageOnce'
    BY <1>0, <2>1, <2>2 DEF EachPageOnce
  <2> QED BY <1>0, <2>1, <2>3, <2>4, <2>5, <2>6, <2>7 DEF CrawlInv
<1>3. ASSUME NEW w \in Workers, SkipFetch(w) PROVE CrawlInv'
  BY <1>0, <1>3, FinishKeeps DEF SkipFetch, Busy, TypeOK
<1>4. ASSUME NEW w \in Workers, FetchFails(w) PROVE CrawlInv'
  <2>1. w \in Busy /\ Url(job[w]) \in fetched
    BY <1>0, <1>4 DEF FetchFails, Busy, BusyRecorded
  <2>2. errors' \subseteq fetched
    BY <1>0, <1>4, <2>1 DEF FetchFails, TypeOK
  <2> QED BY <1>4, <2>1, <2>2, FinishKeeps DEF FetchFails
<1>5. ASSUME NEW w \in Workers, FetchSucceeds(w) PROVE CrawlInv'
  <2> DEFINE found == IF Depth(job[w]) >= maxDepth THEN {} ELSE Links[Url(job[w])]
  <2>1. /\ wpc[w] = "fetching"
        /\ links' = [links EXCEPT ![w] = found]
        /\ wpc' = [wpc EXCEPT ![w] = "linking"]
        /\ UNCHANGED <<maxDepth, ctxDone, scheduled, fetched, errors, offers,
                       pending, closed, job, main>>
    BY <1>5 DEF FetchSucceeds
  <2>2. /\ Busy' = Busy /\ w \in Busy /\ Jobs' = Jobs /\ job[w] \in Jobs
        /\ Url(job[w]) \in Pages /\ Depth(job[w]) \in Nat /\ maxDepth \in Nat
    BY <1>0, <2>1, JobTypes DEF Busy, TypeOK, Jobs
  <2>3. found \subseteq Pages /\ (found # {} => Depth(job[w]) < maxDepth)
    BY <2>2, CrawlerAssumption
  <2> HIDE DEF found
  <2>4. /\ wpc'[w] = "linking" /\ links'[w] = found
        /\ \A v \in Busy : v # w => wpc'[v] = wpc[v] /\ links'[v] = links[v]
    BY <1>0, <2>1, JobTypes DEF TypeOK
  <2>5. TypeOK'
    BY <1>0, <2>1, <2>2, <2>3 DEF TypeOK
  <2>6. PendingCounts' /\ NoSendOnClosedJobs' /\ AllScheduled'
    BY <1>0, <2>1, <2>2 DEF PendingCounts, NoSendOnClosedJobs, AllScheduled
  <2>7. BusyRecorded'
    BY <1>0, <2>1, <2>2, <2>3, <2>4 DEF BusyRecorded
  <2>8. EachPageOnce'
    BY <1>0, <2>1, <2>2, <2>4 DEF EachPageOnce
  <2> QED BY <1>0, <2>1, <2>5, <2>6, <2>7, <2>8 DEF CrawlInv
<1>6. ASSUME NEW w \in Workers, NEW u \in Pages, FollowLink(w, u) PROVE CrawlInv'
  <2>1. /\ wpc[w] = "linking" /\ u \in links[w]
        /\ links' = [links EXCEPT ![w] = @ \ {u}]
        /\ Enqueue(u, Depth(job[w]) + 1)
        /\ UNCHANGED <<maxDepth, ctxDone, fetched, errors, closed, wpc, job, main>>
    BY <1>6 DEF FollowLink
  <2>2. w \in Busy /\ Busy' = Busy /\ Jobs' = Jobs /\ ~closed
    BY <1>0, <2>1 DEF Busy, Jobs, NoSendOnClosedJobs
  <2>3. Depth(job[w]) + 1 \in 0 .. maxDepth
    BY <1>0, <2>1, <2>2, JobTypes DEF BusyRecorded
  <2>4. /\ scheduled' \subseteq Pages /\ offers' \subseteq Jobs' /\ pending' \in Nat
        /\ PendingCounts' /\ AllScheduled' /\ EachPageOnce' /\ NoSendOnClosedJobs'
    BY <2>1, <2>2, <2>3, EnqueueKeeps
  <2>5. TypeOK'
    BY <1>0, <2>1, <2>2, <2>4 DEF TypeOK
  <2>6. BusyRecorded'
    <3>1. \A v \in Busy : links'[v] \subseteq links[v]
      BY <1>0, <2>1, JobTypes DEF TypeOK
    <3> QED BY <1>0, <2>1, <2>2, <3>1 DEF BusyRecorded
  <2> QED BY <1>0, <2>1, <2>4, <2>5, <2>6 DEF CrawlInv
<1>7. ASSUME NEW w \in Workers, LinksDone(w) PROVE CrawlInv'
  BY <1>0, <1>7, FinishKeeps DEF LinksDone, Busy, TypeOK
<1>8. ASSUME NEW w \in Workers, WorkerExits(w) PROVE CrawlInv'
  <2>1. Busy' = Busy /\ Jobs' = Jobs
    BY <1>0, <1>8 DEF WorkerExits, Busy, TypeOK, Jobs
  <2>2. \A v \in Busy : wpc'[v] = wpc[v]
    BY <1>0, <1>8 DEF WorkerExits, Busy, TypeOK
  <2>3. TypeOK'
    BY <1>0, <1>8, <2>1 DEF WorkerExits, TypeOK
  <2>4. PendingCounts' /\ NoSendOnClosedJobs' /\ AllScheduled' /\ EachPageOnce' /\ BusyRecorded'
    BY <1>0, <1>8, <2>1, <2>2
    DEF WorkerExits, PendingCounts, NoSendOnClosedJobs, AllScheduled,
        EachPageOnce, BusyRecorded
  <2> QED BY <1>0, <1>8, <2>3, <2>4 DEF WorkerExits, CrawlInv
<1>9. ASSUME NEW j \in offers, OfferCanceled(j) PROVE CrawlInv'
  <2>1. /\ offers' = offers \ {j}
        /\ pending' = pending - 1
        /\ UNCHANGED <<maxDepth, ctxDone, scheduled, fetched, errors, closed, wpc,
                       job, links, main>>
    BY <1>9 DEF OfferCanceled
  <2>2. Busy' = Busy /\ Jobs' = Jobs
    BY <2>1 DEF Busy, Jobs
  <2>3. /\ IsFiniteSet(offers')
        /\ Cardinality(offers') = Cardinality(offers) - 1
        /\ Cardinality(offers') \in Nat
    BY <1>0, <2>1, FS_RemoveElement, FS_CardinalityType DEF PendingCounts
  <2>4. PendingCounts' /\ pending' \in Nat
    BY <1>0, <2>1, <2>2, <2>3, BusyFinite, FS_CardinalityType DEF PendingCounts
  <2>5. TypeOK'
    BY <1>0, <2>1, <2>2, <2>4 DEF TypeOK
  <2>6. NoSendOnClosedJobs' /\ AllScheduled' /\ EachPageOnce' /\ BusyRecorded'
    BY <1>0, <2>1, <2>2
    DEF NoSendOnClosedJobs, AllScheduled, EachPageOnce, BusyRecorded
  <2> QED BY <1>0, <2>1, <2>4, <2>5, <2>6 DEF CrawlInv
<1>10. CASE EnqueueStart
  <2>1. /\ main = "start" /\ main' = "waiting"
        /\ Enqueue(Start, 0)
        /\ UNCHANGED <<maxDepth, ctxDone, fetched, errors, closed, wpc, job, links>>
    BY <1>10 DEF EnqueueStart
  <2>2. ~closed /\ Busy' = Busy /\ Jobs' = Jobs /\ Start \in Pages /\ 0 \in 0 .. maxDepth
    BY <1>0, <2>1, JobTypes, CrawlerAssumption DEF Busy, Jobs
  <2>3. /\ scheduled' \subseteq Pages /\ offers' \subseteq Jobs' /\ pending' \in Nat
        /\ PendingCounts' /\ AllScheduled' /\ EachPageOnce' /\ NoSendOnClosedJobs'
    BY <2>1, <2>2, EnqueueKeeps
  <2>4. TypeOK' /\ BusyRecorded'
    BY <1>0, <2>1, <2>2, <2>3 DEF TypeOK, BusyRecorded
  <2> QED BY <2>1, <2>2, <2>3, <2>4 DEF CrawlInv
<1>11. CASE CloseJobs
  <2>1. /\ main = "waiting" /\ main' = "closed" /\ pending = 0 /\ closed' = TRUE
        /\ UNCHANGED <<maxDepth, ctxDone, scheduled, fetched, errors, offers,
                       pending, wpc, job, links>>
    BY <1>11 DEF CloseJobs
  <2>2. Busy' = Busy /\ Jobs' = Jobs
    BY <2>1 DEF Busy, Jobs
  <2>3. Cardinality(offers) = 0 /\ Cardinality(Busy) = 0
    BY <1>0, <2>1, BusyFinite, FS_CardinalityType DEF PendingCounts
  <2>4. offers = {} /\ Busy = {}
    BY <1>0, <2>3, BusyFinite, FS_EmptySet DEF PendingCounts
  <2>5. TypeOK'
    BY <1>0, <2>1, <2>2 DEF TypeOK
  <2>6. /\ PendingCounts' /\ NoSendOnClosedJobs' /\ AllScheduled' /\ EachPageOnce'
        /\ BusyRecorded'
    BY <1>0, <2>1, <2>2, <2>4
    DEF PendingCounts, NoSendOnClosedJobs, AllScheduled, EachPageOnce, BusyRecorded
  <2> QED BY <2>1, <2>5, <2>6 DEF CrawlInv
<1>12. CASE Return \/ Cancel \/ UNCHANGED vars
  <2>1. /\ UNCHANGED <<maxDepth, scheduled, fetched, errors, offers, pending,
                       closed, wpc, job, links>>
        /\ ctxDone' \in BOOLEAN
        /\ main' \in {"start", "waiting", "closed", "ok", "canceled"}
        /\ closed <=> main' \in {"closed", "ok", "canceled"}
    BY <1>0, <1>12 DEF Return, Cancel, vars, TypeOK
  <2>2. Busy' = Busy /\ Jobs' = Jobs
    BY <2>1 DEF Busy, Jobs
  <2>3. TypeOK'
    BY <1>0, <2>1, <2>2 DEF TypeOK
  <2>4. /\ PendingCounts' /\ NoSendOnClosedJobs' /\ AllScheduled' /\ EachPageOnce'
        /\ BusyRecorded'
    BY <1>0, <2>1, <2>2
    DEF PendingCounts, NoSendOnClosedJobs, AllScheduled, EachPageOnce, BusyRecorded
  <2> QED BY <2>1, <2>3, <2>4 DEF CrawlInv
<1> QED
  BY <1>1, <1>2, <1>3, <1>4, <1>5, <1>6, <1>7, <1>8, <1>9, <1>10, <1>11, <1>12
  DEF Next, WorkerStep, CrawlStep

LEMMA CrawlInvariance == Spec => []CrawlInv
BY CrawlStarts, CrawlNext, PTL DEF Spec

-----------------------------------------------------------------------------

(* The state is well typed; no job is deeper than maxDepth, and only pages *)
(* that were fetched have an error.                                        *)
THEOREM TypeCorrect == Spec => []TypeOK
<1>1. CrawlInv => TypeOK
  BY DEF CrawlInv
<1> QED BY <1>1, CrawlInvariance, PTL

(* jobs is closed only when nobody can send on it any more: pending.Wait   *)
(* has returned because no job is offered or worked on.                    *)
THEOREM ClosingIsSafe == Spec => []NoSendOnClosedJobs
<1>1. CrawlInv => NoSendOnClosedJobs
  BY DEF CrawlInv
<1> QED BY <1>1, CrawlInvariance, PTL

(* However many paths lead to a page and whichever workers find them, it   *)
(* is fetched once.                                                        *)
THEOREM PagesFetchedOnce == Spec => []EachPageOnce
<1>1. CrawlInv => EachPageOnce
  BY DEF CrawlInv
<1> QED BY <1>1, CrawlInvariance, PTL

-----------------------------------------------------------------------------
(* What a nil error of Crawl means.  Followed are the pages whose links a  *)
(* worker has begun to follow; it only grows, while the errors that        *)
(* OkIsComplete speaks of make the pages to follow fewer.  Every page      *)
(* scheduled is reached through Followed (AllReached), and every link of a *)
(* page of Followed leads to a scheduled page or to one a worker is yet to *)
(* enqueue (LinksScheduled).  A job at depth d has d pages scheduled       *)
(* before it (DepthBounded): where maxDepth stops the crawl nothing is     *)
(* left to be found, if maxDepth is no less than the number of other       *)
(* pages.                                                                  *)

Held == offers \union {job[w] : w \in Busy}

Followed ==
    {u \in fetched \ errors :
        \A w \in Busy : Url(job[w]) = u => wpc[w] = "linking"}

LinksOfPage ==
    \A w \in Busy :
        /\ Url(job[w]) \notin errors
        /\ wpc[w] = "linking" => links[w] \subseteq Links[Url(job[w])]

DepthBounded == \A j \in Held : Depth(j) < Cardinality(scheduled)

NothingDropped ==
    ~ctxDone => \A u \in scheduled : u \in fetched \/ \E j \in Held : Url(j) = u

LinksScheduled ==
    ~ctxDone /\ maxDepth >= Cardinality(Pages) - 1 =>
        \A u \in Followed : \A v \in Links[u] :
            v \in scheduled \/ \E w \in Busy : Url(job[w]) = u /\ v \in links[w]

AllReached ==
    /\ \A j \in Held : Url(j) \in Reach(Followed)[Depth(j)]
    /\ \A u \in scheduled : \E d \in 0 .. maxDepth : u \in Reach(Followed)[d]

CompleteInv ==
    /\ LinksOfPage
    /\ DepthBounded
    /\ NothingDropped
    /\ LinksScheduled
    /\ AllReached
    /\ main # "start" => Start \in scheduled
    /\ main = "ok" => ~ctxDone

(* The recursive definition of Reach has a solution. *)
LEMMA ReachExists ==
    ASSUME NEW m \in Nat, NEW follow
    PROVE  \E f : f = [d \in 0 .. m |->
                          IF d = 0 THEN {Start}
                          ELSE f[d - 1] \union
                               UNION {Links[u] : u \in f[d - 1] \intersect follow}]
<1> DEFINE Add(g) == g \union UNION {Links[u] : u \in g \intersect follow}
           Solves(f, k) == f = [d \in 0 .. k |->
                                   IF d = 0 THEN {Start} ELSE Add(f[d - 1])]
           T == {k \in Nat : \E f : Solves(f, k)}
<1> HIDE DEF Add
<1>1. 0 \in T
  <2>1. Solves([d \in 0 .. 0 |-> {Start}], 0)
    OBVIOUS
  <2> QED BY <2>1
<1>2. ASSUME NEW k \in T PROVE k + 1 \in T
  <2>1. PICK f : Solves(f, k)
    OBVIOUS
  <2> DEFINE g == [d \in 0 .. k + 1 |-> IF d = 0 THEN {Start} ELSE Add(f[d - 1])]
             h == [d \in 0 .. k |-> IF d = 0 THEN {Start} ELSE Add(f[d - 1])]
  <2>2. \A d \in 0 .. k : g[d] = f[d]
    <3>1. \A d \in 0 .. k : g[d] = h[d]
      OBVIOUS
    <3>2. f = h
      BY <2>1
    <3> HIDE DEF g, h
    <3> QED BY <3>1, <3>2
  <2>3. \A d \in 0 .. k + 1 : d # 0 => d - 1 \in 0 .. k
    OBVIOUS
  <2>4. Solves(g, k + 1)
    BY <2>2, <2>3
  <2> HIDE DEF g
  <2>5. \E e : Solves(e, k + 1)
    BY <2>4
  <2>6. k + 1 \in Nat
    OBVIOUS
  <2> HIDE DEF Solves
  <2> QED BY <2>5, <2>6
<1>3. T = Nat
  <2> HIDE DEF T
  <2>1. T \in SUBSET Nat
    BY DEF T
  <2> QED BY <1>1, <1>2, <2>1, NatSetInduction
<1>4. PICK f : Solves(f, m)
  BY <1>3
<1> QED BY <1>4 DEF Add

LEMMA ReachSteps ==
    ASSUME maxDepth \in Nat, NEW follow
    PROVE  /\ Reach(follow)[0] = {Start}
           /\ \A d \in Nat :
                 d < maxDepth =>
                   Reach(follow)[d + 1] =
                     Reach(follow)[d] \union
                       UNION {Links[u] : u \in Reach(follow)[d] \intersect follow}
<1> DEFINE r == Reach(follow)
           F == [d \in 0 .. maxDepth |->
                    IF d = 0 THEN {Start}
                    ELSE r[d - 1] \union
                         UNION {Links[u] : u \in r[d - 1] \intersect follow}]
<1>1. r = F
  BY ReachExists DEF Reach
<1> HIDE DEF r
<1>2. /\ F[0] = {Start}
      /\ \A d \in 0 .. maxDepth :
            d # 0 => F[d] = r[d - 1] \union
                            UNION {Links[u] : u \in r[d - 1] \intersect follow}
  OBVIOUS
<1> HIDE DEF F
<1>3. \A d \in 0 .. maxDepth : r[d] = F[d]
  BY <1>1
<1>4. ASSUME NEW d \in Nat, d < maxDepth
      PROVE  r[d + 1] = r[d] \union UNION {Links[u] : u \in r[d] \intersect follow}
  <2>1. d + 1 \in 0 .. maxDepth /\ d + 1 # 0 /\ (d + 1) - 1 = d
    BY <1>4
  <2> QED BY <1>2, <1>3, <2>1
<1> QED BY <1>2, <1>3, <1>4 DEF r

(* Links to pages reached are reached one step later. *)
LEMMA ReachLink ==
    ASSUME maxDepth \in Nat, NEW follow, NEW d \in Nat, d < maxDepth,
           NEW u \in Reach(follow)[d], u \in follow, NEW v \in Links[u]
    PROVE  v \in Reach(follow)[d + 1]
BY ReachSteps

(* More pages to follow, or more steps, reach more. *)
LEMMA ReachMonotonic ==
    ASSUME maxDepth \in Nat, NEW F, NEW G, F \subseteq G, NEW d \in 0 .. maxDepth
    PROVE  Reach(F)[d] \subseteq Reach(G)[d]
<1> DEFINE T == {k \in Nat : k <= maxDepth => Reach(F)[k] \subseteq Reach(G)[k]}
<1>1. 0 \in T
  BY ReachSteps
<1>2. ASSUME NEW k \in T PROVE k + 1 \in T
  <2> SUFFICES ASSUME k + 1 <= maxDepth
               PROVE  Reach(F)[k + 1] \subseteq Reach(G)[k + 1]
    OBVIOUS
  <2>1. k \in Nat /\ k < maxDepth /\ Reach(F)[k] \subseteq Reach(G)[k]
    OBVIOUS
  <2> QED BY <2>1, ReachSteps
<1>3. T = Nat
  <2> HIDE DEF T
  <2>1. T \in SUBSET Nat
    BY DEF T
  <2> QED BY <1>1, <1>2, <2>1, NatSetInduction
<1> QED BY <1>3

LEMMA ReachDeeper ==
    ASSUME maxDepth \in Nat, NEW F, NEW d \in 0 .. maxDepth
    PROVE  Reach(F)[d] \subseteq Reach(F)[maxDepth]
<1> DEFINE T == {k \in Nat : d <= k /\ k <= maxDepth => Reach(F)[d] \subseteq Reach(F)[k]}
<1>1. 0 \in T
  OBVIOUS
<1>2. ASSUME NEW k \in T PROVE k + 1 \in T
  <2> SUFFICES ASSUME d <= k + 1, k + 1 <= maxDepth
               PROVE  Reach(F)[d] \subseteq Reach(F)[k + 1]
    OBVIOUS
  <2>1. CASE d = k + 1
    BY <2>1
  <2>2. CASE d <= k
    <3>1. k < maxDepth /\ Reach(F)[d] \subseteq Reach(F)[k]
      BY <2>2
    <3> QED BY <3>1, ReachSteps
  <2> QED BY <2>1, <2>2
<1>3. T = Nat
  <2> HIDE DEF T
  <2>1. T \in SUBSET Nat
    BY DEF T
  <2> QED BY <1>1, <1>2, <2>1, NatSetInduction
<1> QED BY <1>3

LEMMA ReachStays ==
    ASSUME maxDepth' = maxDepth
    PROVE  Reach(Followed)' = Reach(Followed')
BY DEF Reach

LEMMA HeldTypes ==
    ASSUME TypeOK
    PROVE  /\ \A j \in Held : j \in Jobs /\ Url(j) \in Pages /\ Depth(j) \in 0 .. maxDepth
           /\ maxDepth \in Nat
BY JobTypes DEF Held, TypeOK

(* What was reached stays reached, and at most page u is reached anew. *)
LEMMA ReachedKept ==
    ASSUME TypeOK, AllReached, UNCHANGED maxDepth, Followed \subseteq Followed',
           NEW u, NEW d \in 0 .. maxDepth, u \in Reach(Followed)[d],
           scheduled' \subseteq scheduled \union {u},
           \A j \in Held' : j \in Held \/ j = <<u, d>>
    PROVE  AllReached'
<1>1. \A k \in 0 .. maxDepth : Reach(Followed)[k] \subseteq Reach(Followed')[k]
  BY HeldTypes, ReachMonotonic
<1>2. Reach(Followed)' = Reach(Followed')
  BY ReachStays
<1>3. ASSUME NEW j \in Held' PROVE Url(j) \in Reach(Followed')[Depth(j)]
  <2>1. CASE j \in Held
    <3>1. Url(j) \in Reach(Followed)[Depth(j)] /\ Depth(j) \in 0 .. maxDepth
      BY <2>1, HeldTypes DEF AllReached
    <3> QED BY <1>1, <3>1
  <2>2. CASE j = <<u, d>>
    <3>1. Url(j) = u /\ Depth(j) = d
      BY <2>2 DEF Url, Depth
    <3> QED BY <1>1, <3>1
  <2> QED BY <1>3, <2>1, <2>2
<1>4. ASSUME NEW v \in scheduled'
      PROVE  \E k \in 0 .. maxDepth : v \in Reach(Followed')[k]
  <2>1. \E k \in 0 .. maxDepth : v \in Reach(Followed)[k]
    BY <1>4 DEF AllReached
  <2> QED BY <1>1, <2>1
<1> QED BY <1>2, <1>3, <1>4 DEF AllReached

LEMMA ScheduledFinite ==
    ASSUME IsFiniteSet(Pages), TypeOK
    PROVE  /\ IsFiniteSet(scheduled)
           /\ Cardinality(scheduled) \in Nat
           /\ Cardinality(scheduled) >= Cardinality(Pages) => scheduled = Pages
BY FS_Subset, FS_CardinalityType DEF TypeOK

(* Steps that enqueue no page. *)
LEMMA NoneScheduled ==
    ASSUME TypeOK, AllReached, DepthBounded, UNCHANGED <<maxDepth, scheduled>>,
           Held' \subseteq Held, Followed \subseteq Followed'
    PROVE  AllReached' /\ DepthBounded'
<1>1. Start \in Reach(Followed)[0] /\ 0 \in 0 .. maxDepth
  BY HeldTypes, ReachSteps
<1>2. AllReached'
  BY <1>1, ReachedKept
<1>3. DepthBounded'
  BY DEF DepthBounded
<1> QED BY <1>2, <1>3

(* Steps that enqueue a page, which is at most one deeper than a page that *)
(* is scheduled.                                                           *)
LEMMA OneScheduled ==
    ASSUME IsFiniteSet(Pages), TypeOK, AllReached, DepthBounded, NothingDropped,
           NEW u \in Pages, NEW d \in 0 .. maxDepth, Enqueue(u, d),
           d <= Cardinality(scheduled), u \in Reach(Followed)[d],
           UNCHANGED <<maxDepth, ctxDone, fetched, errors, wpc, job>>
    PROVE  /\ AllReached' /\ DepthBounded' /\ NothingDropped'
           /\ Followed' = Followed /\ Busy' = Busy
           /\ scheduled' = scheduled \union {u}
<1>1. Busy' = Busy
  BY DEF Busy
<1>2. Followed' = Followed
  BY <1>1 DEF Followed
<1>3. CASE u \in scheduled
  <2>1. UNCHANGED <<scheduled, offers>>
    BY <1>3 DEF Enqueue
  <2>2. Held' = Held
    BY <1>1, <2>1 DEF Held
  <2>3. AllReached' /\ DepthBounded'
    BY <1>2, <2>1, <2>2, NoneScheduled
  <2>4. NothingDropped'
    BY <2>1, <2>2 DEF NothingDropped
  <2> QED BY <1>1, <1>2, <1>3, <2>1, <2>3, <2>4
<1>4. CASE u \notin scheduled
  <2>1. scheduled' = scheduled \union {u} /\ offers' = offers \union {<<u, d>>}
    BY <1>4 DEF Enqueue
  <2>2. Held' = Held \union {<<u, d>>}
    BY <1>1, <2>1 DEF Held
  <2>3. Url(<<u, d>>) = u /\ Depth(<<u, d>>) = d
    BY DEF Url, Depth
  <2>4. Cardinality(scheduled') = Cardinality(scheduled) + 1
    BY <1>4, <2>1, ScheduledFinite, FS_AddElement
  <2>5. AllReached'
    BY <1>2, <2>1, <2>2, ReachedKept
  <2>6. DepthBounded'
    BY <2>2, <2>3, <2>4, ScheduledFinite, HeldTypes DEF DepthBounded
  <2>7. NothingDropped'
    BY <2>1, <2>2, <2>3 DEF NothingDropped
  <2> QED BY <1>1, <1>2, <2>1, <2>5, <2>6, <2>7
<1> QED BY <1>3, <1>4

LEMMA CompleteStarts == Init => CompleteInv
<1> SUFFICES ASSUME Init PROVE CompleteInv
  OBVIOUS
<1>1. Busy = {} /\ Held = {} /\ scheduled = {} /\ fetched = {} /\ main = "start"
  BY DEF Init, Busy, Held
<1>2. Followed = {}
  BY <1>1 DEF Followed
<1> QED
  BY <1>1, <1>2
  DEF CompleteInv, LinksOfPage, DepthBounded, NothingDropped, LinksScheduled, AllReached

(* A worker has done its job, and had no link left to follow. *)
LEMMA CompleteFinish ==
    ASSUME CrawlInv, CompleteInv, NEW w \in Busy, FinishJob(w),
           ctxDone \/ Url(job[w]) \in fetched,
           errors' \subseteq errors \union {Url(job[w])},
           errors' # errors => wpc[w] = "fetching",
           wpc[w] = "linking" => links[w] = {},
           wpc[w] # "linking" => ctxDone \/ errors' = errors \union {Url(job[w])},
           UNCHANGED <<maxDepth, ctxDone, scheduled, fetched, offers, links, main>>
    PROVE  CompleteInv'
<1>0. /\ TypeOK /\ EachPageOnce /\ LinksOfPage /\ DepthBounded /\ NothingDropped
      /\ LinksScheduled /\ AllReached
      /\ (main # "start" => Start \in scheduled) /\ (main = "ok" => ~ctxDone)
  BY DEF CrawlInv, CompleteInv
<1>1. /\ Busy' = Busy \ {w}
      /\ \A v \in Busy' :
            /\ v \in Busy /\ v # w /\ job'[v] = job[v] /\ wpc'[v] = wpc[v]
            /\ Url(job[v]) # Url(job[w])
  <2>1. /\ job' = [job EXCEPT ![w] = NoJob]
        /\ wpc' = [wpc EXCEPT ![w] = "idle"]
        /\ w \in Workers
    BY DEF FinishJob, Busy
  <2> QED BY <1>0, <2>1 DEF Busy, TypeOK, EachPageOnce
<1>2. LinksOfPage'
  BY <1>0, <1>1 DEF LinksOfPage
<1>3. Held' \subseteq Held /\ \A j \in Held : j \in Held' \/ j = job[w]
  BY <1>1 DEF Held
<1>4. Followed \subseteq Followed'
  BY <1>1 DEF Followed
<1>5. AllReached' /\ DepthBounded'
  BY <1>0, <1>3, <1>4, NoneScheduled
<1>6. NothingDropped'
  BY <1>0, <1>3 DEF NothingDropped
<1>7. ~ctxDone => Followed' \subseteq Followed
  BY <1>1 DEF Followed
<1>8. LinksScheduled'
  <2> SUFFICES ASSUME ~ctxDone, maxDepth >= Cardinality(Pages) - 1,
                      NEW u \in Followed', NEW v \in Links[u], v \notin scheduled
               PROVE  \E x \in Busy' : Url(job'[x]) = u /\ v \in links'[x]
    BY DEF LinksScheduled
  <2>1. u \in Followed
    BY <1>7
  <2>2. PICK x \in Busy : Url(job[x]) = u /\ v \in links[x]
    BY <1>0, <2>1 DEF LinksScheduled
  <2>3. wpc[x] = "linking"
    BY <2>1, <2>2 DEF Followed
  <2>4. x \in Busy'
    BY <1>1, <2>2, <2>3
  <2> QED BY <1>1, <2>2, <2>4
<1> QED BY <1>0, <1>2, <1>5, <1>6, <1>8 DEF CompleteInv

LEMMA CompleteNext ==
    ASSUME IsFiniteSet(Pages), CrawlInv, CompleteInv, [Next]_vars
    PROVE  CompleteInv'
<1>0. /\ TypeOK /\ BusyRecorded /\ EachPageOnce /\ LinksOfPage /\ DepthBounded
      /\ NothingDropped /\ LinksScheduled /\ AllReached
      /\ (main # "start" => Start \in scheduled) /\ (main = "ok" => ~ctxDone)
  BY DEF CrawlInv, CompleteInv
<1>1. ASSUME NEW w \in Workers, NEW j \in offers, TakeJob(w, j) PROVE CompleteInv'
  <2>1. /\ wpc[w] = "idle"
        /\ offers' = offers \ {j}
        /\ job' = [job EXCEPT ![w] = j]
        /\ wpc' = [wpc EXCEPT ![w] = "taken"]
        /\ UNCHANGED <<maxDepth, ctxDone, scheduled, fetched, errors, links, main>>
    BY <1>1 DEF TakeJob
  <2>2. /\ Busy' = Busy \union {w} /\ w \notin Busy
        /\ job'[w] = j /\ wpc'[w] = "taken"
        /\ \A v \in Busy : job'[v] = job[v] /\ wpc'[v] = wpc[v]
    BY <1>0, <2>1, JobTypes DEF Busy, TypeOK
  <2>3. Url(j) \notin fetched /\ Url(j) \notin errors
    BY <1>0 DEF EachPageOnce, TypeOK
  <2>4. LinksOfPage'
    BY <1>0, <2>1, <2>2, <2>3 DEF LinksOfPage
  <2>5. Held' = Held
    BY <2>1, <2>2 DEF Held
  <2>6. Followed' = Followed
    BY <2>1, <2>2, <2>3 DEF Followed
  <2>7. AllReached' /\ DepthBounded'
    BY <1>0, <2>1, <2>5, <2>6, NoneScheduled
  <2>8. NothingDropped'
    BY <1>0, <2>1, <2>5 DEF NothingDropped
  <2>9. LinksScheduled'
    BY <1>0, <2>1, <2>2, <2>6 DEF LinksScheduled
  <2> QED BY <1>0, <2>1, <2>4, <2>7, <2>8, <2>9 DEF CompleteInv
<1>2. ASSUME NEW w \in Workers, StartFetch(w) PROVE CompleteInv'
  <2>1. /\ wpc[w] = "taken"
        /\ fetched' = fetched \union {Url(job[w])}
        /\ wpc' = [wpc EXCEPT ![w] = "fetching"]
        /\ UNCHANGED <<maxDepth, ctxDone, scheduled, errors, offers, job, links, main>>
    BY <1>2 DEF StartFetch
  <2>2. /\ Busy' = Busy /\ w \in Busy /\ wpc'[w] = "fetching"
        /\ \A v \in Busy : v # w => wpc'[v] = wpc[v]
    BY <1>0, <2>1, JobTypes DEF Busy, TypeOK
  <2>3. LinksOfPage'
    BY <1>0, <2>1, <2>2 DEF LinksOfPage
  <2>4. Held' = Held
    BY <2>1, <2>2 DEF Held
  <2>5. Followed' = Followed
    BY <2>1, <2>2 DEF Followed
  <2>6. AllReached' /\ DepthBounded'
    BY <1>0, <2>1, <2>4, <2>5, NoneScheduled
  <2>7. NothingDropped'
    BY <1>0, <2>1, <2>4 DEF NothingDropped
  <2>8. LinksScheduled'
    BY <1>0, <2>1, <2>2, <2>5 DEF LinksScheduled
  <2> QED BY <1>0, <2>1, <2>3, <2>6, <2>7, <2>8 DEF CompleteInv
<1>3. ASSUME NEW w \in Workers, SkipFetch(w) PROVE CompleteInv'
  <2>1. w \in Busy /\ wpc[w] = "taken"
    BY <1>3 DEF SkipFetch, Busy
  <2> QED BY <1>3, <2>1, CompleteFinish DEF SkipFetch
<1>4. ASSUME NEW w \in Workers, FetchFails(w) PROVE CompleteInv'
  <2>1. w \in Busy /\ wpc[w] = "fetching" /\ Url(job[w]) \in fetched
    BY <1>0, <1>4 DEF FetchFails, Busy, BusyRecorded
  <2>2. errors' = IF ctxDone THEN errors ELSE errors \union {Url(job[w])}
    BY <1>4 DEF FetchFails
  <2> QED BY <1>4, <2>1, <2>2, CompleteFinish DEF FetchFails
<1>5. ASSUME NEW w \in Workers, FetchSucceeds(w) PROVE CompleteInv'
  <2> DEFINE p == Url(job[w])
             found == IF Depth(job[w]) >= maxDepth THEN {} ELSE Links[p]
  <2>1. /\ wpc[w] = "fetching"
        /\ links' = [links EXCEPT ![w] = found]
        /\ wpc' = [wpc EXCEPT ![w] = "linking"]
        /\ UNCHANGED <<maxDepth, ctxDone, scheduled, fetched, errors, offers, job, main>>
    BY <1>5 DEF FetchSucceeds
  <2>2. Busy' = Busy /\ w \in Busy /\ job[w] \in Held
    BY <1>0, <2>1, JobTypes DEF Busy, TypeOK, Held
  <2>3. /\ wpc'[w] = "linking" /\ links'[w] = found
        /\ \A v \in Busy : v # w => wpc'[v] = wpc[v] /\ links'[v] = links[v]
    BY <1>0, <2>1, JobTypes DEF TypeOK
  <2>4. LinksOfPage'
    BY <1>0, <2>1, <2>2, <2>3 DEF LinksOfPage
  <2>5. Held' = Held
    BY <2>1, <2>2 DEF Held
  <2>6. Followed \subseteq Followed' /\ Followed' \subseteq Followed \union {p}
    BY <2>1, <2>2, <2>3 DEF Followed
  <2>7. AllReached' /\ DepthBounded'
    BY <1>0, <2>1, <2>5, <2>6, NoneScheduled
  <2>8. NothingDropped'
    BY <1>0, <2>1, <2>5 DEF NothingDropped
  <2>9. LinksScheduled'
    <3> SUFFICES ASSUME ~ctxDone, maxDepth >= Cardinality(Pages) - 1,
                        NEW u \in Followed', NEW v \in Links[u], v \notin scheduled
                 PROVE  \E x \in Busy : Url(job[x]) = u /\ v \in links'[x]
      BY <2>1, <2>2 DEF LinksScheduled
    <3>1. CASE u \in Followed
      <4>1. PICK x \in Busy : Url(job[x]) = u /\ v \in links[x]
        BY <1>0, <3>1 DEF LinksScheduled
      <4>2. x # w
        BY <2>1, <2>2, <3>1, <4>1 DEF Followed
      <4> QED BY <2>3, <4>1, <4>2
    <3>2. CASE u = p
      <4>1. p \in Pages /\ Depth(job[w]) \in Nat /\ maxDepth \in Nat
        BY <1>0, <2>2, HeldTypes
      <4>2. v \in Pages
        BY <3>2, <4>1, CrawlerAssumption
      <4>3. Depth(job[w]) < Cardinality(scheduled)
        BY <1>0, <2>2 DEF DepthBounded
      <4>4. Cardinality(Pages) \in Nat
        BY FS_CardinalityType
      <4>5. ~(Depth(job[w]) >= maxDepth)
        BY <1>0, <4>1, <4>2, <4>3, <4>4, ScheduledFinite
      <4> QED BY <2>2, <2>3, <3>2, <4>5
    <3> QED BY <2>6, <3>1, <3>2
  <2> QED BY <1>0, <2>1, <2>4, <2>7, <2>8, <2>9 DEF CompleteInv
<1>6. ASSUME NEW w \in Workers, NEW u \in Pages, FollowLink(w, u) PROVE CompleteInv'
  <2> DEFINE p == Url(job[w])
             d == Depth(job[w])
  <2>1. /\ wpc[w] = "linking" /\ u \in links[w]
        /\ links' = [links EXCEPT ![w] = @ \ {u}]
        /\ Enqueue(u, d + 1)
        /\ UNCHANGED <<maxDepth, ctxDone, fetched, errors, wpc, job, main>>
    BY <1>6 DEF FollowLink
  <2>2. w \in Busy /\ job[w] \in Held
    BY <2>1 DEF Busy, Held
  <2>3. /\ d \in Nat /\ maxDepth \in Nat /\ d < maxDepth
        /\ d < Cardinality(scheduled)
    BY <1>0, <2>1, <2>2, HeldTypes DEF BusyRecorded, DepthBounded
  <2>4. p \in Followed /\ u \in Links[p]
    BY <1>0, <2>1, <2>2 DEF Followed, LinksOfPage, BusyRecorded, EachPageOnce
  <2>5. p \in Reach(Followed)[d]
    BY <1>0, <2>2 DEF AllReached
  <2>6. u \in Reach(Followed)[d + 1]
    BY <2>3, <2>4, <2>5, ReachLink
  <2>7. d + 1 \in 0 .. maxDepth /\ d + 1 <= Cardinality(scheduled)
    BY <1>0, <2>3, ScheduledFinite
  <2> HIDE DEF d
  <2>8. /\ AllReached' /\ DepthBounded' /\ NothingDropped'
        /\ Followed' = Followed /\ Busy' = Busy
        /\ scheduled' = scheduled \union {u}
    BY <1>0, <2>1, <2>6, <2>7, OneScheduled
  <2>9. /\ links'[w] = links[w] \ {u}
        /\ \A v \in Busy : v # w => links'[v] = links[v]
    BY <1>0, <2>1, JobTypes DEF TypeOK
  <2>10. LinksOfPage'
    BY <1>0, <2>1, <2>8, <2>9 DEF LinksOfPage
  <2>11. LinksScheduled'
    BY <1>0, <2>1, <2>8, <2>9 DEF LinksScheduled
  <2> QED BY <1>0, <2>1, <2>8, <2>10, <2>11 DEF CompleteInv
<1>7. ASSUME NEW w \in Workers, LinksDone(w) PROVE CompleteInv'
  <2>1. w \in Busy /\ wpc[w] = "linking" /\ links[w] = {} /\ Url(job[w]) \in fetched
    BY <1>0, <1>7 DEF LinksDone, Busy, BusyRecorded
  <2> QED BY <1>7, <2>1, CompleteFinish DEF LinksDone
<1>8. ASSUME NEW w \in Workers, WorkerExits(w) PROVE CompleteInv'
  <2>1. /\ Busy' = Busy
        /\ \A v \in Busy : wpc'[v] = wpc[v]
        /\ UNCHANGED <<maxDepth, ctxDone, scheduled, fetched, errors, offers, job,
                       links, main>>
    BY <1>0, <1>8 DEF WorkerExits, Busy, TypeOK
  <2>2. Held' = Held /\ Followed' = Followed
    BY <2>1 DEF Held, Followed
  <2>3. AllReached' /\ DepthBounded'
    BY <1>0, <2>1, <2>2, NoneScheduled
  <2>4. LinksOfPage' /\ NothingDropped' /\ LinksScheduled'
    BY <1>0, <2>1, <2>2 DEF LinksOfPage, NothingDropped, LinksScheduled
  <2> QED BY <1>0, <2>1, <2>3, <2>4 DEF CompleteInv
<1>9. ASSUME NEW j \in offers, OfferCanceled(j) PROVE CompleteInv'
  <2>1. /\ ctxDone /\ offers' = offers \ {j}
        /\ UNCHANGED <<maxDepth, ctxDone, scheduled, fetched, errors, wpc, job,
                       links, main>>
    BY <1>9 DEF OfferCanceled
  <2>2. Busy' = Busy
    BY <2>1 DEF Busy
  <2>3. Held' \subseteq Held /\ Followed' = Followed
    BY <2>1, <2>2 DEF Held, Followed
  <2>4. AllReached' /\ DepthBounded'
    BY <1>0, <2>1, <2>3, NoneScheduled
  <2>5. LinksOfPage' /\ NothingDropped' /\ LinksScheduled'
    BY <1>0, <2>1, <2>2 DEF LinksOfPage, NothingDropped, LinksScheduled
  <2> QED BY <1>0, <2>1, <2>4, <2>5 DEF CompleteInv
<1>10. CASE EnqueueStart
  <2>1. /\ main' = "waiting" /\ Enqueue(Start, 0)
        /\ UNCHANGED <<maxDepth, ctxDone, fetched, errors, wpc, job, links>>
    BY <1>10 DEF EnqueueStart
  <2>2. /\ Start \in Reach(Followed)[0] /\ 0 \in 0 .. maxDepth
        /\ Start \in Pages /\ 0 <= Cardinality(scheduled)
    BY <1>0, HeldTypes, ReachSteps, ScheduledFinite, CrawlerAssumption
  <2>3. /\ AllReached' /\ DepthBounded' /\ NothingDropped'
        /\ Followed' = Followed /\ Busy' = Busy
        /\ scheduled' = scheduled \union {Start}
    BY <1>0, <2>1, <2>2, OneScheduled
  <2>4. LinksOfPage' /\ LinksScheduled'
    BY <1>0, <2>1, <2>3 DEF LinksOfPage, LinksScheduled
  <2> QED BY <2>1, <2>3, <2>4 DEF CompleteInv
<1>11. CASE CloseJobs \/ Return \/ Cancel \/ UNCHANGED vars
  <2>1. /\ UNCHANGED <<maxDepth, scheduled, fetched, errors, offers, wpc, job, links>>
        /\ ~ctxDone' => ~ctxDone
        /\ main' # "start" => main # "start" 
        /\ main' = "ok" => ~ctxDone'
    BY <1>0, <1>11 DEF CloseJobs, Return, Cancel, vars, TypeOK
  <2>2. Busy' = Busy
    BY <2>1 DEF Busy
  <2>3. Held' = Held /\ Followed' = Followed
    BY <2>1, <2>2 DEF Held, Followed
  <2>4. AllReached' /\ DepthBounded'
    BY <1>0, <2>1, <2>3, NoneScheduled
  <2>5. LinksOfPage' /\ NothingDropped' /\ LinksScheduled'
    BY <1>0, <2>1, <2>2, <2>3 DEF LinksOfPage, NothingDropped, LinksScheduled
  <2> QED BY <1>0, <2>1, <2>4, <2>5 DEF CompleteInv
<1> QED
  BY <1>1, <1>2, <1>3, <1>4, <1>5, <1>6, <1>7, <1>8, <1>9, <1>10, <1>11
  DEF Next, WorkerStep, CrawlStep

(* An "ok" is only given when no job is held, so that what is scheduled is *)
(* fetched and closed under links.                                         *)
LEMMA CompleteAtReturn ==
    ASSUME IsFiniteSet(Pages), CrawlInv, CompleteInv
    PROVE  OkIsComplete
<1> DEFINE follow == Pages \ errors
<1> SUFFICES ASSUME main = "ok", maxDepth >= Cardinality(Pages) - 1
             PROVE  fetched = Reach(follow)[maxDepth]
  BY DEF OkIsComplete
<1>0. /\ TypeOK /\ AllScheduled /\ NothingDropped /\ LinksScheduled /\ AllReached
      /\ offers = {} /\ Busy = {} /\ ~ctxDone /\ Start \in scheduled
  BY DEF CrawlInv, CompleteInv, NoSendOnClosedJobs
<1>1. fetched = scheduled
  BY <1>0 DEF NothingDropped, AllScheduled, Held
<1>2. Followed = fetched \ errors /\ Followed \subseteq follow /\ maxDepth \in Nat
  BY <1>0, HeldTypes DEF Followed, TypeOK
<1> HIDE DEF follow
<1>3. fetched \subseteq Reach(follow)[maxDepth]
  <2> SUFFICES ASSUME NEW u \in fetched PROVE u \in Reach(follow)[maxDepth]
    OBVIOUS
  <2>1. PICK d \in 0 .. maxDepth : u \in Reach(Followed)[d]
    BY <1>0, <1>1 DEF AllReached
  <2>2. u \in Reach(follow)[d]
    BY <1>2, <2>1, ReachMonotonic
  <2> QED BY <1>2, <2>2, ReachDeeper
<1>4. \A u \in Followed : Links[u] \subseteq fetched
  BY <1>0, <1>1 DEF LinksScheduled
<1>5. Reach(follow)[maxDepth] \subseteq fetched
  <2> DEFINE T == {k \in Nat : k <= maxDepth => Reach(follow)[k] \subseteq fetched}
  <2>1. 0 \in T
    BY <1>0, <1>1, <1>2, ReachSteps
  <2>2. ASSUME NEW k \in T PROVE k + 1 \in T
    <3> SUFFICES ASSUME k + 1 <= maxDepth
                 PROVE  Reach(follow)[k + 1] \subseteq fetched
      OBVIOUS
    <3>1. k \in Nat /\ k < maxDepth /\ Reach(follow)[k] \subseteq fetched
      BY <1>2
    <3>2. Reach(follow)[k] \intersect follow \subseteq Followed
      BY <1>2, <3>1 DEF follow
    <3> QED BY <1>2, <1>4, <3>1, <3>2, ReachSteps
  <2>3. T = Nat
    <3> HIDE DEF T
    <3>1. T \in SUBSET Nat
      BY DEF T
    <3> QED BY <2>1, <2>2, <3>1, NatSetInduction
  <2> QED BY <1>2, <2>3
<1> QED BY <1>3, <1>5

(* A nil error of Crawl means that the crawl is complete, wherever         *)
(* maxDepth cannot have cut it short: jobs that are taken by another       *)
(* worker, fetches that fail and links found twice lose no page.           *)
THEOREM OkMeansComplete ==
    ASSUME IsFiniteSet(Pages)
    PROVE  Spec => []OkIsComplete
<1>1. CrawlInv /\ CompleteInv /\ [Next]_vars => CompleteInv'
  BY CompleteNext
<1>2. CrawlInv /\ CompleteInv => OkIsComplete
  BY CompleteAtReturn
<1> QED BY <1>1, <1>2, CompleteStarts, CrawlInvariance, PTL DEF Spec

(* The other half of what Crawl promises: it fetches only pages that at    *)
(* most maxDepth links lead to, along pages it has fetched without error.  *)
WithinDepth == fetched \subseteq Reach(fetched \ errors)[maxDepth]

(* Crawl never goes deeper than it was asked to, nor past a failed page. *)
THEOREM CrawlStaysWithinDepth ==
    ASSUME IsFiniteSet(Pages)
    PROVE  Spec => []WithinDepth
<1>1. CrawlInv /\ CompleteInv /\ [Next]_vars => CompleteInv'
  BY CompleteNext
<1>2. ASSUME CrawlInv, CompleteInv PROVE WithinDepth
  <2>1. TypeOK /\ AllReached /\ fetched \subseteq scheduled /\ maxDepth \in Nat
    BY <1>2, HeldTypes DEF CrawlInv, CompleteInv, AllScheduled
  <2> SUFFICES ASSUME NEW u \in fetched
               PROVE  u \in Reach(fetched \ errors)[maxDepth]
    BY DEF WithinDepth
  <2>2. PICK d \in 0 .. maxDepth : u \in Reach(Followed)[d]
    BY <2>1 DEF AllReached
  <2>3. Followed \subseteq fetched \ errors
    BY DEF Followed
  <2>4. u \in Reach(fetched \ errors)[d]
    BY <2>1, <2>2, <2>3, ReachMonotonic
  <2> QED BY <2>1, <2>4, ReachDeeper
<1> QED BY <1>1, <1>2, CompleteStarts, CrawlInvariance, PTL DEF Spec

-----------------------------------------------------------------------------
(* pending as a sync.WaitGroup: once Wait may have returned nobody adds to *)
(* it, which a WaitGroup does not allow while Wait may be running.         *)
NoAddAfterZero == [][main # "start" /\ pending = 0 => pending' = 0]_vars

(* enqueue, called by a worker for the links of its page, never meets a    *)
(* WaitGroup that is at zero: its caller's own job is still counted.       *)
THEOREM PendingEndsAtZero == Spec => NoAddAfterZero
<1>1. ASSUME CrawlInv, [Next]_vars
      PROVE  [main # "start" /\ pending = 0 => pending' = 0]_vars
  <2> SUFFICES ASSUME Next, main # "start", pending = 0 PROVE pending' = 0
    BY <1>1
  <2>1. Cardinality(offers) = 0 /\ Cardinality(Busy) = 0
    BY <1>1, BusyFinite, FS_CardinalityType DEF CrawlInv, PendingCounts
  <2>2. offers = {} /\ Busy = {}
    BY <1>1, <2>1, BusyFinite, FS_EmptySet DEF CrawlInv, PendingCounts
  <2> QED
    BY <2>2
    DEF Next, WorkerStep, CrawlStep, TakeJob, StartFetch, SkipFetch, FetchFails,
        FetchSucceeds, FollowLink, LinksDone, WorkerExits, OfferCanceled,
        EnqueueStart, CloseJobs, Return, Cancel, Busy
<1> QED BY <1>1, CrawlInvariance, PTL DEF NoAddAfterZero, Spec

(* Until Crawl has returned there is something that somebody can do: a     *)
(* worker works or can take a job, or the main goroutine can go on.        *)
CrawlGoesOn ==
    \/ main \in {"start", "ok", "canceled"}
    \/ Busy # {}
    \/ \E w \in Workers : wpc[w] = "idle" /\ (offers # {} \/ closed)
    \/ main = "waiting" /\ pending = 0
    \/ main = "closed" /\ \A w \in Workers : wpc[w] = "gone"

(* No worker leaves before jobs is closed. *)
WorkersStay == \A w \in Workers : wpc[w] = "gone" => closed

(* Nobody waits for ever for somebody who waits as well: Wait for a job    *)
(* that no worker is left to take, or a worker for a job or a close that   *)
(* never comes.                                                            *)
THEOREM CrawlNeverDeadlocks == Spec => []CrawlGoesOn
<1>1. Init => WorkersStay
  BY DEF Init, WorkersStay
<1>2. ASSUME CrawlInv, WorkersStay, [Next]_vars PROVE WorkersStay'
  <2>0. TypeOK
    BY <1>2 DEF CrawlInv
  <2>1. ASSUME NEW w \in Workers, NEW v \in Workers, WorkerStep(v), wpc'[w] = "gone"
        PROVE  closed'
    BY <1>2, <2>0, <2>1
    DEF TypeOK, WorkersStay, WorkerStep, TakeJob, StartFetch, SkipFetch, FetchFails,
        FetchSucceeds, FollowLink, LinksDone, WorkerExits, FinishJob
  <2>2. ASSUME UNCHANGED wpc, closed' = closed \/ closed' = TRUE PROVE WorkersStay'
    BY <1>2, <2>2 DEF WorkersStay
  <2> QED
    BY <1>2, <2>1, <2>2
    DEF WorkersStay, Next, CrawlStep, OfferCanceled, EnqueueStart, CloseJobs, Return,
        Cancel, vars
<1>3. ASSUME CrawlInv, WorkersStay PROVE CrawlGoesOn
  <2>0. /\ TypeOK /\ PendingCounts /\ Workers # {}
        /\ (closed <=> main \in {"closed", "ok", "canceled"})
    BY <1>3, CrawlerAssumption DEF CrawlInv
  <2> SUFFICES ASSUME main \in {"waiting", "closed"}, Busy = {} PROVE CrawlGoesOn
    BY <2>0 DEF CrawlGoesOn, TypeOK
  <2>1. \A w \in Workers : wpc[w] \in {"idle", "gone"}
    BY <2>0 DEF TypeOK, Busy
  <2>2. CASE main = "closed"
    BY <2>0, <2>1, <2>2 DEF CrawlGoesOn
  <2>3. CASE main = "waiting"
    <3>1. \A w \in Workers : wpc[w] = "idle"
      BY <1>3, <2>0, <2>1, <2>3 DEF WorkersStay
    <3>2. CASE offers = {}
      <4>1. pending = 0
        BY <2>0, <3>2, FS_EmptySet DEF PendingCounts
      <4> QED BY <2>3, <4>1 DEF CrawlGoesOn
    <3>3. CASE offers # {}
      BY <2>0, <3>1, <3>3 DEF CrawlGoesOn
    <3> QED BY <3>2, <3>3
  <2> QED BY <2>2, <2>3
<1> QED BY <1>1, <1>2, <1>3, CrawlInvariance, PTL DEF Spec

-----------------------------------------------------------------------------
(* workerpool.  A result without an error can stand for three things: a    *)
(* task that has succeeded, one that is not handed off yet, and one in a   *)
(* worker's hands.  TaskAccounted keeps them apart: what has succeeded is  *)
(* in nobody's hands any more, what has been handed off and has no error   *)
(* has succeeded or is in somebody's hands, and nobody shares a task.      *)
(* UnscheduledMarked is what the end of the feeder leaves behind.          *)

TaskAccounted ==
    /\ succeeded \subseteq 1 .. PoolTasks
    /\ \A i \in succeeded : i < next /\ err[i] = "nil" /\ \A w \in Workers : index[w] # i
    /\ \A i \in 1 .. PoolTasks :
          i < next /\ err[i] = "nil" =>
              i \in succeeded \/ \E w \in Workers : index[w] = i
    /\ \A w \in Workers : index[w] # Idle => index[w] < next
    /\ \A v, w \in Workers : index[v] = index[w] /\ index[w] # Idle => v = w

UnscheduledMarked ==
    /\ feeder \in {"closed", "returned"} =>
          \A i \in 1 .. PoolTasks : i >= next => err[i] = "canceled"
    /\ feeder = "offer" => next <= PoolTasks
    /\ feeder = "returned" => \A w \in Workers : popc[w] = "gone"

PoolInv == Po!TypeOK /\ TaskAccounted /\ UnscheduledMarked

LEMMA PoolConstants == PoolTasks \in Nat \ {0} /\ Idle \notin Nat
BY GroupsAssumption DEF Po!PoolAssumption

LEMMA PoolStarts == Po!Init => PoolInv
<1> SUFFICES ASSUME Po!Init PROVE PoolInv
  OBVIOUS
<1>1. Po!TypeOK
  <2>1. /\ index \in [Workers -> 1 .. PoolTasks \union {Idle}]
        /\ \A w \in Workers : index[w] = Idle
    BY DEF Po!Init
  <2>2. /\ popc \in [Workers -> {"idle", "taken", "running", "gone"}]
        /\ \A w \in Workers : popc[w] = "idle"
    BY DEF Po!Init
  <2>3. err \in [1 .. PoolTasks -> {"nil", "failed", "canceled"}]
    BY DEF Po!Init
  <2>4. next \in 1 .. PoolTasks + 1
    BY PoolConstants DEF Po!Init
  <2> QED BY <2>1, <2>2, <2>3, <2>4 DEF Po!Init, Po!TypeOK
<1>2. TaskAccounted
  BY PoolConstants DEF Po!Init, TaskAccounted
<1>3. UnscheduledMarked
  BY DEF Po!Init, UnscheduledMarked
<1> QED BY <1>1, <1>2, <1>3 DEF PoolInv

LEMMA PoolFeeds ==
    ASSUME PoolInv, Po!Feed \/ Po!Cancel \/ UNCHANGED pool
    PROVE  PoolInv'
<1>0. /\ Po!TypeOK /\ TaskAccounted /\ UnscheduledMarked
      /\ PoolTasks \in Nat \ {0} /\ Idle \notin Nat
  BY PoolConstants DEF PoolInv
<1>1. CASE Po!FeedCanceled
  <2>1. /\ feeder \in {"check", "offer"} /\ next <= PoolTasks
        /\ runErr' = "canceled" /\ feeder' = "closed"
        /\ err' = [i \in 1 .. PoolTasks |-> IF i >= next THEN "canceled" ELSE err[i]]
        /\ UNCHANGED <<poctx, next, index, popc, succeeded>>
    BY <1>0, <1>1 DEF Po!FeedCanceled, Po!markUnscheduled, UnscheduledMarked
  <2>2. /\ \A i \in 1 .. PoolTasks : i < next => err'[i] = err[i]
        /\ \A i \in 1 .. PoolTasks : i >= next => err'[i] = "canceled"
    BY <1>0, <2>1 DEF Po!TypeOK
  <2>3. Po!TypeOK'
    BY <1>0, <2>1 DEF Po!TypeOK
  <2>4. TaskAccounted'
    BY <1>0, <2>1, <2>2 DEF TaskAccounted
  <2>5. UnscheduledMarked'
    BY <2>1, <2>2 DEF UnscheduledMarked
  <2> QED BY <2>3, <2>4, <2>5 DEF PoolInv
<1>2. CASE Po!CheckPasses \/ Po!AllHandedOff \/ Po!Return \/ Po!Cancel \/ UNCHANGED pool
  <2>1. /\ UNCHANGED <<next, runErr, index, popc, err, succeeded>>
        /\ poctx' \in BOOLEAN
        /\ feeder' \in {"check", "offer", "closed", "returned"}
    BY <1>0, <1>2
    DEF Po!CheckPasses, Po!AllHandedOff, Po!Return, Po!Cancel, pool, Po!TypeOK
  <2>2. UnscheduledMarked'
    BY <1>0, <1>2
    DEF Po!CheckPasses, Po!AllHandedOff, Po!Return, Po!Cancel, pool, Po!TypeOK,
        UnscheduledMarked
  <2>3. Po!TypeOK'
    BY <1>0, <2>1 DEF Po!TypeOK
  <2>4. TaskAccounted'
    BY <1>0, <2>1 DEF TaskAccounted
  <2> QED BY <2>2, <2>3, <2>4 DEF PoolInv
<1> QED BY <1>1, <1>2 DEF Po!Feed

LEMMA PoolHandsOff ==
    ASSUME PoolInv, NEW w \in Workers, Po!HandOff(w)
    PROVE  PoolInv'
<1>0. /\ Po!TypeOK /\ TaskAccounted /\ UnscheduledMarked
      /\ PoolTasks \in Nat \ {0} /\ Idle \notin Nat
  BY PoolConstants DEF PoolInv
<1>1. /\ feeder = "offer" /\ next \in 1 .. PoolTasks /\ popc[w] = "idle"
      /\ index' = [index EXCEPT ![w] = next]
      /\ popc' = [popc EXCEPT ![w] = "taken"]
      /\ next' = next + 1 /\ feeder' = "check"
      /\ UNCHANGED <<poctx, runErr, err, succeeded>>
  BY <1>0 DEF Po!HandOff, UnscheduledMarked, Po!TypeOK
<1>2. /\ index'[w] = next /\ next # Idle
      /\ \A v \in Workers : v # w => index'[v] = index[v]
      /\ index[w] = Idle
  BY <1>0, <1>1 DEF Po!TypeOK
<1>3. Po!TypeOK'
  BY <1>0, <1>1 DEF Po!TypeOK
<1>4. TaskAccounted'
  <2>1. \A v \in Workers : index[v] \in Nat \/ index[v] = Idle
    BY <1>0 DEF Po!TypeOK
  <2>2. /\ succeeded' \subseteq 1 .. PoolTasks
        /\ \A i \in succeeded' :
              i < next' /\ err'[i] = "nil" /\ \A v \in Workers : index'[v] # i
    BY <1>0, <1>1, <1>2 DEF TaskAccounted
  <2>3. \A i \in 1 .. PoolTasks :
            i < next' /\ err'[i] = "nil" =>
                i \in succeeded' \/ \E v \in Workers : index'[v] = i
    BY <1>0, <1>1, <1>2 DEF TaskAccounted
  <2>4. \A v \in Workers : index'[v] # Idle => index'[v] < next'
    BY <1>0, <1>1, <1>2, <2>1 DEF TaskAccounted
  <2>5. \A u, v \in Workers : index'[u] = index'[v] /\ index'[v] # Idle => u = v
    BY <1>0, <1>1, <1>2, <2>1 DEF TaskAccounted
  <2> QED BY <2>2, <2>3, <2>4, <2>5 DEF TaskAccounted
<1>5. UnscheduledMarked'
  BY <1>1 DEF UnscheduledMarked
<1> QED BY <1>3, <1>4, <1>5 DEF PoolInv

(* A worker gives its task back, with or without an error. *)
LEMMA PoolTaskEnds ==
    ASSUME PoolInv, NEW w \in Workers, NEW how \in {"nil", "failed", "canceled"},
           popc[w] \in {"taken", "running"}, Po!Ends(w, how),
           succeeded' = IF how = "nil" THEN succeeded \union {index[w]} ELSE succeeded
    PROVE  PoolInv'
<1>0. /\ Po!TypeOK /\ TaskAccounted /\ UnscheduledMarked
      /\ PoolTasks \in Nat \ {0} /\ Idle \notin Nat
  BY PoolConstants DEF PoolInv
<1>1. /\ err' = [err EXCEPT ![index[w]] = how]
      /\ index' = [index EXCEPT ![w] = Idle]
      /\ popc' = [popc EXCEPT ![w] = "idle"]
      /\ UNCHANGED <<poctx, next, feeder, runErr>>
  BY DEF Po!Ends
<1>2. /\ index[w] \in 1 .. PoolTasks /\ index[w] < next /\ index[w] # Idle
      /\ index'[w] = Idle
      /\ \A v \in Workers : v # w => index'[v] = index[v] /\ index[v] # index[w]
      /\ err'[index[w]] = how
      /\ \A i \in 1 .. PoolTasks : i # index[w] => err'[i] = err[i]
      /\ index[w] \notin succeeded
  BY <1>0, <1>1 DEF Po!TypeOK, TaskAccounted
<1>3. Po!TypeOK'
  BY <1>0, <1>1, <1>2 DEF Po!TypeOK
<1>4. TaskAccounted'
  <2>1. succeeded' \subseteq succeeded \union {index[w]} /\ succeeded \subseteq succeeded'
    OBVIOUS
  <2>2. ASSUME NEW i \in succeeded'
        PROVE  /\ i \in 1 .. PoolTasks /\ i < next' /\ err'[i] = "nil"
               /\ \A v \in Workers : index'[v] # i
    BY <1>0, <1>1, <1>2, <2>1 DEF TaskAccounted
  <2>3. ASSUME NEW i \in 1 .. PoolTasks, i < next', err'[i] = "nil"
        PROVE  i \in succeeded' \/ \E v \in Workers : index'[v] = i
    <3>1. CASE i = index[w]
      BY <1>2, <2>3, <3>1
    <3>2. CASE i # index[w]
      BY <1>0, <1>1, <1>2, <2>1, <2>3, <3>2 DEF TaskAccounted
    <3> QED BY <3>1, <3>2
  <2>4. \A v \in Workers : index'[v] # Idle => index'[v] < next'
    BY <1>0, <1>1, <1>2 DEF TaskAccounted
  <2>5. \A u, v \in Workers : index'[u] = index'[v] /\ index'[v] # Idle => u = v
    BY <1>0, <1>1, <1>2 DEF TaskAccounted
  <2> QED BY <2>2, <2>3, <2>4, <2>5 DEF TaskAccounted
<1>5. UnscheduledMarked'
  <2>1. feeder # "returned"
    BY <1>0 DEF UnscheduledMarked
  <2> QED BY <1>0, <1>1, <1>2, <2>1 DEF UnscheduledMarked, Po!TypeOK
<1> QED BY <1>3, <1>4, <1>5 DEF PoolInv

LEMMA PoolWorks ==
    ASSUME PoolInv, NEW w \in Workers, Po!Work(w)
    PROVE  PoolInv'
<1>1. CASE Po!StartTask(w) \/ Po!WorkerExits(w)
  <2>0. Po!TypeOK /\ TaskAccounted /\ UnscheduledMarked
    BY DEF PoolInv
  <2>1. /\ UNCHANGED <<poctx, next, feeder, runErr, index, err, succeeded>>
        /\ \/ popc[w] = "taken" /\ popc' = [popc EXCEPT ![w] = "running"]
           \/ popc[w] = "idle" /\ popc' = [popc EXCEPT ![w] = "gone"]
    BY <1>1 DEF Po!StartTask, Po!WorkerExits
  <2>2. Po!TypeOK'
    BY <2>0, <2>1 DEF Po!TypeOK
  <2>3. TaskAccounted'
    BY <2>0, <2>1 DEF TaskAccounted
  <2>4. UnscheduledMarked'
    BY <2>0, <2>1 DEF UnscheduledMarked, Po!TypeOK
  <2> QED BY <2>2, <2>3, <2>4 DEF PoolInv
<1>2. CASE Po!SkipTask(w) \/ Po!TaskSucceeds(w) \/ Po!TaskFails(w)
  BY <1>2, PoolTaskEnds DEF Po!SkipTask, Po!TaskSucceeds, Po!TaskFails
<1> QED BY <1>1, <1>2 DEF Po!Work

LEMMA PoolNext == PoolInv /\ [Po!Next]_pool => PoolInv'
BY PoolFeeds, PoolHandsOff, PoolWorks DEF Po!Next

LEMMA PoolInvariance == GroupsSpec => []PoolInv
BY Projection, PoolStarts, PoolNext, PTL

(* Whenever the batch is canceled, a result without an error belongs to a  *)
(* task that has run and returned nil, and every such task has one.        *)
THEOREM ResultsAreTruthful == GroupsSpec => []ResultsTruthful
<1>1. PoolInv => ResultsTruthful
  <2> SUFFICES ASSUME PoolInv, feeder = "returned"
               PROVE  {i \in 1 .. PoolTasks : err[i] = "nil"} = succeeded
    BY DEF ResultsTruthful, Po!ResultsTruthful
  <2>1. \A w \in Workers : index[w] = Idle
    BY DEF PoolInv, UnscheduledMarked, Po!TypeOK
  <2>2. \A i \in 1 .. PoolTasks : err[i] = "nil" => i < next
    BY PoolConstants DEF PoolInv, UnscheduledMarked, Po!TypeOK
  <2>3. \A i \in 1 .. PoolTasks, w \in Workers : index[w] # i
    BY <2>1, PoolConstants
  <2> QED BY <2>2, <2>3 DEF PoolInv, TaskAccounted
<1> QED BY <1>1, PoolInvariance, PTL

-----------------------------------------------------------------------------
(* taskgroup.  Until the task in the sync.Once has canceled the group,     *)
(* only the caller can have canceled anything (CanceledByParent): the      *)
(* error it records cannot be a consequence of the cancellation it is      *)
(* about to cause.  OnceRecords is what is known of the errors meanwhile.  *)

OnceRecords ==
    /\ \A t \in Tasks :
          /\ grErr[t] = "none" <=> grpc[t] = "running"
          /\ grErr[t] = "nil" => grpc[t] = "done"
          /\ grpc[t] = "cancel" => once = t
          /\ grpc[t] = "done" /\ once = NoTask => grErr[t] = "nil"
    /\ once = NoTask => firstErr = "nil"
    /\ once # NoTask =>
          /\ firstErr = grErr[once]
          /\ firstErr \in {"failed", "canceled"}
          /\ grpc[once] \in {"cancel", "done"}

CanceledByParent ==
    /\ once = NoTask \/ grpc[once] = "cancel" =>
          /\ grctx => parentDone
          /\ \A t \in Tasks : grErr[t] = "canceled" => parentDone
    /\ firstErr = "canceled" => parentDone

GroupInv ==
    /\ Gr!TypeOK
    /\ OnceRecords
    /\ CanceledByParent
    /\ grResult # "none" => \A t \in Tasks : grpc[t] = "done"
    /\ FirstErrorIsCause

LEMMA GroupStarts == Gr!Init => GroupInv
<1> SUFFICES ASSUME Gr!Init PROVE GroupInv
  OBVIOUS
<1>1. /\ grpc \in [Tasks -> {"running", "failed", "cancel", "done"}]
      /\ grErr \in [Tasks -> {"none", "nil", "failed", "canceled"}]
      /\ \A t \in Tasks : grpc[t] = "running" /\ grErr[t] = "none"
  BY DEF Gr!Init
<1>2. Gr!TypeOK
  BY <1>1 DEF Gr!Init, Gr!TypeOK
<1>3. OnceRecords /\ CanceledByParent
  BY <1>1 DEF Gr!Init, OnceRecords, CanceledByParent
<1> QED BY <1>2, <1>3 DEF Gr!Init, GroupInv, FirstErrorIsCause, Gr!FirstErrorIsCause

LEMMA GroupTaskReturns ==
    ASSUME GroupInv, NEW t \in Tasks, NEW e \in {"nil", "failed", "canceled"},
           Gr!TaskReturns(t, e)
    PROVE  GroupInv'
<1>0. /\ Gr!TypeOK /\ OnceRecords /\ CanceledByParent /\ NoTask \notin Tasks
      /\ grResult # "none" => \A u \in Tasks : grpc[u] = "done"
  BY GroupsAssumption DEF GroupInv, Gr!GroupAssumption
<1>1. /\ grpc[t] = "running" /\ grResult = "none"
      /\ e = "canceled" => grctx
      /\ grErr' = [grErr EXCEPT ![t] = e]
      /\ grpc' = [grpc EXCEPT ![t] = IF e = "nil" THEN "done" ELSE "failed"]
      /\ UNCHANGED <<parentDone, grctx, once, firstErr, grResult>>
  BY <1>0 DEF Gr!TaskReturns, Gr!Goto, Gr!TypeOK
<1>2. /\ grErr'[t] = e
      /\ grpc'[t] = IF e = "nil" THEN "done" ELSE "failed"
      /\ \A u \in Tasks : u # t => grErr'[u] = grErr[u] /\ grpc'[u] = grpc[u]
      /\ once # t
  BY <1>0, <1>1 DEF Gr!TypeOK, OnceRecords
<1>3. Gr!TypeOK'
  BY <1>0, <1>1 DEF Gr!TypeOK
<1>4. OnceRecords'
  BY <1>0, <1>1, <1>2 DEF OnceRecords, Gr!TypeOK
<1>5. CanceledByParent'
  BY <1>0, <1>1, <1>2 DEF CanceledByParent, Gr!TypeOK
<1> QED BY <1>1, <1>3, <1>4, <1>5 DEF GroupInv, FirstErrorIsCause, Gr!FirstErrorIsCause

LEMMA GroupRecordsError ==
    ASSUME GroupInv, NEW t \in Tasks, Gr!RecordError(t)
    PROVE  GroupInv'
<1>0. /\ Gr!TypeOK /\ OnceRecords /\ CanceledByParent /\ NoTask \notin Tasks
      /\ grResult # "none" => \A u \in Tasks : grpc[u] = "done"
  BY GroupsAssumption DEF GroupInv, Gr!GroupAssumption
<1>1. /\ grpc[t] = "failed" /\ once = NoTask /\ grResult = "none"
      /\ once' = t /\ firstErr' = grErr[t]
      /\ grpc' = [grpc EXCEPT ![t] = "cancel"]
      /\ UNCHANGED <<parentDone, grctx, grErr, grResult>>
  BY <1>0 DEF Gr!RecordError, Gr!IsFirst, Gr!Goto, Gr!TypeOK
<1>2. /\ grpc'[t] = "cancel"
      /\ \A u \in Tasks : u # t => grpc'[u] = grpc[u]
      /\ grErr[t] \in {"failed", "canceled"}
  BY <1>0, <1>1 DEF Gr!TypeOK, OnceRecords
<1>3. Gr!TypeOK'
  BY <1>0, <1>1, <1>2 DEF Gr!TypeOK
<1>4. OnceRecords'
  BY <1>0, <1>1, <1>2 DEF OnceRecords
<1>5. CanceledByParent'
  BY <1>0, <1>1, <1>2 DEF CanceledByParent
<1> QED BY <1>1, <1>3, <1>4, <1>5 DEF GroupInv, FirstErrorIsCause, Gr!FirstErrorIsCause

(* The task leaves the sync.Once, having canceled the group or waited for  *)
(* that.                                                                   *)
LEMMA GroupTaskDone ==
    ASSUME GroupInv, NEW t \in Tasks, Gr!CancelGroup(t) \/ Gr!NotFirst(t)
    PROVE  GroupInv'
<1>0. /\ Gr!TypeOK /\ OnceRecords /\ CanceledByParent /\ NoTask \notin Tasks
      /\ grResult # "none" => \A u \in Tasks : grpc[u] = "done"
  BY GroupsAssumption DEF GroupInv, Gr!GroupAssumption
<1>1. /\ grpc[t] \in {"cancel", "failed"} /\ grResult = "none"
      /\ grctx' \in BOOLEAN
      /\ grpc' = [grpc EXCEPT ![t] = "done"]
      /\ UNCHANGED <<parentDone, grErr, once, firstErr, grResult>>
  BY <1>0 DEF Gr!CancelGroup, Gr!NotFirst, Gr!Goto, Gr!TypeOK
<1>2. /\ grpc'[t] = "done"
      /\ \A u \in Tasks : u # t => grpc'[u] = grpc[u]
      /\ once \in Tasks /\ grpc'[once] = "done"
      /\ grErr[t] \in {"failed", "canceled"}
  <2>1. CASE Gr!CancelGroup(t)
    <3>1. grpc[t] = "cancel"
      BY <2>1 DEF Gr!CancelGroup
    <3> QED BY <1>0, <1>1, <3>1 DEF OnceRecords, Gr!TypeOK
  <2>2. CASE Gr!NotFirst(t)
    <3>1. grpc[t] = "failed" /\ once # NoTask /\ grpc[once] = "done"
      BY <2>2 DEF Gr!NotFirst
    <3> QED BY <1>0, <1>1, <3>1 DEF OnceRecords, Gr!TypeOK
  <2> QED BY <2>1, <2>2
<1>3. Gr!TypeOK'
  BY <1>0, <1>1 DEF Gr!TypeOK
<1>4. OnceRecords'
  BY <1>0, <1>1, <1>2 DEF OnceRecords
<1>5. CanceledByParent'
  BY <1>0, <1>1, <1>2 DEF CanceledByParent
<1> QED BY <1>1, <1>3, <1>4, <1>5 DEF GroupInv, FirstErrorIsCause, Gr!FirstErrorIsCause

LEMMA GroupReturns ==
    ASSUME GroupInv, Gr!Return
    PROVE  GroupInv'
<1>0. /\ Gr!TypeOK /\ OnceRecords /\ CanceledByParent
  BY DEF GroupInv
<1>1. /\ \A t \in Tasks : grpc[t] = "done"
      /\ grResult' = IF firstErr # "nil" THEN firstErr
                     ELSE IF grctx THEN "canceled" ELSE "nil"
      /\ UNCHANGED <<parentDone, grctx, grpc, grErr, once, firstErr>>
  BY DEF Gr!Return
<1>2. Gr!TypeOK'
  BY <1>0, <1>1 DEF Gr!TypeOK
<1>3. OnceRecords' /\ CanceledByParent'
  BY <1>0, <1>1 DEF OnceRecords, CanceledByParent
<1>4. FirstErrorIsCause'
  <2>1. CASE firstErr # "nil"
    <3>1. /\ once \in Tasks /\ firstErr = grErr[once]
          /\ firstErr \in {"failed", "canceled"}
      BY <1>0, <2>1 DEF OnceRecords, Gr!TypeOK
    <3> QED BY <1>0, <1>1, <2>1, <3>1
            DEF CanceledByParent, FirstErrorIsCause, Gr!FirstErrorIsCause
  <2>2. CASE firstErr = "nil"
    <3>1. once = NoTask /\ \A t \in Tasks : grErr[t] = "nil"
      BY <1>0, <1>1, <2>2 DEF OnceRecords
    <3> QED BY <1>0, <1>1, <2>2, <3>1
            DEF CanceledByParent, FirstErrorIsCause, Gr!FirstErrorIsCause
  <2> QED BY <2>1, <2>2
<1> QED BY <1>1, <1>2, <1>3, <1>4 DEF GroupInv

LEMMA GroupCanceled ==
    ASSUME GroupInv, Gr!Cancel \/ UNCHANGED group
    PROVE  GroupInv'
<1>1. CASE Gr!Cancel
  BY <1>1
  DEF Gr!Cancel, GroupInv, Gr!TypeOK, OnceRecords, CanceledByParent,
      FirstErrorIsCause, Gr!FirstErrorIsCause
<1>2. CASE UNCHANGED group
  BY <1>2
  DEF group, GroupInv, Gr!TypeOK, OnceRecords, CanceledByParent,
      FirstErrorIsCause, Gr!FirstErrorIsCause
<1> QED BY <1>1, <1>2

LEMMA GroupNext == GroupInv /\ [Gr!Next]_group => GroupInv'
BY GroupTaskReturns, GroupRecordsError, GroupTaskDone, GroupReturns,
   GroupCanceled
DEF Gr!Next, Gr!Step

LEMMA GroupInvariance == GroupsSpec => []GroupInv
BY Projection, GroupStarts, GroupNext, PTL

(* Whatever fails, and whenever the caller cancels: Run reports a          *)
(* cancellation only if the caller did cancel, a failure only if a task    *)
(* returned it, and success only if all succeeded.                         *)
THEOREM FirstErrorReported == GroupsSpec => []FirstErrorIsCause
<1>1. GroupInv => FirstErrorIsCause
  BY DEF GroupInv
<1> QED BY <1>1, GroupInvariance, PTL

-----------------------------------------------------------------------------
(* timeoutworker and diningphilosophers: the result fits into its channel; *)
(* as many seats are taken as there are philosophers between sitting down  *)
(* and leaving, and nobody eats more than rounds times.                    *)

LEMMA TimeoutTypes == GroupsSpec => []Ti!TypeOK
<1>1. Ti!Init => Ti!TypeOK
  BY DEF Ti!Init, Ti!TypeOK
<1>2. Ti!TypeOK /\ [Ti!Next]_timeout => Ti!TypeOK'
  BY DEF Ti!TypeOK, Ti!Next, Ti!Return, Ti!ReturnResult, Ti!ReturnDeadline,
         Ti!Work, Ti!WorkReturns, Ti!SendResult, Ti!Expire, timeout
<1> QED BY <1>1, <1>2, Projection, PTL

Seated == {p \in Ta!Ids : tapc[p] \notin {"sit", "done", "canceled"}}

TableInv ==
    /\ Ta!TypeOK
    /\ seats <= Ta!Seats
    /\ \A p \in Ta!Ids : tapc[p] \in {"sit", "left", "right"} => rounds[p] < Rounds

LEMMA TableConstants == Philosophers \in Nat \ {0, 1} /\ Rounds \in Nat \ {0}
BY GroupsAssumption DEF Ta!TableAssumption

LEMMA SeatsCount ==
    ASSUME NEW S \in SUBSET Ta!Ids
    PROVE  /\ Cardinality(S) \in Nat
           /\ \A p \in Ta!Ids \ S : Cardinality(S \union {p}) = Cardinality(S) + 1
           /\ \A p \in S : Cardinality(S \ {p}) = Cardinality(S) - 1
           /\ Ta!Cardinality(S) = Cardinality(S)
<1>1. IsFiniteSet(Ta!Ids)
  BY TableConstants, FS_Interval DEF Ta!Ids
<1>2. IsFiniteSet(S)
  BY <1>1, FS_Subset
<1>3. Ta!Cardinality(S) = Cardinality(S)
  BY DEF Ta!Cardinality, Cardinality
<1> QED BY <1>2, <1>3, FS_CardinalityType, FS_AddElement, FS_RemoveElement

LEMMA TableStarts == Ta!Init => TableInv
<1> SUFFICES ASSUME Ta!Init PROVE TableInv
  OBVIOUS
<1>1. /\ tapc \in [Ta!Ids -> {"sit", "left", "right", "both", "one", "leave",
                             "done", "canceled"}]
      /\ rounds \in [Ta!Ids -> 0 .. Rounds]
      /\ \A p \in Ta!Ids : rounds[p] = 0
      /\ 0 < Rounds
  BY TableConstants DEF Ta!Init
<1>2. Seated = {}
  BY DEF Ta!Init, Seated
<1>3. seats = Ta!Cardinality(Seated)
  BY <1>2, SeatsCount, FS_EmptySet DEF Ta!Init
<1>4. seats <= Ta!Seats
  BY TableConstants DEF Ta!Init, Ta!Seats
<1> QED BY <1>1, <1>3, <1>4 DEF Ta!Init, TableInv, Ta!TypeOK, Seated

(* A philosopher goes on, and rounds changes at most for him. *)
LEMMA TableStep ==
    ASSUME TableInv, NEW p \in Ta!Ids, Ta!Dine(p)
    PROVE  TableInv'
<1> DEFINE Labels == {"sit", "left", "right", "both", "one", "leave", "done",
                      "canceled"}
<1>0. /\ tactx \in BOOLEAN
      /\ tapc \in [Ta!Ids -> Labels]
      /\ rounds \in [Ta!Ids -> 0 .. Rounds]
      /\ seats = Cardinality(Seated) /\ seats <= Ta!Seats
      /\ seats \in Nat /\ Ta!Seats \in Nat
      /\ \A q \in Ta!Ids : tapc[q] \in {"sit", "left", "right"} => rounds[q] < Rounds
      /\ Rounds \in Nat
  BY TableConstants, SeatsCount DEF TableInv, Ta!TypeOK, Seated, Ta!Seats
<1> SUFFICES /\ tactx' \in BOOLEAN
             /\ tapc' \in [Ta!Ids -> Labels]
             /\ rounds' \in [Ta!Ids -> 0 .. Rounds]
             /\ seats' = Cardinality(Seated') /\ seats' <= Ta!Seats
             /\ \A q \in Ta!Ids :
                   tapc'[q] \in {"sit", "left", "right"} => rounds'[q] < Rounds
  BY SeatsCount DEF TableInv, Ta!TypeOK, Seated, Ta!Seats
<1>1. ASSUME NEW label \in Labels, tapc' = [tapc EXCEPT ![p] = label]
      PROVE  /\ tapc' \in [Ta!Ids -> Labels]
             /\ tapc'[p] = label
             /\ \A q \in Ta!Ids : q # p => tapc'[q] = tapc[q]
             /\ Seated' = IF label \in {"sit", "done", "canceled"}
                          THEN Seated \ {p} ELSE Seated \union {p}
  BY <1>0, <1>1 DEF Seated
<1>2. CASE Ta!Sit(p)
  <2>1. /\ tapc[p] = "sit" /\ seats < Ta!Seats /\ seats' = seats + 1
        /\ tapc' = [tapc EXCEPT ![p] = "left"]
        /\ UNCHANGED <<tactx, rounds>>
    BY <1>2 DEF Ta!Sit, Ta!Goto
  <2>2. p \notin Seated /\ Seated' = Seated \union {p}
    BY <1>1, <2>1 DEF Seated
  <2>3. seats' = Cardinality(Seated')
    BY <1>0, <2>1, <2>2, SeatsCount DEF Seated
  <2> QED BY <1>0, <1>1, <2>1, <2>3
<1>3. CASE Ta!SitCanceled(p)
  <2>1. /\ tapc[p] = "sit"
        /\ tapc' = [tapc EXCEPT ![p] = "canceled"]
        /\ UNCHANGED <<tactx, seats, rounds>>
    BY <1>3 DEF Ta!SitCanceled, Ta!Goto
  <2>2. Seated' = Seated
    BY <1>1, <2>1 DEF Seated
  <2> QED BY <1>0, <1>1, <2>1, <2>2
<1>4. CASE Ta!LockLeft(p) \/ Ta!UnlockRight(p) \/ Ta!UnlockLeft(p)
  <2>1. /\ \/ tapc[p] = "left" /\ tapc' = [tapc EXCEPT ![p] = "right"]
           \/ tapc[p] = "both" /\ tapc' = [tapc EXCEPT ![p] = "one"]
           \/ tapc[p] = "one" /\ tapc' = [tapc EXCEPT ![p] = "leave"]
        /\ UNCHANGED <<tactx, seats, rounds>>
    BY <1>4 DEF Ta!LockLeft, Ta!UnlockRight, Ta!UnlockLeft, Ta!Goto
  <2>2. Seated' = Seated
    BY <1>1, <2>1 DEF Seated
  <2> QED BY <1>0, <1>1, <2>1, <2>2
<1>5. CASE Ta!LockRight(p)
  <2>1. /\ tapc[p] = "right"
        /\ rounds' = [rounds EXCEPT ![p] = rounds[p] + 1]
        /\ tapc' = [tapc EXCEPT ![p] = "both"]
        /\ UNCHANGED <<tactx, seats>>
    BY <1>5 DEF Ta!LockRight, Ta!Goto
  <2>2. Seated' = Seated
    BY <1>1, <2>1 DEF Seated
  <2>3. /\ rounds' \in [Ta!Ids -> 0 .. Rounds]
        /\ \A q \in Ta!Ids : q # p => rounds'[q] = rounds[q]
    BY <1>0, <2>1
  <2> QED BY <1>0, <1>1, <2>1, <2>2, <2>3
<1>6. CASE Ta!Leave(p)
  <2>1. /\ tapc[p] = "leave" /\ seats' = seats - 1
        /\ tapc' = [tapc EXCEPT ![p] = IF rounds[p] = Rounds THEN "done" ELSE "sit"]
        /\ UNCHANGED <<tactx, rounds>>
    BY <1>6 DEF Ta!Leave, Ta!Goto
  <2>2. p \in Seated /\ Seated' = Seated \ {p}
    BY <1>1, <2>1 DEF Seated
  <2>3. seats' = Cardinality(Seated')
    BY <1>0, <2>1, <2>2, SeatsCount DEF Seated
  <2> QED BY <1>0, <1>1, <2>1, <2>3
<1> QED BY <1>2, <1>3, <1>4, <1>5, <1>6 DEF Ta!Dine

LEMMA TableInvariance == GroupsSpec => []TableInv
<1>1. TableInv /\ (Ta!Cancel \/ UNCHANGED table) => TableInv'
  <2> SUFFICES ASSUME TableInv, Ta!Cancel \/ UNCHANGED table PROVE TableInv'
    OBVIOUS
  <2>1. UNCHANGED <<seats, tapc, rounds>> /\ tactx' \in BOOLEAN
    BY DEF Ta!Cancel, table, TableInv, Ta!TypeOK
  <2>2. UNCHANGED Ta!Cardinality({q \in Ta!Ids : tapc[q] \notin {"sit", "done", "canceled"}})
    BY <2>1
  <2> QED BY <2>1, <2>2 DEF TableInv, Ta!TypeOK, Ta!Seats
<1>2. TableInv /\ [Ta!Next]_table => TableInv'
  BY <1>1, TableStep DEF Ta!Next
<1> QED BY <1>2, Projection, TableStarts, PTL

(* What lets a philosopher take the next step of its loop. *)
CanGoOn(p) ==
    \/ tapc[p] = "sit" /\ (seats < Ta!Seats \/ tactx)
    \/ tapc[p] = "left" /\ Ta!Unlocked(p)
    \/ tapc[p] = "right" /\ Ta!Unlocked(Ta!Right(p))
    \/ tapc[p] \in {"both", "one", "leave"}

NoCircularWait ==
    \/ \A p \in Ta!Ids : tapc[p] \in {"done", "canceled"}
    \/ \E p \in Ta!Ids : CanGoOn(p)

(* The neighbours sit in a ring. *)
LEMMA NextInRing ==
    ASSUME NEW p \in Ta!Ids
    PROVE  Ta!Right(p) = IF p + 1 = Philosophers THEN 0 ELSE p + 1
<1>1. /\ p \in Nat /\ p + 1 <= Philosophers /\ Philosophers \in Nat \ {0}
  BY TableConstants DEF Ta!Ids
<1>2. \A a, b \in Nat : a < b => a % b = a
  OBVIOUS
<1>3. \A b \in Nat \ {0} : b % b = 0
  OBVIOUS
<1> QED BY <1>1, <1>2, <1>3 DEF Ta!Right

(* A property that goes from a philosopher to the next goes all round. *)
LEMMA AllRound ==
    ASSUME NEW S \in SUBSET Ta!Ids, S # {}, \A p \in S : Ta!Right(p) \in S
    PROVE  S = Ta!Ids
<1>1. /\ Philosophers \in Nat \ {0, 1}
      /\ \A p \in S : p \in Nat /\ p < Philosophers
  BY TableConstants DEF Ta!Ids
<1>2. ASSUME NEW q \in S
      PROVE  \A i \in Nat : q + i < Philosophers => q + i \in S
  <2> DEFINE T == {i \in Nat : q + i < Philosophers => q + i \in S}
  <2>1. 0 \in T
    BY <1>1
  <2>2. ASSUME NEW i \in T PROVE i + 1 \in T
    <3> SUFFICES ASSUME q + (i + 1) < Philosophers PROVE q + (i + 1) \in S
      OBVIOUS
    <3>1. q + i \in S /\ (q + i) + 1 = q + (i + 1) /\ q + (i + 1) # Philosophers
      BY <1>1
    <3>2. Ta!Right(q + i) = q + (i + 1)
      BY <3>1, NextInRing
    <3> QED BY <3>1, <3>2
  <2>3. T = Nat
    <3> HIDE DEF T
    <3>1. T \in SUBSET Nat
      BY DEF T
    <3> QED BY <2>1, <2>2, <3>1, NatSetInduction
  <2> QED BY <2>3
<1>3. PICK q \in S : TRUE
  OBVIOUS
<1>4. Philosophers - 1 \in S
  <2>1. Philosophers - 1 - q \in Nat /\ q + (Philosophers - 1 - q) = Philosophers - 1
    BY <1>1
  <2> QED BY <1>1, <1>2, <2>1
<1>5. 0 \in S
  BY <1>1, <1>4, NextInRing
<1>6. \A i \in Nat : i < Philosophers => i \in S
  BY <1>2, <1>5
<1>7. \A p \in Ta!Ids : p \in Nat /\ p < Philosophers
  BY <1>1 DEF Ta!Ids
<1> QED BY <1>6, <1>7

(* Run: the seats break the circle.  Were everybody waiting, each          *)
(* philosopher seated would wait for a fork that the next one holds, who   *)
(* then would be seated as well, and so all round the table; but one seat  *)
(* is missing.  For any number of philosophers and rounds.                 *)
THEOREM TableNeverDeadlocks == GroupsSpec => []NoCircularWait
<1>1. ASSUME TableInv PROVE NoCircularWait
  <2> SUFFICES ASSUME NEW o \in Ta!Ids, tapc[o] \notin {"done", "canceled"},
                      \A p \in Ta!Ids : ~CanGoOn(p)
               PROVE  FALSE
    BY DEF NoCircularWait
  <2> DEFINE S == {p \in Ta!Ids : tapc[p] = "right"}
  <2>0. /\ \A p \in Ta!Ids : tapc[p] \in {"sit", "left", "right", "both", "one",
                                         "leave", "done", "canceled"}
        /\ seats = Cardinality(Seated) /\ seats <= Ta!Seats
    BY <1>1, SeatsCount DEF TableInv, Ta!TypeOK, Seated
  <2>1. \A p \in Ta!Ids : tapc[p] \in {"sit", "left", "right", "done", "canceled"}
    BY <2>0 DEF CanGoOn
  <2>2. \A p \in Ta!Ids : tapc[p] # "left"
    BY <2>1 DEF CanGoOn, Ta!Unlocked
  <2>3. ASSUME NEW p \in S PROVE Ta!Right(p) \in S
    <3>1. Ta!Right(p) \in Ta!Ids
      BY NextInRing, TableConstants DEF Ta!Ids
    <3>2. ~Ta!Unlocked(Ta!Right(p))
      BY DEF CanGoOn
    <3> QED BY <2>1, <3>1, <3>2 DEF Ta!Unlocked
  <2>4. S # {}
    <3> SUFFICES ASSUME S = {} PROVE FALSE
      OBVIOUS
    <3>1. tapc[o] = "sit" /\ Seated = {}
      BY <2>1, <2>2 DEF Seated
    <3>2. seats = 0 /\ Ta!Seats > 0
      BY <2>0, <3>1, FS_EmptySet, TableConstants DEF Ta!Seats
    <3> QED BY <3>1, <3>2 DEF CanGoOn
  <2>5. S = Ta!Ids
    <3> HIDE DEF S
    <3>1. S \in SUBSET Ta!Ids
      BY DEF S
    <3> QED BY <2>3, <2>4, <3>1, AllRound
  <2>6. Seated = 0 .. Philosophers - 1
    BY <2>5 DEF Seated, Ta!Ids
  <2>7. seats = Philosophers
    BY <2>0, <2>6, FS_Interval, TableConstants
  <2> QED BY <2>0, <2>7, TableConstants DEF Ta!Seats
<1> QED BY <1>1, TableInvariance, PTL

-----------------------------------------------------------------------------
(* batcher.  FlushHolds says where items can be while run is somewhere:    *)
(* nothing is offered outside of a flush, the batch is empty during one,   *)
(* and a goroutine that ends without cancellation has nothing left.        *)

FlushHolds ==
    /\ bapc = "start" => batch = <<>>
    /\ bapc \in {"start", "loop", "full"} => items = <<>>
    /\ bapc = "flush" => batch = <<>>
    /\ bapc = "flush" /\ last => inClosed
    /\ bapc = "gone" /\ ~bactx => inClosed /\ items = <<>> /\ batch = <<>>

BatcherInv == Ba!TypeOK /\ FlushHolds /\ EachItemOnce

LEMMA BatcherConstants == MaxSizes \subseteq Nat \ {0} /\ MaxItems \in Nat
BY GroupsAssumption DEF Ba!BatcherAssumption

LEMMA BatcherTypes ==
    ASSUME Ba!TypeOK
    PROVE  /\ maxSize \in Nat \ {0} /\ taken \in Nat /\ MaxItems \in Nat
           /\ Len(batch) \in Nat
           /\ batch \in Seq(1 .. MaxItems)
           /\ items \in Seq(1 .. MaxItems)
           /\ output \in Seq(1 .. MaxItems)
           /\ output \o items \in Seq(1 .. MaxItems)
BY BatcherConstants, LenProperties, ConcatProperties DEF Ba!TypeOK

(* The first items of the input, and one more. *)
LEMMA FirstItems ==
    ASSUME NEW n \in Nat
    PROVE  /\ [i \in 1 .. n |-> i] \in Seq(Nat)
           /\ Len([i \in 1 .. n |-> i]) = n
           /\ Append([i \in 1 .. n |-> i], n + 1) = [i \in 1 .. n + 1 |-> i]
<1> DEFINE f == [i \in 1 .. n |-> i]
           g == [i \in 1 .. n + 1 |-> i]
<1>1. f \in Seq(Nat) /\ g \in Seq(Nat) /\ Len(f) = n /\ Len(g) = n + 1
  BY IsASeq
<1>2. /\ Append(f, n + 1) \in Seq(Nat)
      /\ Len(Append(f, n + 1)) = n + 1
      /\ \A i \in 1 .. n + 1 : Append(f, n + 1)[i] = g[i]
  BY <1>1, AppendProperties
<1>3. Append(f, n + 1) = g
  BY <1>1, <1>2, SeqEqual
<1> QED BY <1>1, <1>3

LEMMA ConcatAppend ==
    ASSUME NEW S, NEW s \in Seq(S), NEW r \in Seq(S), NEW e \in S
    PROVE  s \o Append(r, e) = Append(s \o r, e)
<1>1. Len(s) \in Nat /\ Len(r) \in Nat
  BY LenProperties
<1>2. /\ Append(r, e) \in Seq(S) /\ Len(Append(r, e)) = Len(r) + 1
      /\ \A i \in 1 .. Len(r) : Append(r, e)[i] = r[i]
      /\ Append(r, e)[Len(r) + 1] = e
  BY AppendProperties
<1>3. /\ s \o r \in Seq(S) /\ Len(s \o r) = Len(s) + Len(r)
      /\ \A i \in 1 .. Len(s) + Len(r) :
            (s \o r)[i] = IF i <= Len(s) THEN s[i] ELSE r[i - Len(s)]
  BY ConcatProperties
<1>4. /\ Append(s \o r, e) \in Seq(S)
      /\ Len(Append(s \o r, e)) = Len(s) + Len(r) + 1
      /\ \A i \in 1 .. Len(s) + Len(r) : Append(s \o r, e)[i] = (s \o r)[i]
      /\ Append(s \o r, e)[Len(s) + Len(r) + 1] = e
  BY <1>3, AppendProperties
<1>5. /\ s \o Append(r, e) \in Seq(S)
      /\ Len(s \o Append(r, e)) = Len(s) + Len(r) + 1
      /\ \A i \in 1 .. Len(s) + Len(r) + 1 :
            (s \o Append(r, e))[i] =
                IF i <= Len(s) THEN s[i] ELSE Append(r, e)[i - Len(s)]
  <2>1. /\ s \o Append(r, e) \in Seq(S)
        /\ Len(s \o Append(r, e)) = Len(s) + Len(Append(r, e))
        /\ \A i \in 1 .. Len(s) + Len(Append(r, e)) :
              (s \o Append(r, e))[i] =
                  IF i <= Len(s) THEN s[i] ELSE Append(r, e)[i - Len(s)]
    BY <1>2, ConcatProperties
  <2> QED BY <1>1, <1>2, <2>1
<1>6. ASSUME NEW i \in 1 .. Len(s) + Len(r) + 1
      PROVE  (s \o Append(r, e))[i] = Append(s \o r, e)[i]
  <2>1. CASE i <= Len(s)
    BY <1>1, <1>3, <1>4, <1>5, <2>1
  <2>2. CASE i > Len(s) /\ i <= Len(s) + Len(r)
    <3>1. i - Len(s) \in 1 .. Len(r) /\ i \in 1 .. Len(s) + Len(r)
      BY <1>1, <2>2
    <3> QED BY <1>1, <1>2, <1>3, <1>4, <1>5, <2>2, <3>1
  <2>3. CASE i = Len(s) + Len(r) + 1
    <3>1. i - Len(s) = Len(r) + 1 /\ ~(i <= Len(s))
      BY <1>1, <2>3
    <3> QED BY <1>1, <1>2, <1>4, <1>5, <2>3, <3>1
  <2> QED BY <1>1, <2>1, <2>2, <2>3
<1> QED BY <1>4, <1>5, <1>6, SeqEqual

LEMMA BatcherStarts == Ba!Init => BatcherInv
<1> SUFFICES ASSUME Ba!Init PROVE BatcherInv
  OBVIOUS
<1>1. /\ batch = <<>> /\ items = <<>> /\ output = <<>> /\ taken = 0
      /\ maxSize \in Nat \ {0} /\ MaxItems \in Nat
      /\ <<>> \in Seq(1 .. MaxItems) /\ Len(<<>>) = 0
  BY BatcherConstants, EmptySeq DEF Ba!Init
<1>2. Ba!TypeOK
  <2>1. /\ maxSize \in MaxSizes /\ taken \in 0 .. MaxItems
        /\ batch \in Seq(1 .. MaxItems) /\ items \in Seq(1 .. MaxItems)
        /\ output \in Seq(1 .. MaxItems)
        /\ Len(batch) < maxSize /\ Len(batch) <= maxSize /\ Len(items) <= maxSize
    BY <1>1 DEF Ba!Init
  <2>2. /\ bactx \in BOOLEAN /\ inClosed \in BOOLEAN /\ last \in BOOLEAN
        /\ {timerC, armed, tick, elapsed} \subseteq BOOLEAN /\ expired \in Nat
        /\ bapc = "start"
    BY DEF Ba!Init
  <2> QED BY <2>1, <2>2 DEF Ba!TypeOK
<1>3. EachItemOnce
  BY <1>1 DEF EachItemOnce, Ba!EachItemOnce
<1>4. FlushHolds
  BY <1>1 DEF Ba!Init, FlushHolds
<1> QED BY <1>2, <1>3, <1>4 DEF BatcherInv

(* Time passes, the input or the context ends, or run notices the context. *)
LEMMA BatcherIdles ==
    ASSUME BatcherInv,
           \/ Ba!Timer \/ Ba!CloseInput \/ Ba!Cancel
           \/ Ba!StartRun \/ Ba!LoopCanceled \/ Ba!FlushCanceled
           \/ UNCHANGED batcher
    PROVE  BatcherInv'
<1>0. /\ Ba!TypeOK /\ FlushHolds /\ EachItemOnce /\ maxSize \in Nat \ {0}
      /\ Len(<<>>) = 0
  BY BatcherTypes DEF BatcherInv
<1>1. /\ UNCHANGED <<maxSize, taken, batch, items, last, output>>
      /\ timerC' = timerC
      /\ {armed', tick', elapsed'} \subseteq BOOLEAN /\ expired' \in Nat
  <2>1. /\ UNCHANGED <<maxSize, taken, batch, items, last, output>>
        /\ timerC' = timerC
        /\ armed' \in {armed, FALSE} /\ elapsed' \in {elapsed, TRUE}
        /\ tick' \in {tick, TRUE, FALSE}
    BY <1>0
    DEF Ba!Timer, Ba!Expire, Ba!SendTick, Ba!CloseInput, Ba!Cancel, Ba!StartRun,
        Ba!StopTimer, Ba!LoopCanceled, Ba!FlushCanceled, Ba!timerVars, batcher,
        Ba!TypeOK
  <2>2. \/ expired' = expired \/ expired' = expired + 1
        \/ expired > 0 /\ expired' = expired - 1
    BY DEF Ba!Timer, Ba!Expire, Ba!SendTick, Ba!CloseInput, Ba!Cancel,
           Ba!StartRun, Ba!StopTimer, Ba!LoopCanceled, Ba!FlushCanceled,
           Ba!timerVars, batcher
  <2>3. expired' \in Nat
    BY <1>0, <2>2 DEF Ba!TypeOK
  <2> QED BY <1>0, <2>1, <2>3 DEF Ba!TypeOK
<1>2. /\ bactx' \in BOOLEAN /\ inClosed' \in BOOLEAN
      /\ bactx => bactx'
      /\ inClosed => inClosed'
      /\ \/ bapc' = bapc
         \/ bapc = "start" /\ bapc' = "loop"
         \/ bactx /\ bapc' = "gone"
  BY <1>0
  DEF Ba!Timer, Ba!Expire, Ba!SendTick, Ba!CloseInput, Ba!Cancel, Ba!StartRun,
      Ba!LoopCanceled, Ba!FlushCanceled, batcher, Ba!TypeOK
<1>3. Ba!TypeOK'
  <2>1. bapc' = "loop" => Len(batch') < maxSize'
    BY <1>0, <1>1, <1>2 DEF Ba!TypeOK, FlushHolds
  <2>2. bapc' \in {"start", "loop", "full", "flush", "gone"}
    BY <1>0, <1>2 DEF Ba!TypeOK
  <2> QED BY <1>0, <1>1, <1>2, <2>1, <2>2 DEF Ba!TypeOK
<1>4. EachItemOnce'
  BY <1>0, <1>1 DEF EachItemOnce, Ba!EachItemOnce
<1>5. FlushHolds'
  BY <1>0, <1>1, <1>2 DEF FlushHolds
<1> QED BY <1>3, <1>4, <1>5 DEF BatcherInv

LEMMA BatcherTakes ==
    ASSUME BatcherInv, Ba!TakeItem
    PROVE  BatcherInv'
<1>0. /\ Ba!TypeOK /\ FlushHolds /\ EachItemOnce
      /\ maxSize \in Nat \ {0} /\ taken \in Nat /\ MaxItems \in Nat
      /\ Len(batch) \in Nat
      /\ batch \in Seq(1 .. MaxItems)
      /\ output \o items \in Seq(1 .. MaxItems)
  BY BatcherTypes DEF BatcherInv
<1>1. /\ bapc = "loop" /\ taken < MaxItems
      /\ taken' = taken + 1
      /\ batch' = Append(batch, taken')
      /\ bapc' = IF Len(batch') >= maxSize THEN "full" ELSE "loop"
      /\ UNCHANGED <<maxSize, bactx, inClosed, items, last, output>>
  BY DEF Ba!TakeItem
<1>2. {timerC', armed', tick', elapsed'} \subseteq BOOLEAN /\ expired' \in Nat
  BY <1>0 DEF Ba!TakeItem, Ba!StartTimer, Ba!timerVars, Ba!TypeOK
<1>3. taken' \in 1 .. MaxItems
  BY <1>0, <1>1
<1>4. batch' \in Seq(1 .. MaxItems) /\ Len(batch') = Len(batch) + 1
  BY <1>0, <1>1, <1>3, AppendProperties
<1>5. Len(batch) < maxSize /\ items = <<>>
  BY <1>0, <1>1 DEF Ba!TypeOK, FlushHolds
<1>6. Ba!TypeOK'
  <2>1. Len(batch') <= maxSize' /\ (bapc' = "loop" => Len(batch') < maxSize')
    BY <1>0, <1>1, <1>4, <1>5
  <2> QED BY <1>0, <1>1, <1>2, <1>3, <1>4, <2>1 DEF Ba!TypeOK
<1>7. EachItemOnce'
  <2>1. (output \o items) \o batch' = Append((output \o items) \o batch, taken')
    BY <1>0, <1>1, <1>3, ConcatAppend
  <2>2. (output \o items) \o batch = [i \in 1 .. taken |-> i]
    BY <1>0 DEF EachItemOnce, Ba!EachItemOnce
  <2> QED BY <1>0, <1>1, <2>1, <2>2, FirstItems DEF EachItemOnce, Ba!EachItemOnce
<1>8. FlushHolds'
  BY <1>1, <1>5 DEF FlushHolds
<1> QED BY <1>6, <1>7, <1>8 DEF BatcherInv

(* FlushFull, the last flush of InputCloses, and that of TimerFires.       *)
LEMMA BatcherFlushes ==
    ASSUME BatcherInv, NEW returns \in BOOLEAN, Ba!BeginFlush(returns),
           bapc \in {"loop", "full"},
           returns => inClosed,
           {timerC', armed', tick', elapsed'} \subseteq BOOLEAN, expired' \in Nat,
           UNCHANGED <<maxSize, bactx, inClosed, taken, output>>
    PROVE  BatcherInv'
<1>0. /\ Ba!TypeOK /\ FlushHolds /\ EachItemOnce
      /\ maxSize \in Nat \ {0} /\ MaxItems \in Nat
      /\ batch \in Seq(1 .. MaxItems)
      /\ output \in Seq(1 .. MaxItems)
      /\ items = <<>>
      /\ <<>> \in Seq(1 .. MaxItems) /\ Len(<<>>) = 0
  BY BatcherTypes, EmptySeq DEF BatcherInv, FlushHolds
<1>1. /\ items' = batch /\ batch' = <<>> /\ last' = returns /\ bapc' = "flush"
  BY DEF Ba!BeginFlush
<1>2. Ba!TypeOK'
  BY <1>0, <1>1 DEF Ba!TypeOK
<1>3. EachItemOnce'
  <2>1. output \o items = output
    BY <1>0, ConcatEmptySeq
  <2>2. output \o batch \in Seq(1 .. MaxItems)
    BY <1>0, ConcatProperties
  <2>3. (output \o batch) \o <<>> = output \o batch
    BY <2>2, ConcatEmptySeq
  <2> QED BY <1>0, <1>1, <2>1, <2>3 DEF EachItemOnce, Ba!EachItemOnce
<1>4. FlushHolds'
  BY <1>1 DEF FlushHolds
<1> QED BY <1>2, <1>3, <1>4 DEF BatcherInv

LEMMA BatcherBeginsFlush ==
    ASSUME BatcherInv, Ba!FlushFull \/ Ba!InputCloses \/ Ba!TimerFires
    PROVE  BatcherInv'
<1>0. /\ Ba!TypeOK /\ FlushHolds /\ EachItemOnce
      /\ {timerC', armed', tick', elapsed'} \subseteq BOOLEAN /\ expired' \in Nat
      /\ UNCHANGED <<maxSize, bactx, inClosed, taken, output>>
      /\ bapc \in {"loop", "full"}
  BY DEF Ba!FlushFull, Ba!InputCloses, Ba!TimerFires, Ba!StopActiveTimer,
         Ba!StopTimer, Ba!timerVars, BatcherInv, Ba!TypeOK
<1>1. CASE Ba!FlushFull
  BY <1>0, <1>1, BatcherFlushes DEF Ba!FlushFull
<1>2. CASE Ba!InputCloses
  <2>1. CASE batch = <<>>
    <3>1. /\ bapc' = "gone" /\ inClosed
          /\ UNCHANGED <<batch, items, last>>
          /\ items = <<>>
      BY <1>0, <1>2, <2>1 DEF Ba!InputCloses, FlushHolds
    <3>2. Ba!TypeOK'
      BY <1>0, <3>1 DEF Ba!TypeOK
    <3>3. EachItemOnce'
      BY <1>0, <3>1 DEF EachItemOnce, Ba!EachItemOnce
    <3>4. FlushHolds'
      BY <1>0, <2>1, <3>1 DEF FlushHolds
    <3> QED BY <3>2, <3>3, <3>4 DEF BatcherInv
  <2>2. CASE batch # <<>>
    BY <1>0, <1>2, <2>2, BatcherFlushes DEF Ba!InputCloses
  <2> QED BY <2>1, <2>2
<1>3. CASE Ba!TimerFires
  <2>1. CASE batch = <<>>
    <3>1. bapc = "loop" /\ UNCHANGED <<bapc, batch, items, last>>
      BY <1>3, <2>1 DEF Ba!TimerFires
    <3>2. Ba!TypeOK'
      BY <1>0, <3>1 DEF Ba!TypeOK
    <3>3. EachItemOnce'
      BY <1>0, <3>1 DEF EachItemOnce, Ba!EachItemOnce
    <3>4. FlushHolds'
      BY <1>0, <3>1 DEF FlushHolds
    <3> QED BY <3>2, <3>3, <3>4 DEF BatcherInv
  <2>2. CASE batch # <<>>
    BY <1>0, <1>3, <2>2, BatcherFlushes DEF Ba!TimerFires
  <2> QED BY <2>1, <2>2
<1> QED BY <1>1, <1>2, <1>3

LEMMA BatcherEmits ==
    ASSUME BatcherInv, Ba!Emit
    PROVE  BatcherInv'
<1>0. /\ Ba!TypeOK /\ FlushHolds /\ EachItemOnce
      /\ maxSize \in Nat \ {0} /\ MaxItems \in Nat
      /\ output \o items \in Seq(1 .. MaxItems)
      /\ <<>> \in Seq(1 .. MaxItems) /\ Len(<<>>) = 0
  BY BatcherTypes, EmptySeq DEF BatcherInv
<1>1. /\ bapc = "flush" /\ batch = <<>>
      /\ output' = output \o items /\ items' = <<>>
      /\ bapc' = IF last THEN "gone" ELSE "loop"
      /\ UNCHANGED <<maxSize, bactx, inClosed, taken, batch, timerC, armed,
                     expired, tick, elapsed, last>>
  BY <1>0 DEF Ba!Emit, Ba!timerVars, FlushHolds
<1>2. Ba!TypeOK'
  BY <1>0, <1>1 DEF Ba!TypeOK
<1>3. EachItemOnce'
  <2>1. (output \o items) \o <<>> = output \o items
    BY <1>0, ConcatEmptySeq
  <2> QED BY <1>0, <1>1, <2>1 DEF EachItemOnce, Ba!EachItemOnce
<1>4. FlushHolds'
  BY <1>0, <1>1 DEF FlushHolds
<1> QED BY <1>2, <1>3, <1>4 DEF BatcherInv

LEMMA BatcherNext == BatcherInv /\ [Ba!Next]_batcher => BatcherInv'
BY BatcherIdles, BatcherTakes, BatcherBeginsFlush, BatcherEmits
DEF Ba!Next, Ba!Run

LEMMA BatcherInvariance == GroupsSpec => []BatcherInv
BY Projection, BatcherStarts, BatcherNext, PTL

(* Whichever branches the select takes and whenever ticks arrive, every    *)
(* item received is in one batch, and in the order of the input.           *)
THEOREM ItemsKept == GroupsSpec => []EachItemOnce
<1>1. BatcherInv => EachItemOnce
  BY DEF BatcherInv
<1> QED BY <1>1, BatcherInvariance, PTL

(* A consumer that sees the output closed and has not canceled has got     *)
(* every item of an input that is closed as well.                          *)
THEOREM OutputComplete == GroupsSpec => []ClosedMeansAllOut
<1>1. BatcherInv => ClosedMeansAllOut
  <2> SUFFICES ASSUME BatcherInv, bapc = "gone", ~bactx
               PROVE  inClosed /\ Len(output) = taken
    BY DEF ClosedMeansAllOut, Ba!ClosedMeansAllOut
  <2>1. inClosed /\ items = <<>> /\ batch = <<>>
    BY DEF BatcherInv, FlushHolds
  <2>2. output \in Seq(1 .. MaxItems) /\ taken \in Nat
    BY BatcherTypes DEF BatcherInv
  <2>3. output = [i \in 1 .. taken |-> i]
    BY <2>1, <2>2, ConcatEmptySeq DEF BatcherInv, EachItemOnce, Ba!EachItemOnce
  <2> QED BY <2>1, <2>2, <2>3, FirstItems
<1> QED BY <1>1, BatcherInvariance, PTL

-----------------------------------------------------------------------------
(* batcher: the timer of a batch that waits to be filled.  stopTimer may   *)
(* leave ticks behind that are still to come (expired); it is enough that  *)
(* timerC is set only together with a running timer, and with it a tick    *)
(* that is to come or has come.                                            *)

BatchIsTimed ==
    bapc = "loop" /\ batch # <<>> => timerC /\ (armed \/ expired > 0 \/ tick)

TimerInv ==
    /\ bapc = "start" => ~timerC
    /\ timerC => armed \/ expired > 0 \/ tick
    /\ bapc = "loop" /\ batch # <<>> => timerC

(* While run waits for more items with a batch that has some, a tick that  *)
(* its select looks at is on the way or there, whichever ticks were late   *)
(* or left over before: so the batch is not left to wait for ever.         *)
THEOREM BatchNeverForgotten == GroupsSpec => []BatchIsTimed
<1>1. Ba!Init => TimerInv
  BY DEF Ba!Init, TimerInv
<1>2. ASSUME BatcherInv, TimerInv, [Ba!Next]_batcher PROVE TimerInv'
  <2>0. /\ {timerC, armed, tick} \subseteq BOOLEAN /\ expired \in Nat
        /\ FlushHolds
    BY <1>2 DEF BatcherInv, Ba!TypeOK
  <2>1. CASE Ba!Timer
    BY <1>2, <2>0, <2>1 DEF TimerInv, Ba!Timer, Ba!Expire, Ba!SendTick
  <2>2. CASE Ba!StartRun
    BY <1>2, <2>0, <2>2 DEF TimerInv, FlushHolds, Ba!StartRun, Ba!StopTimer
  <2>3. CASE Ba!TakeItem
    BY <1>2, <2>0, <2>3 DEF TimerInv, Ba!TakeItem, Ba!StartTimer, Ba!timerVars
  <2>4. CASE Ba!FlushFull \/ Ba!InputCloses
    BY <1>2, <2>0, <2>4
    DEF TimerInv, Ba!FlushFull, Ba!InputCloses, Ba!BeginFlush, Ba!StopActiveTimer,
        Ba!timerVars
  <2>5. CASE Ba!TimerFires
    BY <1>2, <2>0, <2>5 DEF TimerInv, Ba!TimerFires, Ba!BeginFlush
  <2>6. CASE Ba!LoopCanceled \/ Ba!FlushCanceled \/ Ba!CloseInput \/ Ba!Cancel
             \/ UNCHANGED batcher
    BY <1>2, <2>6
    DEF TimerInv, Ba!LoopCanceled, Ba!FlushCanceled, Ba!CloseInput, Ba!Cancel,
        Ba!timerVars, batcher
  <2>7. CASE Ba!Emit
    BY <1>2, <2>0, <2>7 DEF TimerInv, FlushHolds, Ba!Emit, Ba!timerVars
  <2> QED BY <1>2, <2>1, <2>2, <2>3, <2>4, <2>5, <2>6, <2>7 DEF Ba!Next, Ba!Run
<1>3. TimerInv => BatchIsTimed
  BY DEF TimerInv, BatchIsTimed
<1> QED BY <1>1, <1>2, <1>3, BatcherInvariance, Projection, PTL

-----------------------------------------------------------------------------
(* pipeline.  StagesHold: a stage that waits for a value has none in its   *)
(* hands, and a stage that has gone although nobody canceled has seen the  *)
(* one before it go, after everything has passed.                          *)

StagesHold ==
    /\ pipc[Pi!Source] # "recv"
    /\ pipc[Pi!Collect] # "send"
    /\ \A s \in {Pi!Filter, Pi!Map} : pipc[s] = "recv" => val[s] = NoValue
    /\ piResult = "none" <=> pipc[Pi!Collect] = "recv"
    /\ ~pictx =>
          /\ pipc[Pi!Source] = "gone" => sent = Len(input)
          /\ pipc[Pi!Filter] = "gone" => pipc[Pi!Source] = "gone" /\ val[Pi!Filter] = NoValue
          /\ pipc[Pi!Map] = "gone" => pipc[Pi!Filter] = "gone" /\ val[Pi!Map] = NoValue

PipelineInv ==
    /\ Pi!TypeOK
    /\ StagesHold
    /\ NothingLostInFlight
    /\ NilMeansComplete

LEMMA PipelineConstants == Inputs \subseteq Seq(Int) /\ NoValue \notin Int
BY GroupsAssumption DEF Pi!PipelineAssumption

(* The recursive definition of Wanted has a solution: one for the first m  *)
(* values can be extended to m + 1.                                        *)
LEMMA WantedExists ==
    ASSUME NEW m \in Nat
    PROVE  \E f : f = [n \in 0 .. m |->
                          IF n = 0 THEN <<>>
                          ELSE IF Pi!Positive(input[n])
                          THEN Append(f[n - 1], Pi!Square(input[n]))
                          ELSE f[n - 1]]
<1> DEFINE Add(g, n) == IF Pi!Positive(input[n])
                         THEN Append(g, Pi!Square(input[n])) ELSE g
           Solves(f, k) == f = [n \in 0 .. k |->
                                   IF n = 0 THEN <<>> ELSE Add(f[n - 1], n)]
           T == {k \in Nat : \E f : Solves(f, k)}
<1> HIDE DEF Add
<1>1. 0 \in T
  <2>1. Solves([n \in 0 .. 0 |-> <<>>], 0)
    OBVIOUS
  <2> QED BY <2>1
<1>2. ASSUME NEW k \in T PROVE k + 1 \in T
  <2>1. PICK f : Solves(f, k)
    OBVIOUS
  <2> DEFINE g == [n \in 0 .. k + 1 |-> IF n = 0 THEN <<>> ELSE Add(f[n - 1], n)]
  <2>2. \A n \in 0 .. k : g[n] = f[n]
    BY <2>1
  <2>3. \A n \in 0 .. k + 1 : n # 0 => n - 1 \in 0 .. k
    OBVIOUS
  <2>4. Solves(g, k + 1)
    BY <2>2, <2>3
  <2> HIDE DEF g
  <2>5. \E h : Solves(h, k + 1)
    BY <2>4
  <2>6. k + 1 \in Nat
    OBVIOUS
  <2> HIDE DEF Solves
  <2> QED BY <2>5, <2>6
<1>3. T = Nat
  <2> HIDE DEF T
  <2>1. T \in SUBSET Nat
    BY DEF T
  <2> QED BY <1>1, <1>2, <2>1, NatSetInduction
<1>4. PICK f : Solves(f, m)
  BY <1>3
<1> QED BY <1>4 DEF Add

LEMMA WantedSteps ==
    ASSUME Len(input) \in Nat
    PROVE  /\ Pi!Wanted[0] = <<>>
           /\ \A n \in Nat :
                 n < Len(input) =>
                   Pi!Wanted[n + 1] = IF Pi!Positive(input[n + 1])
                                      THEN Append(Pi!Wanted[n], Pi!Square(input[n + 1]))
                                      ELSE Pi!Wanted[n]
<1> DEFINE F == [n \in 0 .. Len(input) |->
                    IF n = 0 THEN <<>>
                    ELSE IF Pi!Positive(input[n])
                    THEN Append(Pi!Wanted[n - 1], Pi!Square(input[n]))
                    ELSE Pi!Wanted[n - 1]]
<1>1. Pi!Wanted = F
  BY WantedExists DEF Pi!Wanted
<1>2. /\ F[0] = <<>>
      /\ \A n \in 0 .. Len(input) :
            n # 0 => F[n] = IF Pi!Positive(input[n])
                            THEN Append(Pi!Wanted[n - 1], Pi!Square(input[n]))
                            ELSE Pi!Wanted[n - 1]
  OBVIOUS
<1> HIDE DEF F
<1>3. \A n \in 0 .. Len(input) : Pi!Wanted[n] = F[n]
  BY <1>1
<1>4. ASSUME NEW n \in Nat, n < Len(input)
      PROVE  Pi!Wanted[n + 1] = IF Pi!Positive(input[n + 1])
                                THEN Append(Pi!Wanted[n], Pi!Square(input[n + 1]))
                                ELSE Pi!Wanted[n]
  <2>1. n + 1 \in 0 .. Len(input) /\ n + 1 # 0 /\ (n + 1) - 1 = n
    BY <1>4
  <2> QED BY <1>2, <1>3, <2>1
<1> QED BY <1>2, <1>3, <1>4

(* The input stays the same, and so does what is wanted. *)
LEMMA WantedStays ==
    ASSUME input' = input
    PROVE  Pi!Wanted' = Pi!Wanted
BY DEF Pi!Wanted

LEMMA PipelineTypes ==
    ASSUME Pi!TypeOK
    PROVE  /\ input \in Seq(Int) /\ Len(input) \in Nat /\ sent \in 0 .. Len(input)
           /\ pipc \in [1 .. 4 -> {"recv", "send", "gone"}]
           /\ val \in [1 .. 4 -> Int \union {NoValue}]
           /\ values \in Seq(Int)
           /\ NoValue \notin Int
           /\ Pi!Source = 1 /\ Pi!Filter = 2 /\ Pi!Map = 3 /\ Pi!Collect = 4
           /\ Pi!Stages = 1 .. 4
           /\ Pi!Squared \in Seq(Int) /\ Pi!Accepted \in Seq(Int)
           /\ values \o Pi!Squared \in Seq(Int)
<1>1. /\ input \in Seq(Int) /\ Len(input) \in Nat /\ sent \in 0 .. Len(input)
      /\ pipc \in [1 .. 4 -> {"recv", "send", "gone"}]
      /\ val \in [1 .. 4 -> Int \union {NoValue}]
      /\ values \in Seq(Int)
      /\ NoValue \notin Int
      /\ Pi!Source = 1 /\ Pi!Filter = 2 /\ Pi!Map = 3 /\ Pi!Collect = 4
      /\ Pi!Stages = 1 .. 4
  BY PipelineConstants, LenProperties
  DEF Pi!TypeOK, Pi!Stages, Pi!Source, Pi!Filter, Pi!Map, Pi!Collect
<1>2. \A v \in Int : Pi!Square(v) \in Int
  BY DEF Pi!Square
<1>3. /\ val[3] # NoValue => val[3] \in Int
      /\ val[2] # NoValue => Pi!Square(val[2]) \in Int
  BY <1>1, <1>2
<1>4. Pi!Squared \in Seq(Int) /\ Pi!Accepted \in Seq(Int)
  BY <1>1, <1>3 DEF Pi!Squared, Pi!Accepted
<1> QED BY <1>1, <1>4, ConcatProperties

LEMMA PipelineStarts == Pi!Init => PipelineInv
<1> SUFFICES ASSUME Pi!Init PROVE PipelineInv
  OBVIOUS
<1>1. /\ input \in Inputs /\ input \in Seq(Int) /\ Len(input) \in Nat
      /\ Pi!Source = 1 /\ Pi!Filter = 2 /\ Pi!Map = 3 /\ Pi!Collect = 4
      /\ Pi!Stages = 1 .. 4 /\ NoValue \notin Int
  BY PipelineConstants, LenProperties
  DEF Pi!Init, Pi!Stages, Pi!Source, Pi!Filter, Pi!Map, Pi!Collect
<1>2. /\ pictx = FALSE /\ sent = 0 /\ values = <<>> /\ piResult = "none"
      /\ pipc \in [1 .. 4 -> {"recv", "send", "gone"}]
      /\ pipc[1] = "send" /\ pipc[2] = "recv" /\ pipc[3] = "recv" /\ pipc[4] = "recv"
      /\ val \in [1 .. 4 -> Int \union {NoValue}]
      /\ \A s \in 1 .. 4 : val[s] = NoValue
  BY <1>1 DEF Pi!Init
<1>3. Pi!TypeOK
  <2>1. values \in Seq(Int) /\ sent \in 0 .. Len(input)
    BY <1>1, <1>2, EmptySeq
  <2>2. /\ pipc \in [Pi!Stages -> {"recv", "send", "gone"}]
        /\ val \in [Pi!Stages -> Int \union {NoValue}]
    BY <1>1, <1>2
  <2>3. \A s \in {Pi!Filter, Pi!Map} : pipc[s] = "send" => val[s] # NoValue
    BY <1>1, <1>2
  <2>4. val[Pi!Filter] = NoValue
    BY <1>1, <1>2
  <2> QED BY <1>1, <1>2, <2>1, <2>2, <2>3, <2>4 DEF Pi!TypeOK
<1>4. StagesHold
  BY <1>1, <1>2 DEF StagesHold
<1>5. NothingLostInFlight
  <2>1. Pi!Squared = <<>> /\ Pi!Accepted = <<>>
    BY <1>1, <1>2 DEF Pi!Squared, Pi!Accepted
  <2>2. (<<>> \o <<>>) \o <<>> = <<>>
    BY EmptySeq, ConcatEmptySeq
  <2>3. Pi!Wanted[0] = <<>>
    BY <1>1, WantedSteps
  <2> QED BY <1>2, <2>1, <2>2, <2>3 DEF NothingLostInFlight, Pi!NothingLostInFlight
<1>6. NilMeansComplete
  BY <1>2 DEF NilMeansComplete, Pi!NilMeansComplete
<1> QED BY <1>3, <1>4, <1>5, <1>6 DEF PipelineInv

LEMMA PipelineSourceSends ==
    ASSUME PipelineInv, Pi!SourceSends
    PROVE  PipelineInv'
<1> DEFINE v == input[sent + 1]
<1>0. /\ Pi!TypeOK /\ StagesHold /\ NothingLostInFlight /\ NilMeansComplete
  BY DEF PipelineInv
<1>1. /\ pipc[1] = "send" /\ sent < Len(input) /\ pipc[2] = "recv"
      /\ sent' = sent + 1
      /\ UNCHANGED <<input, pictx, values, piResult>>
      /\ IF Pi!Positive(v)
         THEN /\ val' = [val EXCEPT ![2] = v]
              /\ pipc' = [pipc EXCEPT ![2] = "send"]
         ELSE UNCHANGED <<val, pipc>>
  BY <1>0, PipelineTypes DEF Pi!SourceSends
<1>2. /\ sent \in Nat /\ sent + 1 \in 0 .. Len(input)
      /\ v \in Int /\ val[2] = NoValue
  BY <1>0, <1>1, PipelineTypes, ElementOfSeq DEF StagesHold
<1> HIDE DEF v
<1>3. /\ Pi!TypeOK'
      /\ val'[3] = val[3]
      /\ val'[2] = IF Pi!Positive(v) THEN v ELSE NoValue
      /\ \A s \in {1, 3, 4} : pipc'[s] = pipc[s]
      /\ pipc'[2] = IF Pi!Positive(v) THEN "send" ELSE "recv"
  <2>1. CASE Pi!Positive(v)
    <3>1. /\ pipc' \in [1 .. 4 -> {"recv", "send", "gone"}]
          /\ val' \in [1 .. 4 -> Int \union {NoValue}]
          /\ val'[3] = val[3] /\ val'[2] = v
          /\ \A s \in {1, 3, 4} : pipc'[s] = pipc[s]
          /\ pipc'[2] = "send"
      BY <1>0, <1>1, <1>2, <2>1, PipelineTypes
    <3>2. Pi!TypeOK'
      <4>1. /\ pipc' \in [Pi!Stages -> {"recv", "send", "gone"}]
            /\ val' \in [Pi!Stages -> Int \union {NoValue}]
            /\ \A s \in {Pi!Filter, Pi!Map} : pipc'[s] = "send" => val'[s] # NoValue
            /\ Pi!Positive(val'[Pi!Filter])
        BY <1>0, <1>1, <1>2, <2>1, <3>1, PipelineTypes DEF Pi!TypeOK
      <4> QED BY <1>0, <1>1, <1>2, <4>1 DEF Pi!TypeOK
    <3> QED BY <2>1, <3>1, <3>2
  <2>2. CASE ~Pi!Positive(v)
    BY <1>0, <1>1, <1>2, <2>2, PipelineTypes DEF Pi!TypeOK
  <2> QED BY <2>1, <2>2
<1>4. StagesHold'
  BY <1>0, <1>1, <1>2, <1>3, PipelineTypes DEF StagesHold
<1>5. NothingLostInFlight'
  <2>1. Pi!Accepted = <<>> /\ Pi!Squared' = Pi!Squared
    BY <1>0, <1>1, <1>2, <1>3, PipelineTypes DEF Pi!Accepted, Pi!Squared
  <2>2. values \o Pi!Squared = Pi!Wanted[sent]
    BY <1>0, <2>1, PipelineTypes, ConcatEmptySeq
    DEF NothingLostInFlight, Pi!NothingLostInFlight
  <2>3. Pi!Wanted[sent + 1] = IF Pi!Positive(v)
                              THEN Append(Pi!Wanted[sent], Pi!Square(v))
                              ELSE Pi!Wanted[sent]
    BY <1>0, <1>1, <1>2, WantedSteps, PipelineTypes DEF v
  <2>4. Pi!Square(v) \in Int
    BY <1>2 DEF Pi!Square
  <2>5. (values \o Pi!Squared) \o Pi!Accepted' = Pi!Wanted[sent + 1]
    <3>1. CASE Pi!Positive(v)
      <4>1. Pi!Accepted' = <<Pi!Square(v)>>
        BY <1>0, <1>1, <1>2, <1>3, <3>1, PipelineTypes DEF Pi!Accepted, Pi!Square
      <4> QED BY <1>0, <2>2, <2>3, <2>4, <3>1, <4>1, PipelineTypes, AppendIsConcat
    <3>2. CASE ~Pi!Positive(v)
      <4>1. Pi!Accepted' = <<>>
        BY <1>0, <1>1, <1>2, <1>3, <3>2, PipelineTypes DEF Pi!Accepted
      <4> QED BY <1>0, <2>2, <2>3, <3>2, <4>1, PipelineTypes, ConcatEmptySeq
    <3> QED BY <3>1, <3>2
  <2> QED BY <1>1, <2>1, <2>5, WantedStays
          DEF NothingLostInFlight, Pi!NothingLostInFlight
<1>6. NilMeansComplete'
  BY <1>0, <1>1, WantedStays DEF NilMeansComplete, Pi!NilMeansComplete
<1> QED BY <1>3, <1>4, <1>5, <1>6 DEF PipelineInv

LEMMA PipelineFilterSends ==
    ASSUME PipelineInv, Pi!FilterSends
    PROVE  PipelineInv'
<1>0. /\ Pi!TypeOK /\ StagesHold /\ NothingLostInFlight /\ NilMeansComplete
  BY DEF PipelineInv
<1>1. /\ pipc[2] = "send" /\ pipc[3] = "recv"
      /\ val' = [val EXCEPT ![2] = NoValue, ![3] = Pi!Square(val[2])]
      /\ pipc' = [pipc EXCEPT ![2] = "recv", ![3] = "send"]
      /\ UNCHANGED <<input, pictx, sent, values, piResult>>
  BY <1>0, PipelineTypes DEF Pi!FilterSends
<1>2. /\ val[2] \in Int /\ val[3] = NoValue /\ Pi!Square(val[2]) \in Int
  BY <1>0, <1>1, PipelineTypes DEF Pi!TypeOK, StagesHold, Pi!Square
<1>3. /\ pipc' \in [Pi!Stages -> {"recv", "send", "gone"}]
      /\ val' \in [Pi!Stages -> Int \union {NoValue}]
      /\ val'[2] = NoValue /\ val'[3] = Pi!Square(val[2])
      /\ pipc'[2] = "recv" /\ pipc'[3] = "send"
      /\ pipc'[1] = pipc[1] /\ pipc'[4] = pipc[4]
  <2>1. /\ pipc \in [1 .. 4 -> {"recv", "send", "gone"}]
        /\ val \in [1 .. 4 -> Int \union {NoValue}]
        /\ Pi!Stages = 1 .. 4
    BY <1>0, PipelineTypes
  <2>2. /\ pipc' \in [1 .. 4 -> {"recv", "send", "gone"}]
        /\ pipc'[2] = "recv" /\ pipc'[3] = "send"
        /\ pipc'[1] = pipc[1] /\ pipc'[4] = pipc[4]
    BY <1>1, <2>1
  <2>3. /\ val' \in [1 .. 4 -> Int \union {NoValue}]
        /\ val'[2] = NoValue /\ val'[3] = Pi!Square(val[2])
    BY <1>1, <1>2, <2>1
  <2> QED BY <2>1, <2>2, <2>3
<1>4. Pi!TypeOK'
  <2>1. /\ \A s \in {Pi!Filter, Pi!Map} : pipc'[s] = "send" => val'[s] # NoValue
        /\ val'[Pi!Filter] = NoValue
    BY <1>0, <1>2, <1>3, PipelineTypes
  <2> QED BY <1>0, <1>1, <1>3, <2>1 DEF Pi!TypeOK
<1>5. StagesHold'
  <2>1. /\ pipc[1] # "recv" /\ pipc[4] # "send"
        /\ piResult = "none" <=> pipc[4] = "recv"
        /\ ~pictx /\ pipc[1] = "gone" => sent = Len(input)
    BY <1>0, PipelineTypes DEF StagesHold
  <2>2. /\ pipc'[1] # "recv" /\ pipc'[4] # "send"
        /\ piResult' = "none" <=> pipc'[4] = "recv"
        /\ ~pictx' /\ pipc'[1] = "gone" => sent' = Len(input')
    BY <1>1, <1>3, <2>1
  <2> QED BY <1>0, <1>3, <2>2, PipelineTypes DEF StagesHold
<1>6. NothingLostInFlight'
  <2>1. /\ Pi!Accepted = <<Pi!Square(val[2])>> /\ Pi!Squared = <<>>
        /\ Pi!Accepted' = <<>> /\ Pi!Squared' = <<Pi!Square(val[2])>>
    BY <1>0, <1>1, <1>2, <1>3, PipelineTypes DEF Pi!Accepted, Pi!Squared
  <2>2. /\ values \o <<>> = values
        /\ (values \o <<Pi!Square(val[2])>>) \o <<>> = values \o <<Pi!Square(val[2])>>
    <3>1. values \o <<Pi!Square(val[2])>> \in Seq(Int)
      BY <1>0, <1>2, PipelineTypes, ConcatProperties
    <3> QED BY <1>0, <3>1, PipelineTypes, ConcatEmptySeq
  <2> QED BY <1>0, <1>1, <2>1, <2>2, WantedStays
          DEF NothingLostInFlight, Pi!NothingLostInFlight
<1>7. NilMeansComplete'
  BY <1>0, <1>1, WantedStays DEF NilMeansComplete, Pi!NilMeansComplete
<1> QED BY <1>4, <1>5, <1>6, <1>7 DEF PipelineInv

LEMMA PipelineMapSends ==
    ASSUME PipelineInv, Pi!MapSends
    PROVE  PipelineInv'
<1>0. /\ Pi!TypeOK /\ StagesHold /\ NothingLostInFlight /\ NilMeansComplete
  BY DEF PipelineInv
<1>1. /\ pipc[3] = "send" /\ pipc[4] = "recv"
      /\ values' = Append(values, val[3])
      /\ val' = [val EXCEPT ![3] = NoValue]
      /\ pipc' = [pipc EXCEPT ![3] = "recv"]
      /\ UNCHANGED <<input, pictx, sent, piResult>>
  BY <1>0, PipelineTypes DEF Pi!MapSends
<1>2. val[3] \in Int
  BY <1>0, <1>1, PipelineTypes DEF Pi!TypeOK
<1>3. /\ pipc' \in [Pi!Stages -> {"recv", "send", "gone"}]
      /\ val' \in [Pi!Stages -> Int \union {NoValue}]
      /\ val'[3] = NoValue /\ val'[2] = val[2]
      /\ pipc'[3] = "recv"
      /\ \A s \in {1, 2, 4} : pipc'[s] = pipc[s]
      /\ values' \in Seq(Int)
      /\ values' = values \o <<val[3]>>
  <2>1. /\ pipc \in [1 .. 4 -> {"recv", "send", "gone"}]
        /\ val \in [1 .. 4 -> Int \union {NoValue}]
        /\ Pi!Stages = 1 .. 4 /\ values \in Seq(Int)
    BY <1>0, PipelineTypes
  <2>2. /\ pipc' \in [1 .. 4 -> {"recv", "send", "gone"}]
        /\ pipc'[3] = "recv"
        /\ \A s \in {1, 2, 4} : pipc'[s] = pipc[s]
    BY <1>1, <2>1
  <2>3. /\ val' \in [1 .. 4 -> Int \union {NoValue}]
        /\ val'[3] = NoValue /\ val'[2] = val[2]
    BY <1>1, <2>1
  <2>4. values' \in Seq(Int) /\ values' = values \o <<val[3]>>
    BY <1>1, <1>2, <2>1, AppendProperties, AppendIsConcat
  <2> QED BY <2>1, <2>2, <2>3, <2>4
<1>4. Pi!TypeOK'
  <2>1. /\ \A s \in {Pi!Filter, Pi!Map} : pipc'[s] = "send" => val'[s] # NoValue
        /\ val'[Pi!Filter] = val[Pi!Filter]
    BY <1>0, <1>3, PipelineTypes DEF Pi!TypeOK
  <2> QED BY <1>0, <1>1, <1>3, <2>1 DEF Pi!TypeOK
<1>5. StagesHold'
  BY <1>0, <1>1, <1>2, <1>3, PipelineTypes DEF StagesHold
<1>6. NothingLostInFlight'
  <2>1. /\ Pi!Squared = <<val[3]>> /\ Pi!Squared' = <<>>
        /\ Pi!Accepted' = Pi!Accepted
    BY <1>0, <1>1, <1>2, <1>3, PipelineTypes DEF Pi!Accepted, Pi!Squared
  <2>2. values' \o <<>> = values'
    BY <1>3, ConcatEmptySeq
  <2> QED BY <1>0, <1>1, <1>3, <2>1, <2>2, WantedStays
          DEF NothingLostInFlight, Pi!NothingLostInFlight
<1>7. NilMeansComplete'
  <2>1. piResult = "none"
    BY <1>0, <1>1, PipelineTypes DEF StagesHold
  <2> QED BY <1>1, <2>1 DEF NilMeansComplete, Pi!NilMeansComplete
<1> QED BY <1>4, <1>5, <1>6, <1>7 DEF PipelineInv

(* A stage returns; only the end of Collect concerns the result.           *)
LEMMA PipelineStageEnds ==
    ASSUME PipelineInv, NEW s \in Pi!Stages, Pi!End(s)
    PROVE  PipelineInv'
<1>0. /\ Pi!TypeOK /\ StagesHold /\ NothingLostInFlight /\ NilMeansComplete
  BY DEF PipelineInv
<1>1. /\ pipc' = [pipc EXCEPT ![s] = "gone"]
      /\ s \in 1 .. 4
      /\ UNCHANGED <<input, pictx, sent, val, values>>
  BY <1>0, PipelineTypes
  DEF Pi!End, Pi!SourceEnds, Pi!InputCloses, Pi!StageCanceled,
      Pi!CollectCanceled, Pi!CollectInputCloses, Pi!Gone
<1>2. /\ pipc' \in [Pi!Stages -> {"recv", "send", "gone"}]
      /\ pipc'[s] = "gone"
      /\ \A r \in 1 .. 4 : r # s => pipc'[r] = pipc[r]
  BY <1>0, <1>1, PipelineTypes
<1>3. NothingLostInFlight'
  <2>1. Pi!Squared' = Pi!Squared /\ Pi!Accepted' = Pi!Accepted
    BY <1>1 DEF Pi!Squared, Pi!Accepted
  <2> QED BY <1>0, <1>1, <2>1, WantedStays
          DEF NothingLostInFlight, Pi!NothingLostInFlight
<1>4. /\ \A r \in {Pi!Filter, Pi!Map} :
            /\ pipc'[r] = "send" => val'[r] # NoValue
            /\ pipc'[r] = "recv" => val'[r] = NoValue
      /\ pipc'[1] # "recv" /\ pipc'[4] # "send"
  BY <1>0, <1>1, <1>2, PipelineTypes DEF Pi!TypeOK, StagesHold
<1>5. CASE s # 4
  <2>1. piResult' = piResult
    BY <1>0, <1>5, PipelineTypes
    DEF Pi!End, Pi!SourceEnds, Pi!InputCloses, Pi!StageCanceled
  <2>2. Pi!TypeOK'
    BY <1>0, <1>1, <1>2, <1>4, <2>1 DEF Pi!TypeOK
  <2>3. ~pictx =>
          \/ s = 1 /\ sent = Len(input)
          \/ s \in {2, 3} /\ pipc[s] = "recv" /\ pipc[s - 1] = "gone"
    BY <1>0, <1>1, <1>5, PipelineTypes
    DEF Pi!End, Pi!SourceEnds, Pi!InputCloses, Pi!StageCanceled
  <2>4. /\ ~pictx /\ pipc'[1] = "gone" => sent = Len(input)
        /\ ~pictx /\ pipc'[2] = "gone" => pipc'[1] = "gone" /\ val[2] = NoValue
        /\ ~pictx /\ pipc'[3] = "gone" => pipc'[2] = "gone" /\ val[3] = NoValue
    BY <1>0, <1>2, <2>3, PipelineTypes DEF StagesHold
  <2>5. StagesHold'
    BY <1>0, <1>1, <1>2, <1>4, <1>5, <2>1, <2>4, PipelineTypes DEF StagesHold
  <2>6. NilMeansComplete'
    BY <1>0, <1>1, <2>1, WantedStays DEF NilMeansComplete, Pi!NilMeansComplete
  <2> QED BY <1>3, <2>2, <2>5, <2>6 DEF PipelineInv
<1>6. CASE s = 4
  <2>1. /\ piResult' \in {"nil", "canceled"}
        /\ piResult' = "nil" => pipc[3] = "gone" /\ ~pictx
    BY <1>0, <1>6, PipelineTypes
    DEF Pi!End, Pi!InputCloses, Pi!StageCanceled, Pi!CollectCanceled,
        Pi!CollectInputCloses
  <2>2. Pi!TypeOK'
    BY <1>0, <1>1, <1>2, <1>4, <2>1 DEF Pi!TypeOK
  <2>3. StagesHold'
    BY <1>0, <1>1, <1>2, <1>4, <1>6, <2>1, PipelineTypes DEF StagesHold
  <2>4. NilMeansComplete'
    <3> SUFFICES ASSUME piResult' = "nil" PROVE values' = Pi!Wanted[Len(input)]'
      BY DEF NilMeansComplete, Pi!NilMeansComplete
    <3>1. /\ sent = Len(input)
          /\ val[2] = NoValue /\ val[3] = NoValue
      BY <1>0, <2>1, PipelineTypes DEF StagesHold
    <3>2. Pi!Squared = <<>> /\ Pi!Accepted = <<>>
      BY <1>0, <3>1, PipelineTypes DEF Pi!Squared, Pi!Accepted
    <3>3. (values \o <<>>) \o <<>> = values
      BY <1>0, PipelineTypes, ConcatEmptySeq
    <3> QED BY <1>0, <1>1, <3>1, <3>2, <3>3, WantedStays
            DEF NothingLostInFlight, Pi!NothingLostInFlight
  <2> QED BY <1>3, <2>2, <2>3, <2>4 DEF PipelineInv
<1> QED BY <1>5, <1>6

LEMMA PipelineCanceled ==
    ASSUME PipelineInv, Pi!Cancel \/ UNCHANGED pipeline
    PROVE  PipelineInv'
<1>0. /\ Pi!TypeOK /\ StagesHold /\ NothingLostInFlight /\ NilMeansComplete
  BY DEF PipelineInv
<1>1. /\ UNCHANGED <<input, sent, pipc, val, values, piResult>>
      /\ pictx' = pictx \/ pictx' = TRUE
  BY DEF Pi!Cancel, pipeline
<1>2. Pi!TypeOK'
  BY <1>0, <1>1 DEF Pi!TypeOK
<1>3. StagesHold'
  BY <1>0, <1>1 DEF StagesHold
<1>4. NothingLostInFlight'
  <2>1. Pi!Squared' = Pi!Squared /\ Pi!Accepted' = Pi!Accepted
    BY <1>1 DEF Pi!Squared, Pi!Accepted
  <2> QED BY <1>0, <1>1, <2>1, WantedStays
          DEF NothingLostInFlight, Pi!NothingLostInFlight
<1>5. NilMeansComplete'
  BY <1>0, <1>1, WantedStays DEF NilMeansComplete, Pi!NilMeansComplete
<1> QED BY <1>2, <1>3, <1>4, <1>5 DEF PipelineInv

LEMMA PipelineNext == PipelineInv /\ [Pi!Next]_pipeline => PipelineInv'
BY PipelineSourceSends, PipelineFilterSends, PipelineMapSends,
   PipelineStageEnds, PipelineCanceled
DEF Pi!Next, Pi!Send

LEMMA PipelineInvariance == GroupsSpec => []PipelineInv
BY Projection, PipelineStarts, PipelineNext, PTL

(* Whatever the input and however the stages interleave, the results       *)
(* collected and those still in a stage's hands are those of the values    *)
(* sent so far, in their order.                                            *)
THEOREM NothingIsLost == GroupsSpec => []NothingLostInFlight
<1>1. PipelineInv => NothingLostInFlight
  BY DEF PipelineInv
<1> QED BY <1>1, PipelineInvariance, PTL

(* Run returns a nil error only together with the results of its whole     *)
(* input, although canceled stages close their channels like ended ones.   *)
THEOREM NilIsComplete == GroupsSpec => []NilMeansComplete
<1>1. PipelineInv => NilMeansComplete
  BY DEF PipelineInv
<1> QED BY <1>1, PipelineInvariance, PTL

-----------------------------------------------------------------------------

(* The state of each package stays well typed: a batch is never larger     *)
(* than maxSize, as many seats are taken as philosophers sit, and a value  *)
(* that a stage of the pipeline holds is an integer.                       *)
THEOREM GroupsTypesOK == GroupsSpec => []GroupsTypeOK
<1>1. PipelineInv => Pi!TypeOK
  BY DEF PipelineInv
<1>2. BatcherInv => Ba!TypeOK
  BY DEF BatcherInv
<1>3. PoolInv => Po!TypeOK
  BY DEF PoolInv
<1>4. GroupInv => Gr!TypeOK
  BY DEF GroupInv
<1>5. TableInv => Ta!TypeOK
  BY DEF TableInv
<1>6. TypeOK /\ Pi!TypeOK /\ Ba!TypeOK /\ Po!TypeOK /\ Gr!TypeOK /\ Ti!TypeOK
        /\ Ta!TypeOK => GroupsTypeOK
  BY DEF GroupsTypeOK
<1> QED
  BY <1>1, <1>2, <1>3, <1>4, <1>5, <1>6, Projection, TypeCorrect, PipelineInvariance,
     BatcherInvariance, PoolInvariance, GroupInvariance, TimeoutTypes, TableInvariance,
     PTL

=============================================================================
