----------------------------- MODULE CrawlCycle -----------------------------
(***************************************************************************)
(* A crawl cycle from end to end: the run() calls of crawl/manager.py that *)
(* start, join, seed, serve and finalize a cycle, and the claim loops of   *)
(* crawl/worker.py that work it, on top of the queue of CrawlQueue.tla.    *)
(*                                                                         *)
(* A task is one call of CycleManager.run: a tick of crawl_due (its        *)
(* trigger is 'schedule') or a Sync request drained by                     *)
(* drain_crawl_requests ('manual', force, wait).  A process runs several   *)
(* tasks and shares the set _SERVING between them.                         *)
(*                                                                         *)
(* A crew is one call of CrawlWorkers.run: the loops of one lane and their *)
(* reaper, awaited by the gather of the task that started them.  Awaited   *)
(* or not they go on until they return, raise or are cancelled, so crews   *)
(* of one process can overlap; each counts its loops from 0, so the loops  *)
(* of overlapping crews may have the same name, the identity that          *)
(* leased_by holds.  Crews are slots: one whose loops are off and that     *)
(* nobody awaits is free to be the next crew of its process and lane.      *)
(*                                                                         *)
(* A fetch is its outcome only: what a page says is not modelled here,     *)
(* what the worker does about it is.                                       *)
(*                                                                         *)
(* Mutants, never used by an action, are named as in CrawlQueue.           *)
(***************************************************************************)
EXTENDS CrawlQueue

CONSTANTS
    Procs,         \* worker processes
    TaskProc,      \* [Seeders -> Procs]: the process a task runs in
    Scheduled,     \* the tasks whose trigger is 'schedule'; the rest are Syncs
    NoTask,        \* nobody holds the crawl lock
    Crews,         \* bound: the crews that can be on at the same time
    CrewProc,      \* [Crews -> Procs]
    CrewLane,      \* [Crews -> Lanes]
    Loops,         \* the claim loops
    CrewOf,        \* [Loops -> Crews]
    NameOf,        \* [Loops -> Workers]: process_id:h<n> or process_id:b<n>
    LinksOn,       \* [Urls -> SUBSET Urls]: the links found on a page
    LinksPerPage,  \* CRAWL_LINKS_PER_PAGE
    FaultKinds,    \* "crash": a process dies; "timeout": arq cancels a job;
                   \* "reaper": a _reap_loop raises; "database": a _loop
                   \* raises; "bookkeeping": a step of _after_outcome does;
                   \* "outage": for an hour nobody keeps the heartbeat of a
                   \* running cycle going
    MaxFaults,     \* bound: faults in a behaviour
    MaxInputs      \* bound: Syncs pressed and enabled flags changed

NoUrl    == 0
NoSource == 0

ASSUME CycleAssumption ==
    /\ TaskProc \in [Seeders -> Procs]
    /\ Scheduled \subseteq Seeders
    /\ NoTask \notin Seeders
    /\ LinksOn \in [Urls -> SUBSET Urls]
    /\ \A u \in Urls : \A k \in LinksOn[u] : IsLink(k) /\ SourceOf[k] = SourceOf[u]
    /\ LinksPerPage \in Nat
    /\ MaxFaults \in Nat
    /\ FaultKinds \subseteq {"crash", "timeout", "reaper", "database", "bookkeeping", "outage"}
    /\ MaxInputs \in Nat
    /\ NoUrl \notin Urls
    /\ NoSource \notin Sources

ASSUME CrewAssumption ==
    /\ CrewProc \in [Crews -> Procs]
    /\ CrewLane \in [Crews -> Lanes]
    /\ CrewOf \in [Loops -> Crews]
    /\ \A k \in Crews : \E l \in Loops : CrewOf[l] = k
    /\ NameOf \in [Loops -> Workers]
    /\ \A l, k \in Loops : l # k /\ NameOf[l] = NameOf[k] =>
          /\ CrewOf[l] # CrewOf[k]
          /\ CrewProc[CrewOf[l]] = CrewProc[CrewOf[k]]
          /\ CrewLane[CrewOf[l]] = CrewLane[CrewOf[k]]

VARIABLES
    tpc,          \* where each run() call is
    tcycle,       \* the cycle it takes part in, 0 before it has one
    toSeed,       \* the sources it has still to seed
    relink,       \* the source whose due links it requeues next, or NoSource
    crawlLock,    \* the task holding the crawl lock
    serving,      \* _SERVING of each process
    awaitedBy,    \* the task whose gather awaits a crew, or NoTask
    failedReaper, \* the crews whose reaper is gone while their loops go on
    lpc,          \* where each claim loop is
    lcycle,       \* the cycle it works, 0 when it is off
    lurl,         \* the URL it has claimed
    lattempt,     \* ClaimedUrl.attempt
    lbound,       \* listing_boundary of its outcome, 0 for none
    loffer,       \* the eligible links it is about to enqueue
    stale,        \* the cycles whose heartbeat is older than the job timeout
    byCron,       \* the cycles whose trigger is 'schedule'
    faults,       \* faults so far
    inputs        \* Syncs pressed and enabled flags changed so far

taskVars  == <<tpc, tcycle, toSeed, relink, crawlLock, byCron>>
loopVars  == <<lpc, lcycle, lurl, lattempt, lbound, loffer>>
procVars  == <<serving, awaitedBy, failedReaper, stale>>
envVars   == <<faults, inputs>>
localVars == <<tpc, tcycle, toSeed, relink, crawlLock, byCron, lpc, lcycle, lurl, lattempt,
               lbound, loffer, serving, awaitedBy, failedReaper, stale, faults, inputs>>
vars      == <<status, cycleId, attempt, leasedBy, leased, due, foundIn, enabled, cycleStatus,
               lastCycle, held, tpc, tcycle, toSeed, relink, crawlLock, byCron, lpc, lcycle,
               lurl, lattempt, lbound, loffer, serving, awaitedBy, failedReaper, stale, faults,
               inputs>>

TasksOf(p)    == {t \in Seeders : TaskProc[t] = p}
CrewsOf(p)    == {k \in Crews : CrewProc[k] = p}
LoopsIn(k)    == {l \in Loops : CrewOf[l] = k}
LaneOfLoop(l) == CrewLane[CrewOf[l]]

\* The crews whose return a task awaits, and their loops.
Awaited(t)    == {k \in Crews : awaitedBy[k] = t}
LoopsOf(t)    == {l \in Loops : awaitedBy[CrewOf[l]] = t}
LoopsOn(t)    == {l \in LoopsOf(t) : lpc[l] # "off"}

Init ==
    /\ QueueInit
    /\ tpc          = [t \in Seeders |-> "idle"]
    /\ tcycle       = [t \in Seeders |-> 0]
    /\ toSeed       = [t \in Seeders |-> {}]
    /\ relink       = [t \in Seeders |-> NoSource]
    /\ crawlLock    = NoTask
    /\ serving      = [p \in Procs |-> {}]
    /\ awaitedBy    = [k \in Crews |-> NoTask]
    /\ failedReaper = {}
    /\ lpc          = [l \in Loops |-> "off"]
    /\ lcycle       = [l \in Loops |-> 0]
    /\ lurl         = [l \in Loops |-> NoUrl]
    /\ lattempt     = [l \in Loops |-> 0]
    /\ lbound       = [l \in Loops |-> 0]
    /\ loffer       = [l \in Loops |-> {}]
    /\ stale        = {}
    /\ byCron       = {}
    /\ faults       = 0
    /\ inputs       = 0

-----------------------------------------------------------------------------
(* CycleManager.run: abandon what stalled, then start, or join, a cycle.   *)

\* abandon_stale_cycles, the first thing every run() does: a query for the
\* stale cycle (only one cycle is ever running), then its finalize_cycle, which
\* looks at the cycle's status again but not at its heartbeat.
BeginRun(t) ==
    /\ tpc[t] = "idle"
    /\ t \notin Scheduled => inputs < MaxInputs
    /\ RunningCycles # {} \/ lastCycle < MaxCycles
    /\ inputs' = IF t \in Scheduled THEN inputs ELSE inputs + 1
    /\ \/ /\ stale = {}
          /\ tpc' = [tpc EXCEPT ![t] = "choosing"]
          /\ UNCHANGED tcycle
       \/ \E c \in stale :
             /\ tpc'    = [tpc EXCEPT ![t] = "abandoning"]
             /\ tcycle' = [tcycle EXCEPT ![t] = c]
    /\ UNCHANGED <<queueVars, toSeed, relink, crawlLock, byCron, loopVars, procVars, faults>>

AbandonStale(t) ==
    LET c == tcycle[t] IN
    /\ tpc[t] = "abandoning"
    /\ \/ AbandonCycle(c)
       \/ cycleStatus[c] # "running" /\ UNCHANGED queueVars
    /\ stale'  = stale \ {c}
    /\ tpc'    = [tpc EXCEPT ![t] = "choosing"]
    /\ tcycle' = [tcycle EXCEPT ![t] = 0]
    /\ UNCHANGED <<toSeed, relink, crawlLock, byCron, loopVars, serving, awaitedBy, failedReaper,
                   envVars>>

\* _select_sources: a tick selects the enabled sources, a Sync those or one of them.
Selection(t) ==
    IF t \in Scheduled THEN {enabled} ELSE {enabled} \cup {{s} \cap enabled : s \in Sources}

Join_LeaveItAlone(t, c) ==
    /\ tcycle' = [tcycle EXCEPT ![t] = c]
    /\ tpc'    = [tpc EXCEPT ![t] = IF t \in Scheduled THEN "waiting" ELSE "opened"]

\* _join: a Sync adds its sources to the running cycle, a tick only works it.
Join(t, c) ==
    /\ tcycle' = [tcycle EXCEPT ![t] = c]
    /\ tpc'    = [tpc EXCEPT ![t] = IF t \in Scheduled THEN "ready" ELSE "opened"]

Run(t) ==
    /\ tpc[t] = "choosing"
    /\ \E selected \in Selection(t) :
          toSeed' = [toSeed EXCEPT ![t] =
                        IF t \in Scheduled /\ RunningCycles # {} THEN {} ELSE selected]
    /\ \/ \E c \in RunningCycles : Join(t, c)
       \/ /\ RunningCycles = {}
          /\ tpc' = [tpc EXCEPT ![t] = "starting"]
          /\ UNCHANGED tcycle
    /\ UNCHANGED <<queueVars, relink, crawlLock, byCron, loopVars, procVars, envVars>>

\* run() returns, and with it the crawl lock if it held it.
Returned(t) ==
    /\ tpc'    = [tpc EXCEPT ![t] = "idle"]
    /\ tcycle' = [tcycle EXCEPT ![t] = 0]
    /\ toSeed' = [toSeed EXCEPT ![t] = {}]
    /\ crawlLock' = IF crawlLock = t THEN NoTask ELSE crawlLock
    /\ UNCHANGED <<relink, byCron>>

\* The crawl lock is held elsewhere: run() returns None.
RefusedLock(t) ==
    /\ tpc[t] = "starting"
    /\ crawlLock # NoTask
    /\ tpc'    = [tpc EXCEPT ![t] = "idle"]
    /\ toSeed' = [toSeed EXCEPT ![t] = {}]
    /\ UNCHANGED <<queueVars, tcycle, relink, crawlLock, byCron, loopVars, procVars, envVars>>

LockAndStart(t) ==
    /\ tpc[t] = "starting"
    /\ crawlLock = NoTask
    /\ crawlLock' = t
    /\ \E c \in Cycles :
          /\ StartCycle(c)
          /\ tcycle' = [tcycle EXCEPT ![t] = c]
          /\ byCron' = IF t \in Scheduled THEN byCron \cup {c} ELSE byCron
    /\ tpc' = [tpc EXCEPT ![t] = "opened"]
    /\ UNCHANGED <<toSeed, relink, loopVars, procVars, envVars>>

\* start_cycle hit the unique index: another process won the race a moment ago.
Beaten(t) ==
    /\ tpc[t] = "starting"
    /\ crawlLock = NoTask
    /\ RunningCycles # {}
    /\ crawlLock' = t
    /\ tpc' = [tpc EXCEPT ![t] = "beaten"]
    /\ UNCHANGED <<queueVars, tcycle, toSeed, relink, byCron, loopVars, procVars, envVars>>

\* Join the winner's cycle, unless that has closed by now: then run() gives up.
JoinWinner(t) ==
    /\ tpc[t] = "beaten"
    /\ \/ /\ \E c \in RunningCycles : Join(t, c)
          /\ toSeed' = [toSeed EXCEPT ![t] = IF t \in Scheduled THEN {} ELSE @]
          /\ UNCHANGED <<relink, crawlLock, byCron>>
       \/ RunningCycles = {} /\ Returned(t)
    /\ UNCHANGED <<queueVars, loopVars, procVars, envVars>>

-----------------------------------------------------------------------------
(* _seed: everything between hold_cycle_open and the end of its block.     *)

BeginSeed(t) ==
    /\ tpc[t] = "opened"
    /\ HoldCycleOpen(t, tcycle[t])
    /\ tpc' = [tpc EXCEPT ![t] = "seeding"]
    /\ UNCHANGED <<tcycle, toSeed, relink, crawlLock, byCron, loopVars, procVars, envVars>>

\* The cycle closed in between: _seed returns False, and run() goes on to serve.
SeedRefused(t) ==
    /\ tpc[t] = "opened"
    /\ cycleStatus[tcycle[t]] # "running"
    /\ tpc' = [tpc EXCEPT ![t] = "ready"]
    /\ UNCHANGED <<queueVars, tcycle, toSeed, relink, crawlLock, byCron, loopVars, procVars,
                   envVars>>

\* pages_to_seed: max_pages, or two past the deepest page seen, so never fewer
\* than three of a listing that has them.
PagesToSeed(s) == {n \in PagesOf(s) : n >= 3 \/ \A m \in PagesOf(s) : m <= n}

SeedSource(t) ==
    /\ tpc[t] = "seeding"
    /\ relink[t] = NoSource
    /\ \E s \in toSeed[t] :
          /\ toSeed' = [toSeed EXCEPT ![t] = @ \ {s}]
          /\ \/ /\ s \in Browser /\ LaneLimit["browser"] = 0
                /\ UNCHANGED <<queueVars, relink>>
             \/ /\ ~(s \in Browser /\ LaneLimit["browser"] = 0)
                /\ \E n \in PagesToSeed(s) : SeedListing(t, s, n, t \notin Scheduled)
                /\ relink' = [relink EXCEPT ![t] = s]
    /\ UNCHANGED <<tpc, tcycle, crawlLock, byCron, loopVars, procVars, envVars>>

SeedLinks(t) ==
    /\ tpc[t] = "seeding"
    /\ relink[t] # NoSource
    /\ RequeueDueLinks(t, relink[t])
    /\ relink' = [relink EXCEPT ![t] = NoSource]
    /\ UNCHANGED <<tpc, tcycle, toSeed, crawlLock, byCron, loopVars, procVars, envVars>>

EndSeed(t) ==
    /\ tpc[t] = "seeding"
    /\ toSeed[t] = {} /\ relink[t] = NoSource
    /\ ReleaseHolds({t})
    /\ tpc' = [tpc EXCEPT ![t] = "ready"]
    /\ UNCHANGED <<tcycle, toSeed, relink, crawlLock, byCron, loopVars, procVars, envVars>>

-----------------------------------------------------------------------------
(* _serve: start a crew for each lane unless this process already serves   *)
(* the cycle; when they have all returned, reap and finalize.              *)

LanesOn == {lane \in Lanes : LaneLimit[lane] # 0}

FreeCrews(p, lane) ==
    {k \in CrewsOf(p) : /\ CrewLane[k] = lane
                        /\ awaitedBy[k] = NoTask
                        /\ \A l \in LoopsIn(k) : lpc[l] = "off"}
FreeCrew(p, lane) == CHOOSE k \in FreeCrews(p, lane) : TRUE

\* Nobody waits for the loops that an earlier task of this process, or an earlier
\* cycle, has left behind: only a crew slot (bound) must be free.
Serve(t) ==
    LET p     == TaskProc[t]
        crews == {FreeCrew(p, lane) : lane \in LanesOn}
    IN  /\ tpc[t] = "ready"
        /\ tcycle[t] \notin serving[p]
        /\ \A lane \in LanesOn : FreeCrews(p, lane) # {}
        /\ serving'      = [serving EXCEPT ![p] = @ \cup {tcycle[t]}]
        /\ awaitedBy'    = [k \in Crews |-> IF k \in crews THEN t ELSE awaitedBy[k]]
        /\ failedReaper' = failedReaper \ crews
        /\ tpc'    = [tpc EXCEPT ![t] = "working"]
        /\ lpc'    = [l \in Loops |-> IF CrewOf[l] \in crews THEN "idle" ELSE lpc[l]]
        /\ lcycle' = [l \in Loops |-> IF CrewOf[l] \in crews THEN tcycle[t] ELSE lcycle[l]]
        /\ UNCHANGED <<queueVars, tcycle, toSeed, relink, crawlLock, byCron, lurl, lattempt,
                       lbound, loffer, stale, envVars>>

AlreadyServing(t) ==
    /\ tpc[t] = "ready"
    /\ tcycle[t] \in serving[TaskProc[t]]
    /\ tpc' = [tpc EXCEPT ![t] = "waiting"]
    /\ UNCHANGED <<queueVars, tcycle, toSeed, relink, crawlLock, byCron, loopVars, procVars,
                   envVars>>

\* The gather of _serve has returned or raised, and its `finally` has run.
GatherEnds(t) ==
    /\ serving'   = [serving EXCEPT ![TaskProc[t]] = @ \ {tcycle[t]}]
    /\ awaitedBy' = [k \in Crews |-> IF awaitedBy[k] = t THEN NoTask ELSE awaitedBy[k]]

\* Every lane's run() has returned.
Drained(t) ==
    /\ tpc[t] = "working"
    /\ LoopsOn(t) = {} /\ Awaited(t) \cap failedReaper = {}
    /\ GatherEnds(t)
    /\ tpc' = [tpc EXCEPT ![t] = "closing"]
    /\ UNCHANGED <<queueVars, tcycle, toSeed, relink, crawlLock, byCron, loopVars, failedReaper,
                   stale, envVars>>

\* A reaper that died raises when the loops of its lane have returned, and so does
\* the gather: run() ends without finalizing, and the crew of the other lane, if
\* it is not done, goes on with nobody to await it.
LaneRaises(t) ==
    /\ tpc[t] = "working"
    /\ \E k \in Awaited(t) \cap failedReaper : \A l \in LoopsIn(k) : lpc[l] = "off"
    /\ GatherEnds(t)
    /\ Returned(t)
    /\ UNCHANGED <<queueVars, loopVars, failedReaper, stale, envVars>>

\* The reap_expired before the decision; nothing to reap is no obstacle.
ReapLast(t) ==
    /\ tpc[t] = "closing"
    /\ \/ ReapExpired
       \/ ~(\E u \in Urls : Expired(u)) /\ UNCHANGED queueVars
    /\ tpc' = [tpc EXCEPT ![t] = "finalizing"]
    /\ UNCHANGED <<tcycle, toSeed, relink, crawlLock, byCron, loopVars, procVars, envVars>>

Finalize(t) ==
    LET c == tcycle[t] IN
    /\ tpc[t] = "finalizing"
    /\ FinalizeCycle(c, c \in byCron)
    /\ stale' = stale \ {c}
    /\ Returned(t)
    /\ UNCHANGED <<loopVars, serving, awaitedBy, failedReaper,
                   envVars>>

\* finalize_cycle returned None: closed by another process, or not finished.
NotFinalized(t) ==
    LET c == tcycle[t] IN
    /\ tpc[t] = "finalizing"
    /\ ~HeldOpen(c)
    /\ cycleStatus[c] # "running" \/ ~ActiveCount0(c)
    /\ tpc' = [tpc EXCEPT ![t] = "waiting"]
    /\ UNCHANGED <<queueVars, tcycle, toSeed, relink, crawlLock, byCron, loopVars, procVars,
                   envVars>>

\* A tick does not wait; a Sync waits for somebody to close the cycle.
Return(t) ==
    /\ tpc[t] = "waiting"
    /\ t \in Scheduled \/ cycleStatus[tcycle[t]] # "running"
    /\ Returned(t)
    /\ UNCHANGED <<queueVars, loopVars, procVars, envVars>>

-----------------------------------------------------------------------------
(* CrawlWorkers._loop and _process.                                        *)

LoopClaim(l, u) ==
    /\ lpc[l] = "idle"
    /\ LaneOf(u) = LaneOfLoop(l)
    /\ Claim(NameOf[l], u, lcycle[l])
    /\ lpc'      = [lpc EXCEPT ![l] = "fetching"]
    /\ lurl'     = [lurl EXCEPT ![l] = u]
    /\ lattempt' = [lattempt EXCEPT ![l] = attempt[u] + 1]
    /\ UNCHANGED <<taskVars, lcycle, lbound, loffer, procVars, envVars>>

LoopExit_NothingClaimable(l) ==
    /\ lpc[l] = "idle"
    /\ ~\E u \in Urls : LaneOf(u) = LaneOfLoop(l) /\ Claimable(u, lcycle[l])
    /\ lpc'    = [lpc EXCEPT ![l] = "off"]
    /\ lcycle' = [lcycle EXCEPT ![l] = 0]
    /\ UNCHANGED <<queueVars, taskVars, lurl, lattempt, lbound, loffer, procVars, envVars>>

\* claim returned None and active_count is 0; otherwise the loop polls again.
LoopExit(l) ==
    /\ lpc[l] = "idle"
    /\ ActiveCount0(lcycle[l])
    /\ lpc'    = [lpc EXCEPT ![l] = "off"]
    /\ lcycle' = [lcycle EXCEPT ![l] = 0]
    /\ UNCHANGED <<queueVars, taskVars, lurl, lattempt, lbound, loffer, procVars, envVars>>

\* What a fetch can report.  A page past page 1 that is empty is ok; page 1
\* that is empty or gated, and a 403, are permanent; "gone" is a 404 or 410.
Outcomes(u) ==
    {"content", "unchanged", "transient", "permanent", "gone"}
        \cup (IF PageOne(u) THEN {} ELSE {"empty"})
IsOk(o) == o \in {"content", "unchanged", "empty"}

\* listing_boundary: the last page that exists, 0 for no conclusion.
ListingBoundary(u, o, finalFailure) ==
    IF PageOne(u) THEN (IF finalFailure THEN 1 ELSE 0)
    ELSE IF PageNo[u] > 1 /\ (o = "empty" \/ (finalFailure /\ o = "gone")) THEN PageNo[u] - 1
    ELSE 0

\* The loop goes on to its bookkeeping, or back to claiming if there is none.
AfterOutcome(l, bound, found) ==
    /\ lbound' = [lbound EXCEPT ![l] = bound]
    /\ lpc'    = [lpc EXCEPT ![l] = IF bound # 0 THEN "pruning"
                                    ELSE IF found THEN "offering"
                                    ELSE "idle"]
    /\ lattempt' = [lattempt EXCEPT ![l] = 0]
    /\ lurl' = [lurl EXCEPT ![l] = IF bound = 0 /\ ~found THEN NoUrl ELSE @]
    /\ UNCHANGED <<taskVars, lcycle, loffer, procVars, envVars>>

RecordOk_WhoeverHoldsIt(l, o) ==
    LET u == lurl[l] IN
    /\ lpc[l] = "fetching"
    /\ o \in Outcomes(u) /\ IsOk(o)
    /\ Settle(u, "succeeded")
    /\ AfterOutcome(l, ListingBoundary(u, o, FALSE), o = "content" /\ LinksOn[u] # {})

RecordOk(l, o) ==
    LET u == lurl[l] IN
    /\ lpc[l] = "fetching"
    /\ o \in Outcomes(u) /\ IsOk(o)
    /\ Complete(NameOf[l], u)
    /\ AfterOutcome(l, ListingBoundary(u, o, FALSE), o = "content" /\ LinksOn[u] # {})

\* A timeout of the handler, or anything it raises, is transient as well.
RecordFailure(l, o) ==
    LET u == lurl[l]
        transient == o = "transient"
        final == AfterFailure(u, transient) = "failed"
    IN  /\ lpc[l] = "fetching"
        /\ o \in Outcomes(u) /\ ~IsOk(o)
        /\ Fail(NameOf[l], u, transient)
        /\ AfterOutcome(l, IF final THEN ListingBoundary(u, o, TRUE) ELSE 0, FALSE)

\* The lease was lost: neither the result nor anything it implies is recorded.
LostLease(l) ==
    /\ lpc[l] = "fetching"
    /\ ~HoldsLease(NameOf[l], lurl[l])
    /\ AfterOutcome(l, 0, FALSE)
    /\ UNCHANGED queueVars

(* _after_outcome: a transaction each, after the outcome has committed.    *)

Rest_KeepsTheOffer(l) ==
    /\ lpc'    = [lpc EXCEPT ![l] = "idle"]
    /\ lurl'   = [lurl EXCEPT ![l] = NoUrl]
    /\ lbound' = [lbound EXCEPT ![l] = 0]
    /\ UNCHANGED loffer

\* Back to claiming.
Rest(l) ==
    /\ lpc'    = [lpc EXCEPT ![l] = "idle"]
    /\ lurl'   = [lurl EXCEPT ![l] = NoUrl]
    /\ lbound' = [lbound EXCEPT ![l] = 0]
    /\ loffer' = [loffer EXCEPT ![l] = {}]

LoopPrune(l) ==
    /\ lpc[l] = "pruning"
    /\ PruneListing(SourceOf[lurl[l]], lcycle[l], lbound[l])
    /\ Rest(l)
    /\ UNCHANGED <<taskVars, lcycle, lattempt, procVars, envVars>>

\* eligible_links, read before the link lock is taken, and the per-page limit.
LoopOffer(l) ==
    LET eligible == {k \in LinksOn[lurl[l]] : EligibleLink(k)} IN
    /\ lpc[l] = "offering"
    /\ \E taken \in SUBSET eligible :
          /\ Cardinality(taken) = Smaller(Cardinality(eligible), LinksPerPage)
          /\ \/ taken = {} /\ Rest(l)
             \/ /\ taken # {}
                /\ lpc'    = [lpc EXCEPT ![l] = "linking"]
                /\ loffer' = [loffer EXCEPT ![l] = taken]
                /\ UNCHANGED <<lurl, lbound>>
    /\ UNCHANGED <<queueVars, taskVars, lcycle, lattempt, procVars, envVars>>

LoopLink(l) ==
    /\ lpc[l] = "linking"
    /\ EnqueueLinks(SourceOf[lurl[l]], lcycle[l], loffer[l])
    /\ Rest(l)
    /\ UNCHANGED <<taskVars, lcycle, lattempt, procVars, envVars>>

-----------------------------------------------------------------------------
(* _reap_loop: one per crew, for as long as the crew has loops.            *)

\* The loops of a process that have a reaper beside them.
Reaping(p) == {l \in Loops : /\ lpc[l] # "off"
                             /\ CrewProc[CrewOf[l]] = p
                             /\ CrewOf[l] \notin failedReaper}

Reap(p) ==
    /\ Reaping(p) # {}
    /\ ReapExpired
    /\ UNCHANGED localVars

SkipDisabledOf(p) ==
    /\ \E l \in Reaping(p) : SkipDisabled(lcycle[l])
    /\ UNCHANGED localVars

Heartbeat(p) ==
    /\ \E l \in Reaping(p) : lcycle[l] \in stale /\ stale' = stale \ {lcycle[l]}
    /\ UNCHANGED <<queueVars, taskVars, loopVars, serving, awaitedBy, failedReaper, envVars>>

-----------------------------------------------------------------------------
(* The environment.                                                        *)

\* Somebody who keeps, or is about to keep, the heartbeat of c going.  The steps
\* around the work take moments of the hour after which a cycle is stale.
Attended(c) ==
    \/ \E t \in Seeders :
          /\ tcycle[t] = c
          /\ \/ tpc[t] \in {"opened", "seeding", "ready", "closing", "finalizing"}
             \/ tpc[t] = "working" /\ LoopsOn(t) = {}
    \/ \E p \in Procs : \E l \in Reaping(p) : lcycle[l] = c

GoesStale(c) ==
    /\ "outage" \in FaultKinds
    /\ cycleStatus[c] = "running"
    /\ c \notin stale
    /\ ~Attended(c)
    /\ stale' = stale \cup {c}
    /\ UNCHANGED <<queueVars, taskVars, loopVars, serving, awaitedBy, failedReaper, envVars>>

\* These run() calls and loops are gone, and so are their connections, with the
\* locks those held; the rows they had leased stay `running`.
Gone(ts, ls) ==
    /\ held'      = [t \in Seeders |-> IF t \in ts THEN 0 ELSE held[t]]
    /\ tpc'       = [t \in Seeders |-> IF t \in ts THEN "idle" ELSE tpc[t]]
    /\ tcycle'    = [t \in Seeders |-> IF t \in ts THEN 0 ELSE tcycle[t]]
    /\ toSeed'    = [t \in Seeders |-> IF t \in ts THEN {} ELSE toSeed[t]]
    /\ relink'    = [t \in Seeders |-> IF t \in ts THEN NoSource ELSE relink[t]]
    /\ crawlLock' = IF crawlLock \in ts THEN NoTask ELSE crawlLock
    /\ lpc'      = [l \in Loops |-> IF l \in ls THEN "off" ELSE lpc[l]]
    /\ lcycle'   = [l \in Loops |-> IF l \in ls THEN 0 ELSE lcycle[l]]
    /\ lurl'     = [l \in Loops |-> IF l \in ls THEN NoUrl ELSE lurl[l]]
    /\ lattempt' = [l \in Loops |-> IF l \in ls THEN 0 ELSE lattempt[l]]
    /\ lbound'   = [l \in Loops |-> IF l \in ls THEN 0 ELSE lbound[l]]
    /\ loffer'   = [l \in Loops |-> IF l \in ls THEN {} ELSE loffer[l]]
    /\ UNCHANGED <<rowVars, enabled, cycleStatus, lastCycle, byCron, stale, inputs>>

Crash(p) ==
    /\ "crash" \in FaultKinds
    /\ faults < MaxFaults
    /\ faults' = faults + 1
    /\ \/ \E t \in TasksOf(p) : tpc[t] # "idle"
       \/ \E l \in Loops : CrewProc[CrewOf[l]] = p /\ lpc[l] # "off"
    /\ Gone(TasksOf(p), {l \in Loops : CrewProc[CrewOf[l]] = p})
    /\ serving'      = [serving EXCEPT ![p] = {}]
    /\ awaitedBy'    = [k \in Crews |-> IF CrewProc[k] = p THEN NoTask ELSE awaitedBy[k]]
    /\ failedReaper' = failedReaper \ CrewsOf(p)

\* arq cancels a job at job_timeout, and with it the crews it awaits; max_tries
\* is 1.
JobTimeout(t) ==
    /\ "timeout" \in FaultKinds
    /\ faults < MaxFaults
    /\ faults' = faults + 1
    /\ tpc[t] # "idle"
    /\ \/ tpc[t] = "working" /\ Gone({t}, LoopsOf(t)) /\ GatherEnds(t)
       \/ tpc[t] # "working" /\ Gone({t}, {}) /\ UNCHANGED <<serving, awaitedBy>>
    /\ UNCHANGED failedReaper

\* A database error in a _reap_loop ends it; nothing restarts it.
LoseReaper(p) ==
    /\ "reaper" \in FaultKinds
    /\ faults < MaxFaults
    /\ faults' = faults + 1
    /\ \E l \in Reaping(p) : failedReaper' = failedReaper \cup {CrewOf[l]}
    /\ UNCHANGED <<queueVars, taskVars, loopVars, serving, awaitedBy, stale, inputs>>

\* A database error in a _loop, at claiming or at recording its outcome: it ends,
\* and the gather of its lane raises at once and cancels the reaper; so does the
\* gather of the task, which ends without finalizing.  The other loops, of this
\* lane and of the other one, go on with nobody to await them.
LoopRaises(l) ==
    LET k == CrewOf[l] IN
    /\ "database" \in FaultKinds
    /\ faults < MaxFaults
    /\ faults' = faults + 1
    /\ lpc[l] \in {"idle", "fetching"}
    /\ lpc'      = [lpc EXCEPT ![l] = "off"]
    /\ lcycle'   = [lcycle EXCEPT ![l] = 0]
    /\ lurl'     = [lurl EXCEPT ![l] = NoUrl]
    /\ lattempt' = [lattempt EXCEPT ![l] = 0]
    /\ failedReaper' = failedReaper \cup {k}
    /\ \/ awaitedBy[k] = NoTask /\ UNCHANGED <<taskVars, serving, awaitedBy>>
       \/ awaitedBy[k] # NoTask /\ GatherEnds(awaitedBy[k]) /\ Returned(awaitedBy[k])
    /\ UNCHANGED <<queueVars, lbound, loffer, stale, inputs>>

\* An error in _after_outcome is logged and swallowed; whatever it had still to
\* prune or to queue is left undone.
SwallowError(l) ==
    /\ "bookkeeping" \in FaultKinds
    /\ faults < MaxFaults
    /\ faults' = faults + 1
    /\ lpc[l] \in {"pruning", "offering", "linking"}
    /\ Rest(l)
    /\ UNCHANGED <<queueVars, taskVars, lcycle, lattempt, procVars, inputs>>

Toggle(s, on) ==
    /\ inputs < MaxInputs
    /\ inputs' = inputs + 1
    /\ SetEnabled(s, on)
    /\ UNCHANGED <<taskVars, loopVars, procVars, faults>>

Clock == \E u \in Urls : (LeaseRunsOut(u) \/ ComesDue(u)) /\ UNCHANGED localVars

-----------------------------------------------------------------------------

TaskStep(t) ==
    \/ BeginRun(t) \/ AbandonStale(t) \/ Run(t)
    \/ RefusedLock(t) \/ LockAndStart(t) \/ Beaten(t) \/ JoinWinner(t)
    \/ BeginSeed(t) \/ SeedRefused(t) \/ SeedSource(t) \/ SeedLinks(t) \/ EndSeed(t)
    \/ Serve(t) \/ AlreadyServing(t)
    \/ Drained(t) \/ LaneRaises(t) \/ ReapLast(t) \/ Finalize(t) \/ NotFinalized(t) \/ Return(t)

LoopStep(l) ==
    \/ \E u \in Urls : LoopClaim(l, u)
    \/ LoopExit(l)
    \/ \E o \in {"content", "unchanged", "empty"} : RecordOk(l, o)
    \/ \E o \in {"transient", "permanent", "gone"} : RecordFailure(l, o)
    \/ LostLease(l)
    \/ LoopPrune(l) \/ LoopOffer(l) \/ LoopLink(l)

\* The bounds are spent and nobody has anything left to do.
Quiet ==
    /\ \A t \in Seeders : tpc[t] \in {"idle", "starting"}
    /\ RunningCycles = {}
    /\ lastCycle = MaxCycles
    /\ UNCHANGED vars

Next ==
    \/ \E t \in Seeders : TaskStep(t)
    \/ \E l \in Loops : LoopStep(l)
    \/ \E p \in Procs : Reap(p) \/ SkipDisabledOf(p) \/ Heartbeat(p)
    \/ \E p \in Procs : Crash(p) \/ LoseReaper(p)
    \/ \E t \in Seeders : JobTimeout(t)
    \/ \E l \in Loops : SwallowError(l) \/ LoopRaises(l)
    \/ \E c \in Known : GoesStale(c)
    \/ \E s \in Sources, on \in BOOLEAN : Toggle(s, on)
    \/ Clock
    \/ Quiet

Spec == Init /\ [][Next]_vars

\* What keeps running: the cron fires and a started run() goes on, a loop that
\* can do something does it, the reapers turn, and time passes.  Syncs, toggles
\* and faults need not happen.
Fairness ==
    /\ \A t \in Seeders : WF_vars((t \in Scheduled \/ tpc[t] # "idle") /\ TaskStep(t))
    /\ \A l \in Loops   : WF_vars(LoopStep(l))
    /\ \A p \in Procs   : WF_vars(Reap(p)) /\ WF_vars(SkipDisabledOf(p))
    /\ \A u \in Urls    : /\ WF_vars(LeaseRunsOut(u) /\ UNCHANGED localVars)
                          /\ WF_vars(ComesDue(u) /\ UNCHANGED localVars)

FairSpec == Spec /\ Fairness

-----------------------------------------------------------------------------
(* Properties                                                              *)

TaskTypeOK ==
    /\ tpc \in [Seeders -> {"idle", "abandoning", "choosing", "starting", "beaten", "opened",
                            "seeding", "ready", "working", "closing", "finalizing", "waiting"}]
    /\ tcycle    \in [Seeders -> 0 .. MaxCycles]
    /\ toSeed    \in [Seeders -> SUBSET Sources]
    /\ relink    \in [Seeders -> Sources \cup {NoSource}]
    /\ crawlLock \in Seeders \cup {NoTask}
    /\ byCron    \in SUBSET Cycles

LoopTypeOK ==
    /\ lpc \in [Loops -> {"off", "idle", "fetching", "pruning", "offering", "linking"}]
    /\ lcycle    \in [Loops -> 0 .. MaxCycles]
    /\ lurl      \in [Loops -> Urls \cup {NoUrl}]
    /\ lattempt  \in [Loops -> Nat]
    /\ lbound    \in [Loops -> Nat]
    /\ loffer    \in [Loops -> SUBSET Urls]
    /\ \A l \in Loops : /\ lpc[l] = "off" <=> lcycle[l] = 0
                        /\ lpc[l] \in {"off", "idle"} <=> lurl[l] = NoUrl
                        /\ lpc[l] = "linking" <=> loffer[l] # {}
                        /\ lpc[l] = "pruning" <=> lbound[l] # 0

ProcTypeOK ==
    /\ serving      \in [Procs -> SUBSET Cycles]
    /\ awaitedBy    \in [Crews -> Seeders \cup {NoTask}]
    /\ failedReaper \in SUBSET Crews
    /\ stale        \in SUBSET Cycles
    /\ faults \in Nat /\ inputs \in Nat

\* Every variable of the processes holds a value of its type, and a loop keeps
\* its claim and its offer exactly as long as the step it is at needs them.
CycleTypeOK == TaskTypeOK /\ LoopTypeOK /\ ProcTypeOK

\* No two loops that are on have the same name.
NoNamesakes ==
    \A l, k \in Loops : lpc[l] # "off" /\ lpc[k] # "off" /\ NameOf[l] = NameOf[k] => l = k

\* What a loop records is the outcome of the claim it holds, never of an earlier
\* one: at the moment a URL leaves `running` by a loop's hand, its attempt and
\* its cycle are those the loop claimed.  (The lease may have run out meanwhile,
\* the URL been reaped, claimed again elsewhere, and reaped again.)  It is so as
\* long as there are NoNamesakes: leased_by is a name, and a loop whose URL was
\* reaped and claimed again by its namesake passes for that one.
OutcomeOfItsClaim ==
    [][\A l \in Loops :
          LET u == lurl[l] IN
          /\ lpc[l] = "fetching" /\ lpc'[l] \notin {"fetching", "off"}
          /\ status[u] = "running" /\ status'[u] # "running"
          => attempt[u] = lattempt[l] /\ cycleId[u] = lcycle[l]]_vars

\* ARCHITECTURE: "a cycle is never finalized while any URL is still queued,
\* running or waiting to retry" - so no such URL is ever in a cycle that is over.
\* Links enter a cycle without holding it open, after their page's own result has
\* been recorded; what protects them is that a run() finalizes only when the loops
\* it awaits have returned.  Loops that nobody awaits, or another run() does, have
\* no such protection.
QuietWhenClosed ==
    \A u \in Urls : status[u] \in Active => cycleStatus[cycleId[u]] = "running"

\* A lane is worked until nothing in it is left to do: while a run() awaits loops
\* that work a running cycle, a lane with waiting URLs has one of them.
LaneWorkedUntilDone ==
    \A t \in Seeders : \A u \in Urls :
        /\ LoopsOn(t) # {}
        /\ cycleStatus[tcycle[t]] = "running"
        /\ cycleId[u] = tcycle[t] /\ status[u] \in Waiting
        => \E l \in LoopsOn(t) : LaneOfLoop(l) = LaneOf(u)

\* Links found for the first time never exceed CRAWL_LINK_MAX_PAGES per source
\* and cycle, although each worker read what is eligible before taking the lock.
DiscoveryBounded ==
    \A s \in Sources, c \in Cycles : Cardinality(DiscoveredIn(s, c)) <= LinkMaxPages

\* Every cycle is eventually closed, whatever crashes: by the process that serves
\* it, by one that joins it on a later tick, or as abandoned.
CyclesClose == \A c \in Cycles : cycleStatus[c] = "running" ~> cycleStatus[c] # "running"

\* A page a Sync or a tick queued is eventually looked at or skipped, in its own
\* cycle or, if that was abandoned, as failed.
QueuedPagesResolve ==
    \A u \in Urls : status[u] \in Active ~> status[u] \in Finished
=============================================================================
