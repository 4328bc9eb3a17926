----------------------------- MODULE CrawlQueue -----------------------------
(***************************************************************************)
(* The crawl queue of services/intel/intel/crawl/queue.py: the tables      *)
(* crawl_urls and crawl_cycles, and every statement that moves a row       *)
(* between states.  One action is one transaction (or one autocommitted    *)
(* statement) of the code.  The specification at the end is that of the    *)
(* most general client: any worker, seeder, reaper or finalizer may issue  *)
(* any statement at any moment, so what holds here holds whatever the      *)
(* processes above the queue do.  CrawlCycle.tla adds those processes.     *)
(*                                                                         *)
(* Time is abstracted to two facts per row: whether next_crawl_at has      *)
(* passed (due) and whether leased_until has not (leased).  A statement    *)
(* sets them, and the clock, an action of its own, changes them at any     *)
(* moment afterwards.                                                      *)
(*                                                                         *)
(* A definition whose name ends in _ and a phrase is a mutant: the         *)
(* definition after it with a mistake somebody could have made in the      *)
(* code.  No action uses one; PROJECT.json says which property each one    *)
(* breaks when it takes the place of the original.                         *)
(***************************************************************************)
EXTENDS Naturals, FiniteSets

CONSTANTS
    Sources,         \* rows of the sources table
    Browser,         \* the sources whose collector is 'browser'
    Urls,            \* the URLs the sites have; one row of crawl_urls each
    SourceOf,        \* [Urls -> Sources]
    PageNo,          \* [Urls -> Nat]: n for listing page n, 0 for a link
    Workers,         \* the identities leased_by can hold
    NoWorker,        \* leased_by is null
    Seeders,         \* the run() calls that may hold a cycle open
    MaxCycles,       \* bound: crawl cycles ever started
    MaxAttempts,     \* CRAWL_MAX_ATTEMPTS
    LaneLimit,       \* [Lanes -> Nat]: CRAWL_WORKERS, CRAWL_BROWSER_WORKERS
    SourceLimit,     \* CRAWL_PER_SOURCE_INFLIGHT
    LinkMaxPages,    \* CRAWL_LINK_MAX_PAGES
    RecrawlMaxPages, \* CRAWL_LINK_RECRAWL_MAX_PAGES
    Page1First       \* CRAWL_PAGE1_FIRST

Lanes  == {"http", "browser"}
Cycles == 1 .. MaxCycles

ASSUME QueueAssumption ==
    /\ IsFiniteSet(Urls)
    /\ Browser \subseteq Sources
    /\ SourceOf \in [Urls -> Sources]
    /\ PageNo \in [Urls -> Nat]
    /\ NoWorker \notin Workers
    /\ MaxCycles \in Nat
    /\ MaxAttempts \in Nat \ {0}
    /\ LaneLimit \in [Lanes -> Nat]
    /\ SourceLimit \in Nat \ {0}
    /\ LinkMaxPages \in Nat
    /\ RecrawlMaxPages \in Nat
    /\ Page1First \in BOOLEAN

VARIABLES
    status,       \* crawl_urls.status, "absent" while there is no row
    cycleId,      \* crawl_urls.cycle_id, 0 for null
    attempt,      \* crawl_urls.attempt
    leasedBy,     \* crawl_urls.leased_by
    leased,       \* leased_until is set and lies in the future
    due,          \* next_crawl_at has passed
    foundIn,      \* the latest cycle started when the row was inserted: its
                  \* discovered_at is >= started_at of cycle c iff foundIn >= c
    enabled,      \* the sources whose enabled flag is set
    cycleStatus,  \* crawl_cycles.status; "unborn" before the insert,
                  \* "discarded" after an empty scheduled cycle's delete
    lastCycle,    \* the id sequence of crawl_cycles
    held          \* the cycle whose row a seeder holds FOR SHARE, or 0

rowVars   == <<status, cycleId, attempt, leasedBy, leased, due, foundIn>>
cycleVars == <<cycleStatus, lastCycle, held>>
queueVars == <<status, cycleId, attempt, leasedBy, leased, due, foundIn,
               enabled, cycleStatus, lastCycle, held>>

-----------------------------------------------------------------------------
(* Statuses and what a row is.                                             *)

Finished == {"succeeded", "failed", "skipped"}
Waiting  == {"queued", "retry"}
Active   == Waiting \cup {"running"}
Statuses == {"absent"} \cup Active \cup Finished
Verdicts == {"completed", "failed"}
Closed   == Verdicts \cup {"abandoned", "discarded"}

IsLink(u)  == PageNo[u] = 0
PageOne(u) == PageNo[u] = 1
LaneOf(u)  == IF SourceOf[u] \in Browser THEN "browser" ELSE "http"
UrlsOf(s)  == {u \in Urls : SourceOf[u] = s}
RowsOf(c)  == {u \in Urls : cycleId[u] = c /\ status[u] # "absent"}

ActiveCount0_ForgetsRetry(c) ==
    \A u \in Urls : cycleId[u] = c => status[u] \notin {"queued", "running"}

ActiveCount0(c) == \A u \in Urls : cycleId[u] = c => status[u] \notin Active

QueueInit ==
    /\ status      = [u \in Urls |-> "absent"]
    /\ cycleId     = [u \in Urls |-> 0]
    /\ attempt     = [u \in Urls |-> 0]
    /\ leasedBy    = [u \in Urls |-> NoWorker]
    /\ leased      = [u \in Urls |-> FALSE]
    /\ due         = [u \in Urls |-> FALSE]
    /\ foundIn     = [u \in Urls |-> 0]
    /\ enabled     = Sources
    /\ cycleStatus = [c \in Cycles |-> "unborn"]
    /\ lastCycle   = 0
    /\ held        = [t \in Seeders |-> 0]

-----------------------------------------------------------------------------
(* Cycles.  The partial unique index crawl_cycles_one_running refuses a    *)
(* second running cycle.                                                   *)

RunningCycles == {c \in Cycles : cycleStatus[c] = "running"}

StartCycle(c) ==
    /\ RunningCycles = {}
    /\ c = lastCycle + 1
    /\ c \in Cycles
    /\ lastCycle'   = c
    /\ cycleStatus' = [cycleStatus EXCEPT ![c] = "running"]
    /\ UNCHANGED <<rowVars, enabled, held>>

\* hold_cycle_open: SELECT ... WHERE status = 'running' FOR SHARE, until the
\* seeder's transaction ends.
HoldCycleOpen(t, c) ==
    /\ held[t] = 0
    /\ cycleStatus[c] = "running"
    /\ held' = [held EXCEPT ![t] = c]
    /\ UNCHANGED <<rowVars, enabled, cycleStatus, lastCycle>>

\* The transactions of these seeders end, with the block or with the connection.
ReleaseHolds(ts) ==
    /\ \E t \in ts : held[t] # 0
    /\ held' = [t \in Seeders |-> IF t \in ts THEN 0 ELSE held[t]]
    /\ UNCHANGED <<rowVars, enabled, cycleStatus, lastCycle>>

HeldOpen(c) == \E t \in Seeders : held[t] = c

-----------------------------------------------------------------------------
(* _ENQUEUE_SQL: offer a batch to the queue.  A new URL is inserted; a     *)
(* finished one that is due (or forced) is scheduled afresh; a waiting one *)
(* is adopted by the cycle; anything else is left alone.                   *)

Fresh(u) == status[u] = "absent"

Reschedule(u, force) == status[u] \in Finished /\ (due[u] \/ force)

Adoptable_EvenIfRunning(u) == status[u] \in Active
Adoptable(u) == status[u] \in Waiting

EnqueueRows(c, batch, force) ==
    LET inserted  == {u \in batch : Fresh(u)}
        scheduled == {u \in batch : Fresh(u) \/ Reschedule(u, force)}
        taken     == {u \in batch : u \in scheduled \/ Adoptable(u)}
    IN  /\ status'  = [u \in Urls |-> IF u \in scheduled THEN "queued" ELSE status[u]]
        /\ attempt' = [u \in Urls |-> IF u \in scheduled THEN 0 ELSE attempt[u]]
        /\ due'     = [u \in Urls |-> IF u \in scheduled THEN TRUE ELSE due[u]]
        /\ cycleId' = [u \in Urls |-> IF u \in taken THEN c ELSE cycleId[u]]
        /\ foundIn' = [u \in Urls |-> IF u \in inserted THEN lastCycle ELSE foundIn[u]]
        /\ UNCHANGED <<leasedBy, leased>>

\* seed_source: the listing pages 1..n of one source, offered to the cycle the
\* seeder holds open.  Which n a seeder chooses is CrawlCycle's PagesToSeed; here
\* it is any n the site can have.
SeedListing(t, s, n, force) ==
    /\ held[t] # 0
    /\ EnqueueRows(held[t], {u \in UrlsOf(s) : PageNo[u] \in 1 .. n}, force)
    /\ UNCHANGED <<enabled, cycleVars>>

-----------------------------------------------------------------------------
(* _CLAIM_SQL, under the claim lock: count the live leases, then take one  *)
(* eligible row.  Its ORDER BY is a preference that SKIP LOCKED makes best *)
(* effort, so any eligible row may be the one taken.                       *)

LiveInLane(lane) == {u \in Urls : status[u] = "running" /\ leased[u] /\ LaneOf(u) = lane}
LiveOfSource(s)  == {u \in Urls : status[u] = "running" /\ leased[u] /\ SourceOf[u] = s}

HeldByPage1(u) ==
    /\ Page1First
    /\ PageNo[u] > 1
    /\ \E p \in Urls : /\ SourceOf[p] = SourceOf[u]
                       /\ cycleId[p] = cycleId[u]
                       /\ PageOne(p)
                       /\ status[p] \in Active

Claimable_NoLaneLimit(u, c) ==
    /\ status[u] \in Waiting /\ due[u] /\ SourceOf[u] \in enabled /\ cycleId[u] = c
    /\ Cardinality(LiveOfSource(SourceOf[u])) < SourceLimit
    /\ ~HeldByPage1(u)

Claimable(u, c) ==
    /\ status[u] \in Waiting
    /\ due[u]
    /\ SourceOf[u] \in enabled
    /\ cycleId[u] = c
    /\ Cardinality(LiveInLane(LaneOf(u))) < LaneLimit[LaneOf(u)]
    /\ Cardinality(LiveOfSource(SourceOf[u])) < SourceLimit
    /\ ~HeldByPage1(u)

Claim(w, u, c) ==
    /\ Claimable(u, c)
    /\ status'   = [status EXCEPT ![u] = "running"]
    /\ attempt'  = [attempt EXCEPT ![u] = @ + 1]
    /\ leasedBy' = [leasedBy EXCEPT ![u] = w]
    /\ leased'   = [leased EXCEPT ![u] = TRUE]
    /\ UNCHANGED <<cycleId, due, foundIn, enabled, cycleVars>>

-----------------------------------------------------------------------------
(* Outcomes.  Both are guarded by leased_by, so a worker whose URL was     *)
(* taken from it and claimed elsewhere records nothing.                    *)

HoldsLease_Anybodys(w, u) == status[u] = "running"
HoldsLease(w, u) == leasedBy[u] = w /\ status[u] = "running"

Settle(u, st) ==
    /\ status'   = [status EXCEPT ![u] = st]
    /\ due'      = [due EXCEPT ![u] = FALSE]
    /\ leasedBy' = [leasedBy EXCEPT ![u] = NoWorker]
    /\ leased'   = [leased EXCEPT ![u] = FALSE]
    /\ UNCHANGED <<cycleId, attempt, foundIn, enabled, cycleVars>>

Complete(w, u) ==
    /\ HoldsLease(w, u)
    /\ Settle(u, "succeeded")

AfterFailure_OneTooMany(u, transient) ==
    IF transient /\ attempt[u] <= MaxAttempts THEN "retry" ELSE "failed"

AfterFailure(u, transient) ==
    IF transient /\ attempt[u] < MaxAttempts THEN "retry" ELSE "failed"

Fail(w, u, transient) ==
    /\ HoldsLease(w, u)
    /\ Settle(u, AfterFailure(u, transient))

\* reap_expired: one statement over every row whose lease has run out.
Expired(u) == status[u] = "running" /\ ~leased[u]

ReapExpired ==
    /\ \E u \in Urls : Expired(u)
    /\ status'   = [u \in Urls |-> IF Expired(u) THEN AfterFailure(u, TRUE) ELSE status[u]]
    /\ due'      = [u \in Urls |-> IF Expired(u) THEN FALSE ELSE due[u]]
    /\ leasedBy' = [u \in Urls |-> IF Expired(u) THEN NoWorker ELSE leasedBy[u]]
    /\ UNCHANGED <<cycleId, attempt, leased, foundIn, enabled, cycleVars>>

-----------------------------------------------------------------------------
(* Skipping: pages past the end of a listing, and the waiting rows of a    *)
(* source that was disabled after the cycle was seeded.                    *)

SkipRows(rows) ==
    /\ status' = [u \in Urls |-> IF u \in rows THEN "skipped" ELSE status[u]]
    /\ due'    = [u \in Urls |-> IF u \in rows THEN FALSE ELSE due[u]]
    /\ UNCHANGED <<cycleId, attempt, leasedBy, leased, foundIn, enabled, cycleVars>>

BehindPage(s, c, after) ==
    {u \in UrlsOf(s) : cycleId[u] = c /\ PageNo[u] > after /\ status[u] \in Waiting}

PruneListing(s, c, after) == SkipRows(BehindPage(s, c, after))

OfDisabled_ForgetsRetry(c) ==
    {u \in Urls : SourceOf[u] \notin enabled /\ cycleId[u] = c /\ status[u] = "queued"}

OfDisabled(c) ==
    {u \in Urls : SourceOf[u] \notin enabled /\ cycleId[u] = c /\ status[u] \in Waiting}

SkipDisabled(c) ==
    /\ OfDisabled(c) # {}
    /\ SkipRows(OfDisabled(c))

-----------------------------------------------------------------------------
(* Links.  Both statements run under the per-source link lock, so each is  *)
(* one action; eligible_links is read earlier, outside it.                 *)

EligibleLink(u) == IsLink(u) /\ (Fresh(u) \/ Reschedule(u, FALSE))

LinksOf(s, c)      == {u \in UrlsOf(s) : IsLink(u) /\ cycleId[u] = c /\ status[u] # "absent"}
DiscoveredIn(s, c) == {u \in LinksOf(s, c) : foundIn[u] >= c}
AdoptedIn(s, c)    == {u \in LinksOf(s, c) : foundIn[u] < c}

Room(limit, used) == IF limit > used THEN limit - used ELSE 0
Smaller(m, n)     == IF m < n THEN m ELSE n

EnqueueLinks_ForgetsWhatIsSpent(s, c, offered) ==
    /\ offered \subseteq {u \in UrlsOf(s) : IsLink(u)}
    /\ \E kept \in SUBSET offered :
          /\ Cardinality(kept) = Smaller(Cardinality(offered), LinkMaxPages)
          /\ EnqueueRows(c, kept, FALSE)
    /\ UNCHANGED <<enabled, cycleVars>>

\* The second half of enqueue_links: count what the cycle has spent, keep as
\* many of the offered links as there is room for, and queue them.
EnqueueLinks(s, c, offered) ==
    /\ offered \subseteq {u \in UrlsOf(s) : IsLink(u)}
    /\ \E kept \in SUBSET offered :
          /\ Cardinality(kept) = Smaller(Cardinality(offered),
                                         Room(LinkMaxPages, Cardinality(DiscoveredIn(s, c))))
          /\ EnqueueRows(c, kept, FALSE)
    /\ UNCHANGED <<enabled, cycleVars>>

\* requeue_due_links: due links of the source, oldest first (any, here), up to
\* the cycle's recrawl budget; those out of the source's scope are skipped.
DueLinks(s) == {u \in UrlsOf(s) : IsLink(u) /\ Reschedule(u, FALSE)}

RequeueRows(c, ok, outOfScope) ==
    /\ status'   = [u \in Urls |-> IF u \in ok THEN "queued"
                                   ELSE IF u \in outOfScope THEN "skipped"
                                   ELSE status[u]]
    /\ due'      = [u \in Urls |-> IF u \in outOfScope THEN FALSE ELSE due[u]]
    /\ cycleId'  = [u \in Urls |-> IF u \in ok THEN c ELSE cycleId[u]]
    /\ attempt'  = [u \in Urls |-> IF u \in ok THEN 0 ELSE attempt[u]]
    /\ leasedBy' = [u \in Urls |-> IF u \in ok THEN NoWorker ELSE leasedBy[u]]
    /\ leased'   = [u \in Urls |-> IF u \in ok THEN FALSE ELSE leased[u]]
    /\ UNCHANGED foundIn

RequeueDueLinks(t, s) ==
    /\ held[t] # 0
    /\ LET c == held[t] IN
       \E taken \in SUBSET DueLinks(s) :
          /\ Cardinality(taken) = Smaller(Cardinality(DueLinks(s)),
                                          Room(RecrawlMaxPages, Cardinality(AdoptedIn(s, c))))
          /\ \E outOfScope \in SUBSET taken : RequeueRows(c, taken \ outOfScope, outOfScope)
    /\ UNCHANGED <<enabled, cycleVars>>

-----------------------------------------------------------------------------
(* Closing a cycle, under the cycle row's lock (FOR UPDATE), which waits   *)
(* for every seeder holding it FOR SHARE.                                  *)

SourcesIn(c) == {SourceOf[u] : u \in RowsOf(c)}

\* judge_source: a source fails exactly when its page 1 did not succeed.
SourceFailed(c, s) ==
    \E p \in RowsOf(c) : SourceOf[p] = s /\ PageOne(p) /\ status[p] \in {"failed", "skipped"}

\* CycleSummary.status
Verdict(c) ==
    IF \/ SourcesIn(c) # {} /\ \A s \in SourcesIn(c) : SourceFailed(c, s)
       \/ /\ \E u \in RowsOf(c) : status[u] = "failed"
          /\ \A u \in RowsOf(c) : status[u] # "succeeded"
    THEN "failed"
    ELSE "completed"

\* Nothing active is left; an empty scheduled cycle is deleted.
FinalizeCycle(c, scheduled) ==
    /\ cycleStatus[c] = "running"
    /\ ~HeldOpen(c)
    /\ ActiveCount0(c)
    /\ cycleStatus' = [cycleStatus EXCEPT ![c] =
                          IF RowsOf(c) = {} /\ scheduled THEN "discarded" ELSE Verdict(c)]
    /\ UNCHANGED <<rowVars, enabled, lastCycle, held>>

\* finalize_cycle(abandon=True): whatever is active fails and is due at once.
AbandonCycle(c) ==
    /\ cycleStatus[c] = "running"
    /\ ~HeldOpen(c)
    /\ LET left == {u \in Urls : cycleId[u] = c /\ status[u] \in Active} IN
       /\ status'   = [u \in Urls |-> IF u \in left THEN "failed" ELSE status[u]]
       /\ due'      = [u \in Urls |-> IF u \in left THEN TRUE ELSE due[u]]
       /\ leasedBy' = [u \in Urls |-> IF u \in left THEN NoWorker ELSE leasedBy[u]]
       /\ leased'   = [u \in Urls |-> IF u \in left THEN FALSE ELSE leased[u]]
    /\ cycleStatus' = [cycleStatus EXCEPT ![c] = "abandoned"]
    /\ UNCHANGED <<cycleId, attempt, foundIn, enabled, lastCycle, held>>

-----------------------------------------------------------------------------
(* The environment: the clock, and the operator's enabled switch.          *)

LeaseRunsOut(u) ==
    /\ status[u] = "running"
    /\ leased[u]
    /\ leased' = [leased EXCEPT ![u] = FALSE]
    /\ UNCHANGED <<status, cycleId, attempt, leasedBy, due, foundIn, enabled, cycleVars>>

ComesDue(u) ==
    /\ status[u] # "absent"
    /\ ~due[u]
    /\ due' = [due EXCEPT ![u] = TRUE]
    /\ UNCHANGED <<status, cycleId, attempt, leasedBy, leased, foundIn, enabled, cycleVars>>

SetEnabled(s, on) ==
    /\ enabled' = IF on THEN enabled \cup {s} ELSE enabled \ {s}
    /\ enabled' # enabled
    /\ UNCHANGED <<rowVars, cycleVars>>

-----------------------------------------------------------------------------
(* The most general client.                                                *)

PagesOf(s) == {PageNo[u] : u \in UrlsOf(s)} \ {0}

\* What listing_boundary can conclude: page 1 failed, or the page before is the last.
Boundaries(s) == {1} \cup {n - 1 : n \in PagesOf(s) \ {1}}

Known      == 1 .. lastCycle

QueueNext ==
    \/ \E c \in Cycles : StartCycle(c)
    \/ \E t \in Seeders, c \in Known : HoldCycleOpen(t, c)
    \/ \E ts \in SUBSET Seeders : ReleaseHolds(ts)
    \/ \E t \in Seeders, s \in Sources : \E n \in PagesOf(s), force \in BOOLEAN :
          SeedListing(t, s, n, force)
    \/ \E t \in Seeders, s \in Sources : RequeueDueLinks(t, s)
    \/ \E w \in Workers, u \in Urls, c \in Known : Claim(w, u, c)
    \/ \E w \in Workers, u \in Urls : Complete(w, u)
    \/ \E w \in Workers, u \in Urls, transient \in BOOLEAN : Fail(w, u, transient)
    \/ \E s \in Sources, c \in Known : \E after \in Boundaries(s) : PruneListing(s, c, after)
    \/ \E s \in Sources, c \in Known : \E offered \in SUBSET {u \in UrlsOf(s) : IsLink(u)} :
          EnqueueLinks(s, c, offered)
    \/ \E c \in Known : SkipDisabled(c)
    \/ ReapExpired
    \/ \E c \in Known, scheduled \in BOOLEAN : FinalizeCycle(c, scheduled)
    \/ \E c \in Known : AbandonCycle(c)
    \/ \E u \in Urls : LeaseRunsOut(u)
    \/ \E u \in Urls : ComesDue(u)
    \/ \E s \in Sources, on \in BOOLEAN : SetEnabled(s, on)

QueueSpec == QueueInit /\ [][QueueNext]_queueVars

-----------------------------------------------------------------------------
(* Properties                                                              *)

\* Every column holds a value of its type.
QueueTypeOK ==
    /\ status      \in [Urls -> Statuses]
    /\ cycleId     \in [Urls -> 0 .. MaxCycles]
    /\ attempt     \in [Urls -> Nat]
    /\ leasedBy    \in [Urls -> Workers \cup {NoWorker}]
    /\ leased      \in [Urls -> BOOLEAN]
    /\ due         \in [Urls -> BOOLEAN]
    /\ foundIn     \in [Urls -> 0 .. MaxCycles]
    /\ enabled     \in SUBSET Sources
    /\ cycleStatus \in [Cycles -> {"unborn", "running"} \cup Closed]
    /\ lastCycle   \in 0 .. MaxCycles
    /\ held        \in [Seeders -> 0 .. MaxCycles]

\* A URL that keeps killing its worker is eventually failed rather than retried
\* forever (reap_expired): the attempts of dead, failed and abandoned workers
\* all count, and no path - adoption by another cycle, the reaper, a forced
\* Sync - gives a URL more than MaxAttempts claims between two schedulings.
AttemptsBounded == \A u \in Urls : attempt[u] <= MaxAttempts

\* The system-wide and per-source limits claim enforces hold of the live leases
\* at every moment, whatever the reaper, Syncs, disabled sources and abandoned
\* cycles do between two claims.
LimitsHold ==
    /\ \A lane \in Lanes : Cardinality(LiveInLane(lane)) <= LaneLimit[lane]
    /\ \A s \in Sources  : Cardinality(LiveOfSource(s)) <= SourceLimit

\* A listing page is never left queued, running or waiting to retry in a cycle
\* that is not running - where no worker would claim it and no later cycle would
\* finish it.  This is what hold_cycle_open and the row lock of finalize_cycle
\* buy together; links, which enter without the hold, are another matter (see
\* CrawlCycle).
ListingInOpenCycle ==
    \A u \in Urls : ~IsLink(u) /\ status[u] \in Active => cycleStatus[cycleId[u]] = "running"

\* While a worker holds a live lease, its row is its own: no adoption by another
\* cycle, forced Sync, reaper, prune or skip re-queues it, moves it to another
\* cycle or gives it to somebody else.  Only its outcome, or the cycle being
\* abandoned as a whole, takes it out of `running`, and neither changes which
\* attempt of which cycle it was.
LiveLeaseIsExclusive ==
    [][\A u \in Urls :
          status[u] = "running" /\ leased[u] =>
             /\ cycleId'[u] = cycleId[u]
             /\ attempt'[u] = attempt[u]
             /\ status'[u] = "running" => leasedBy'[u] = leasedBy[u]
             /\ status'[u] \in {"running", "succeeded", "failed", "retry"}]_queueVars
=============================================================================
