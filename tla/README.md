# Verification of leak-monitoring

TLA+ specifications of the program in `src/`, the TLC configurations that check
them on small instances, and proofs for the TLA+ proof system of what holds for
every instance. Paths below are relative to `src/`; `intel/` is short for
`services/intel/intel/`.

Contents: [1 the system](#1-the-system) · [2 modules](#2-modules) ·
[3 the model and the code](#3-the-model-and-the-code) · [4 runs](#4-runs) ·
[5 what disagrees with the documentation](#5-what-disagrees-with-the-documentation) ·
[6 proofs](#6-proofs) · [7 what is not modelled](#7-what-is-not-modelled) ·
[8 plan](#8-plan)

## 1 The system

The program watches leak sites, most of them onion services. Python workers
(`services/intel`) crawl the sites and store what they announce; a Fastify API
(`apps/api`) and a React client (`apps/web`) show it; everything meets in one
PostgreSQL database (`packages/db/src/schema`). There is no other channel
between the parts: the API asks for a crawl by inserting a row, and the workers
find it there. Workers are arq processes, several of which may run; each runs
cron jobs as asyncio tasks, so the code is concurrent in two ways, between the
tasks of a process and between processes.

| Component | Code | State | Operations | What makes it correct |
|---|---|---|---|---|
| Crawl queue | `intel/crawl/queue.py`, `schema/crawls.ts` | `crawl_urls` (status, cycle, attempt, lease, next due time), `crawl_cycles`, advisory locks | start a cycle, hold it open, enqueue, claim, complete, fail, prune, skip, enqueue links, requeue due links, reap, finalize, abandon | one owner per live lease; limits on live leases; bounded attempts; nothing left active in a closed cycle |
| Cycle manager | `intel/crawl/manager.py` | `_SERVING` of the process; the progress of each `run()` | start or join a cycle, seed it, serve it, finalize it, wait for it | every cycle is closed; what a request asks for is queued |
| Claim loops | `intel/crawl/worker.py` | per loop: the URL, the attempt, what is left to do after its outcome; per lane: the reaper | claim, fetch, record, prune, discover links; reap and keep the heartbeat | what is recorded belongs to the claim it was fetched under; a lane is worked until it is done |
| Cycle report | `intel/crawl/report.py` | none | judge a source, judge a cycle | the verdict follows from the rows |
| Frontier, seeding | `intel/crawl/frontier.py`, `seeding.py` | none (reads the observed depth) | which pages to queue, where a listing ends, which links are in scope | no page of a listing is out of reach for good |
| Fetch of one URL | `intel/crawl/fetch.py` | `crawl_urls.content_sha256` | fetch, compare, ingest, classify the outcome | the hash stands for content that has been stored |
| Page ingestion | `intel/pipeline.py`, `storage.py` | `raw_pages`, `leaks`, `exposures` | save a page, extract, upsert or enrich, mark extracted, record exposures | what a page announces is stored before anything says that it need not be looked at again |
| Leak store | `intel/storage.py` | `leaks`, incidents | upsert, enrich, merge | merges keep the better value and lose no sighting |
| Sync requests and jobs | `intel/tasks.py`, `storage.py`, `apps/api/src/routes/crawl.ts` | `crawl_requests`, the crawl lock | request, claim, answer, requeue, expire | one request open at a time; each is answered once, with its own outcome |
| Legacy crawler | `intel/pipeline.py`, `scheduling.py` | `crawl_runs`, the crawl lock | crawl source by source in waves | never alongside a cycle |
| Hunts | `intel/hunt.py`, `tasks.py`, `storage.py`, `apps/api/src/routes/search.ts`, `apps/web/src/features/search` | `hunt_jobs`, `hunt_findings`; the tab's cached results and the hunt it shows | offer, request, claim, look up, finish, expire, poll | a hunt is worked on by one tick and ends; what a page shows under a company is that company's, whole, and stops spinning |
| Watchlist | `intel/storage.py`, `apps/api/src/routes/watchlist.ts` | entries and their watermarks, matches | add, remove, match what is new, acknowledge, reset | nothing that arrives is missed, and nothing read is new again |
| Mirrors | `intel/storage.py`, `probe.py`, `pipeline.py` | `source_mirrors` | record, confirm, reject, fail over | a rejected address does not come back |
| Feeds, enrichment, extraction, collectors | `intel/feeds`, `enrich`, `extract`, `collectors` | none of their own | download, look up, parse | the mapping of formats |
| API read routes | `apps/api/src/routes` (leaks, incidents, stats, iocs, exposures, mobile, stream) | none of their own | lists with filters and pages, facets, charts, the live map, the event stream | the figures agree with the lists and with each other |
| Web application | `apps/web/src` | per tab: the filters, the query cache, the fetches that are out, the event stream | filter, page, search, poll, follow the stream | rows answer the question above them; what is announced is shown; nothing goes back in time |
| Command line | `intel/cli.py` | none of its own | crawl, enable and disable sources, reset the watchlist | as the tables it writes |

How the core interacts. `tasks.py` runs `CycleManager.run` from a cron tick
(`crawl_due`) and for each Sync request (`drain_crawl_requests`). A `run()`
abandons a cycle whose heartbeat has stopped, joins the running cycle or starts
one, seeds it (only if it started it, or is a Sync), and then *serves* it: it
starts the claim loops of the two lanes (http and browser) and a reaper task per
lane, unless a task of the same process serves that cycle already. Each loop
claims a URL, fetches it, records the outcome, and only then prunes the listing
behind the last page or queues the links the page showed. When all loops of the
process have seen `active_count = 0` the task reaps once more and tries to
finalize. Every one of these steps is a transaction of its own. If a loop or a reaper
raises, so does the task's `gather`, and the loops that are left go on without the task.

The parts around the core meet in tables as well. A company search asks the API,
which offers a hunt that is recent, hands out one in flight or inserts one; ticks of
another cron claim hunts and look the company up; the page polls. The matcher of the
watchlist runs every minute over what others insert. The dashboard's lists are read
page by page while the collectors write; a trigger announces each inserted leak to
the streams that are open, and the tabs refetch.

The behaviours that are hard, and hardly tested, are listed line by line in
`PROJECT.json` under `hazards`: leases that expire while their holder still
works; a Sync that meets a cycle as it closes; links that are queued after their
page has been counted as done; two lanes that finish at different times;
processes that die anywhere; reapers that die quietly; loops that outlive the task that
started them; budgets read before the
lock that protects them; watermarks set from a clock that was read before others
committed; pages that count as handled after half of the work; rows that another source
wrote first; answers that arrive after the question has changed; clocks that change.

## 2 Modules

| Module | Contents |
|---|---|
| `CrawlQueue` | The tables and every statement that moves a row. Its `QueueSpec` is the *most general client*: any worker, seeder, reaper or finalizer issues any statement at any moment. It is the abstract specification of the engine. |
| `CrawlCycle` | The processes: `run()` calls, claim loops, reapers, crashes. It EXTENDS `CrawlQueue` and drives its actions; `Spec => QueueSpec` is checked (run `cycle_two`) and proved (`ImplementsQueue`). |
| `SyncRequests` | The requests behind the Sync button, from the API's insert to the answer; the arq jobs of both engines that drain them or sweep; the crawl lock. |
| `RequestLife` | What the table of requests promises whoever polls it: the abstract specification of `SyncRequests` (run `requests`, theorem `ImplementsRequestLife`). |
| `Ingest` | What becomes of a fetched page: the hashes, `raw_pages`, leaks, details and exposures of one source, and the workers between them. |
| `HuntJobs` | `hunt_jobs` and `hunt_findings`: the API's handlers, the ticks that work the queue, the clock. |
| `HuntLife` | What these tables promise a page that polls: the abstract specification of `HuntJobs` (run `hunts`, theorem `HuntsLive`). |
| `SearchPage` | A tab on the company search. It EXTENDS `HuntLife` and sees hunts as that describes them, not as `HuntJobs` makes them; that it does nothing else to them is proved (`TabKeepsHuntLife`). |
| `Watchlist` | Entries, matches, the matcher's runs, and records that commit late. |
| `LeakFigures` | What the API answers, as functions of the writes committed so far: rows, totals, facets, charts, the map. |
| `Console` | A tab on the list pages, over `LeakFigures`: filters, pagers, the query cache, fetches, the event stream. |
| `MC...` | The instances for TLC. |
| `...Proofs` | The theorems about `CrawlQueue`, `CrawlCycle`, `SyncRequests`, `Ingest`, `HuntJobs`, `SearchPage`, `Watchlist` and `Console`. |

The split is what makes the proofs short. What a table promises does not depend
on who calls it in which order, and is proved of the general client with seventeen
actions; the processes only have to be shown to call nothing else. Hunts use the
split in the other direction: the page is checked against `HuntLife`, which is a
fraction of the size of the worker behind it.

## 3 The model and the code

One action is one transaction, or one autocommitted statement, together with
what the code does in memory until its next `await`. `PROJECT.json` gives the
lines of every definition under `map`.

**Rows.** A URL the sites have is an element of `Urls`; `SourceOf`, `PageNo` (0
for a link) and `LinksOn` describe the site. `status`, `cycleId`, `attempt`,
`leasedBy` are the columns. Two timestamps are each reduced to the one thing the
code asks of them: `due` (`next_crawl_at <= now()`) and `leased`
(`leased_until > now()`). A statement sets them, and `ComesDue` and
`LeaseRunsOut` change them at any moment afterwards, so a model behaviour exists
for every value of the backoff and of the lease time, those included that are
shorter than the work under them. `discovered_at >= started_at` becomes
`foundIn >= c`.

**Locks.** The claim lock, the per-source link lock and the cycle row's lock are
held for one transaction each, so what runs under them is one action. What the
code reads *before* it takes the lock is a separate, earlier action: the
eligible links (`LoopOffer` before `LoopLink`), the stale cycle (`BeginRun`
before `AbandonStale`), the running cycle (`Run` before `BeginSeed`). The
FOR SHARE lock of `hold_cycle_open` lasts for many transactions and is the
variable `held`; `FinalizeCycle` and `AbandonCycle` wait for it. The partial
unique index on running cycles is the first conjunct of `StartCycle`.

**Processes.** `tpc` is the place of a `run()` call. The fetch is its outcome
alone: `Outcomes(u)` is what `CrawlFetcher.__call__` may report for that kind of
URL. Then the loop records it (`RecordOk`, `RecordFailure`, or `LostLease` when
the row is no longer its own), and follows `_after_outcome`.

A *crew* is one call of `CrawlWorkers.run`: the loops of one lane and their reaper.
`Serve` starts a crew for each lane and waits for nobody: neither for the loops of an
earlier cycle nor for loops that an earlier task has left behind. `awaitedBy` says whose
`gather` a crew is under. Each crew numbers its loops from 0 (`worker.py:148`), so loops of
crews that overlap in a process have the same name, `NameOf`, and what the queue is told is
that name.

**Failures.** A process dies (`Crash`); arq cancels a job at its timeout, with the crews
it awaits, and does not retry it (`JobTimeout`); a reaper dies of an error
(`LoseReaper`), and when the loops of its lane have returned, the `gather` raises
(`LaneRaises`); a claim loop raises, and the `gather` with it (`LoopRaises`). In both cases
the task ends at once and without finalizing (`GatherEnds`, `Returned`), and the loops that
are left, of its own lane or of the other one, go on with nobody to await them, those of
the loop's own lane without a reaper. A step of `_after_outcome` raises and is swallowed
(`SwallowError`); a running cycle goes without a heartbeat for an hour
(`GoesStale`, possible only while no process attends to the cycle). The rows that
the dead had leased stay `running` until the lease expires.

**Where the model does more than the code.** The `ORDER BY` of the claim is a
preference that SKIP LOCKED makes best effort, so any eligible row may be
claimed. Which due links are requeued, and which are found out of scope, is
free. `PagesToSeed` contains every depth `pages_to_seed` can return for a listing
of that length. A cycle one of whose two reapers is dead counts as attended.
These add behaviours, so safety properties that hold here hold of the code.

**Where it does less.** How many crews can be on at the same time is bounded by `Crews`,
which the code does not bound: a run that finds none free waits. The proofs hold for every
number of them. In `CrawlCycle` nobody else competes for the crawl
lock; in `SyncRequests` somebody does. The report's counters and texts, the retry delays,
crawl_runs and source health are left out.

**Requests and jobs** (`SyncRequests`). A job is one firing of a cron; `jpc` is
where it is, and its locals last until it is `Over`. Each statement on
`crawl_requests` is an action. The API's look-up and its insert are two,
`Post` and `Insert`. A job of the queue engine first claims and then runs, and
puts the request back if it finds the crawl lock taken; a job of the legacy
engine first takes the lock. A whole cycle is one fact here, `cycleOpen`: who
starts it holds the lock while it takes part, anybody may join, one of the
participants closes it and the others read what became of it. A cycle whose
participants are all gone may be abandoned. Time is a tick that ages jobs and
running requests; a job at `Timeout` is cancelled before the clock goes on, and
a request beyond `Timeout` is stale. What the run found is one word, `answered`:
nothing here depends on whether that is `succeeded`, `skipped` or `failed`; a
request failed without a verdict is `failed`. Any step of a run may raise. Every
run may also end in any verdict at any time, the lock may be taken by `intel run`
whenever it is free, and jobs may crash anywhere and any number of times.

**Pages** (`Ingest`). A text stands for its hash, `Blank` for all that is too short or a
gate. `crawl_urls` is three columns here: which URLs are known, who has claimed one, and
the hash. When a URL may be claimed is the queue's affair, so `Claim` takes any URL that
is nobody's and `Reap` takes any from its holder, at any moment and also from one that is
alive. A handler is one step for each statement of `ingest_page`; `at` is what it has
in its hands. A row of `raw_pages` is its text: several rows with one text are
possible in the code, and `save_page` asks for the best of them, so one that is
extracted counts. What a text says is given by `Names` (the victims of a listing, or
the victim a page is about), `Secrets` and `LinksOn`. `enrich_leak` fills in one of the
leaks that match and whose `source_id` is this source's (`storage.py:520`). A leak has one
row, whoever reports it: the ransomware.live feed stores leaks with no source
(`tasks.py:476`), another source of the actor with its own, and a conflict never changes
the column. `StoredElsewhere` is either of them being first with a victim, and `foreign`
are the leaks that are not this source's for that reason. The site changes, also back to
what it was. `HandlerFails` is a
failed fetch, an exception or the cut-off at 90 % of the lease; an error in
`_record_exposures` is a disjunct of that step, since it is swallowed there.

**Hunts** (`HuntJobs`). The POST is four steps: `PostHunt`, the look for a recent
hunt (`LookForCached`), the look for one in flight (`LookForInFlight`), the insert.
`Recent` means finished well and younger than the cache's hour; `ended` keeps the
order of these ends, and `CacheLapses` ends the hour whenever it likes. `GET
/api/hunt/:id` is two statements; since all it does is read, one reader stands for
any number, and only answers that say the hunt is over are followed to the end,
because after any other the page asks again. A tick of `drain_hunt_jobs` expires what
is stale, claims the oldest, adds findings lookup by lookup and finishes; a lookup
that hangs is a tick that does nothing until `TimedOut`. `partial`, which every reader
treats as `succeeded`, is that. The lookups are a number of findings.

**The company search** (`SearchPage`). `page` is the component's state, `results` and
`seen` are the query cache. React runs the effects of a commit together, so the
reset of the hunt and the adoption of the offered one (`Effects`) belong to the step
that changes the term or brings an answer, and the adoption sees what the hook shows
at that moment, which may be the answer to the previous term (`Shown`).

**The watchlist** (`Watchlist`). A record has the time it carries (`seen`), which is
read before its transaction, and becomes visible at `CommitInsert`. `StartRun` reads
the clock and then the entries; `MatchEntry` is the transaction of one entry. An upsert of
a record that is there (`Upsert`) may fill in its domain, and replaces the name of a
victim that is known by its domain (`storage.py:152`), so the values a record names come and
go; `lasting` are those it has named ever since it was first seen. What the command
line's repairs do to names (`storage.py:617-641`, `725-778`) is an `Upsert` as well. `Normal` is
`normalizeWatchValue`, whose rules are left out. Kinds of entries are left out too:
an entry names values, however it does that.

**Figures and lists** (`LeakFigures`, `Console`). The database is the sequence of
writes committed so far, so an answer is two numbers: how long that sequence was when
the rows were read and when they were counted, as these are two statements
(`Answer`). `Skew` bounds how many writes fit between. A history (`IsHistory`: rows that
are inserted, located or classified, and ticks of the clock) is chosen at the
start from a constant; a tab opens after `Before` of its writes. What the API sorts is a
set here, and a place in the sorted array is how many come before (`IndexIn`). The query
library is modelled from its configuration in these pages and from how it is used:
entries by key, a placeholder from the previous key, a refetch that cancels the
fetch that is out when there is data and joins it when there is none, entries fresh for
30 seconds or until invalidated. The cache keeps the question left and the new one and
drops the rest, as garbage collection may. One record per page (`IocPage`, ...) says
which sections it has, whether its second filter is a search box with a delay, and
whether it polls. Two filters stand for each page's: one compared with a column, one
looked for in an array or a text. The `limit` of the facets is left out: a facet is the
count beside a value, not the list of the largest.

A zone is what the clock on its wall shows at each instant, so days have as many slots as
its changes leave them: `Begun` is what PostgreSQL takes for the instant at which a day
begins, also where the wall never shows midnight. `ZoneAssumption` says
what zones have in common: no midnight comes twice, and the wall is never further from
the real distance of two instants than `Saving`. It leaves out the few zones that put their
clocks back over midnight, as Havana's and the Azores' do: there the leaks of the hour that
comes twice are counted a day apart from what the tables print. The server has no such
zone: its image (`apps/api/Dockerfile:14`) runs in UTC, no `TZ` being set, and the headline
and the map's days, from whatever `date` they are asked for, are cut by its clock.

The live map is three statements without a transaction (`incidents.ts:338-384`): the actors
with their countries, of which the arcs are made, the points, and the number of incidents.
`MapAgrees` takes a version for each of them, in that order, and `locate` may give a leak
another country between any two. The actors' `targets` and chips are left out.

## 4 Runs

Every run of the crawler is finite because five bounds are in the guards:
`MaxRequests` requests are made, `MaxCycles` cycles are started, `MaxFaults` faults and
`MaxInputs` Syncs or toggles happen, and `MaxAttempts` (a setting of the program, 3 by
default) is 1 or 2. Time and the reapers are unbounded. The others have bounds on what
is ever inserted (`MaxHunts`, `MaxRows`, `MaxEntries`, the records), `MaxClock` in `watch`,
`MaxFaults` and `MaxChanges` in `ingest`,
and in `console` `MaxPage`, `MaxFlights`, `MaxHeld`, `MaxFaults` and the histories.

| Run | Question | Instance |
|---|---|---|
| `cycle_alone` | With one task: nothing is left active in a closed cycle; a lane with waiting pages keeps a loop; every page that becomes active is finished | one process, two lanes, a page with a link and a browser page; a crash or a timeout, one toggle |
| `cycle_two` | The processes implement the queue, and its properties hold of them: attempts stay bounded, lane and source limits hold of the live leases, no listing page is left active in a closed cycle, a live lease is not disturbed; an outcome is recorded only for the claim it was fetched under | a tick and a Sync in two processes, a lane limit of one between them, a listing page and a link, two cycles, two attempts, one Sync or toggle |
| `cycle_links` | The discovery budget holds although eligibility is read outside the lock | two ticks in one process, two loops on two pages with one link each, budget 1, an error in the bookkeeping |
| `cycle_closes` | Every running cycle is eventually closed | two ticks in two processes, any one of six kinds of fault, two crews of one process that may overlap, a browser source while its lane is off, one toggle |
| `requests` | A request in a job's hands is running and no other's; requests live as `RequestLife` says; none waits or runs for ever | one client, two requests, a drain of the queue engine, one of the legacy engine, a sweep; timeout of one tick; crashes, exceptions and `intel run` without a bound |
| `ingest` | A hash stands for what has been stored, whatever is cut short and whoever else works on the text; what the site goes on showing is stored in the end | two workers on a listing and the page it links to, a text both may show, a page without text, one change of the site or one leak reported elsewhere, one crash, error or cut-off at any step |
| `hunts` | The hunt a tick works on is its own, running and not stale; the last answer of a poll is complete; hunts live as `HuntLife` says; every hunt ends | one client, two companies, two overlapping ticks, two hunts with a finding each, timeout of one unit |
| `search` | The hunt that is read is not swapped; the panel stops spinning by polling alone | one company, two hunts, any click at any moment, no event has to arrive |
| `watch` | The watermark hides nothing that has been named all along; what is read stays read; `matching...` ends and arrivals are reported | two entries, a record whose names any upsert replaces, two runs of the matcher, three spellings of which one is unusable, an overlap of two units and transactions of up to one |
| `console` | Rows answer the filters above them; facets, chart and map agree with the lists; lists never go back, show what is announced, and catch up by polling | six tabs of one or two sections each over histories of two writes, and 105 orders of three arrivals and four clock ticks for the figures, in four zones; pages of one row |
| `orphaned_links`, `wrong_company` | statements of the documentation that the code does not keep | section 5 |

**Why these bounds are enough to be interesting.** Two workers are needed for a
lease to be lost to somebody; two attempts for a retry, which is the status that
is easiest to forget; two cycles for adoption, recrawl and a finished row that is
scheduled again; two processes for every race between a finalizer and another
process. A third cycle repeats the second: rows remember one cycle. One fault is
enough for each recovery path, and since crashed parts start again from the same
code, two faults in a row add recoveries of recoveries only. `cycle_two` has the two cycles
and leaves faults to `cycle_closes`, which has two processes as well. There the one fault
may be an error that leaves a loop behind, beside which the next tick starts the other
crew, of a loop with the first one's name. For the queue's
own properties none of this matters, as they are proved for all values, faults included.

For `requests`, a timeout of one tick already has the three cases that matter: a
request younger than the timeout, at it, and beyond it, each with its job
younger or as old as itself. Two requests are needed for the order of
taking and for a drain that goes on to its next one. For all other values the
safety properties are proved.

In `ingest`, two workers meet on one text and on each other's rows; the text both pages may
show is what makes the order of extraction matter; with one change, a page shows
something, something else, and the first worker is still busy with the old text. A
second fault would make the exposures' clause no stronger, and the rest is proved.

`hunts` has the same three ages. Two ticks overlap whenever the first takes longer
than a second, two hunts of one company come about when two POSTs meet, and two
companies give the cache something to tell apart. In `watch`, a unit is longer than
any transaction, and the overlap is the next larger number; with two entries, one can
be removed, added again under another number, and reset while two runs are under
way. One record is enough since no statement reads two of them together. In
`console`, a page of one row makes every boundary of a pager one insert away; two
fetches at once are what a cancelled and a new one need; histories of two writes have
a state before, between and after; the figures have an actor with three countries
and at most one arc, a country without coordinates, a leak that changes its country, one
that nobody has classified, days of three slots, and zones that are the server's, one slot
ahead, put forward over midnight (a day of one slot) and put back (a day of five).

Each property also has a mutant in `PROJECT.json`: a plausible mistake in a
modelled definition (a status forgotten, a guard dropped, an off-by-one) that the
run must catch.

**Fairness** (`FairSpec` of `CrawlCycle`, used by `cycle_alone` and `cycle_closes`). Cron keeps
firing, so an idle scheduled task eventually starts; a started `run()` goes on,
as nothing in it waits for ever except for what other fair parties do (a Sync
waits for its cycle to be closed, which is exactly the property); a loop that can
do something does it, since a fetch has a timeout; live reapers turn; leases
run out and due times come. Weak fairness is enough throughout. Syncs, toggles,
heartbeats going stale and faults are never fair. `cycle_closes` relies on cron
in both processes: a cycle left behind by its process is joined by the next tick
of any.

`FairSpec` of `SyncRequests`, used by `requests`, assumes less: time passes, arq
fires drains and cancels jobs at their timeout (weak fairness), and a drain, of
which six a minute are fired, does not die before the same statement every
time (strong fairness of `ExpireStale` and `ClaimRequest`). Nothing says that a
cycle, a crawl or `intel run` ever ends, so `RequestsMoveOn` cannot promise that a
request is crawled for: others may hold the lock each time it is claimed. It
promises that a request leaves the queue, and that it does not stay `running`.

`FairSpec` of `Ingest`: a worker that is alive goes on, leases that are not given back are
reaped (weak fairness), and a URL that can be claimed again and again is claimed (strong
fairness for each URL: every source is crawled in every cycle, and a cycle asks for
listings each time and for links when they are due). Faults and changes are bounded, which
is what lets a retry succeed in the end.

`FairHuntSpec` of `HuntJobs`: time passes, ticks fire, a tick that hangs is cancelled
(weak fairness), and a tick that may claim again and again does (strong fairness of
`ClaimHunt`: ticks fire every few seconds and not all of them die before their first
statement). No lookup has to return. `FairPageSpec` of `SearchPage` takes over
what this gives, hunts begin and end, and adds that a poll that is due is answered;
clicks and events owe nothing. `FairSpec` of `Watchlist`: the cron fires, transactions
commit, and no entry is cut off from every run by a crash (strong fairness of
`MatchEntry`). `ConsoleSpec`: the fetch of the question on screen is answered or
fails, and the interval of a polled list fires while it is mounted.

`CHECK_DEADLOCK` stays on in all runs but `console`. In the crawler's runs, when the
bounds are spent and nothing is left to do, the explicit action `Quiet` stutters;
anything else that stops is reported. In `console` the writes of a history end and most
histories have no tab, so these behaviours stop by design.

## 5 What disagrees with the documentation

Two statements of the repository are refuted by short behaviours of the model, each
by a run of its own. `PROJECT.json` quotes them under `findings`.

* **Orphaned links** (`orphaned_links`, `QuietWhenClosed`; `worker.py:285`).
  A page's outcome commits before its links are queued, and `enqueue_links`
  looks at neither the cycle's status nor the hold. With a second process
  serving the same cycle, that one may see nothing active and finalize in
  between. The links then are `queued` in a closed cycle: no loop claims there,
  `eligible_links` takes them for being on their way, and `requeue_due_links`
  takes finished ones only, so nothing ever picks them up. With a single task
  the invariant holds (`cycle_alone`; `OneTaskIsEnough`, proved), and it holds of any
  number of tasks, crews and faults as long as no run closes a cycle in which a loop is busy
  (`QuietUnlessClosedWorked`, proved). Whose loop that is makes no difference: it may be
  another run's, as here, or one that a `gather` which raised has left behind (below).
  For listing pages the invariant holds always (`ListingInOpenCycle`, proved), because
  seeding does hold the cycle open.
* **The wrong company's findings** (`wrong_company`, `HuntIsOfTheCompany`;
  `SearchPage.tsx:77`). When the term changes, the page forgets its hunt, but the
  search hook still shows the previous term's results, and the effect that adopts the
  hunt these offer runs right after the reset. When the new results come, there is a
  hunt already and the effect does nothing: the previous company's findings stay
  under the new company's results, which is what the comment at `SearchPage.tsx:59-60`
  sets out to prevent. A second way is a POST that is answered after the term has been
  changed (`runHunt`, `SearchPage.tsx:82-86`). There is no third: `OtherCompanyTwoWays`
  proves it.

The models contain more behaviours that a reader of the documentation would not
expect; no run is about these.

* *A Sync that is lost* (`manager.py:158`). When the cycle closes between
  `running_cycle()` and `hold_cycle_open()`, `_seed` returns False; `_join` ignores it, and
  the request is answered with the result of a cycle that never had its sources.
* *A stranded lane* (`worker.py:185`). A lane's loops leave when nothing is active. If
  the other lane keeps the task in `gather`, a Sync may still add pages to the lane that
  has left; the cycle is in `_SERVING`, so no new loops start, and those pages wait
  until the job times out after an hour.
* *Loops without a task* (`manager.py:227`). When a reaper has died and the loops of its
  lane are done, or when a claim loop raises, `asyncio.gather` raises at once and the
  other loops go on; `finally` takes the cycle out of `_SERVING`. One of the loops left behind
  may be about to queue its page's links when the next tick joins the cycle, finds nothing
  active and finalizes it: an orphaned link again, with a single task (why
  `OneTaskIsEnough` assumes that nothing raises). `worker.py:131-133` says of the loops that they
  "do not exit early"; nobody waits for them either.
* *Loops of one name* (`worker.py:148`, `queue.py:349`). Two tasks of a process may work two
  cycles at once: one is still waiting for a slow fetch when another process closes its
  cycle (the lease has run out and the URL has been reaped and finished), and the other
  task serves the next. Both count their loops from 0. If the next cycle claims the same
  URL for the loop of the same name, the slow one passes the check of `leased_by`, records
  its fetch as that claim's outcome and ends it. TLC finds `OutcomeOfItsClaim` violated in
  33 steps with two tasks in one process and a third in another one; with one task per
  process and nothing that raises, it holds (`OneTaskPerProcessIsEnough`, proved). The
  cut-off at 90 % of the lease (`worker.py:201`) makes this rare and does not exclude it: what
  is cut off is the fetch, and the statement that records it may still wait.
* *Two open requests* (`routes/crawl.ts:122`). The look-up of an open request and the
  insert are two statements with nothing to serialise them, so two clicks at the same
  moment make two requests and two crawls back to back.
* A cycle that was read as stale may be served again by the time it is abandoned, since
  only its status is checked again; all checked properties hold in spite of it. Links
  that are due and announced again by their page count against neither link budget. A
  loop that claims between `fail()` of page 1 and the prune behind it fetches page 2 of a
  dead source (`worker.py:275`), where `config.py:101-102` promises that one costs a
  single page. Once a starter's job has ended, nobody holds the crawl lock for the
  joiners that go on, and `intel run` starts beside them (`cli.py:383`). A drain near the
  end of its hour claims a request that is cancelled with it soon after and answered,
  as failed, an hour later.
* *Pages.* `fetch.py:242-244` takes no links from an unchanged page because it "was mined
  the last time it changed". It was not if the worker died, lost its claim or met an error
  after `mark_extracted` (`pipeline.py:668`): the text counts as seen from then on, and
  links and exposures that came after it are lost until the text changes. `fetch.py:239-240`
  calls a hash "safe to remember" whose text was extracted "at another URL"; if that was
  a followed page, the text has never been read as a listing. `storage.py:570-571` says
  that `last_seen_at` advances on every sighting; a page whose text has not changed is
  not sighted. A victim that the ransomware.live feed reports before its site has been
  crawled is never enriched: `enrich_leak` looks among the leaks of the source, the
  feed's row has none and keeps none (`tasks.py:476`, `storage.py:149`, `520`), and the
  victim's page counts as handled all the same. The feed is read every 15 minutes.
* *Hunts.* A POST within the hour is answered with the hunt that has succeeded, and the
  answer seeds the cache with no findings (`queries.ts:374`), though `search.ts:301-302`
  says that it "renders instantly from rows that already exist". Nothing polls a hunt
  that is over, and what was seeded is fresh for 30 seconds: "Run again" on a hunt
  with findings makes the panel say that there are none, until the window regains
  focus or the panel is opened anew. TLC finds `NothingFoundIsTrue` violated in twelve
  steps; `NothingFoundUnlessAskedAgain` proves that nothing else can violate it.
* *Links of an earlier cycle.* A loop that queues links for a cycle which has been closed
  under it inserts rows that are as new as the next cycle. When they come due they are
  requeued into that cycle and count as discovered in it, although nobody compared them
  with its budget, which may so be exceeded (`queue.py:562` counts what was discovered
  since it started).
* *Watchlist.* A domain that is filled in later, or a name that replaces another one, is never
  matched once the watermark has passed the record (`storage.py:152-153`, `1696`), and a leak
  that is given another name before the minute's run is not reported for the first. A reset while a run is under way is
  undone, for the entries that run has not come to, by the watermark it writes
  (`cli.py:540`). "Mark all as read" also acknowledges matches that were never displayed.
* *Lists.* The pagers of three pages step from the page asked for while their buttons
  follow the page shown, so two quick clicks lead out of the range, down to page 0, which the
  API refuses. The three incident sections share one component: a filter set in one
  stays applied in another that has no control for it, though `IncidentsPage.tsx:222-223`
  calls such a filter one that "filters invisibly". `lib/incidents.ts:91` says that the
  stream invalidates the incident tables; it does not, they follow by polling.
  Around a change of clocks the chart and the headline beside it may differ by more than the
  leaks of their edges: the chart counts calendar days, of which one has 23 or 25 hours, and
  the headline spans of 24 (`stats.ts:88-106`, `238`). The map may show an arc without one of its
  points, when a leak is given another country between two of its three statements.
  The map's tooltip counts all actors while one is selected, and an incident's `targets` are
  multiplied by its technologies (`incidents.ts:347`, `358`). Links to
  `/dashboard/leaks?q=` open an unfiltered list, as `LeaksPage` reads no parameter.
  `useRequestCrawl` promises to invalidate all derived data (`queries.ts:287-294`) and
  invalidates the crawl's status alone.

## 6 Proofs

`tlapm` checks the eight proof modules from nothing. The constants are assumed to be
what the assumptions of each module say (`QueueAssumption`, `CycleAssumption`,
`CrewAssumption`, `SyncAssumption`, `IngestAssumption`, `HuntAssumption`, `PageAssumption`,
`WatchAssumption`, `FiguresAssumption`, `ZoneAssumption`, `ConsoleAssumption`): sets and functions
of the right type, a finite set of URLs, positive attempt and source limits, links
that belong to the source of the page showing them, crews of at least one loop of which
those with one name are in different crews of the same process and lane, a positive
timeout, zones in which no midnight comes twice, finite histories of inserts, later writes and ticks of the clock, countries that the database
can order, a word for "no filter" that is no value of any column, and, for the
watchlist, transactions that are shorter than the overlap: that one is a fact about
the database's load that the code relies on and nothing enforces.

Some properties of the crawler and of the search page hold only under a condition, as
section 5 shows by counterexample. Their theorems state the condition as a state
predicate that holds throughout (`Spec /\ []Condition => []Property`), so they
say how far the property can be relied on. The condition is never put into the model.

In `CrawlQueueProofs`, of `QueueSpec`:

* `QueueTypeCorrect`: `QueueTypeOK` is inductive. The runs check it as a part of `CycleTypeOK`.
* `AttemptsAreBounded`: `AttemptsBounded` is not inductive, since a claim adds one.
  The strengthening `RetriesLeft` says that whatever waits is strictly below the
  maximum. A new scheduling starts at 0, adoption keeps a waiting row waiting, and
  a failure or a reap returns a row to waiting only when it is below.
* `LiveLeasesAreExclusive`: an action property; each action either leaves a live
  row's columns alone or is its outcome or its cycle's abandonment.
* `LimitsAlwaysHold`: every step but a claim leaves the sets of live leases no
  larger (lemmas on cardinality), and a claim adds one row after having counted
  fewer than the limit.
* `ListingStaysInOpenCycle`: by itself the invariant says nothing of the seeder that
  adds pages. `HoldsKeepOpen` (a held cycle is running, since finalizers wait for the
  lock) does; with it, the type and `PagesInOpenCycle` (an active listing page is in a
  cycle that exists and runs) it forms `OpenInv`, which is inductive.

In `CrawlCycleProofs`, of the whole system's `Spec`:

* `ImplementsQueue`: `Spec => QueueSpec`. Every step of a process is a step of the
  general client or leaves the queue alone. This needs an invariant: `CycleInv`,
  the types together with the facts that every cycle a process names has been
  started, that a task past its choice has a cycle, and that a loop about to prune
  has a boundary the queue's action admits for that source.
* `CycleTypeCorrect`, from the same invariant.
* `SystemBoundsAttempts`, `SystemKeepsLimits`, `SystemKeepsListingsOpen`,
  `SystemKeepsLeasesExclusive`: the queue's theorems carried over by the
  refinement, so they hold for any number of processes, tasks, loops and faults.
* `OutcomesBelong`: `OutcomeOfItsClaim`, if no two loops that are on have one name
  (`NoNamesakes`). A loop's lease may run out, its URL be reaped, adopted by a later cycle and
  claimed again, by another loop or by this one. `ClaimInv` says that a loop that is fetching
  and still holds the row holds it in the attempt and the cycle it claimed: whatever moves
  either column gives the row up first. `leased_by` is a name, so the condition is needed
  (section 5).
* `QuietUnlessClosedWorked`: `QuietWhenClosed`, if no `run()` finalizes or abandons a cycle
  in which a loop is busy (`ClosedUnworked`), be it awaited by that run, by another or by
  nobody. The crawl lock keeps two starters apart, but not a starter and those who join
  it (`orphaned_links`), and a `gather` that raises leaves loops to the next run. Everything
  else is included: runs that seed, join, work on and leave one cycle side by side, crashes,
  timeouts, stale cycles, any number of processes and crews. Two facts need each other: the
  cycle in which a loop is busy is running (`BusyInOpenCycle`), because a loop has what it
  claimed from a cycle in which something was active; and what is active is in a running
  cycle (`QuietInv`), because what a loop queues goes into the cycle in which it is busy.
* `LanesAreWorked`: `LaneWorkedUntilDone`, if the cycle that a `run()` works is held open by
  no other and worked by no loop but those it awaits (`WorkedAlone`): a seeder that is
  not done may add pages to a lane that its loops have left (the stranded lane of section
  5). Besides, `LaneInv` needs that links have a lane (`LaneLimit["http"] # 0`); `RowsInv`, that
  nothing is queued for a lane that is off; `BusyInItsLane`, that a loop works on pages of
  its lane; `CrewsInv`, that a task awaits one crew for each lane and that these work its cycle.
* `DiscoveryStaysBounded`: `DiscoveryBounded`, however many loops read the eligible links
  before they take the lock, if no loop queues links for a cycle that another has
  followed (`NoStragglers`). Without the condition TLC finds a violation of 41 steps: two
  processes, two cycles, a link that is queued late, in a closed cycle, and one that comes
  due. `FoundInv` says that a link was discovered, at the latest, while its cycle was
  the last one. `DiscoveryBoundedUnlessClosedWorked`: under `ClosedUnworked` there are no
  stragglers, awaited or not, so `NoStragglers` is the weaker condition of the two.
* `OneTaskIsEnough`: with one task, and no reaper and no claim loop that raises
  (`NothingRaises`), the last three conditions hold of every step, and so
  `QuietWhenClosed`, `LaneWorkedUntilDone` and `DiscoveryBounded` hold, for any number of URLs,
  sources, loops and cycles, under crashes, timeouts, stale cycles and errors in the
  bookkeeping. It is what `cycle_alone` shows of a small instance. Its invariant is
  `AllAwaited`: every loop that is on is awaited and has its reaper. A single task in which
  something raises is not enough, as section 5 says.
* `OneTaskPerProcessIsEnough`: with one task in each process, and `NothingRaises`, there are
  no namesakes, by the same invariant, and `OutcomeOfItsClaim` holds. It is what `cycle_two`
  shows of a small instance. A deployment with two tasks in a process (`crawl_due` and
  `drain_crawl_requests` are two cron jobs of the same worker) has no such guarantee.

In `SyncRequestsProofs`, of the requests' `Spec`:

* `SyncTypeCorrect`: `SyncTypeOK` is inductive; one step per action.
* `HeldRequestsRun`: `HeldRequestIsRunning` is not, because expiry looks at ages and not
  at jobs. `RequestYounger` connects them: a request is claimed at age 0 by a job
  that has been running already, and both age together, so a request in a job's
  hands is never older than the job. A job is cancelled at the timeout, and only what
  is beyond it is stale. That the two settings are one is what this rests on: with
  `>=` in the place of `<`, it fails (the mutant `Stale_AtTheTimeout`).
* `ImplementsRequestLife`: `Spec => ImplementsLife`, with `SyncInv` (the three invariants
  above). An answer or a put-back is a step of `RequestLife` because the request is
  running then.

In `IngestProofs`, of the `Spec` of pages:

* `IngestTypes`: `IngestTypeOK` is inductive; details are only filled into leaks that exist
  and are this source's.
* `HandledTheorem`: `HandledIsStored` for any site, any number of workers, failures and
  changes, and any leaks that others report first, whose details it excepts. It speaks of hashes, and has to be derived from what they are taken from:
  `ExtractedInv` (a text that is marked extracted is stored, and its exposures are, or
  somebody is about to write them, or something has failed), `HeldInv` (what a worker
  holds is true: its text is one its URL shows, what it is about to mark is stored, the
  outcome it brings is of an extracted text) and `KnownInv` (the leak of a followed page is
  there before the page may be followed, because links are queued after the listing
  has been stored). `OneHolds` reduces a step to what the one worker that takes it
  has to show, given that tables only grow (`StoreGrows`).

In `HuntJobsProofs`, of `HuntSpec`:

* `HuntTypes`: the types; no tick is older than the timeout.
* `HeldHuntsRun`: `HeldHuntIsRunning` for any timeout and any number of ticks. The
  strengthening is the one of the requests: a hunt is never older than the tick that
  holds it (a claim sets the age to 0, both age together), so what is stale has lost
  its tick. `finish_hunt_job` and `add_hunt_findings` check no status and rest on this.
* `LastAnswersAreWhole`: a poll that has read `succeeded` and then reads the findings
  gets all of them, because only the holder adds any and what is held is running.
* `HuntsLive`: `HuntSpec => Life!LifeSpec`, from the same invariant.

In `WatchlistProofs`, of `Spec`:

* `WatchTypes`: the types.
* `WatermarkTheorem`: `WatermarkIsHonest` is not inductive: the watermark a run is going
  to write is decided when it starts. `TimesInOrder` says that no time lies ahead of the
  clock, that an open record is at most `MaxOpen` behind it, and that a run's start lies
  between the overlap and the clock; `WatermarkInv` that watermarks lie an overlap behind
  the clock and that those in the hands of runs, read before other runs moved on, are as
  honest as those in the table. It holds for any number of runs, entries and records,
  and for any upserts: an upsert can only take values out of what a record has named all along.
* `ReadTheorem`: an action property, from the types.

In `SearchPageProofs`, of `PageSpec`, for any number of companies, hunts and findings:

* `PageTypes`: the types are inductive together with `KnownIsAsked` (a hunt that the tab
  shows, has been offered or was answered with has been asked for).
* `TabKeepsHuntLife`: `PageSpec => LifeSpec`. With `HuntsLive` it closes the split of
  section 2: `HuntJobs` keeps what `HuntLife` promises, and the page lives with it.
* `HuntIsNotSwappedHolds`: an action property; nothing but the answer of this page's own
  POST puts another hunt on screen while the term stays.
* `NothingFoundUnlessAskedAgain`: under `AnswersAreOpen` (no POST is answered with a
  hunt that is over), `NothingFoundIsTrue`. `SeenInv` says that what is cached or on its way
  of a hunt that is over has all of its findings; the seeded answer is what breaks it.
* `OtherCompanyTwoWays`: `HuntIsOfTheCompany` under `OwnResultsOnly` and `PostIsForTheTerm`,
  which exclude one way each; TLC finds a violation when either is dropped.

In `ConsoleProofs`, of `Console`'s `Spec`, for any histories of writes:

* `ConsoleTypes`, `RowsAnswerTheFiltersHolds`, `AnnouncedIsOnItsWayHolds`,
  `ListNeverGoesBackHolds`, from one invariant, `ConsoleInv`. `CacheOK`: one answer is held
  under a key, and it is the answer to that question. `FlightsOK`: one fetch is out for a
  question, sent no earlier than the answer held was read, so what it brings is no older.
  `AnnouncedInv`: a list that waits for an announced leak has its data, and every fetch
  it waits for was sent since. `AnnouncedIsOnItsWay` is the part of `AnnouncedIsShown` that can be proved
  here; what remains is that the fetch is answered.
* `FacetsCountTheirFilterHolds`, `ChartCountsEveryArrivalHolds`, `MapAgreesWithItselfHolds`:
  the three invariants of the figures, for every history of writes, every number of days,
  every zone of `ZoneAssumption` with the changes of its clocks, and every three versions that
  the map's statements may read. Their first parts are also stated of any sequence of writes at all,
  reachable or not: `FacetsCountEveryHistory` (the number beside each choice of a drop-down
  is the number of rows its filter gives) and `BarsAreDaysOfEveryHistory` (a bar of the
  chart counts the leaks printed with its day).
  The rest compares sums, and a sum is a fold over a set. `SumByKey` is what they need: if
  each row has one key, the sum over the keys of how many rows have that key is the
  number of rows. The fold's own definition picks a recursive function by `CHOOSE`. The
  lemma exhibits one that meets that recursion (the number of rows whose keys lie
  in a set) and shows by a least counterexample, over the strict subsets of a finite
  set, that no other function does. From it, `GroupsAddUp` (leaks per actor), `BarsAddUp` (a
  chart and the headline beside it count the same leaks but for those at its edges, or a day's
  on each side if the clocks were changed) and
  `PointsAddUp` (the map's points, the leaks without a country and those that arrived since make up its
  window).
  For the arcs, `Ranks` says that the places in the sorted array of an actor's countries
  are 0 to n - 1, each taken once, so there is an arc for each of the first n - 1 or
  `MaxArcs` places, whichever are fewer (`ArcsAreCounted`).

Only model-checked: liveness under fairness, which rests on ENABLED and is out of the
prover's reach: `CyclesClose`, `QueuedPagesResolve`, `RequestsMoveOn`, `HuntsEnd`,
`PanelSettles`, `PendingResolves`, `ArrivalsAreReported`, `ShownIsStored`, `AnnouncedIsShown`
and `PolledCatchesUp`. Every invariant and every action property of a passing run is
proved, some under the conditions named above; the initial and step conditions of the
refinements are too.

## 7 What is not modelled

Network and Tor, browser automation, parsing and extraction rules, the feeds'
formats, DNS, RDAP and certificate look-ups, and authentication: these are
input/output or data without behaviour of their own.

Of the modelled parts: the lookups of a hunt and their own time limits, the patterns
by which a kind of watchlist entry matches and the paging of its matches, sorting and
the ranking of search results, single leaks and sources, sessions and rate limits, the
dashboard's tiles, the Sync button's display, the watchlist, source and login pages,
and whatever a page looks like. The query library's retries are one failure; a third
failure in a row of the hunt's poll, after which the library stops polling, is left out.

Of a page: which text is a gate, which tiles changed, the extraction itself, mapped JSON,
and the mirrors found on it.

Mirrors, the leak store's merges, `crawl_runs` and the legacy crawler's waves are planned.

## 8 Plan

In order of what the system depends on most:

1. **`Pagination`**: `pages_to_seed`, `observed_depth`, `listing_boundary` and
   `prune_listing` over several cycles of a site that grows and fails: every page
   is eventually within reach. Pure parts as functions against a reference.
2. **`LeakStore`**: concurrent upserts with a time taken before the transaction: no
   sighting goes back in time.
3. **`CrawlRuns`**, **`Mirrors`**: status lattices that share their shape with the
   above; the legacy crawler's waves as a pure algorithm.
4. More proofs: with `Pagination` and `LeakStore`. Of the modules there are, every
   invariant and action property is proved.

Runs stay few: each new module gets one run for its properties, small enough for
seconds.
