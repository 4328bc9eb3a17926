------------------------------ MODULE HuntJobs ------------------------------
(***************************************************************************)
(* Company hunts: the rows of hunt_jobs and hunt_findings, the API that    *)
(* queues and reads them (routes/search.ts), and the worker's ticks that   *)
(* run them (tasks.drain_hunt_jobs, hunt.run_hunt, storage.py).            *)
(*                                                                         *)
(* A tick may take Timeout units of time, after which arq cancels it; the  *)
(* same setting is the age past which a running hunt is given up for dead. *)
(* Every handler reads and writes in statements of its own, so each step   *)
(* below is one statement.                                                 *)
(***************************************************************************)
EXTENDS Naturals

CONSTANTS
    Queries,   \* normalized queries: companies
    Clients,   \* POST handlers at work at the same time
    Workers,   \* ticks of drain_hunt_jobs that may run at the same time
    Timeout,   \* HUNT_TIMEOUT, in units of time
    MaxHunts,  \* bound: hunts ever queued
    MaxRows,   \* bound: findings of one hunt
    Nothing    \* no row, no answer

Hunts == 1 .. MaxHunts
NoHunt == 0

ASSUME HuntAssumption ==
    /\ Timeout \in Nat \ {0}
    /\ MaxHunts \in Nat
    /\ MaxRows \in Nat
    /\ Nothing \notin Queries

VARIABLES
    job,     \* hunt_jobs
    found,   \* how many rows of hunt_findings each hunt has
    post,    \* where each client's POST /api/hunt is
    get,     \* where a GET /api/hunt/:id is: they only read, so one is enough
    tick     \* where each tick is

huntVars == <<job, found, post, get, tick>>

\* "partial", some lookups failed, is treated as "succeeded" everywhere.
Finished == {"succeeded", "failed"}
Statuses == {"queued", "running"} \cup Finished

\* `ended` orders the hunts that ended well and are still inside the cache window;
\* it is 0 for the others.  `age` counts from started_at while the hunt runs.
HuntRow == [query : Queries \cup {Nothing}, status : Statuses \cup {"absent"},
            age : Nat, ended : Nat]

NoRow == [query |-> Nothing, status |-> "absent", age |-> 0, ended |-> 0]

PostState == [at : {"idle"}] \cup [at : {"cached", "inFlight", "insert"}, query : Queries]
             \cup [at : {"answered"}, hunt : Hunts]
GetState  == [at : {"idle"}] \cup [at : {"findings"}, hunt : Hunts]
             \cup [at : {"answered"}, hunt : Hunts, rows : Nat]
TickState == [busy : BOOLEAN, hunt : Hunts \cup {NoHunt}, age : 0 .. Timeout]

Idle    == [at |-> "idle"]
NoTick  == [busy |-> FALSE, hunt |-> NoHunt, age |-> 0]

HuntInit ==
    /\ job = [h \in Hunts |-> NoRow]
    /\ found = [h \in Hunts |-> 0]
    /\ post = [c \in Clients |-> Idle]
    /\ get = Idle
    /\ tick = [w \in Workers |-> NoTick]
-----------------------------------------------------------------------------
(* The API.                                                                *)

Queued == {h \in Hunts : job[h].status = "queued"}

\* Hunts that answer for the query: finished well, within HUNT_CACHE_MS.
Recent(q) == {h \in Hunts : /\ job[h].query = q
                            /\ job[h].status = "succeeded"
                            /\ job[h].ended > 0}
LatestRecent(q) == {h \in Recent(q) : \A g \in Recent(q) : job[g].ended <= job[h].ended}

InFlight(q) == {h \in Hunts : job[h].query = q /\ job[h].status \in {"queued", "running"}}
LastInFlight(q) == {h \in InFlight(q) : \A g \in InFlight(q) : g <= h}

\* A POST is answered by the hunt that was looked for, or goes on.
Reply(c, hs, next) ==
    /\ \/ \E h \in hs : post' = [post EXCEPT ![c] = [at |-> "answered", hunt |-> h]]
       \/ /\ hs = {}
          /\ post' = [post EXCEPT ![c] = [at |-> next, query |-> post[c].query]]
    /\ UNCHANGED <<job, found, get, tick>>

PostHunt(c, q) ==
    /\ post[c].at = "idle"
    /\ post' = [post EXCEPT ![c] = [at |-> "cached", query |-> q]]
    /\ UNCHANGED <<job, found, get, tick>>

LookForCached(c) ==
    /\ post[c].at = "cached"
    /\ Reply(c, LatestRecent(post[c].query), "inFlight")

LookForInFlight(c) ==
    /\ post[c].at = "inFlight"
    /\ Reply(c, LastInFlight(post[c].query), "insert")

InsertHunt(c) ==
    /\ post[c].at = "insert"
    /\ \E h \in Hunts :
         /\ \A g \in Hunts : job[g].status = "absent" <=> g >= h
         /\ job' = [job EXCEPT ![h] = [NoRow EXCEPT !.query = post[c].query, !.status = "queued"]]
         /\ post' = [post EXCEPT ![c] = [at |-> "answered", hunt |-> h]]
    /\ UNCHANGED <<found, get, tick>>

\* The client has the answer, or has lost it; or a statement fails, the limit of
\* ten a minute is hit, the session has ended.
PostEnds(c) ==
    /\ post[c].at # "idle"
    /\ post' = [post EXCEPT ![c] = Idle]
    /\ UNCHANGED <<job, found, get, tick>>

\* The row first, then the findings: two statements.  An answer that says the hunt
\* is still open is followed by another, so only those that say it is over matter.
GetHunt(h) ==
    /\ get.at = "idle"
    /\ job[h].status \in Finished
    /\ get' = [at |-> "findings", hunt |-> h]
    /\ UNCHANGED <<job, found, post, tick>>

GetFindings ==
    /\ get.at = "findings"
    /\ get' = [at |-> "answered", hunt |-> get.hunt, rows |-> found[get.hunt]]
    /\ UNCHANGED <<job, found, post, tick>>

GetEnds ==
    /\ get.at = "answered"
    /\ get' = Idle
    /\ UNCHANGED <<job, found, post, tick>>
-----------------------------------------------------------------------------
(* The worker.                                                             *)

Stale_AtTheTimeout(h) == job[h].status = "running" /\ job[h].age >= Timeout

Stale(h) == job[h].status = "running" /\ job[h].age > Timeout

Over(row, s, e) == [row EXCEPT !.status = s, !.ended = e, !.age = 0]

StartTick_NoExpire(w) ==
    /\ ~tick[w].busy
    /\ tick' = [tick EXCEPT ![w] = [busy |-> TRUE, hunt |-> NoHunt, age |-> 0]]
    /\ UNCHANGED <<job, found, post, get>>

\* drain_hunt_jobs begins by failing the hunts whose worker must be dead.
StartTick(w) ==
    /\ ~tick[w].busy
    /\ tick' = [tick EXCEPT ![w] = [busy |-> TRUE, hunt |-> NoHunt, age |-> 0]]
    /\ job' = [h \in Hunts |-> IF Stale(h) THEN Over(job[h], "failed", 0) ELSE job[h]]
    /\ UNCHANGED <<found, post, get>>

ClaimHunt_NewestFirst(w) ==
    /\ tick[w].busy /\ tick[w].hunt = NoHunt
    /\ \E h \in Queued :
         /\ \A g \in Queued : g <= h
         /\ job' = [job EXCEPT ![h].status = "running", ![h].age = 0]
         /\ tick' = [tick EXCEPT ![w].hunt = h]
    /\ UNCHANGED <<found, post, get>>

ClaimHunt(w) ==
    /\ tick[w].busy /\ tick[w].hunt = NoHunt
    /\ \E h \in Queued :
         /\ \A g \in Queued : h <= g
         /\ job' = [job EXCEPT ![h].status = "running", ![h].age = 0]
         /\ tick' = [tick EXCEPT ![w].hunt = h]
    /\ UNCHANGED <<found, post, get>>

NothingQueued(w) ==
    /\ tick[w].busy /\ tick[w].hunt = NoHunt
    /\ Queued = {}
    /\ tick' = [tick EXCEPT ![w] = NoTick]
    /\ UNCHANGED <<job, found, post, get>>

\* A lookup has returned: its findings, and findings_count, which is always the
\* number of rows in `found`, in one transaction.
AddHuntFindings(w, n) ==
    /\ tick[w].hunt # NoHunt
    /\ found' = [found EXCEPT ![tick[w].hunt] = found[tick[w].hunt] + n]
    /\ UNCHANGED <<job, post, get, tick>>

\* The time at which a hunt ends: only the order of the ends that count is kept.
Ends(s) ==
    IF s = "failed" THEN {0}
    ELSE {n \in 1 .. MaxHunts : /\ \A h \in Hunts : job[h].ended < n
                                /\ n = 1 \/ \E h \in Hunts : job[h].ended = n - 1}

FinishHunt_BeforeTheLastLookup(w, s) ==
    /\ tick[w].hunt # NoHunt
    /\ \E n \in Ends(s) :
         job' = [job EXCEPT ![tick[w].hunt] = Over(job[tick[w].hunt], s, n)]
    /\ UNCHANGED <<found, post, get, tick>>

\* `succeeded`; or `failed`, when run_hunt raised.
FinishHunt(w, s) ==
    /\ tick[w].hunt # NoHunt
    /\ \E n \in Ends(s) :
         job' = [job EXCEPT ![tick[w].hunt] = Over(job[tick[w].hunt], s, n)]
    /\ tick' = [tick EXCEPT ![w].hunt = NoHunt]
    /\ UNCHANGED <<found, post, get>>

\* arq cancels a tick at its timeout; or the process dies.
TickDies(w) ==
    /\ tick[w].busy
    /\ tick' = [tick EXCEPT ![w] = NoTick]
    /\ UNCHANGED <<job, found, post, get>>

TimedOut(w) == tick[w].age = Timeout /\ TickDies(w)

Older(row) == IF row.status = "running" /\ row.age <= Timeout
              THEN [row EXCEPT !.age = row.age + 1] ELSE row

TimePasses_NoTimeout ==
    /\ job' = [h \in Hunts |-> Older(job[h])]
    /\ tick' = [w \in Workers |-> IF tick[w].busy THEN [tick[w] EXCEPT !.age = tick[w].age + 1]
                                  ELSE tick[w]]
    /\ UNCHANGED <<found, post, get>>

\* A unit of time passes; no tick outlives its timeout.
TimePasses ==
    /\ \A w \in Workers : tick[w].age < Timeout
    /\ job' = [h \in Hunts |-> Older(job[h])]
    /\ tick' = [w \in Workers |-> IF tick[w].busy THEN [tick[w] EXCEPT !.age = tick[w].age + 1]
                                  ELSE tick[w]]
    /\ UNCHANGED <<found, post, get>>

\* The hour after which a finished hunt no longer answers for its company.
CacheLapses(h) ==
    /\ job[h].ended > 0
    /\ job' = [job EXCEPT ![h].ended = 0]
    /\ UNCHANGED <<found, post, get, tick>>

WorkerStep(w) ==
    \/ StartTick(w) \/ ClaimHunt(w) \/ NothingQueued(w) \/ TickDies(w)
    \/ \E n \in 1 .. MaxRows :
          tick[w].hunt # NoHunt /\ found[tick[w].hunt] + n <= MaxRows /\ AddHuntFindings(w, n)
    \/ \E s \in Finished : FinishHunt(w, s)

HuntNext ==
    \/ \E c \in Clients, q \in Queries : PostHunt(c, q)
    \/ \E c \in Clients : LookForCached(c) \/ LookForInFlight(c) \/ InsertHunt(c) \/ PostEnds(c)
    \/ \E h \in Hunts : GetHunt(h)
    \/ GetFindings \/ GetEnds
    \/ \E w \in Workers : WorkerStep(w)
    \/ \E h \in Hunts : CacheLapses(h)
    \/ TimePasses

HuntSpec == HuntInit /\ [][HuntNext]_huntVars

\* Ticks fire and time passes; a tick that may claim again and again does, and
\* one that hangs is cancelled.  No lookup has to return.
FairHuntSpec ==
    /\ HuntSpec
    /\ \A w \in Workers : /\ WF_huntVars(StartTick(w))
                          /\ SF_huntVars(ClaimHunt(w))
                          /\ WF_huntVars(TimedOut(w))
    /\ WF_huntVars(TimePasses)
-----------------------------------------------------------------------------
(* Properties.                                                             *)

\* Every variable has its shape.
HuntTypeOK ==
    /\ job \in [Hunts -> HuntRow]
    /\ found \in [Hunts -> Nat]
    /\ post \in [Clients -> PostState]
    /\ get \in GetState
    /\ tick \in [Workers -> TickState]

\* The hunt a tick works on is running, no other tick works on it, and it is too
\* young to be given up for dead: finish_hunt_job and add_hunt_findings, which
\* check nothing, rest on this.
HeldHuntIsRunning ==
    \A w \in Workers : tick[w].hunt # NoHunt =>
        /\ job[tick[w].hunt].status = "running"
        /\ ~Stale(tick[w].hunt)
        /\ \A v \in Workers : tick[v].hunt = tick[w].hunt => v = w

\* The answer that says a hunt is over, the last one a page asks for, has every
\* finding the hunt will ever have, although row and findings are read apart while
\* the worker writes.
LastAnswerIsWhole ==
    get.at = "answered" => get.rows = found[get.hunt]

\* The life of a hunt as whoever polls it may rely on it.
Life == INSTANCE HuntLife WITH
    query  <- [h \in Hunts |-> job[h].query],
    status <- [h \in Hunts |-> job[h].status],
    rows   <- found
ImplementsHuntLife == Life!LifeSpec

\* Every hunt that was asked for ends, whatever crashes or hangs.
HuntsEnd ==
    \A h \in Hunts : job[h].status \in {"queued", "running"} ~> job[h].status \in Finished
=============================================================================
