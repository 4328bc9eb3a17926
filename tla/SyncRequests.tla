---------------------------- MODULE SyncRequests ----------------------------
(***************************************************************************)
(* Sync requests: rows of crawl_requests from the API's insert to the      *)
(* worker's answer, the arq jobs that drain them, and the advisory lock    *)
(* that keeps cycles and the legacy crawler apart.  storage.py has the     *)
(* statements, tasks.py the jobs, routes/crawl.ts the API.                 *)
(*                                                                         *)
(* A job is one run of a cron: of drain_crawl_requests, or of crawl_due.   *)
(* It may take at most Timeout ticks of the clock, after which arq cancels *)
(* it; the same setting is the age at which a running request is given up  *)
(* for dead, and the properties below rest on how the two relate.  Ages    *)
(* are counted, not times, up to the first one that is past the timeout.   *)
(*                                                                         *)
(* What happens inside a cycle is CrawlCycle's subject; here a job that    *)
(* takes part in one learns its verdict when somebody closes it.           *)
(***************************************************************************)
EXTENDS Naturals

CONSTANTS
    Clients,      \* handlers of POST /api/crawl at work at the same time
    Drains,       \* jobs of drain_crawl_requests
    Sweeps,       \* jobs of crawl_due
    Legacy,       \* the jobs in processes with CRAWL_ENGINE = legacy
    Nobody,       \* the crawl lock is free
    Cli,          \* `intel run` holds the crawl lock
    Timeout,      \* CRAWL_JOB_TIMEOUT, in ticks
    MaxRequests   \* bound: requests ever made

Jobs == Drains \cup Sweeps
NoRequest == 0

ASSUME SyncAssumption ==
    /\ Drains \cap Sweeps = {}
    /\ Legacy \subseteq Jobs
    /\ Nobody \notin Jobs \cup {Cli}
    /\ Cli \notin Jobs
    /\ Timeout \in Nat \ {0}
    /\ MaxRequests \in Nat

VARIABLES
    status,     \* crawl_requests.status; "absent" before the insert
    age,        \* ticks since started_at
    client,     \* where each POST is
    jpc,        \* where each job is
    jage,       \* ticks since the job started
    jreq,       \* the request it has claimed, or NoRequest
    result,     \* what run() returned: an answer, "none", or "pending"
    crawlLock,  \* who holds the crawl lock
    cycleOpen   \* a cycle is running

requestVars == <<status, age>>
jobVars     == <<jpc, jage, jreq, result>>
cycleState  == <<crawlLock, cycleOpen>>
vars == <<status, age, client, jpc, jage, jreq, result, crawlLock, cycleOpen>>

Requests == 1 .. MaxRequests
\* finish_crawl_request's `succeeded`, `skipped` and `failed` as a run's verdict
\* are one "answered"; "failed" is what is written when there was no verdict.
Answers  == {"answered", "failed"}
Open     == {"queued", "running"}

Init ==
    /\ status    = [r \in Requests |-> "absent"]
    /\ age       = [r \in Requests |-> 0]
    /\ client    = [c \in Clients |-> "idle"]
    /\ jpc       = [j \in Jobs |-> "idle"]
    /\ jage      = [j \in Jobs |-> 0]
    /\ jreq      = [j \in Jobs |-> NoRequest]
    /\ result    = [j \in Jobs |-> "pending"]
    /\ crawlLock = Nobody
    /\ cycleOpen = FALSE

-----------------------------------------------------------------------------
(* POST /api/crawl: look for an open request, and insert one if there is   *)
(* none.  Two statements, and no constraint behind them.                   *)

Post(c) ==
    /\ client[c] = "idle"
    /\ \E r \in Requests : status[r] = "absent"
    /\ \A r \in Requests : status[r] \notin Open
    /\ client' = [client EXCEPT ![c] = "inserting"]
    /\ UNCHANGED <<requestVars, jobVars, cycleState>>

Insert(c) ==
    /\ client[c] = "inserting"
    /\ client' = [client EXCEPT ![c] = "idle"]
    /\ \/ \E r \in Requests :
             /\ \A q \in Requests : status[q] = "absent" <=> q >= r
             /\ status' = [status EXCEPT ![r] = "queued"]
       \/ /\ \A r \in Requests : status[r] # "absent"
          /\ UNCHANGED status
    /\ UNCHANGED <<age, jobVars, cycleState>>

-----------------------------------------------------------------------------
(* The start and the end of a job.                                         *)

Fire_UnlessRunning(j) ==
    /\ jpc[j] = "idle" /\ \A r \in Requests : status[r] # "running"
    /\ jpc' = [jpc EXCEPT ![j] = IF j \in Drains THEN "expiring"
                                 ELSE IF j \in Legacy THEN "locking"
                                 ELSE "choosing"]
    /\ jage' = [jage EXCEPT ![j] = 0]
    /\ UNCHANGED <<requestVars, client, jreq, result, cycleState>>

Fire(j) ==
    /\ jpc[j] = "idle"
    /\ jpc' = [jpc EXCEPT ![j] = IF j \in Drains THEN "expiring"
                                 ELSE IF j \in Legacy THEN "locking"
                                 ELSE "choosing"]
    /\ jage' = [jage EXCEPT ![j] = 0]
    /\ UNCHANGED <<requestVars, client, jreq, result, cycleState>>

Unlock(j) == crawlLock' = IF crawlLock = j THEN Nobody ELSE crawlLock

\* The job is over: its locals are gone, and its connection with the lock.
Over_KeepsTheRequest(j) ==
    /\ jpc'    = [jpc EXCEPT ![j] = "idle"]
    /\ jage'   = [jage EXCEPT ![j] = 0]
    /\ result' = [result EXCEPT ![j] = "pending"]
    /\ Unlock(j)
    /\ UNCHANGED jreq

Over(j) ==
    /\ jpc'    = [jpc EXCEPT ![j] = "idle"]
    /\ jage'   = [jage EXCEPT ![j] = 0]
    /\ jreq'   = [jreq EXCEPT ![j] = NoRequest]
    /\ result' = [result EXCEPT ![j] = "pending"]
    /\ Unlock(j)

\* A job that is cancelled writes nothing: CancelledError is no Exception.
Cancel(j) ==
    /\ jpc[j] # "idle"
    /\ jage[j] = Timeout
    /\ Over(j)
    /\ UNCHANGED <<requestVars, client, cycleOpen>>

Crash(j) ==
    /\ jpc[j] # "idle"
    /\ Over(j)
    /\ UNCHANGED <<requestVars, client, cycleOpen>>

-----------------------------------------------------------------------------
(* drain_crawl_requests: expire, then claim and run until nothing is left. *)

Stale_AtTheTimeout(r) == status[r] = "running" /\ age[r] >= Timeout
Stale(r)              == status[r] = "running" /\ age[r] > Timeout

ExpireStale(j) ==
    /\ jpc[j] = "expiring"
    /\ status' = [r \in Requests |-> IF Stale(r) THEN "failed" ELSE status[r]]
    /\ jpc' = [jpc EXCEPT ![j] = IF j \in Legacy THEN "locking" ELSE "claiming"]
    /\ UNCHANGED <<age, client, jage, jreq, result, cycleState>>

\* The legacy engine takes the lock before it claims, and for all it claims.
TakeLock(j) ==
    /\ jpc[j] = "locking"
    /\ crawlLock = Nobody
    /\ crawlLock' = j
    /\ jpc' = [jpc EXCEPT ![j] = IF j \in Drains THEN "claiming" ELSE "crawling"]
    /\ UNCHANGED <<requestVars, client, jage, jreq, result, cycleOpen>>

StepAside(j) ==
    /\ jpc[j] = "locking"
    /\ crawlLock # Nobody
    /\ Over(j)
    /\ UNCHANGED <<requestVars, client, cycleOpen>>

Claimable_OpenOnes(r) == status[r] \in Open
Claimable(r)          == status[r] = "queued"

\* claim_crawl_request: the oldest queued one, in one statement.
ClaimRequest(j) ==
    /\ jpc[j] = "claiming"
    /\ \E r \in Requests :
          /\ Claimable(r)
          /\ \A q \in Requests : Claimable(q) => q >= r
          /\ status' = [status EXCEPT ![r] = "running"]
          /\ age'    = [age EXCEPT ![r] = 0]
          /\ jreq'   = [jreq EXCEPT ![j] = r]
    /\ jpc' = [jpc EXCEPT ![j] = IF j \in Legacy THEN "crawling" ELSE "choosing"]
    /\ UNCHANGED <<client, jage, result, cycleState>>

NothingQueued(j) ==
    /\ jpc[j] = "claiming"
    /\ \A r \in Requests : ~Claimable(r)
    /\ Over(j)
    /\ UNCHANGED <<requestVars, client, cycleOpen>>

-----------------------------------------------------------------------------
(* CycleManager.run, as its callers see it.                                *)

Participants == {j \in Jobs : jpc[j] = "inCycle" /\ result[j] = "pending"}

\* A running cycle is joined, unless its heartbeat stopped with its last
\* participant; then it is abandoned first.
Choose(j) ==
    /\ jpc[j] = "choosing"
    /\ \/ /\ cycleOpen
          /\ jpc' = [jpc EXCEPT ![j] = "inCycle"]
          /\ UNCHANGED cycleOpen
       \/ /\ cycleOpen => Participants = {}
          /\ cycleOpen' = FALSE
          /\ jpc' = [jpc EXCEPT ![j] = "starting"]
    /\ UNCHANGED <<requestVars, client, jage, jreq, result, crawlLock>>

StartCycle(j) ==
    /\ jpc[j] = "starting"
    /\ crawlLock = Nobody
    /\ crawlLock' = j
    /\ cycleOpen' = TRUE
    /\ jpc' = [jpc EXCEPT ![j] = "inCycle"]
    /\ UNCHANGED <<requestVars, client, jage, jreq, result>>

\* run() gives up: the lock is held, or the cycle that came first is closed
\* again between start_cycle and running_cycle.
GiveUp(j) ==
    /\ jpc[j] = "starting"
    /\ crawlLock # Nobody \/ cycleOpen
    /\ jpc'    = [jpc EXCEPT ![j] = "returned"]
    /\ result' = [result EXCEPT ![j] = "none"]
    /\ UNCHANGED <<requestVars, client, jage, jreq, cycleState>>

\* One of the participants closes the cycle, and the others read the verdict off
\* its row; there is no row any more if the cycle was a sweep's with nothing due.
CloseCycle(closer) ==
    /\ cycleOpen
    /\ closer \in Participants
    /\ cycleOpen' = FALSE
    /\ \E verdict \in {"answered", "none"} :
          result' = [j \in Jobs |-> IF j \notin Participants THEN result[j]
                                    ELSE IF j = closer THEN "answered" ELSE verdict]
    /\ UNCHANGED <<requestVars, client, jpc, jage, jreq, crawlLock>>

\* A sweep does not wait for the end of a cycle it has no more work in.
LeaveCycle(j) ==
    /\ j \in Sweeps \cap Participants
    /\ Over(j)
    /\ UNCHANGED <<requestVars, client, cycleOpen>>

\* run() returns, and releases the lock if it started the cycle.
RunReturns(j) ==
    /\ jpc[j] = "inCycle"
    /\ result[j] # "pending"
    /\ Unlock(j)
    /\ jpc' = [jpc EXCEPT ![j] = "returned"]
    /\ UNCHANGED <<requestVars, client, jage, jreq, result, cycleOpen>>

\* The legacy engine's run_pipeline returns; the drain keeps the lock.
PipelineReturns(j) ==
    /\ jpc[j] = "crawling"
    /\ jpc'    = [jpc EXCEPT ![j] = "returned"]
    /\ result' = [result EXCEPT ![j] = "answered"]
    /\ UNCHANGED <<requestVars, client, jage, jreq, cycleState>>

\* Either of them raises; the drain answers for it.
RunRaises(j) ==
    /\ jpc[j] \in {"choosing", "starting", "inCycle", "crawling"}
    /\ jpc'    = [jpc EXCEPT ![j] = "returned"]
    /\ result' = [result EXCEPT ![j] = "failed"]
    /\ IF j \in Legacy THEN UNCHANGED crawlLock ELSE Unlock(j)
    /\ UNCHANGED <<requestVars, client, jage, jreq, cycleOpen>>

-----------------------------------------------------------------------------
(* The answer.                                                             *)

\* finish_crawl_request, which looks at no status, and on to the next.
Finish(j) ==
    /\ jpc[j] = "returned"
    /\ j \in Drains
    /\ result[j] \in Answers
    /\ status' = [status EXCEPT ![jreq[j]] = result[j]]
    /\ jpc'    = [jpc EXCEPT ![j] = "claiming"]
    /\ jreq'   = [jreq EXCEPT ![j] = NoRequest]
    /\ result' = [result EXCEPT ![j] = "pending"]
    /\ UNCHANGED <<age, client, jage, cycleState>>

\* requeue_crawl_request, and the tick ends.
PutBack(j) ==
    /\ jpc[j] = "returned"
    /\ j \in Drains
    /\ result[j] = "none"
    /\ status' = [status EXCEPT ![jreq[j]] = IF @ = "running" THEN "queued" ELSE @]
    /\ Over(j)
    /\ UNCHANGED <<age, client, cycleOpen>>

SweepReturns(j) ==
    /\ jpc[j] = "returned"
    /\ j \in Sweeps
    /\ Over(j)
    /\ UNCHANGED <<requestVars, client, cycleOpen>>

-----------------------------------------------------------------------------
(* The environment: the command line and the clock.                        *)

CliRun ==
    /\ crawlLock = Nobody
    /\ crawlLock' = Cli
    /\ UNCHANGED <<requestVars, client, jobVars, cycleOpen>>

CliEnds ==
    /\ crawlLock = Cli
    /\ crawlLock' = Nobody
    /\ UNCHANGED <<requestVars, client, jobVars, cycleOpen>>

\* No job lives past its timeout.
Tick ==
    /\ \A j \in Jobs : jpc[j] # "idle" => jage[j] < Timeout
    /\ jage' = [j \in Jobs |-> IF jpc[j] # "idle" THEN jage[j] + 1 ELSE jage[j]]
    /\ age'  = [r \in Requests |->
                   IF status[r] = "running" /\ age[r] <= Timeout THEN age[r] + 1 ELSE age[r]]
    /\ UNCHANGED <<status, client, jpc, jreq, result, cycleState>>

-----------------------------------------------------------------------------

JobStep(j) ==
    \/ Fire(j) \/ ExpireStale(j) \/ TakeLock(j) \/ StepAside(j)
    \/ ClaimRequest(j) \/ NothingQueued(j)
    \/ Choose(j) \/ StartCycle(j) \/ GiveUp(j) \/ RunReturns(j)
    \/ Finish(j) \/ PutBack(j) \/ SweepReturns(j)

Next ==
    \/ \E c \in Clients : Post(c) \/ Insert(c)
    \/ \E j \in Jobs : JobStep(j) \/ CloseCycle(j) \/ LeaveCycle(j)
                        \/ PipelineReturns(j) \/ RunRaises(j) \/ Cancel(j) \/ Crash(j)
    \/ CliRun \/ CliEnds
    \/ Tick

Spec == Init /\ [][Next]_vars

\* Time passes, and arq fires drains and cancels jobs.  A drain comes by every ten
\* seconds, so it does not die at the same statement each time.  Nothing else is
\* assumed: a job may hang anywhere until it is cancelled, `intel run` for ever.
Fairness ==
    /\ WF_vars(Tick)
    /\ \A j \in Jobs : WF_vars(Cancel(j))
    /\ \A j \in Drains : /\ WF_vars(Fire(j))
                         /\ SF_vars(ExpireStale(j))
                         /\ SF_vars(ClaimRequest(j))

FairSpec == Spec /\ Fairness

-----------------------------------------------------------------------------
(* Properties                                                              *)

\* Every variable holds a value of its type, and a job has a request exactly
\* while it works for one.
SyncTypeOK ==
    /\ status \in [Requests -> {"absent"} \cup Open \cup Answers]
    /\ age    \in [Requests -> 0 .. Timeout + 1]
    /\ client \in [Clients -> {"idle", "inserting"}]
    /\ jpc    \in [Jobs -> {"idle", "expiring", "locking", "claiming", "choosing", "starting",
                            "inCycle", "crawling", "returned"}]
    /\ jage   \in [Jobs -> 0 .. Timeout]
    /\ jreq   \in [Jobs -> Requests \cup {NoRequest}]
    /\ result \in [Jobs -> Answers \cup {"pending", "none"}]
    /\ crawlLock \in Jobs \cup {Nobody, Cli}
    /\ cycleOpen \in BOOLEAN
    /\ \A j \in Drains : jreq[j] # NoRequest <=>
          jpc[j] \in {"choosing", "starting", "inCycle", "crawling", "returned"}
    /\ \A j \in Sweeps : jreq[j] = NoRequest /\ jpc[j] \notin {"expiring", "claiming"}

\* The request a job works for is `running`, and no other job works for it: no
\* two ticks crawl for one click, and nobody gives a request up under a worker
\* that is alive.  finish_crawl_request, which checks nothing, rests on this.
HeldRequestIsRunning ==
    \A j \in Jobs : jreq[j] # NoRequest =>
        /\ status[jreq[j]] = "running"
        /\ \A i \in Jobs : jreq[i] = jreq[j] => i = j

\* The request lifecycle the UI polls: see RequestLife.
Lifecycle == INSTANCE RequestLife
ImplementsLife == Lifecycle!Life

\* No Sync hangs, whatever crashes, hangs or holds the lock: one that waits is
\* claimed, and one that runs is answered or put back, by the tick that claimed
\* it or as failed once that must be dead.  (It may be put back each time it is
\* claimed, by a tick that finds the lock taken.)
RequestsMoveOn ==
    \A r \in Requests, s \in Open : status[r] = s ~> status[r] # s
=============================================================================
