------------------------- MODULE SyncRequestsProofs -------------------------
(***************************************************************************)
(* Proofs about SyncRequests, for any number of clients, jobs and          *)
(* requests, and any timeout.                                              *)
(***************************************************************************)
EXTENDS SyncRequests, TLAPS

\* A job at work for a request has been running at least as long as the request
\* has been its own: this is why expiry cannot reach a request in living hands.
RequestYounger == \A j \in Jobs : jreq[j] # NoRequest => age[jreq[j]] <= jage[j]

SyncInv == SyncTypeOK /\ HeldRequestIsRunning /\ RequestYounger

Working == {"choosing", "starting", "inCycle", "crawling", "returned"}

-----------------------------------------------------------------------------

\* The initial state satisfies the invariant: nobody has claimed anything.
LEMMA SyncInit == Init => SyncInv
<1> SUFFICES ASSUME Init PROVE SyncInv
  OBVIOUS
<1>1. SyncTypeOK
  <2>1. cycleOpen \in BOOLEAN
    BY DEF Init
  <2>2. /\ jpc  = [j \in Jobs |-> "idle"]
        /\ jage = [j \in Jobs |-> 0]
        /\ jreq = [j \in Jobs |-> NoRequest]
    BY DEF Init
  <2>3. \A j \in Jobs : jpc[j] = "idle" /\ jreq[j] = NoRequest
    BY <2>2
  <2>4. /\ status \in [Requests -> {"absent"} \cup Open \cup Answers]
        /\ age    \in [Requests -> 0 .. Timeout + 1]
        /\ client \in [Clients -> {"idle", "inserting"}]
        /\ jage   \in [Jobs -> 0 .. Timeout]
        /\ result \in [Jobs -> Answers \cup {"pending", "none"}]
    BY SyncAssumption DEF Init, Answers, Open
  <2> QED
    BY <2>1, <2>2, <2>3, <2>4 DEF Init, SyncTypeOK, Jobs
<1>2. HeldRequestIsRunning /\ RequestYounger
  BY DEF Init, HeldRequestIsRunning, RequestYounger
<1> QED
  BY <1>1, <1>2 DEF SyncInv

\* Every step keeps the variables in their types, and a request in a job's hands
\* exactly while it works for one.
LEMMA SyncTypeStep == SyncTypeOK /\ [Next]_vars => SyncTypeOK'
<1> USE SyncAssumption DEF SyncTypeOK, Requests, NoRequest, Answers, Open, Jobs
<1> SUFFICES ASSUME SyncTypeOK, [Next]_vars PROVE SyncTypeOK'
  OBVIOUS
<1>1. ASSUME NEW c \in Clients, Post(c) PROVE SyncTypeOK'
  BY <1>1 DEF Post, requestVars, jobVars, cycleState
<1>2. ASSUME NEW c \in Clients, Insert(c) PROVE SyncTypeOK'
  BY <1>2 DEF Insert, requestVars, jobVars, cycleState
<1>3. ASSUME NEW j \in Jobs, Fire(j) PROVE SyncTypeOK'
  BY <1>3 DEF Fire, requestVars, jobVars, cycleState
<1>4. ASSUME NEW j \in Jobs, Over(j), UNCHANGED <<age, client, cycleOpen>>,
             status' \in [Requests -> {"absent"} \cup Open \cup Answers]
      PROVE  SyncTypeOK'
  BY <1>4 DEF Over, Unlock
<1>5. ASSUME NEW j \in Jobs, Cancel(j) \/ Crash(j) \/ StepAside(j) \/ NothingQueued(j)
                             \/ LeaveCycle(j) \/ SweepReturns(j)
      PROVE  SyncTypeOK'
  BY <1>5, <1>4 DEF Cancel, Crash, StepAside, NothingQueued, LeaveCycle, SweepReturns, requestVars
<1>6. ASSUME NEW j \in Jobs, PutBack(j) PROVE SyncTypeOK'
  BY <1>6, <1>4 DEF PutBack
<1>7. ASSUME NEW j \in Jobs, ExpireStale(j) PROVE SyncTypeOK'
  BY <1>7 DEF ExpireStale, cycleState
<1>8. ASSUME NEW j \in Jobs, TakeLock(j) PROVE SyncTypeOK'
  BY <1>8 DEF TakeLock, requestVars
<1>9. ASSUME NEW j \in Jobs, ClaimRequest(j) PROVE SyncTypeOK'
  <2>1. PICK r \in Requests : /\ status' = [status EXCEPT ![r] = "running"]
                              /\ age'    = [age EXCEPT ![r] = 0]
                              /\ jreq'   = [jreq EXCEPT ![j] = r]
    BY <1>9 DEF ClaimRequest
  <2> QED
    BY <1>9, <2>1 DEF ClaimRequest, cycleState
<1>10. ASSUME NEW j \in Jobs, Choose(j) PROVE SyncTypeOK'
  <2>1. cycleOpen' \in BOOLEAN
    BY <1>10 DEF Choose
  <2>2. PICK pc \in {"inCycle", "starting"} : jpc' = [jpc EXCEPT ![j] = pc]
    BY <1>10 DEF Choose
  <2> QED
    BY <1>10, <2>1, <2>2 DEF Choose, requestVars
<1>11. ASSUME NEW j \in Jobs, StartCycle(j) PROVE SyncTypeOK'
  BY <1>11 DEF StartCycle, requestVars
<1>12. ASSUME NEW j \in Jobs, GiveUp(j) PROVE SyncTypeOK'
  BY <1>12 DEF GiveUp, requestVars, cycleState
<1>13. ASSUME NEW j \in Jobs, RunReturns(j) PROVE SyncTypeOK'
  BY <1>13 DEF RunReturns, requestVars, Unlock
<1>14. ASSUME NEW j \in Jobs, Finish(j) PROVE SyncTypeOK'
  BY <1>14 DEF Finish, cycleState
<1>15. ASSUME NEW j \in Jobs, CloseCycle(j) PROVE SyncTypeOK'
  <2>1. PICK verdict \in {"answered", "none"} :
           result' = [i \in Jobs |-> IF i \notin Participants THEN result[i]
                                     ELSE IF i = j THEN "answered" ELSE verdict]
    BY <1>15 DEF CloseCycle
  <2>2. result' \in [Jobs -> Answers \cup {"pending", "none"}]
    BY <2>1
  <2> QED
    BY <1>15, <2>2 DEF CloseCycle, requestVars
<1>16. ASSUME NEW j \in Jobs, PipelineReturns(j) PROVE SyncTypeOK'
  BY <1>16 DEF PipelineReturns, requestVars, cycleState
<1>17. ASSUME NEW j \in Jobs, RunRaises(j) PROVE SyncTypeOK'
  BY <1>17 DEF RunRaises, requestVars, Unlock
<1>18. CASE CliRun \/ CliEnds
  BY <1>18 DEF CliRun, CliEnds, requestVars, jobVars
<1>19. CASE Tick
  BY <1>19 DEF Tick, cycleState
<1>20. CASE UNCHANGED vars
  BY <1>20 DEF vars
<1> QED
  BY <1>1, <1>2, <1>3, <1>5, <1>6, <1>7, <1>8, <1>9, <1>10, <1>11, <1>12, <1>13, <1>14,
     <1>15, <1>16, <1>17, <1>18, <1>19, <1>20 DEF Next, JobStep

\* A job that works for a request is at work, and one of the table.
LEMMA AtWork ==
  ASSUME SyncTypeOK, NEW i \in Jobs, jreq[i] # NoRequest
  PROVE  jreq[i] \in Requests /\ jpc[i] # "idle"
<1>1. jreq[i] \in Requests
  BY DEF SyncTypeOK
<1>2. i \in Drains
  BY DEF SyncTypeOK, Jobs
<1>3. jpc[i] \in Working
  BY <1>2 DEF SyncTypeOK, Working
<1> QED
  BY <1>1, <1>3 DEF Working

\* Every step keeps a claimed request running, in one pair of hands, and younger
\* than its job.
LEMMA HeldStep ==
  ASSUME SyncInv, SyncTypeOK', [Next]_vars
  PROVE  HeldRequestIsRunning' /\ RequestYounger'
<1> USE SyncAssumption DEF SyncInv, SyncTypeOK, HeldRequestIsRunning, RequestYounger,
        Requests, NoRequest, Open, Jobs
<1> DEFINE Held == HeldRequestIsRunning /\ RequestYounger
\* A step that claims nothing, and changes no request in anybody's hands.
<1>1. ASSUME age' = age,
             \A i \in Jobs : /\ jreq'[i] # NoRequest => jreq'[i] = jreq[i] /\ jage'[i] = jage[i]
                             /\ jreq'[i] # NoRequest => status'[jreq[i]] = "running"
      PROVE  Held'
  <2>1. ASSUME NEW i \in Jobs, jreq'[i] # NoRequest
        PROVE  /\ status'[jreq'[i]] = "running"
               /\ age'[jreq'[i]] <= jage'[i]
               /\ \A k \in Jobs : jreq'[k] = jreq'[i] => k = i
    <3>1. /\ jreq'[i] = jreq[i] /\ jage'[i] = jage[i]
          /\ \A k \in Jobs : jreq'[k] = jreq'[i] => jreq'[k] = jreq[k]
      BY <1>1, <2>1
    <3>2. status[jreq[i]] = "running" /\ age[jreq[i]] <= jage[i]
      BY <2>1, <3>1
    <3>3. \A k \in Jobs : jreq[k] = jreq[i] => k = i
      BY <2>1, <3>1
    <3> QED
      BY <1>1, <2>1, <3>1, <3>2, <3>3
  <2>2. Jobs' = Jobs
    BY DEF Jobs
  <2> QED
    BY <2>1, <2>2
<1>2. ASSUME NEW c \in Clients, Post(c) PROVE Held'
  BY <1>2, <1>1 DEF Post, requestVars, jobVars
<1>3. ASSUME NEW c \in Clients, Insert(c) PROVE Held'
  BY <1>3, <1>1 DEF Insert, jobVars
<1>4. ASSUME NEW j \in Jobs, Fire(j) PROVE Held'
  BY <1>4, <1>1 DEF Fire, requestVars
<1>5. ASSUME NEW j \in Jobs, Over(j), age' = age,
             \A i \in Jobs \ {j} : jreq[i] # NoRequest => status'[jreq[i]] = "running"
      PROVE  Held'
  BY <1>5, <1>1 DEF Over
<1>6. ASSUME NEW j \in Jobs, Cancel(j) \/ Crash(j) \/ StepAside(j) \/ NothingQueued(j)
                             \/ LeaveCycle(j) \/ SweepReturns(j)
      PROVE  Held'
  <2>1. Over(j) /\ age' = age /\ status' = status
    BY <1>6 DEF Cancel, Crash, StepAside, NothingQueued, LeaveCycle, SweepReturns, requestVars
  <2> QED
    BY <2>1, <1>5
\* Nobody else works for the request that is put back or answered.
<1>7. ASSUME NEW j \in Jobs, PutBack(j) PROVE Held'
  <2>1. j \in Drains /\ jreq[j] \in Requests
    BY <1>7 DEF PutBack
  <2>2. \A i \in Jobs \ {j} : jreq[i] # NoRequest => status'[jreq[i]] = "running"
    BY <1>7, <2>1 DEF PutBack
  <2> QED
    BY <1>7, <1>5, <2>2 DEF PutBack
<1>8. ASSUME NEW j \in Jobs, Finish(j) PROVE Held'
  BY <1>8, <1>1 DEF Finish
\* A stale request is older than a job can become.
<1>9. ASSUME NEW j \in Jobs, ExpireStale(j) PROVE Held'
  <2>1. \A i \in Jobs : jreq[i] # NoRequest => ~Stale(jreq[i])
    BY DEF Stale
  <2> QED
    BY <1>9, <1>1, <2>1 DEF ExpireStale
\* What is claimed was queued, so nobody worked for it.
<1>10. ASSUME NEW j \in Jobs, ClaimRequest(j) PROVE Held'
  <2>1. PICK r \in Requests : /\ status[r] = "queued"
                              /\ status' = [status EXCEPT ![r] = "running"]
                              /\ age'    = [age EXCEPT ![r] = 0]
                              /\ jreq'   = [jreq EXCEPT ![j] = r]
    BY <1>10 DEF ClaimRequest, Claimable
  <2>2. \A i \in Jobs : jreq[i] # r
    <3> SUFFICES ASSUME NEW i \in Jobs, jreq[i] = r PROVE FALSE
      OBVIOUS
    <3>1. jreq[i] # NoRequest
      BY <2>1
    <3>2. status[jreq[i]] = "running"
      BY <3>1
    <3> QED
      BY <2>1, <3>2
  <2>3. \A i \in Jobs : jreq'[i] = IF i = j THEN r ELSE jreq[i]
    BY <2>1
  <2>4. jage' = jage
    BY <1>10 DEF ClaimRequest
  <2>5. ASSUME NEW i \in Jobs, jreq'[i] # NoRequest
        PROVE  /\ status'[jreq'[i]] = "running"
               /\ age'[jreq'[i]] <= jage'[i]
               /\ \A k \in Jobs : jreq'[k] = jreq'[i] => k = i
    <3>1. CASE i = j
      BY <2>1, <2>2, <2>3, <2>4, <3>1
    <3>2. CASE i # j
      <4>1. jreq'[i] = jreq[i] /\ jreq[i] # r
        BY <2>2, <2>3, <3>2
      <4>2. status'[jreq[i]] = "running" /\ age'[jreq[i]] = age[jreq[i]]
        BY <2>1, <2>5, <4>1
      <4> QED
        BY <2>3, <2>4, <2>5, <4>1, <4>2
    <3> QED
      BY <3>1, <3>2
  <2>6. Jobs' = Jobs
    BY DEF Jobs
  <2> QED
    BY <2>5, <2>6
<1>11. ASSUME NEW j \in Jobs, TakeLock(j) \/ Choose(j) \/ StartCycle(j) \/ GiveUp(j)
                              \/ RunReturns(j) \/ CloseCycle(j) \/ PipelineReturns(j)
                              \/ RunRaises(j)
       PROVE  Held'
  <2>1. age' = age /\ status' = status /\ jreq' = jreq /\ jage' = jage
    BY <1>11 DEF TakeLock, Choose, StartCycle, GiveUp, RunReturns, CloseCycle,
       PipelineReturns, RunRaises, requestVars
  <2> QED
    BY <2>1, <1>1
<1>12. CASE CliRun \/ CliEnds \/ UNCHANGED vars
  BY <1>12, <1>1 DEF CliRun, CliEnds, vars, requestVars, jobVars
\* Both ages grow together.
<1>13. CASE Tick
  <2>1. ASSUME NEW i \in Jobs, jreq[i] # NoRequest
        PROVE  age'[jreq[i]] <= jage'[i]
    <3>1. jreq[i] \in Requests /\ jpc[i] # "idle"
      BY <2>1, AtWork
    <3>2. jage'[i] = jage[i] + 1 /\ age'[jreq[i]] \in {age[jreq[i]], age[jreq[i]] + 1}
      BY <1>13, <3>1 DEF Tick
    <3>3. age[jreq[i]] <= jage[i] /\ age[jreq[i]] \in Nat /\ jage[i] \in Nat
      BY <2>1, <3>1
    <3> QED
      BY <3>2, <3>3
  <2>2. status' = status /\ jreq' = jreq
    BY <1>13 DEF Tick, cycleState
  <2> QED
    BY <2>1, <2>2
<1> QED
  BY <1>2, <1>3, <1>4, <1>6, <1>7, <1>8, <1>9, <1>10, <1>11, <1>12, <1>13 DEF Next, JobStep

LEMMA SyncStep == SyncInv /\ [Next]_vars => SyncInv'
  BY SyncTypeStep, HeldStep DEF SyncInv

LEMMA SyncInvariant == Spec => []SyncInv
  BY SyncInit, SyncStep, PTL DEF Spec

-----------------------------------------------------------------------------

\* All variables keep their types, whatever the jobs, the API, `intel run` and the
\* clock do in any order.
THEOREM SyncTypeCorrect == Spec => []SyncTypeOK
  BY SyncInvariant, PTL DEF SyncInv

\* finish_crawl_request and requeue_crawl_request only ever meet a request that is
\* running for their job alone, for any timeout.
THEOREM HeldRequestsRun == Spec => []HeldRequestIsRunning
  BY SyncInvariant, PTL DEF SyncInv

-----------------------------------------------------------------------------
(* The implementation of RequestLife.                                      *)

LEMMA LifeInit == Init => Lifecycle!Init
  BY DEF Init, Lifecycle!Init, Requests, Lifecycle!Requests

\* Every step of the system is one in the life of a request, or leaves them alone.
LEMMA LifeStep == SyncInv /\ [Next]_vars => [Lifecycle!Next]_status
<1> USE DEF Lifecycle!Requests, Requests, Lifecycle!Answers, Answers
<1> SUFFICES ASSUME SyncInv, [Next]_vars PROVE Lifecycle!Next \/ UNCHANGED status
  OBVIOUS
<1>1. ASSUME NEW c \in Clients, Insert(c) PROVE Lifecycle!Next \/ UNCHANGED status
  BY <1>1 DEF Insert, Lifecycle!Next, Lifecycle!Ask
<1>2. ASSUME NEW j \in Jobs, ExpireStale(j) PROVE Lifecycle!Next
  <2>1. Lifecycle!GiveUp({r \in Requests : Stale(r)})
    BY <1>2 DEF ExpireStale, Stale, Lifecycle!GiveUp
  <2>2. {r \in Requests : Stale(r)} \in SUBSET Requests
    OBVIOUS
  <2> QED
    BY <2>1, <2>2 DEF Lifecycle!Next
<1>3. ASSUME NEW j \in Jobs, ClaimRequest(j) PROVE Lifecycle!Next
  BY <1>3 DEF ClaimRequest, Claimable, Lifecycle!Next, Lifecycle!Take
\* It is a job's own request that is answered or put back, so it is running.
<1>4. ASSUME NEW j \in Drains, jpc[j] = "returned"
      PROVE  jreq[j] \in Requests /\ status[jreq[j]] = "running"
  BY <1>4 DEF SyncInv, SyncTypeOK, HeldRequestIsRunning, Jobs, NoRequest
<1>5. ASSUME NEW j \in Jobs, Finish(j) PROVE Lifecycle!Next
  <2>1. Lifecycle!Answer(jreq[j], result[j])
    BY <1>5, <1>4 DEF Finish, Lifecycle!Answer
  <2> QED
    BY <1>5, <1>4, <2>1 DEF Finish, Lifecycle!Next
<1>6. ASSUME NEW j \in Jobs, PutBack(j) PROVE Lifecycle!Next
  <2>1. Lifecycle!PutBack(jreq[j])
    BY <1>6, <1>4 DEF PutBack, Lifecycle!PutBack, SyncInv, SyncTypeOK
  <2> QED
    BY <1>6, <1>4, <2>1 DEF PutBack, Lifecycle!Next
<1>7. ASSUME NEW c \in Clients, Post(c) PROVE UNCHANGED status
  BY <1>7 DEF Post, requestVars
<1>8. ASSUME NEW j \in Jobs,
             Fire(j) \/ TakeLock(j) \/ StepAside(j) \/ NothingQueued(j) \/ Choose(j)
             \/ StartCycle(j) \/ GiveUp(j) \/ RunReturns(j) \/ SweepReturns(j) \/ CloseCycle(j)
             \/ LeaveCycle(j) \/ PipelineReturns(j) \/ RunRaises(j) \/ Cancel(j) \/ Crash(j)
      PROVE  UNCHANGED status
  BY <1>8 DEF Fire, TakeLock, StepAside, NothingQueued, Choose, StartCycle, GiveUp, RunReturns,
     SweepReturns, CloseCycle, LeaveCycle, PipelineReturns, RunRaises, Cancel, Crash, requestVars
<1>9. CASE CliRun \/ CliEnds \/ Tick \/ UNCHANGED vars
  BY <1>9 DEF CliRun, CliEnds, Tick, vars, requestVars
<1> QED
  BY <1>1, <1>2, <1>3, <1>5, <1>6, <1>7, <1>8, <1>9 DEF Next, JobStep

\* What polls a request sees it queued, taken in the order of asking, perhaps put
\* back, and answered once, for any number of jobs and requests.
THEOREM ImplementsRequestLife == Spec => ImplementsLife
<1>1. Spec => Lifecycle!Init /\ [][Lifecycle!Next]_status
  BY SyncInvariant, LifeInit, LifeStep, PTL DEF Spec
<1> QED
  BY <1>1 DEF ImplementsLife, Lifecycle!Life
=============================================================================
