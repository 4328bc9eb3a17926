-------------------------- MODULE CrawlCycleProofs --------------------------
(***************************************************************************)
(* CrawlCycle implements CrawlQueue: every step of its processes is a step *)
(* of the queue's most general client or leaves the queue alone.  So what  *)
(* CrawlQueueProofs proves of the queue holds of the whole system, for any *)
(* number of processes, tasks and loops and whatever faults they meet.     *)
(*                                                                         *)
(* Then what the processes add, each under a condition that the code does  *)
(* not enforce.  Where no two loops that are on share a name, every        *)
(* outcome belongs to the claim it was fetched under.  Where no run()      *)
(* closes a cycle in which a loop is busy, a closed cycle leaves nothing   *)
(* behind and no cycle discovers more links than its sources may.  Where   *)
(* nobody else works or seeds the cycle of a run(), a lane with waiting    *)
(* pages keeps a loop.  Last, the deployments that meet the conditions.    *)
(***************************************************************************)
EXTENDS CrawlCycle, CrawlQueueProofs

-----------------------------------------------------------------------------
(* The invariant: the processes' variables are well typed, and every cycle *)
(* they name has been started.                                             *)

InCycle == {"abandoning", "opened", "seeding", "ready", "working", "closing", "finalizing",
            "waiting"}

TaskInv ==
    /\ TaskTypeOK
    /\ \A t \in Seeders : /\ tcycle[t] <= lastCycle
                          /\ tpc[t] \in InCycle => tcycle[t] # 0

LoopInv ==
    /\ LoopTypeOK
    /\ \A l \in Loops : /\ lcycle[l] <= lastCycle
                        /\ lbound[l] # 0 => lbound[l] \in Boundaries(SourceOf[lurl[l]])

ProcInv ==
    /\ ProcTypeOK
    /\ serving \in [Procs -> SUBSET Known]
    /\ stale \subseteq Known

RunningAreKnown == RunningCycles \subseteq Known

LocalInv == TaskInv /\ LoopInv /\ ProcInv

\* What listing_boundary concludes is one of the boundaries of the page's source.
LEMMA ListingBoundaryIsBoundary ==
    ASSUME NEW u \in Urls, NEW o, NEW final
    PROVE  /\ ListingBoundary(u, o, final) \in Nat
           /\ ListingBoundary(u, o, final) # 0 =>
                 ListingBoundary(u, o, final) \in Boundaries(SourceOf[u])
  BY QueueAssumption DEF ListingBoundary, Boundaries, PagesOf, UrlsOf, PageOne

\* The id sequence of crawl_cycles only grows.
LEMMA LastCycleGrows ==
    ASSUME QueueTypeOK, [QueueNext]_queueVars
    PROVE  lastCycle \in Nat /\ lastCycle' \in Nat /\ lastCycle <= lastCycle'
<1>1. lastCycle \in Nat
  BY QueueAssumption DEF QueueTypeOK
<1>2. (\E c \in Cycles : StartCycle(c)) \/ UNCHANGED lastCycle
  BY DEF QueueNext, HoldCycleOpen, ReleaseHolds, SeedListing, RequeueDueLinks, Claim, Complete,
         Fail, Settle, PruneListing, SkipRows, EnqueueLinks, SkipDisabled, ReapExpired,
         FinalizeCycle, AbandonCycle, LeaseRunsOut, ComesDue, SetEnabled, cycleVars, queueVars
<1> QED
  BY <1>1, <1>2 DEF StartCycle

LEMMA RunningStayKnown ==
    ASSUME QueueTypeOK, RunningAreKnown, [QueueNext]_queueVars
    PROVE  RunningAreKnown'
<1> USE DEF RunningAreKnown, RunningCycles, Known, QueueTypeOK
<1>1. \/ \E c \in Cycles : StartCycle(c)
      \/ \E c \in Known, scheduled \in BOOLEAN : FinalizeCycle(c, scheduled)
      \/ \E c \in Known : AbandonCycle(c)
      \/ UNCHANGED <<cycleStatus, lastCycle>>
  BY DEF QueueNext, HoldCycleOpen, ReleaseHolds, SeedListing, RequeueDueLinks, Claim, Complete,
         Fail, Settle, PruneListing, SkipRows, EnqueueLinks, SkipDisabled, ReapExpired,
         LeaseRunsOut, ComesDue, SetEnabled, cycleVars, queueVars
<1>2. ASSUME NEW c \in Cycles, StartCycle(c) PROVE RunningAreKnown'
  BY <1>2, QueueAssumption DEF StartCycle, Cycles
<1>3. ASSUME NEW c, NEW scheduled, FinalizeCycle(c, scheduled) PROVE RunningAreKnown'
  BY <1>3, VerdictType DEF FinalizeCycle, Verdicts
<1>4. ASSUME NEW c, AbandonCycle(c) PROVE RunningAreKnown'
  BY <1>4 DEF AbandonCycle
<1> QED
  BY <1>1, <1>2, <1>3, <1>4

\* What a step does not touch keeps its part of the invariant.
LEMMA Frames ==
    ASSUME LocalInv, lastCycle \in Nat, lastCycle' \in Nat, lastCycle <= lastCycle'
    PROVE  /\ UNCHANGED taskVars => TaskInv'
           /\ UNCHANGED loopVars => LoopInv'
           /\ UNCHANGED <<procVars, envVars>> => ProcInv'
<1>1. ASSUME UNCHANGED taskVars PROVE TaskInv'
  BY <1>1, QueueAssumption DEF LocalInv, TaskInv, TaskTypeOK, taskVars
<1>2. ASSUME UNCHANGED loopVars PROVE LoopInv'
  <2>1. LoopTypeOK'
    BY <1>2 DEF LocalInv, LoopInv, LoopTypeOK, loopVars
  <2>2. \A l \in Loops : /\ lcycle'[l] <= lastCycle'
                         /\ lbound'[l] # 0 => lbound'[l] \in Boundaries(SourceOf[lurl'[l]])
    BY <1>2, QueueAssumption DEF LocalInv, LoopInv, LoopTypeOK, loopVars
  <2> QED
    BY <2>1, <2>2 DEF LoopInv
<1>3. ASSUME UNCHANGED <<procVars, envVars>> PROVE ProcInv'
  BY <1>3 DEF LocalInv, ProcInv, ProcTypeOK, procVars, envVars, Known
<1> QED
  BY <1>1, <1>2, <1>3

\* Steps of run() that touch neither the loops nor the process.
LEMMA TaskOnlyStep ==
    ASSUME LocalInv, QueueTypeOK, RunningAreKnown, [QueueNext]_queueVars, NEW t \in Seeders,
           \/ Run(t) \/ RefusedLock(t) \/ LockAndStart(t) \/ Beaten(t) \/ JoinWinner(t)
           \/ BeginSeed(t) \/ SeedRefused(t) \/ SeedSource(t) \/ SeedLinks(t) \/ EndSeed(t)
           \/ AlreadyServing(t) \/ ReapLast(t) \/ NotFinalized(t) \/ Return(t)
    PROVE  LocalInv'
<1>0. lastCycle \in Nat /\ lastCycle' \in Nat /\ lastCycle <= lastCycle'
  BY LastCycleGrows
<1> USE QueueAssumption, CycleAssumption
    DEF LocalInv, TaskInv, TaskTypeOK, InCycle
<1>1. CASE Run(t)
  <2>1. toSeed' \in [Seeders -> SUBSET Sources]
    BY <1>1 DEF Run, Selection, Returned, QueueTypeOK
  <2>2. ASSUME NEW c \in RunningCycles, Join(t, c), UNCHANGED <<relink, crawlLock, byCron>>
        PROVE  TaskInv'
    <3>1. c \in 1 .. lastCycle /\ c \in 0 .. MaxCycles
      BY DEF RunningAreKnown, RunningCycles, Known, Cycles
    <3> QED
      BY <1>0, <2>1, <2>2, <3>1 DEF Join
  <2>3. ASSUME ~(\E c \in RunningCycles : Join(t, c)) PROVE TaskInv'
    BY <1>0, <1>1, <2>1, <2>3 DEF Run, Returned
  <2>4. TaskInv'
    BY <1>1, <2>2, <2>3 DEF Run
  <2> QED
    BY <1>0, <1>1, <2>4, Frames DEF Run
<1>2. CASE RefusedLock(t)
  <2>1. TaskInv'
    BY <1>0, <1>2 DEF RefusedLock
  <2> QED
    BY <1>0, <1>2, <2>1, Frames DEF RefusedLock
<1>3. CASE LockAndStart(t)
  <2>1. TaskInv'
    BY <1>0, <1>3 DEF LockAndStart, StartCycle, Cycles
  <2> QED
    BY <1>0, <1>3, <2>1, Frames DEF LockAndStart
<1>4. CASE Beaten(t)
  <2>1. TaskInv'
    BY <1>0, <1>4 DEF Beaten
  <2> QED
    BY <1>0, <1>4, <2>1, Frames DEF Beaten
<1>5. CASE JoinWinner(t)
  <2>1. toSeed' \in [Seeders -> SUBSET Sources]
    BY <1>5 DEF JoinWinner, Selection, Returned, QueueTypeOK
  <2>2. ASSUME NEW c \in RunningCycles, Join(t, c), UNCHANGED <<relink, crawlLock, byCron>>
        PROVE  TaskInv'
    <3>1. c \in 1 .. lastCycle /\ c \in 0 .. MaxCycles
      BY DEF RunningAreKnown, RunningCycles, Known, Cycles
    <3> QED
      BY <1>0, <2>1, <2>2, <3>1 DEF Join
  <2>3. ASSUME ~(\E c \in RunningCycles : Join(t, c)) PROVE TaskInv'
    BY <1>0, <1>5, <2>1, <2>3 DEF JoinWinner, Returned
  <2>4. TaskInv'
    BY <1>5, <2>2, <2>3 DEF JoinWinner
  <2> QED
    BY <1>0, <1>5, <2>4, Frames DEF JoinWinner
<1>6. CASE BeginSeed(t)
  <2>1. TaskInv'
    BY <1>0, <1>6 DEF BeginSeed
  <2> QED
    BY <1>0, <1>6, <2>1, Frames DEF BeginSeed
<1>7. CASE SeedRefused(t)
  <2>1. TaskInv'
    BY <1>0, <1>7 DEF SeedRefused
  <2> QED
    BY <1>0, <1>7, <2>1, Frames DEF SeedRefused
<1>8. CASE SeedSource(t)
  <2>1. TaskInv'
    BY <1>0, <1>8 DEF SeedSource
  <2> QED
    BY <1>0, <1>8, <2>1, Frames DEF SeedSource
<1>9. CASE SeedLinks(t)
  <2>1. TaskInv'
    BY <1>0, <1>9 DEF SeedLinks
  <2> QED
    BY <1>0, <1>9, <2>1, Frames DEF SeedLinks
<1>10. CASE EndSeed(t)
  <2>1. TaskInv'
    BY <1>0, <1>10 DEF EndSeed
  <2> QED
    BY <1>0, <1>10, <2>1, Frames DEF EndSeed
<1>11. CASE AlreadyServing(t)
  <2>1. TaskInv'
    BY <1>0, <1>11 DEF AlreadyServing
  <2> QED
    BY <1>0, <1>11, <2>1, Frames DEF AlreadyServing
<1>12. CASE ReapLast(t)
  <2>1. TaskInv'
    BY <1>0, <1>12 DEF ReapLast
  <2> QED
    BY <1>0, <1>12, <2>1, Frames DEF ReapLast
<1>13. CASE NotFinalized(t)
  <2>1. TaskInv'
    BY <1>0, <1>13 DEF NotFinalized
  <2> QED
    BY <1>0, <1>13, <2>1, Frames DEF NotFinalized
<1>14. CASE Return(t)
  <2>1. TaskInv'
    BY <1>0, <1>14 DEF Return, Returned
  <2> QED
    BY <1>0, <1>14, <2>1, Frames DEF Return
<1> QED
  BY <1>1, <1>2, <1>3, <1>4, <1>5, <1>6, <1>7, <1>8, <1>9, <1>10, <1>11, <1>12, <1>13, <1>14

\* Steps of a loop, which touch nothing else.
LEMMA LoopOnlyStep ==
    ASSUME LocalInv, QueueTypeOK, [QueueNext]_queueVars, NEW l \in Loops, LoopStep(l)
    PROVE  LocalInv'
<1>0. lastCycle \in Nat /\ lastCycle' \in Nat /\ lastCycle <= lastCycle'
  BY LastCycleGrows
<1> USE QueueAssumption, CycleAssumption
    DEF LocalInv, LoopInv, LoopTypeOK
<1>1. ASSUME NEW u \in Urls, LoopClaim(l, u) PROVE LocalInv'
  <2>1. LoopInv'
    BY <1>0, <1>1 DEF LoopClaim, QueueTypeOK
  <2> QED
    BY <1>0, <1>1, <2>1, Frames DEF LoopClaim
<1>2. CASE LoopExit(l)
  <2>1. LoopInv'
    BY <1>0, <1>2 DEF LoopExit
  <2> QED
    BY <1>0, <1>2, <2>1, Frames DEF LoopExit
<1>3. ASSUME NEW bound \in Nat, NEW found \in BOOLEAN, lpc[l] = "fetching",
             bound # 0 => bound \in Boundaries(SourceOf[lurl[l]]),
             AfterOutcome(l, bound, found)
      PROVE  LocalInv'
  <2>1. LoopInv'
    BY <1>0, <1>3 DEF AfterOutcome
  <2> QED
    BY <1>0, <1>3, <2>1, Frames DEF AfterOutcome
<1>4. ASSUME NEW o, RecordOk(l, o) PROVE LocalInv'
  <2>1. lurl[l] \in Urls
    BY <1>4 DEF RecordOk
  <2> QED
    BY <1>3, <1>4, <2>1, ListingBoundaryIsBoundary DEF RecordOk
<1>5. ASSUME NEW o, RecordFailure(l, o) PROVE LocalInv'
  <2>1. lurl[l] \in Urls
    BY <1>5 DEF RecordFailure
  <2> QED
    BY <1>3, <1>5, <2>1, ListingBoundaryIsBoundary DEF RecordFailure
<1>6. CASE LostLease(l)
  BY <1>3, <1>6 DEF LostLease
<1>7. ASSUME lpc[l] \notin {"off", "fetching"}, Rest(l),
             UNCHANGED <<taskVars, lcycle, lattempt, procVars, envVars>>
      PROVE  LocalInv'
  <2>1. LoopInv'
    BY <1>0, <1>7 DEF Rest
  <2> QED
    BY <1>0, <1>7, <2>1, Frames DEF Rest
<1>8. CASE LoopPrune(l)
  BY <1>7, <1>8 DEF LoopPrune
<1>9. CASE LoopOffer(l)
  <2>1. ASSUME NEW taken \in SUBSET Urls, taken # {}, lpc[l] = "offering",
               lpc' = [lpc EXCEPT ![l] = "linking"], loffer' = [loffer EXCEPT ![l] = taken],
               UNCHANGED <<lurl, lbound, taskVars, lcycle, lattempt, procVars, envVars>>
        PROVE  LocalInv'
    <3>1. LoopInv'
      BY <1>0, <2>1
    <3> QED
      BY <1>0, <2>1, <3>1, Frames
  <2>2. lurl[l] \in Urls /\ LinksOn[lurl[l]] \subseteq Urls
    BY <1>9 DEF LoopOffer
  <2> QED
    BY <1>7, <1>9, <2>1, <2>2 DEF LoopOffer
<1>10. CASE LoopLink(l)
  BY <1>7, <1>10 DEF LoopLink
<1> QED
  BY <1>1, <1>2, <1>4, <1>5, <1>6, <1>8, <1>9, <1>10 DEF LoopStep

\* Steps of run() that also start loops, or change what the process serves or
\* knows to be stale.
LEMMA TaskAndProcessStep ==
    ASSUME LocalInv, QueueTypeOK, [QueueNext]_queueVars, NEW t \in Seeders,
           BeginRun(t) \/ AbandonStale(t) \/ Serve(t) \/ Drained(t) \/ LaneRaises(t) \/ Finalize(t)
    PROVE  LocalInv'
<1>0. lastCycle \in Nat /\ lastCycle' \in Nat /\ lastCycle <= lastCycle'
  BY LastCycleGrows
<1>k. Known \subseteq Known'
  BY <1>0 DEF Known
<1> USE QueueAssumption, CycleAssumption
    DEF LocalInv, TaskInv, TaskTypeOK, InCycle, ProcInv, ProcTypeOK
<1>1. CASE BeginRun(t)
  <2>1. TaskInv'
    <3>1. \A c \in stale : c \in 1 .. lastCycle /\ c \in 0 .. MaxCycles
      BY DEF Known, Cycles
    <3> QED
      BY <1>0, <1>1, <3>1 DEF BeginRun
  <2>2. ProcInv'
    BY <1>k, <1>1 DEF BeginRun, procVars
  <2> QED
    BY <1>0, <1>1, <2>1, <2>2, Frames DEF BeginRun
<1>2. CASE AbandonStale(t)
  <2>1. TaskInv'
    BY <1>0, <1>2 DEF AbandonStale
  <2>2. ProcInv'
    BY <1>k, <1>2 DEF AbandonStale, envVars
  <2> QED
    BY <1>0, <1>2, <2>1, <2>2, Frames DEF AbandonStale
<1>3. CASE Serve(t)
  <2>1. TaskInv'
    BY <1>0, <1>3 DEF Serve
  <2>2. LoopInv'
    BY <1>0, <1>3 DEF Serve, LoopInv, LoopTypeOK, FreeCrew, FreeCrews, LoopsIn
  <2>3. tcycle[t] \in Known /\ tcycle[t] \in Cycles
    BY <1>3 DEF Serve, Known, Cycles
  <2>4. ProcInv'
    <3>1. awaitedBy' \in [Crews -> Seeders \cup {NoTask}] /\ failedReaper' \in SUBSET Crews
      BY <1>3 DEF Serve
    <3> QED
      BY <1>k, <1>3, <2>3, <3>1 DEF Serve, envVars
  <2> QED
    BY <2>1, <2>2, <2>4
<1>4. CASE Drained(t)
  <2>1. TaskInv'
    BY <1>0, <1>4 DEF Drained, Returned
  <2>2. ProcInv'
    BY <1>k, <1>4 DEF Drained, GatherEnds, envVars
  <2> QED
    BY <1>0, <1>4, <2>1, <2>2, Frames DEF Drained
<1>5. CASE LaneRaises(t)
  <2>1. TaskInv'
    BY <1>0, <1>5 DEF LaneRaises, Returned
  <2>2. ProcInv'
    BY <1>k, <1>5 DEF LaneRaises, GatherEnds, envVars
  <2> QED
    BY <1>0, <1>5, <2>1, <2>2, Frames DEF LaneRaises
<1>6. CASE Finalize(t)
  <2>1. TaskInv'
    BY <1>0, <1>6 DEF Finalize, Returned
  <2>2. ProcInv'
    BY <1>k, <1>6 DEF Finalize, envVars
  <2> QED
    BY <1>0, <1>6, <2>1, <2>2, Frames DEF Finalize
<1> QED
  BY <1>1, <1>2, <1>3, <1>4, <1>5, <1>6

\* What an error does to a loop, and to the task that awaits it.
LEMMA LoopErrorStep ==
    ASSUME LocalInv, QueueTypeOK, [QueueNext]_queueVars, NEW l \in Loops,
           SwallowError(l) \/ LoopRaises(l)
    PROVE  LocalInv'
<1>0. lastCycle \in Nat /\ lastCycle' \in Nat /\ lastCycle <= lastCycle'
  BY LastCycleGrows
<1>k. Known \subseteq Known'
  BY <1>0 DEF Known
<1> USE QueueAssumption, CycleAssumption DEF LocalInv, ProcInv, ProcTypeOK
<1>1. CASE SwallowError(l)
  <2>1. LoopInv'
    BY <1>0, <1>1 DEF SwallowError, Rest, LoopInv, LoopTypeOK
  <2>2. ProcInv'
    BY <1>k, <1>1 DEF SwallowError, procVars
  <2> QED
    BY <1>0, <1>1, <2>1, <2>2, Frames DEF SwallowError
<1>2. CASE LoopRaises(l)
  <2>1. LoopInv'
    BY <1>0, <1>2 DEF LoopRaises, LoopInv, LoopTypeOK
  <2>2. failedReaper' \in SUBSET Crews /\ stale' = stale /\ faults' \in Nat /\ inputs' = inputs
    BY <1>2, CrewAssumption DEF LoopRaises
  <2>3. CASE awaitedBy[CrewOf[l]] = NoTask
    <3>1. UNCHANGED <<taskVars, serving, awaitedBy>>
      BY <1>2, <2>3 DEF LoopRaises
    <3>2. ProcInv'
      BY <1>k, <2>2, <3>1
    <3> QED
      BY <1>0, <2>1, <3>1, <3>2, Frames
  <2>4. ASSUME NEW t \in Seeders, GatherEnds(t), Returned(t) PROVE LocalInv'
    <3>1. TaskInv'
      BY <1>0, <2>4 DEF Returned, TaskInv, TaskTypeOK, InCycle
    <3>2. ProcInv'
      BY <1>k, <2>2, <2>4 DEF GatherEnds
    <3> QED
      BY <2>1, <3>1, <3>2
  <2>5. awaitedBy[CrewOf[l]] \in Seeders \cup {NoTask}
    BY CrewAssumption
  <2> QED
    BY <1>2, <2>3, <2>4, <2>5 DEF LoopRaises
<1> QED
  BY <1>1, <1>2

\* Steps of the reapers and of the environment.
LEMMA OtherStep ==
    ASSUME LocalInv, QueueTypeOK, [QueueNext]_queueVars,
           \/ \E p \in Procs : Heartbeat(p) \/ Crash(p) \/ LoseReaper(p)
           \/ \E t \in Seeders : JobTimeout(t)
           \/ \E c \in Known : GoesStale(c)
           \/ \E s \in Sources, on \in BOOLEAN : Toggle(s, on)
           \/ UNCHANGED localVars
    PROVE  LocalInv'
<1>0. lastCycle \in Nat /\ lastCycle' \in Nat /\ lastCycle <= lastCycle'
  BY LastCycleGrows
<1>k. Known \subseteq Known'
  BY <1>0 DEF Known
<1> USE QueueAssumption, CycleAssumption
    DEF LocalInv, ProcInv, ProcTypeOK
<1>1. ASSUME NEW p \in Procs, Heartbeat(p) PROVE LocalInv'
  BY <1>0, <1>k, <1>1, Frames DEF Heartbeat, envVars
<1>2. ASSUME NEW ts, NEW ls, Gone(ts, ls) PROVE TaskInv' /\ LoopInv'
  <2>1. TaskInv'
    BY <1>0, <1>2 DEF Gone, TaskInv, TaskTypeOK, InCycle
  <2>2. LoopInv'
    BY <1>0, <1>2 DEF Gone, LoopInv, LoopTypeOK
  <2> QED
    BY <2>1, <2>2
<1>3. ASSUME NEW p \in Procs, Crash(p) PROVE LocalInv'
  <2>1. ProcInv'
    BY <1>k, <1>3 DEF Crash, Gone
  <2> QED
    BY <1>2, <1>3, <2>1 DEF Crash
<1>4. ASSUME NEW t \in Seeders, JobTimeout(t) PROVE LocalInv'
  <2>1. /\ serving' \in [Procs -> SUBSET Cycles] /\ serving' \in [Procs -> SUBSET Known]
        /\ awaitedBy' \in [Crews -> Seeders \cup {NoTask}]
    <3>1. CASE GatherEnds(t)
      BY <3>1 DEF GatherEnds
    <3>2. CASE UNCHANGED <<serving, awaitedBy>>
      BY <3>2
    <3> QED
      BY <1>4, <3>1, <3>2 DEF JobTimeout
  <2>2. /\ UNCHANGED <<failedReaper, stale, inputs>> /\ faults' \in Nat
    BY <1>4 DEF JobTimeout, Gone
  <2>3. ProcInv'
    BY <1>k, <2>1, <2>2
  <2> QED
    BY <1>2, <1>4, <2>3 DEF JobTimeout
<1>5. ASSUME NEW p \in Procs, LoseReaper(p) PROVE LocalInv'
  BY <1>0, <1>k, <1>5, CrewAssumption, Frames DEF LoseReaper, Reaping
<1>6. ASSUME NEW c \in Known, GoesStale(c) PROVE LocalInv'
  BY <1>0, <1>k, <1>6, Frames DEF GoesStale, envVars, QueueTypeOK, Cycles, Known
<1>7. ASSUME NEW s \in Sources, NEW on, Toggle(s, on) PROVE LocalInv'
  BY <1>0, <1>k, <1>7, Frames DEF Toggle, procVars
<1>8. CASE UNCHANGED localVars
  BY <1>0, <1>8, Frames DEF localVars, taskVars, loopVars, procVars, envVars
<1> QED
  BY <1>1, <1>3, <1>4, <1>5, <1>6, <1>7, <1>8

\* The processes' variables after a step, given what it does to the queue.

LEMMA LocalStep ==
    ASSUME LocalInv, QueueTypeOK, RunningAreKnown, [QueueNext]_queueVars, [Next]_vars
    PROVE  LocalInv'
<1>1. ASSUME NEW t \in Seeders, TaskStep(t) PROVE LocalInv'
  BY <1>1, TaskOnlyStep, TaskAndProcessStep DEF TaskStep
<1>2. \/ \E t \in Seeders : TaskStep(t)
      \/ \E l \in Loops : LoopStep(l)
      \/ \E p \in Procs : Heartbeat(p) \/ Crash(p) \/ LoseReaper(p)
      \/ \E t \in Seeders : JobTimeout(t)
      \/ \E l \in Loops : SwallowError(l) \/ LoopRaises(l)
      \/ \E c \in Known : GoesStale(c)
      \/ \E s \in Sources, on \in BOOLEAN : Toggle(s, on)
      \/ UNCHANGED localVars
  BY DEF Next, Reap, SkipDisabledOf, Clock, Quiet, vars, localVars
<1> QED
  BY <1>1, <1>2, LoopOnlyStep, LoopErrorStep, OtherStep

-----------------------------------------------------------------------------
(* The refinement.                                                         *)

LEMMA LoopsWorkKnown ==
    ASSUME LoopInv, QueueTypeOK
    PROVE  \A l \in Loops : lpc[l] # "off" => lcycle[l] \in Known
<1>1. \A l \in Loops : lastCycle \in Nat /\ lcycle[l] \in Nat
  BY QueueAssumption DEF QueueTypeOK, LoopInv, LoopTypeOK
<1> QED
  BY <1>1 DEF Known, LoopInv, LoopTypeOK

\* Every step of the processes is a step of the queue's most general client, or
\* leaves the queue as it is.
LEMMA StepRefines ==
    ASSUME LocalInv, QueueTypeOK, RunningAreKnown, [Next]_vars
    PROVE  [QueueNext]_queueVars
<1> USE CycleAssumption DEF LocalInv, TaskInv, TaskTypeOK, InCycle
<1>1. ASSUME NEW t \in Seeders, tpc[t] \in InCycle
      PROVE  tcycle[t] \in Known
  <2>1. lastCycle \in Nat /\ tcycle[t] \in Nat
    BY QueueAssumption DEF QueueTypeOK
  <2> QED
    BY <1>1, <2>1 DEF Known
<1>0. \A l \in Loops : lpc[l] # "off" => lcycle[l] \in Known
  BY LoopsWorkKnown
<1>2. ASSUME NEW t \in Seeders, TaskStep(t)
      PROVE  [QueueNext]_queueVars
  <2>1. CASE AbandonStale(t)
    BY <1>1, <2>1 DEF AbandonStale, QueueNext
  <2>2. CASE LockAndStart(t)
    BY <2>2 DEF LockAndStart, QueueNext
  <2>3. CASE BeginSeed(t)
    BY <1>1, <2>3 DEF BeginSeed, QueueNext
  <2>4. CASE SeedSource(t)
    <3>1. \A s \in Sources : PagesToSeed(s) \subseteq PagesOf(s)
      BY DEF PagesToSeed
    <3>2. toSeed[t] \subseteq Sources /\ (t \notin Scheduled) \in BOOLEAN
      OBVIOUS
    <3> QED
      BY <2>4, <3>1, <3>2 DEF SeedSource, QueueNext
  <2>5. CASE SeedLinks(t)
    BY <2>5 DEF SeedLinks, QueueNext
  <2>6. CASE EndSeed(t)
    BY <2>6 DEF EndSeed, QueueNext
  <2>7. CASE ReapLast(t)
    BY <2>7 DEF ReapLast, QueueNext
  <2>8. CASE Finalize(t)
    <3>1. (tcycle[t] \in byCron) \in BOOLEAN
      OBVIOUS
    <3> QED
      BY <1>1, <2>8, <3>1 DEF Finalize, QueueNext
  <2>9. CASE UNCHANGED queueVars
    BY <2>9
  <2> QED
    BY <1>2, <2>1, <2>2, <2>3, <2>4, <2>5, <2>6, <2>7, <2>8, <2>9
    DEF TaskStep, BeginRun, Run, RefusedLock, Beaten, JoinWinner, SeedRefused, Serve,
        AlreadyServing, Drained, LaneRaises, NotFinalized, Return
<1>3. ASSUME NEW l \in Loops, LoopStep(l)
      PROVE  [QueueNext]_queueVars
  <2> USE DEF LoopInv, LoopTypeOK
  <2>0. NameOf[l] \in Workers
    BY CrewAssumption
  <2>1. ASSUME lpc[l] # "off" PROVE lcycle[l] \in Known
    BY <1>0, <2>1
  <2>2. ASSUME lpc[l] \notin {"off", "idle"} PROVE lurl[l] \in Urls /\ SourceOf[lurl[l]] \in Sources
    BY <2>2, QueueAssumption
  <2>3. ASSUME NEW u \in Urls, LoopClaim(l, u) PROVE QueueNext
    BY <2>0, <2>1, <2>3 DEF LoopClaim, QueueNext
  <2>4. ASSUME NEW o, RecordOk(l, o) PROVE QueueNext
    BY <2>0, <2>2, <2>4 DEF RecordOk, QueueNext
  <2>5. ASSUME NEW o, RecordFailure(l, o) PROVE QueueNext
    <3>1. (o = "transient") \in BOOLEAN
      OBVIOUS
    <3> QED
      BY <2>0, <2>2, <2>5, <3>1 DEF RecordFailure, QueueNext
  <2>6. CASE LoopPrune(l)
    <3>1. lbound[l] \in Boundaries(SourceOf[lurl[l]])
      BY <2>6 DEF LoopPrune
    <3> QED
      BY <2>1, <2>2, <2>6, <3>1 DEF LoopPrune, QueueNext
  <2>7. CASE LoopLink(l)
    <3>1. SourceOf[lurl[l]] \in Sources /\ lcycle[l] \in Known
      BY <2>1, <2>2, <2>7 DEF LoopLink
    <3>2. EnqueueLinks(SourceOf[lurl[l]], lcycle[l], loffer[l])
      BY <2>7 DEF LoopLink
    <3>3. loffer[l] \in SUBSET {u \in UrlsOf(SourceOf[lurl[l]]) : IsLink(u)}
      BY <3>2 DEF EnqueueLinks
    <3> QED
      BY <3>1, <3>2, <3>3 DEF QueueNext
  <2>8. CASE UNCHANGED queueVars
    BY <2>8
  <2> QED
    BY <1>3, <2>3, <2>4, <2>5, <2>6, <2>7, <2>8
    DEF LoopStep, LoopExit, LostLease, LoopOffer
<1>4. ASSUME NEW ts \in SUBSET Seeders, NEW ls, Gone(ts, ls)
      PROVE  [QueueNext]_queueVars
  <2>1. UNCHANGED <<rowVars, enabled, cycleStatus, lastCycle>>
    BY <1>4 DEF Gone
  <2>2. CASE \E t \in ts : held[t] # 0
    BY <1>4, <2>1, <2>2 DEF Gone, ReleaseHolds, QueueNext
  <2>3. CASE \A t \in ts : held[t] = 0
    <3>1. held' = held
      BY <1>4, <2>3 DEF Gone, QueueTypeOK
    <3> QED
      BY <2>1, <3>1 DEF queueVars, rowVars
  <2> QED
    BY <2>2, <2>3
<1>5. ASSUME NEW p \in Procs,
             Reap(p) \/ SkipDisabledOf(p) \/ Heartbeat(p) \/ Crash(p) \/ LoseReaper(p)
      PROVE  [QueueNext]_queueVars
  <2>1. CASE Reap(p)
    BY <2>1 DEF Reap, QueueNext
  <2>2. CASE SkipDisabledOf(p)
    BY <1>0, <2>2 DEF SkipDisabledOf, Reaping, QueueNext
  <2>3. CASE Crash(p)
    BY <1>4, <2>3 DEF Crash, TasksOf
  <2>4. CASE UNCHANGED queueVars
    BY <2>4
  <2> QED
    BY <1>5, <2>1, <2>2, <2>3, <2>4 DEF Heartbeat, LoseReaper
<1>6. ASSUME NEW t \in Seeders, JobTimeout(t)
      PROVE  [QueueNext]_queueVars
  BY <1>4, <1>6 DEF JobTimeout
<1>7. ASSUME NEW s \in Sources, NEW on \in BOOLEAN, Toggle(s, on)
      PROVE  [QueueNext]_queueVars
  BY <1>7 DEF Toggle, QueueNext
<1>8. CASE Clock
  BY <1>8 DEF Clock, QueueNext
<1>9. CASE UNCHANGED queueVars
  BY <1>9
<1> QED
  BY <1>2, <1>3, <1>5, <1>6, <1>7, <1>8, <1>9
     DEF Next, SwallowError, LoopRaises, GoesStale, Quiet, vars, queueVars

\* The invariant of the whole system.
CycleInv == QueueTypeOK /\ RunningAreKnown /\ LocalInv

LEMMA CycleInvInit == Init => CycleInv
<1> SUFFICES ASSUME Init PROVE CycleInv
  OBVIOUS
<1> USE QueueAssumption, CycleAssumption DEF Init
<1>1. QueueTypeOK
  BY DEF QueueInit, QueueTypeOK, Statuses, Active, Waiting, Closed, Cycles
<1>2. RunningAreKnown
  BY DEF QueueInit, RunningAreKnown, RunningCycles
<1>3. TaskInv
  BY DEF QueueInit, TaskInv, TaskTypeOK, InCycle
<1>4. LoopInv
  BY DEF QueueInit, LoopInv, LoopTypeOK
<1>5. ProcInv
  BY DEF ProcInv, ProcTypeOK
<1> QED
  BY <1>1, <1>2, <1>3, <1>4, <1>5 DEF CycleInv, LocalInv

LEMMA CycleInvStep ==
    ASSUME CycleInv, [Next]_vars
    PROVE  CycleInv' /\ [QueueNext]_queueVars
<1>1. [QueueNext]_queueVars
  BY StepRefines DEF CycleInv
<1>2. QueueTypeOK'
  BY <1>1, QueueTypeStep DEF CycleInv
<1>3. RunningAreKnown'
  BY <1>1, RunningStayKnown DEF CycleInv
<1>4. LocalInv'
  BY <1>1, LocalStep DEF CycleInv
<1> QED
  BY <1>1, <1>2, <1>3, <1>4 DEF CycleInv

LEMMA CycleInvHolds == Spec => []CycleInv
<1>1. CycleInv /\ [Next]_vars => CycleInv'
  BY CycleInvStep
<1> QED
  BY CycleInvInit, <1>1, PTL DEF Spec

\* The variables of the processes are always well typed, and a loop keeps its
\* claim, its boundary and its offer exactly as long as it needs them.
THEOREM CycleTypeCorrect == Spec => []CycleTypeOK
<1>1. CycleInv => CycleTypeOK
  BY DEF CycleInv, LocalInv, TaskInv, LoopInv, ProcInv, CycleTypeOK
<1> QED
  BY CycleInvHolds, <1>1, PTL

\* The processes of manager.py and worker.py use the queue only as its most
\* general client does: whatever they do, the queue's own specification holds.
THEOREM ImplementsQueue == Spec => QueueSpec
<1>1. Init => QueueInit
  BY DEF Init
<1>2. CycleInv /\ [Next]_vars => [QueueNext]_queueVars
  BY CycleInvStep
<1> QED
  BY CycleInvHolds, <1>1, <1>2, PTL DEF Spec, QueueSpec

\* No URL is claimed more than MaxAttempts times between two schedulings, in the
\* whole system.
THEOREM SystemBoundsAttempts == Spec => []AttemptsBounded
  BY ImplementsQueue, AttemptsAreBounded, PTL

\* No lane and no source ever has more live leases than its limit, in the whole
\* system.
THEOREM SystemKeepsLimits == Spec => []LimitsHold
  BY ImplementsQueue, LimitsAlwaysHold, PTL

\* No listing page is ever left waiting in a cycle that is over, in the whole
\* system.
THEOREM SystemKeepsListingsOpen == Spec => []ListingInOpenCycle
  BY ImplementsQueue, ListingStaysInOpenCycle, PTL

\* While a loop holds a live lease nobody else touches its row, in the whole
\* system.
THEOREM SystemKeepsLeasesExclusive == Spec => LiveLeaseIsExclusive
  BY ImplementsQueue, LiveLeasesAreExclusive, PTL

-----------------------------------------------------------------------------
(* Claims.  What a loop fetches is, as long as it holds the lease, what it *)
(* claimed: the same attempt of the same cycle.                            *)

\* What is running was running before, for the same claim.
NoNewClaim ==
    \A u \in Urls : status'[u] = "running" =>
        /\ status[u] = "running" /\ leasedBy'[u] = leasedBy[u]
        /\ attempt'[u] = attempt[u] /\ cycleId'[u] = cycleId[u]

\* No statement of the queue but _CLAIM_SQL makes a URL `running`, and none moves
\* one that is, or changes whose it is.
LEMMA OnlyClaimsRun ==
    ASSUME QueueTypeOK
    PROVE  /\ UNCHANGED rowVars \/ ReapExpired => NoNewClaim
           /\ \A t, s, n, force : SeedListing(t, s, n, force) => NoNewClaim
           /\ \A t, s : RequeueDueLinks(t, s) => NoNewClaim
           /\ \A s, c, offered : EnqueueLinks(s, c, offered) => NoNewClaim
           /\ \A s, c, after : PruneListing(s, c, after) => NoNewClaim
           /\ \A w, u : Complete(w, u) => NoNewClaim
           /\ \A w, u, transient : Fail(w, u, transient) => NoNewClaim
           /\ \A c : SkipDisabled(c) \/ AbandonCycle(c) => NoNewClaim
           /\ \A u : LeaseRunsOut(u) \/ ComesDue(u) => NoNewClaim
<1> USE DEF NoNewClaim, QueueTypeOK
<1>1. ASSUME UNCHANGED rowVars PROVE NoNewClaim
  BY <1>1 DEF rowVars
<1>2. ASSUME NEW c, NEW batch, NEW force, EnqueueRows(c, batch, force) PROVE NoNewClaim
  BY <1>2 DEF EnqueueRows, Reschedule, Fresh, Adoptable, Waiting, Finished
<1>3. ASSUME NEW t, NEW s, NEW n, NEW force, SeedListing(t, s, n, force) PROVE NoNewClaim
  BY <1>2, <1>3 DEF SeedListing
<1>4. ASSUME NEW s, NEW c, NEW offered, EnqueueLinks(s, c, offered) PROVE NoNewClaim
  BY <1>2, <1>4 DEF EnqueueLinks
<1>5. ASSUME NEW t, NEW s, RequeueDueLinks(t, s) PROVE NoNewClaim
  <2>1. PICK taken \in SUBSET DueLinks(s) :
            \E outOfScope \in SUBSET taken :
               RequeueRows(held[t], taken \ outOfScope, outOfScope)
    BY <1>5 DEF RequeueDueLinks
  <2>2. PICK outOfScope \in SUBSET taken :
            RequeueRows(held[t], taken \ outOfScope, outOfScope)
    BY <2>1
  <2>3. \A u \in taken : status[u] # "running"
    BY DEF DueLinks, Reschedule, Finished
  <2> QED
    BY <2>2, <2>3 DEF RequeueRows
<1>6. ASSUME NEW u, NEW st, st # "running", Settle(u, st) PROVE NoNewClaim
  BY <1>6 DEF Settle
<1>7. ASSUME NEW w, NEW u, Complete(w, u) PROVE NoNewClaim
  BY <1>6, <1>7 DEF Complete
<1>8. ASSUME NEW w, NEW u, NEW transient, Fail(w, u, transient) PROVE NoNewClaim
  BY <1>6, <1>8 DEF Fail, AfterFailure
<1>9. ASSUME NEW rows, SkipRows(rows) PROVE NoNewClaim
  BY <1>9 DEF SkipRows
<1>10. ASSUME NEW c, SkipDisabled(c) PROVE NoNewClaim
  BY <1>9, <1>10 DEF SkipDisabled
<1>11. ASSUME ReapExpired PROVE NoNewClaim
  BY <1>11 DEF ReapExpired, AfterFailure
<1>12. ASSUME NEW c, AbandonCycle(c) PROVE NoNewClaim
  BY <1>12 DEF AbandonCycle
<1>13. ASSUME NEW u, LeaseRunsOut(u) \/ ComesDue(u) PROVE NoNewClaim
  BY <1>13 DEF LeaseRunsOut, ComesDue
<1>14. ASSUME NEW s, NEW c, NEW after, PruneListing(s, c, after) PROVE NoNewClaim
  BY <1>9, <1>14 DEF PruneListing
<1> QED
  BY <1>1, <1>3, <1>4, <1>5, <1>7, <1>8, <1>10, <1>11, <1>12, <1>13, <1>14

\* So in the whole system only a loop's claim makes a URL `running`.
LEMMA OnlyLoopsClaim ==
    ASSUME QueueTypeOK, [Next]_vars
    PROVE  NoNewClaim \/ \E l \in Loops, u \in Urls : LoopClaim(l, u)
<1>1. ASSUME NEW t \in Seeders, TaskStep(t) PROVE NoNewClaim
  BY <1>1, OnlyClaimsRun
  DEF TaskStep, BeginRun, AbandonStale, Run, RefusedLock, LockAndStart, Beaten, JoinWinner,
      BeginSeed, SeedRefused, SeedSource, SeedLinks, EndSeed, Serve, AlreadyServing, Drained,
      LaneRaises, ReapLast, Finalize, NotFinalized, Return, StartCycle, HoldCycleOpen, ReleaseHolds,
      FinalizeCycle, queueVars, rowVars
<1>2. ASSUME NEW l \in Loops, LoopStep(l), ~\E u \in Urls : LoopClaim(l, u) PROVE NoNewClaim
  BY <1>2, OnlyClaimsRun
  DEF LoopStep, LoopExit, RecordOk, RecordFailure, LostLease, LoopPrune, LoopOffer, LoopLink,
      queueVars, rowVars
<1>3. ASSUME NEW p \in Procs,
             Reap(p) \/ SkipDisabledOf(p) \/ Heartbeat(p) \/ Crash(p) \/ LoseReaper(p)
      PROVE  NoNewClaim
  BY <1>3, OnlyClaimsRun
  DEF Reap, SkipDisabledOf, Heartbeat, Crash, LoseReaper, Gone, queueVars, rowVars
<1>4. ASSUME NEW t \in Seeders, JobTimeout(t) PROVE NoNewClaim
  BY <1>4, OnlyClaimsRun DEF JobTimeout, Gone
<1>5. ASSUME NEW l \in Loops, SwallowError(l) \/ LoopRaises(l) PROVE NoNewClaim
  BY <1>5, OnlyClaimsRun DEF SwallowError, LoopRaises, queueVars, rowVars
<1>6. ASSUME NEW c \in Known, GoesStale(c) PROVE NoNewClaim
  BY <1>6, OnlyClaimsRun DEF GoesStale, queueVars, rowVars
<1>7. ASSUME NEW s \in Sources, NEW on \in BOOLEAN, Toggle(s, on) PROVE NoNewClaim
  BY <1>7, OnlyClaimsRun DEF Toggle, SetEnabled
<1>8. CASE Clock
  BY <1>8, OnlyClaimsRun DEF Clock
<1>9. CASE UNCHANGED vars
  BY <1>9, OnlyClaimsRun DEF vars, rowVars
<1> QED
  BY <1>1, <1>2, <1>3, <1>4, <1>5, <1>6, <1>7, <1>8, <1>9 DEF Next, Quiet

\* What a loop is fetching, if it is still leased in the loop's name, is what the
\* loop claimed.
ClaimInv ==
    \A l \in Loops :
        LET u == lurl[l] IN
        lpc[l] = "fetching" /\ HoldsLease(NameOf[l], u)
           => attempt[u] = lattempt[l] /\ cycleId[u] = lcycle[l]

\* A loop that is fetching after a step which is not its claim was fetching
\* before, and goes on with what it had.
LEMMA FetchingGoesOn ==
    ASSUME CycleInv, [Next]_vars, NEW l \in Loops, lpc'[l] = "fetching",
           ~\E u \in Urls : LoopClaim(l, u)
    PROVE  /\ lpc[l] = "fetching" /\ lurl'[l] = lurl[l]
           /\ lattempt'[l] = lattempt[l] /\ lcycle'[l] = lcycle[l]
<1> USE DEF CycleInv, LocalInv, LoopInv, LoopTypeOK
<1> DEFINE Goal == /\ lpc[l] = "fetching" /\ lurl'[l] = lurl[l]
                   /\ lattempt'[l] = lattempt[l] /\ lcycle'[l] = lcycle[l]
<1>1. CASE UNCHANGED loopVars
  BY <1>1 DEF loopVars
<1>2. ASSUME NEW t \in Seeders, Serve(t) PROVE Goal
  BY <1>2 DEF Serve
<1>3. ASSUME NEW k \in Loops, LoopStep(k), k # l PROVE Goal
  BY <1>3 DEF LoopStep, LoopClaim, LoopExit, RecordOk, RecordFailure, LostLease, AfterOutcome,
     LoopPrune, LoopOffer, LoopLink, Rest
<1>4. CASE LoopStep(l)
  BY <1>4 DEF LoopStep, LoopExit, RecordOk, RecordFailure, LostLease, AfterOutcome,
     LoopPrune, LoopOffer, LoopLink, Rest
<1>5. ASSUME NEW ts, NEW ls, Gone(ts, ls) PROVE Goal
  BY <1>5 DEF Gone
<1>6. ASSUME NEW k \in Loops, SwallowError(k) \/ LoopRaises(k) PROVE Goal
  BY <1>6 DEF SwallowError, Rest, LoopRaises
<1>7. ASSUME NEW t \in Seeders, TaskStep(t) PROVE Goal
  BY <1>1, <1>2, <1>7
  DEF TaskStep, BeginRun, AbandonStale, Run, RefusedLock, LockAndStart, Beaten, JoinWinner,
      BeginSeed, SeedRefused, SeedSource, SeedLinks, EndSeed, AlreadyServing, Drained, LaneRaises,
      ReapLast, Finalize, NotFinalized, Return
<1>8. ASSUME NEW p \in Procs,
             Reap(p) \/ SkipDisabledOf(p) \/ Heartbeat(p) \/ Crash(p) \/ LoseReaper(p)
      PROVE  Goal
  BY <1>1, <1>5, <1>8
  DEF Reap, SkipDisabledOf, Heartbeat, Crash, LoseReaper, localVars, loopVars
<1>9. ASSUME NEW t \in Seeders, JobTimeout(t) PROVE Goal
  BY <1>5, <1>9 DEF JobTimeout
<1>10. ASSUME \/ \E c \in Known : GoesStale(c)
              \/ \E s \in Sources, on \in BOOLEAN : Toggle(s, on)
              \/ Clock \/ Quiet \/ UNCHANGED vars
       PROVE  Goal
  BY <1>1, <1>10 DEF GoesStale, Toggle, Clock, Quiet, vars, localVars, loopVars
<1> QED
  BY <1>3, <1>4, <1>6, <1>7, <1>8, <1>9, <1>10 DEF Next

LEMMA ClaimInvStep ==
    ASSUME CycleInv, ClaimInv, NoNamesakes', [Next]_vars
    PROVE  ClaimInv'
<1> SUFFICES ASSUME NEW l \in Loops, lpc'[l] = "fetching", HoldsLease(NameOf[l], lurl[l])'
             PROVE  attempt'[lurl'[l]] = lattempt'[l] /\ cycleId'[lurl'[l]] = lcycle'[l]
  BY DEF ClaimInv
<1> USE DEF CycleInv, HoldsLease
<1>1. CASE \E u \in Urls : LoopClaim(l, u)
  BY <1>1 DEF LoopClaim, Claim, Claimable, LocalInv, LoopInv, LoopTypeOK, QueueTypeOK
<1>2. CASE ~\E u \in Urls : LoopClaim(l, u)
  <2>1. /\ lpc[l] = "fetching" /\ lurl'[l] = lurl[l]
        /\ lattempt'[l] = lattempt[l] /\ lcycle'[l] = lcycle[l]
    BY <1>2, FetchingGoesOn
  <2>2. lurl[l] \in Urls
    BY <2>1 DEF LocalInv, LoopInv, LoopTypeOK
  <2>3. CASE NoNewClaim
    BY <2>1, <2>2, <2>3 DEF NoNewClaim, ClaimInv
  <2>4. ASSUME NEW k \in Loops, NEW u \in Urls, LoopClaim(k, u)
        PROVE  attempt'[lurl'[l]] = lattempt'[l] /\ cycleId'[lurl'[l]] = lcycle'[l]
    <3>1. k # l
      BY <1>2, <2>4
    <3>0. NameOf[k] # NameOf[l]
      BY <2>4, <3>1 DEF LoopClaim, NoNamesakes, LocalInv, LoopInv, LoopTypeOK
    <3>2. u # lurl[l]
      BY <2>1, <2>4, <3>0 DEF LoopClaim, Claim, QueueTypeOK
    <3>3. HoldsLease(NameOf[l], lurl[l])
      BY <2>1, <2>2, <2>4, <3>2 DEF LoopClaim, Claim, QueueTypeOK
    <3> QED
      BY <2>1, <2>2, <2>4, <3>2, <3>3 DEF LoopClaim, Claim, ClaimInv, QueueTypeOK
  <2> QED
    BY <2>3, <2>4, OnlyLoopsClaim
<1> QED
  BY <1>1, <1>2

\* A loop that goes on from its fetch, its URL leaving `running` in the same
\* step, held the lease at that step.
LEMMA OutcomeNeedsTheLease ==
    ASSUME CycleInv, [Next]_vars, NEW l \in Loops,
           lpc[l] = "fetching", lpc'[l] \notin {"fetching", "off"},
           status[lurl[l]] = "running", status'[lurl[l]] # "running"
    PROVE  HoldsLease(NameOf[l], lurl[l])
<1> USE DEF CycleInv, LocalInv, LoopInv, LoopTypeOK
<1>1. ASSUME lpc'[l] = lpc[l] PROVE FALSE
  BY <1>1
<1>2. ASSUME NEW t \in Seeders, TaskStep(t) PROVE FALSE
  BY <1>1, <1>2
  DEF TaskStep, BeginRun, AbandonStale, Run, RefusedLock, LockAndStart, Beaten, JoinWinner,
      BeginSeed, SeedRefused, SeedSource, SeedLinks, EndSeed, Serve, FreeCrew, FreeCrews, LoopsIn,
      AlreadyServing, Drained, LaneRaises, ReapLast, Finalize, NotFinalized, Return, loopVars
<1>3. ASSUME NEW k \in Loops, k # l, LoopStep(k) PROVE FALSE
  BY <1>1, <1>3
  DEF LoopStep, LoopClaim, LoopExit, RecordOk, RecordFailure, LostLease, AfterOutcome,
      LoopPrune, LoopOffer, LoopLink, Rest
<1>4. ASSUME LoopStep(l) PROVE HoldsLease(NameOf[l], lurl[l])
  BY <1>4
  DEF LoopStep, LoopClaim, LoopExit, RecordOk, Complete, RecordFailure, Fail, LostLease,
      LoopPrune, LoopOffer, LoopLink, queueVars
<1>5. ASSUME NEW ts, NEW ls, Gone(ts, ls) PROVE FALSE
  BY <1>5 DEF Gone
<1>6. ASSUME NEW k \in Loops, SwallowError(k) \/ LoopRaises(k) PROVE FALSE
  BY <1>1, <1>6 DEF SwallowError, Rest, LoopRaises
<1>7. ASSUME UNCHANGED lpc PROVE FALSE
  BY <1>1, <1>7
<1>8. ASSUME NEW p \in Procs,
             Reap(p) \/ SkipDisabledOf(p) \/ Heartbeat(p) \/ Crash(p) \/ LoseReaper(p)
      PROVE  FALSE
  BY <1>5, <1>7, <1>8
  DEF Reap, SkipDisabledOf, Heartbeat, Crash, LoseReaper, localVars, loopVars
<1>9. ASSUME NEW t \in Seeders, JobTimeout(t) PROVE FALSE
  BY <1>5, <1>9 DEF JobTimeout
<1>10. ASSUME \/ \E c \in Known : GoesStale(c)
              \/ \E s \in Sources, on \in BOOLEAN : Toggle(s, on)
              \/ Clock \/ Quiet \/ UNCHANGED vars
       PROVE  FALSE
  BY <1>7, <1>10 DEF GoesStale, Toggle, Clock, Quiet, vars, localVars, loopVars
<1> QED
  BY <1>2, <1>3, <1>4, <1>6, <1>8, <1>9, <1>10 DEF Next

\* What a loop records is the outcome of the claim it holds, of that attempt and
\* of that cycle (OutcomeOfItsClaim), however often its lease ran out and its URL
\* was reaped, adopted and claimed again meanwhile: as long as no crew starts while
\* one with the same names is on.
THEOREM OutcomesBelong == Spec /\ []NoNamesakes => OutcomeOfItsClaim
<1>1. Init => ClaimInv
  BY DEF Init, ClaimInv
<1>2. CycleInv /\ ClaimInv /\ NoNamesakes' /\ [Next]_vars => ClaimInv'
  BY ClaimInvStep
<1>3. CycleInv /\ ClaimInv /\ [Next]_vars
        => [\A l \in Loops :
              LET u == lurl[l] IN
              /\ lpc[l] = "fetching" /\ lpc'[l] \notin {"fetching", "off"}
              /\ status[u] = "running" /\ status'[u] # "running"
              => attempt[u] = lattempt[l] /\ cycleId[u] = lcycle[l]]_vars
  BY OutcomeNeedsTheLease DEF ClaimInv
<1> QED
  BY <1>1, <1>2, <1>3, CycleInvHolds, PTL DEF Spec, OutcomeOfItsClaim

-----------------------------------------------------------------------------
(* What becomes active.  QuietWhenClosed and LaneWorkedUntilDone do not    *)
(* hold without a condition: a run() may close a cycle in which loops that *)
(* it does not await still have links to queue, or add pages when the      *)
(* loops have left.                                                        *)

\* A step makes no row active but these, which it puts into cycle c, and inserts
\* or moves to another cycle none but these.
Queues(c, rows) ==
    \A u \in Urls :
        /\ status'[u] \in Active => \/ status[u] \in Active /\ cycleId'[u] = cycleId[u]
                                    \/ u \in rows /\ cycleId'[u] = c
        /\ status[u] # "absent" => status'[u] # "absent"
        /\ u \notin rows => /\ status[u] = "absent" => status'[u] = "absent"
                           /\ cycleId'[u] = cycleId[u] /\ foundIn'[u] = foundIn[u]

NothingQueued == Queues(0, {})

\* What each statement of the queue puts into a cycle.
LEMMA Queueing ==
    ASSUME QueueTypeOK
    PROVE  /\ UNCHANGED <<status, cycleId, foundIn>> \/ ReapExpired => NothingQueued
           /\ \A c, batch, force : EnqueueRows(c, batch, force) => Queues(c, batch)
           /\ \A t, s : RequeueDueLinks(t, s) => Queues(held[t], DueLinks(s))
           /\ \A w, u, c : Claim(w, u, c) => NothingQueued
           /\ \A s, c, after : PruneListing(s, c, after) => NothingQueued
           /\ \A w, u : Complete(w, u) => NothingQueued
           /\ \A w, u, transient : Fail(w, u, transient) => NothingQueued
           /\ \A c : SkipDisabled(c) \/ AbandonCycle(c) => NothingQueued
<1> USE DEF NothingQueued, Queues, QueueTypeOK
<1>1. ASSUME UNCHANGED <<status, cycleId, foundIn>> PROVE NothingQueued
  BY <1>1
<1>2. ASSUME NEW c, NEW batch, NEW force, EnqueueRows(c, batch, force) PROVE Queues(c, batch)
  BY <1>2 DEF EnqueueRows, Reschedule, Fresh, Adoptable, Waiting, Finished, Active
<1>3. ASSUME NEW t, NEW s, RequeueDueLinks(t, s) PROVE Queues(held[t], DueLinks(s))
  <2>1. PICK taken \in SUBSET DueLinks(s) :
            \E outOfScope \in SUBSET taken :
               RequeueRows(held[t], taken \ outOfScope, outOfScope)
    BY <1>3 DEF RequeueDueLinks
  <2>2. PICK outOfScope \in SUBSET taken :
            RequeueRows(held[t], taken \ outOfScope, outOfScope)
    BY <2>1
  <2> QED
    BY <2>2 DEF RequeueRows, Active, Waiting
<1>4. ASSUME NEW w, NEW u, NEW c, Claim(w, u, c) PROVE NothingQueued
  BY <1>4 DEF Claim, Claimable, Active, Waiting
<1>5. ASSUME NEW u, NEW st, st # "absent", status[u] = "running", Settle(u, st) PROVE NothingQueued
  BY <1>5 DEF Settle, Active, Waiting
<1>6. ASSUME NEW w, NEW u, Complete(w, u) PROVE NothingQueued
  BY <1>5, <1>6 DEF Complete, HoldsLease
<1>7. ASSUME NEW w, NEW u, NEW transient, Fail(w, u, transient) PROVE NothingQueued
  BY <1>5, <1>7 DEF Fail, HoldsLease, AfterFailure
<1>8. ASSUME NEW rows, \A u \in rows : status[u] \in Waiting, SkipRows(rows) PROVE NothingQueued
  BY <1>8 DEF SkipRows, Active, Waiting
<1>9. ASSUME NEW c, SkipDisabled(c) PROVE NothingQueued
  BY <1>8, <1>9 DEF SkipDisabled, OfDisabled
<1>10. ASSUME NEW s, NEW c, NEW after, PruneListing(s, c, after) PROVE NothingQueued
  BY <1>8, <1>10 DEF PruneListing, BehindPage
<1>11. ASSUME ReapExpired PROVE NothingQueued
  BY <1>11 DEF ReapExpired, Expired, AfterFailure, Active, Waiting
<1>12. ASSUME NEW c, AbandonCycle(c) PROVE NothingQueued
  BY <1>12 DEF AbandonCycle, Active, Waiting
<1> QED
  BY <1>1, <1>2, <1>3, <1>4, <1>6, <1>7, <1>9, <1>10, <1>11, <1>12

\* Only a seeder, into the cycle it holds open, and a loop that has found links,
\* into its own, make rows active.
SeederQueues(t) ==
    /\ SeedSource(t) \/ SeedLinks(t)
    /\ tpc[t] = "seeding" /\ held[t] # 0
    /\ UNCHANGED <<tpc, tcycle, loopVars, cycleStatus>>
    /\ \E rows : /\ Queues(held[t], rows)
                 /\ \A u \in rows : status[u] # "absent" \/ LaneOf(u) # "browser"
                                                         \/ LaneLimit["browser"] # 0

LoopQueues(l) ==
    /\ LoopLink(l)
    /\ Queues(lcycle[l], UrlsOf(SourceOf[lurl[l]]))

LEMMA WhoQueues ==
    ASSUME QueueTypeOK, [Next]_vars
    PROVE  \/ NothingQueued
           \/ \E t \in Seeders : SeederQueues(t)
           \/ \E l \in Loops : LoopQueues(l)
<1>1. ASSUME NEW t \in Seeders, SeedSource(t) PROVE NothingQueued \/ SeederQueues(t)
  <2>1. CASE UNCHANGED queueVars
    BY <2>1, Queueing DEF queueVars
  <2>2. ASSUME NEW s, NEW n, NEW force, ~(s \in Browser /\ LaneLimit["browser"] = 0),
               SeedListing(t, s, n, force)
        PROVE  SeederQueues(t)
    <3>1. Queues(held[t], {u \in UrlsOf(s) : PageNo[u] \in 1 .. n})
      BY <2>2, Queueing DEF SeedListing
    <3>2. \A u \in UrlsOf(s) : LaneOf(u) # "browser" \/ LaneLimit["browser"] # 0
      BY <2>2 DEF UrlsOf, LaneOf
    <3>3. tpc[t] = "seeding" /\ UNCHANGED <<tpc, tcycle, loopVars>>
      BY <1>1 DEF SeedSource
    <3> QED
      BY <1>1, <2>2, <3>1, <3>2, <3>3 DEF SeederQueues, SeedListing, cycleVars
  <2> QED
    BY <1>1, <2>1, <2>2 DEF SeedSource, queueVars
<1>2. ASSUME NEW t \in Seeders, SeedLinks(t) PROVE SeederQueues(t)
  <2>1. RequeueDueLinks(t, relink[t])
    BY <1>2 DEF SeedLinks
  <2>2. Queues(held[t], DueLinks(relink[t]))
    BY <2>1, Queueing
  <2>3. \A u \in DueLinks(relink[t]) : status[u] # "absent"
    BY DEF DueLinks, Reschedule, Finished
  <2> QED
    BY <1>2, <2>1, <2>2, <2>3 DEF SeederQueues, SeedLinks, RequeueDueLinks, cycleVars
<1>3. ASSUME NEW t \in Seeders, TaskStep(t), ~SeedSource(t), ~SeedLinks(t) PROVE NothingQueued
  BY <1>3, Queueing
  DEF TaskStep, BeginRun, AbandonStale, Run, RefusedLock, LockAndStart, Beaten, JoinWinner,
      BeginSeed, SeedRefused, EndSeed, Serve, AlreadyServing, Drained, LaneRaises,
      ReapLast, Finalize, NotFinalized, Return, StartCycle, HoldCycleOpen, ReleaseHolds,
      FinalizeCycle, queueVars, rowVars
<1>4. ASSUME NEW l \in Loops, LoopLink(l) PROVE LoopQueues(l)
  <2>1. PICK kept \in SUBSET loffer[l] : EnqueueRows(lcycle[l], kept, FALSE)
    BY <1>4 DEF LoopLink, EnqueueLinks
  <2>2. kept \subseteq UrlsOf(SourceOf[lurl[l]])
    BY <1>4 DEF LoopLink, EnqueueLinks
  <2>3. Queues(lcycle[l], kept)
    BY <2>1, Queueing
  <2> QED
    BY <1>4, <2>2, <2>3 DEF LoopQueues, Queues
<1>5. ASSUME NEW l \in Loops, LoopStep(l), ~LoopLink(l) PROVE NothingQueued
  BY <1>5, Queueing
  DEF LoopStep, LoopClaim, LoopExit, RecordOk, RecordFailure, LostLease, LoopPrune, LoopOffer,
      queueVars
<1>6. ASSUME NEW p \in Procs,
             Reap(p) \/ SkipDisabledOf(p) \/ Heartbeat(p) \/ Crash(p) \/ LoseReaper(p)
      PROVE  NothingQueued
  BY <1>6, Queueing
  DEF Reap, SkipDisabledOf, Heartbeat, Crash, LoseReaper, Gone, queueVars, rowVars
<1>7. ASSUME NEW t \in Seeders, JobTimeout(t) PROVE NothingQueued
  BY <1>7, Queueing DEF JobTimeout, Gone, rowVars
<1>8. ASSUME \/ \E l \in Loops : SwallowError(l) \/ LoopRaises(l)
             \/ \E c \in Known : GoesStale(c)
             \/ \E s \in Sources, on \in BOOLEAN : Toggle(s, on)
             \/ Clock \/ Quiet \/ UNCHANGED vars
      PROVE  NothingQueued
  <2>1. UNCHANGED <<status, cycleId, foundIn>>
    BY <1>8 DEF SwallowError, LoopRaises, GoesStale, Toggle, SetEnabled, Clock, LeaseRunsOut,
                ComesDue, Quiet, vars, queueVars, rowVars
  <2> QED
    BY <2>1, Queueing
<1> QED
  BY <1>1, <1>2, <1>3, <1>4, <1>5, <1>6, <1>7, <1>8 DEF Next

\* A cycle is closed only when nothing in it is active any more.
LEMMA ClosedIsEmpty ==
    ASSUME QueueTypeOK, [QueueNext]_queueVars, NEW c \in Cycles,
           cycleStatus[c] = "running", cycleStatus'[c] # "running", NEW u \in Urls,
           status'[u] \in Active
    PROVE  cycleId'[u] # c
<1> USE DEF QueueTypeOK
<1>1. \/ \E d \in Cycles : StartCycle(d)
      \/ \E d \in Known, scheduled \in BOOLEAN : FinalizeCycle(d, scheduled)
      \/ \E d \in Known : AbandonCycle(d)
      \/ UNCHANGED cycleStatus
  BY DEF QueueNext, HoldCycleOpen, ReleaseHolds, SeedListing, RequeueDueLinks, Claim, Complete,
         Fail, Settle, PruneListing, SkipRows, EnqueueLinks, SkipDisabled, ReapExpired,
         LeaseRunsOut, ComesDue, SetEnabled, cycleVars, queueVars
<1>2. ASSUME NEW d \in Cycles, StartCycle(d) PROVE FALSE
  BY <1>2 DEF StartCycle
<1>3. ASSUME NEW d, NEW scheduled, FinalizeCycle(d, scheduled) PROVE cycleId'[u] # c
  BY <1>3 DEF FinalizeCycle, ActiveCount0, rowVars
<1>4. ASSUME NEW d, AbandonCycle(d) PROVE cycleId'[u] # c
  BY <1>4 DEF AbandonCycle, Active, Waiting
<1> QED
  BY <1>1, <1>2, <1>3, <1>4

-----------------------------------------------------------------------------
(* Whose loops they are.                                                   *)

\* A loop that has claimed a URL and is not done with it.
Busy(l) == lpc[l] \notin {"off", "idle"}

\* A crew that is awaited was started by a task of its process that is working,
\* for that task's cycle and one for each lane.
CrewsInv ==
    /\ \A k \in Crews : awaitedBy[k] # NoTask => /\ tpc[awaitedBy[k]] = "working"
                                                 /\ CrewProc[k] = TaskProc[awaitedBy[k]]
    /\ \A j, k \in Crews :
          awaitedBy[j] # NoTask /\ awaitedBy[j] = awaitedBy[k] /\ CrewLane[j] = CrewLane[k]
          => j = k
    /\ \A l \in Loops : awaitedBy[CrewOf[l]] # NoTask /\ lpc[l] # "off"
                           => lcycle[l] = tcycle[awaitedBy[CrewOf[l]]]

\* The crews that Serve starts: free ones of the task's process, one for each lane.
Started(t, crews) ==
    /\ \A k \in crews : CrewProc[k] = TaskProc[t] /\ awaitedBy[k] = NoTask
    /\ \A l \in Loops : CrewOf[l] \in crews => lpc[l] = "off"
    /\ \A j, k \in crews : CrewLane[j] = CrewLane[k] => j = k
    /\ \A lane \in LanesOn : \E k \in crews : CrewLane[k] = lane
    /\ awaitedBy' = [k \in Crews |-> IF k \in crews THEN t ELSE awaitedBy[k]]
    /\ lpc'    = [l \in Loops |-> IF CrewOf[l] \in crews THEN "idle" ELSE lpc[l]]
    /\ lcycle' = [l \in Loops |-> IF CrewOf[l] \in crews THEN tcycle[t] ELSE lcycle[l]]
    /\ tpc[t] = "ready" /\ tpc' = [tpc EXCEPT ![t] = "working"]
    /\ UNCHANGED <<tcycle, lurl>>

LEMMA ServeStarts ==
    ASSUME NEW t \in Seeders, Serve(t)
    PROVE  \E crews \in SUBSET Crews : Started(t, crews)
<1> DEFINE p     == TaskProc[t]
           crews == {FreeCrew(p, lane) : lane \in LanesOn}
<1>1. \A lane \in LanesOn : FreeCrew(p, lane) \in FreeCrews(p, lane)
  BY DEF Serve, FreeCrew
<1>2. \A lane \in LanesOn : /\ FreeCrew(p, lane) \in Crews
                            /\ CrewProc[FreeCrew(p, lane)] = p
                            /\ CrewLane[FreeCrew(p, lane)] = lane
                            /\ awaitedBy[FreeCrew(p, lane)] = NoTask
                            /\ \A l \in LoopsIn(FreeCrew(p, lane)) : lpc[l] = "off"
  BY <1>1 DEF FreeCrews, CrewsOf
<1>3. /\ crews \in SUBSET Crews
      /\ \A k \in crews : CrewProc[k] = p /\ awaitedBy[k] = NoTask
      /\ \A j, k \in crews : CrewLane[j] = CrewLane[k] => j = k
      /\ \A lane \in LanesOn : \E k \in crews : CrewLane[k] = lane
  BY <1>2
<1>4. \A l \in Loops : CrewOf[l] \in crews => lpc[l] = "off"
  BY <1>2 DEF LoopsIn
<1>5. Started(t, crews)
  BY <1>3, <1>4 DEF Started, Serve
<1> QED
  BY <1>3, <1>5

\* What a step that starts no crew keeps: all tasks that are working but those in
\* ts, with the crews they await, and all loops that are on but those in ls.
Keeps(ts, ls) ==
    /\ \A t \in Seeders : tpc'[t] = "working"
                             => t \notin ts /\ tpc[t] = "working" /\ tcycle'[t] = tcycle[t]
    /\ \A t \in Seeders : t \notin ts /\ tpc[t] = "working" => tpc'[t] = "working"
    /\ \A k \in Crews : awaitedBy'[k] = IF awaitedBy[k] \in ts THEN NoTask ELSE awaitedBy[k]
    /\ \A l \in Loops : lpc'[l] # "off" => lpc[l] # "off" /\ lcycle'[l] = lcycle[l]
    /\ \A l \in Loops : l \notin ls /\ lpc[l] # "off" => lpc'[l] # "off"

\* A loop goes off when it returns, or when nobody awaits its crew after the step.
Justified(ts, ls) ==
    \A l \in ls : LoopExit(l) \/ awaitedBy[CrewOf[l]] \in ts \cup {NoTask}

KeepsAllElse == \E ts \in SUBSET Seeders, ls \in SUBSET Loops : Keeps(ts, ls) /\ Justified(ts, ls)

\* A step of run() is no matter of another task.  But for Serve and the end of its
\* gather it is no matter of the crews either, and not one of a task that is
\* working.
LEMMA TaskStepsApart ==
    ASSUME CycleInv, NEW t \in Seeders, TaskStep(t)
    PROVE  /\ \A r \in Seeders : r # t => tpc'[r] = tpc[r] /\ tcycle'[r] = tcycle[r]
           /\ \/ Serve(t)
              \/ tpc[t] = "working" /\ tpc'[t] # "working" /\ GatherEnds(t) /\ UNCHANGED loopVars
              \/ tpc[t] # "working" /\ tpc'[t] # "working" /\ UNCHANGED <<loopVars, awaitedBy>>
<1> USE DEF CycleInv, LocalInv, TaskInv, TaskTypeOK
<1>1. \A r \in Seeders : r # t => tpc'[r] = tpc[r] /\ tcycle'[r] = tcycle[r]
  BY DEF TaskStep, BeginRun, AbandonStale, Run, RefusedLock, LockAndStart, Beaten, JoinWinner, Join,
         BeginSeed, SeedRefused, SeedSource, SeedLinks, EndSeed, Serve, AlreadyServing, Drained,
         LaneRaises, ReapLast, Finalize, NotFinalized, Return, Returned
<1>2. CASE Drained(t)
  BY <1>1, <1>2 DEF Drained
<1>3. CASE LaneRaises(t)
  BY <1>1, <1>3 DEF LaneRaises, Returned
<1>4. CASE ~Serve(t) /\ ~Drained(t) /\ ~LaneRaises(t)
  BY <1>1, <1>4
  DEF TaskStep, BeginRun, AbandonStale, Run, RefusedLock, LockAndStart, Beaten, JoinWinner, Join,
      BeginSeed, SeedRefused, SeedSource, SeedLinks, EndSeed, AlreadyServing,
      ReapLast, Finalize, NotFinalized, Return, Returned, procVars
<1> QED
  BY <1>1, <1>2, <1>3, <1>4

\* What a loop's step does to itself; it does nothing to another loop, and
\* nothing to a task.
LEMMA LoopStepsApart ==
    ASSUME CycleInv, NEW l \in Loops, LoopStep(l) \/ SwallowError(l)
    PROVE  /\ UNCHANGED <<tpc, tcycle, awaitedBy>>
           /\ \A k \in Loops : k # l => lpc'[k] = lpc[k] /\ lcycle'[k] = lcycle[k]
                                        /\ lurl'[k] = lurl[k]
           /\ lpc[l] # "off"
           /\ \/ lpc'[l] = "off" /\ LoopExit(l)
              \/ lpc'[l] # "off" /\ lcycle'[l] = lcycle[l]
<1> USE DEF CycleInv, LocalInv, LoopInv, LoopTypeOK
<1>1. UNCHANGED <<tpc, tcycle, awaitedBy>> /\ lpc[l] # "off"
  BY DEF LoopStep, LoopClaim, LoopExit, RecordOk, RecordFailure, LostLease, AfterOutcome,
         LoopPrune, LoopOffer, LoopLink, SwallowError, taskVars, procVars
<1>2. \A k \in Loops : k # l => lpc'[k] = lpc[k] /\ lcycle'[k] = lcycle[k] /\ lurl'[k] = lurl[k]
  BY DEF LoopStep, LoopClaim, LoopExit, RecordOk, RecordFailure, LostLease, AfterOutcome,
         LoopPrune, LoopOffer, LoopLink, SwallowError, Rest
<1>3. CASE LoopExit(l)
  BY <1>1, <1>2, <1>3 DEF LoopExit
<1>4. CASE ~LoopExit(l)
  <2>1. lcycle' = lcycle /\ lpc'[l] # "off"
    BY <1>4 DEF LoopStep, LoopClaim, RecordOk, RecordFailure, LostLease, AfterOutcome,
                LoopPrune, LoopOffer, LoopLink, SwallowError, Rest
  <2> QED
    BY <1>1, <1>2, <2>1
<1> QED
  BY <1>3, <1>4

\* A loop that raises goes off, and with it the task that awaits its crew.
LEMMA LoopRaisesApart ==
    ASSUME CycleInv, NEW l \in Loops, LoopRaises(l)
    PROVE  /\ lpc[l] # "off" /\ lpc'[l] = "off"
           /\ \A k \in Loops : k # l => lpc'[k] = lpc[k] /\ lcycle'[k] = lcycle[k]
                                        /\ lurl'[k] = lurl[k]
           /\ \/ awaitedBy[CrewOf[l]] = NoTask /\ UNCHANGED <<tpc, tcycle, awaitedBy>>
              \/ \E t \in Seeders :
                    /\ awaitedBy[CrewOf[l]] = t /\ GatherEnds(t)
                    /\ tpc'[t] = "idle" /\ tcycle'[t] = 0
                    /\ \A r \in Seeders : r # t => tpc'[r] = tpc[r] /\ tcycle'[r] = tcycle[r]
<1> USE DEF CycleInv, LocalInv
<1>1. /\ lpc[l] # "off" /\ lpc'[l] = "off"
      /\ \A k \in Loops : k # l => lpc'[k] = lpc[k] /\ lcycle'[k] = lcycle[k]
                                   /\ lurl'[k] = lurl[k]
  BY DEF LoopRaises, LoopInv, LoopTypeOK
<1>2. CASE awaitedBy[CrewOf[l]] = NoTask
  BY <1>1, <1>2 DEF LoopRaises, taskVars
<1>3. CASE awaitedBy[CrewOf[l]] # NoTask
  <2> DEFINE t == awaitedBy[CrewOf[l]]
  <2>1. t \in Seeders
    BY <1>3, CrewAssumption DEF ProcInv, ProcTypeOK
  <2>2. GatherEnds(t) /\ Returned(t)
    BY <1>3 DEF LoopRaises
  <2>3. /\ tpc'[t] = "idle" /\ tcycle'[t] = 0
        /\ \A r \in Seeders : r # t => tpc'[r] = tpc[r] /\ tcycle'[r] = tcycle[r]
    BY <2>1, <2>2 DEF Returned, TaskInv, TaskTypeOK
  <2> QED
    BY <1>1, <2>1, <2>2, <2>3
<1> QED
  BY <1>2, <1>3

\* Every step starts crews or keeps them.
LEMMA ServesOrKeeps ==
    ASSUME CycleInv, CrewsInv, [Next]_vars
    PROVE  (\E t \in Seeders : Serve(t)) \/ KeepsAllElse
<1> USE CycleAssumption DEF KeepsAllElse, Justified
<1>0. awaitedBy \in [Crews -> Seeders \cup {NoTask}] /\ \A l \in Loops : CrewOf[l] \in Crews
  BY CrewAssumption DEF CycleInv, LocalInv, ProcInv, ProcTypeOK
<1>1. ASSUME UNCHANGED <<tpc, tcycle, awaitedBy, lpc, lcycle>> PROVE KeepsAllElse
  <2>1. Keeps({}, {})
    BY <1>1 DEF Keeps
  <2> QED
    BY <2>1
<1>2. ASSUME NEW t \in Seeders, TaskStep(t) PROVE Serve(t) \/ KeepsAllElse
  <2>1. \A r \in Seeders : r # t => tpc'[r] = tpc[r] /\ tcycle'[r] = tcycle[r]
    BY <1>2, TaskStepsApart
  <2>2. ASSUME tpc[t] = "working", tpc'[t] # "working", GatherEnds(t), UNCHANGED loopVars
        PROVE  KeepsAllElse
    <3>1. Keeps({t}, {})
      BY <1>0, <2>1, <2>2 DEF Keeps, GatherEnds, loopVars
    <3> QED
      BY <3>1
  <2>3. ASSUME tpc[t] # "working", tpc'[t] # "working", UNCHANGED <<loopVars, awaitedBy>>
        PROVE  KeepsAllElse
    <3>1. Keeps({}, {})
      BY <1>0, <2>1, <2>3 DEF Keeps, loopVars
    <3> QED
      BY <3>1
  <2> QED
    BY <1>2, <2>2, <2>3, TaskStepsApart
<1>3. ASSUME NEW l \in Loops, LoopStep(l) \/ SwallowError(l) PROVE KeepsAllElse
  <2> DEFINE ls == {k \in {l} : LoopExit(k)}
  <2>1. Keeps({}, ls)
    BY <1>0, <1>3, LoopStepsApart DEF Keeps
  <2> QED
    BY <2>1
<1>4. ASSUME NEW l \in Loops, LoopRaises(l) PROVE KeepsAllElse
  <2>1. CASE awaitedBy[CrewOf[l]] = NoTask /\ UNCHANGED <<tpc, tcycle, awaitedBy>>
    <3>1. Keeps({}, {l})
      BY <1>0, <1>4, <2>1, LoopRaisesApart DEF Keeps
    <3> QED
      BY <2>1, <3>1
  <2>2. ASSUME NEW t \in Seeders, awaitedBy[CrewOf[l]] = t, GatherEnds(t), tpc'[t] = "idle",
               \A r \in Seeders : r # t => tpc'[r] = tpc[r] /\ tcycle'[r] = tcycle[r]
        PROVE  KeepsAllElse
    <3>1. Keeps({t}, {l})
      BY <1>0, <1>4, <2>2, LoopRaisesApart DEF Keeps, GatherEnds
    <3> QED
      BY <2>2, <3>1
  <2> QED
    BY <1>4, <2>1, <2>2, LoopRaisesApart
<1>5. ASSUME NEW p \in Procs, Crash(p) PROVE KeepsAllElse
  <2> DEFINE ts == TasksOf(p)
             ls == {l \in Loops : CrewProc[CrewOf[l]] = p}
  <2>1. \A k \in Crews : awaitedBy[k] \in ts <=> awaitedBy[k] # NoTask /\ CrewProc[k] = p
    BY <1>0 DEF CrewsInv, TasksOf
  <2>2. /\ Gone(ts, ls)
        /\ awaitedBy' = [k \in Crews |-> IF CrewProc[k] = p THEN NoTask ELSE awaitedBy[k]]
    BY <1>5 DEF Crash
  <2>3. Keeps(ts, ls)
    BY <2>1, <2>2 DEF Keeps, Gone
  <2>4. \A l \in ls : awaitedBy[CrewOf[l]] \in ts \cup {NoTask}
    BY <1>0, <2>1
  <2> QED
    BY <2>3, <2>4 DEF TasksOf
<1>6. ASSUME NEW t \in Seeders, JobTimeout(t) PROVE KeepsAllElse
  <2>1. CASE tpc[t] = "working"
    <3>1. Gone({t}, LoopsOf(t)) /\ GatherEnds(t)
      BY <1>6, <2>1 DEF JobTimeout
    <3>2. Keeps({t}, LoopsOf(t))
      BY <1>0, <3>1 DEF Keeps, Gone, GatherEnds
    <3> QED
      BY <3>2 DEF LoopsOf
  <2>2. CASE tpc[t] # "working"
    <3>1. Gone({t}, {}) /\ UNCHANGED awaitedBy
      BY <1>6, <2>2 DEF JobTimeout
    <3>2. \A k \in Crews : awaitedBy[k] # t
      BY <2>2 DEF CrewsInv
    <3>3. Keeps({t}, {})
      BY <3>1, <3>2 DEF Keeps, Gone
    <3> QED
      BY <3>3
  <2> QED
    BY <2>1, <2>2
<1>7. ASSUME \/ \E p \in Procs : Reap(p) \/ SkipDisabledOf(p) \/ Heartbeat(p) \/ LoseReaper(p)
             \/ \E c \in Known : GoesStale(c)
             \/ \E s \in Sources, on \in BOOLEAN : Toggle(s, on)
             \/ Clock \/ Quiet \/ UNCHANGED vars
      PROVE  KeepsAllElse
  <2>1. UNCHANGED <<tpc, tcycle, awaitedBy, lpc, lcycle>>
    BY <1>7 DEF Reap, SkipDisabledOf, Heartbeat, LoseReaper, GoesStale, Toggle, Clock,
                Quiet, vars, localVars, taskVars, loopVars, procVars
  <2> QED
    BY <1>1, <2>1
<1> QED
  BY <1>2, <1>3, <1>4, <1>5, <1>6, <1>7 DEF Next

LEMMA CrewsInvStep ==
    ASSUME CycleInv, CrewsInv, [Next]_vars
    PROVE  CrewsInv'
<1> USE CycleAssumption
<1>0. awaitedBy \in [Crews -> Seeders \cup {NoTask}] /\ \A l \in Loops : CrewOf[l] \in Crews
  BY CrewAssumption DEF CycleInv, LocalInv, ProcInv, ProcTypeOK
<1>1. ASSUME NEW t \in Seeders, Serve(t) PROVE CrewsInv'
  <2> USE DEF CycleInv, LocalInv, TaskInv, TaskTypeOK
  <2>1. PICK crews \in SUBSET Crews : Started(t, crews)
    BY <1>1, ServeStarts
  <2>2. \A k \in Crews : awaitedBy[k] # t
    BY <2>1 DEF Started, CrewsInv
  <2>3. \A k \in Crews : awaitedBy'[k] # NoTask =>
           tpc'[awaitedBy'[k]] = "working" /\ CrewProc[k] = TaskProc[awaitedBy'[k]]
    BY <1>0, <2>1, <2>2 DEF Started, CrewsInv
  <2>4. \A j, k \in Crews :
           awaitedBy'[j] # NoTask /\ awaitedBy'[j] = awaitedBy'[k] /\ CrewLane[j] = CrewLane[k]
           => j = k
    BY <1>0, <2>1, <2>2 DEF Started, CrewsInv
  <2>5. \A l \in Loops : awaitedBy'[CrewOf[l]] # NoTask /\ lpc'[l] # "off"
                            => lcycle'[l] = tcycle'[awaitedBy'[CrewOf[l]]]
    BY <1>0, <2>1 DEF Started, CrewsInv
  <2> QED
    BY <2>3, <2>4, <2>5 DEF CrewsInv
<1>2. ASSUME NEW ts \in SUBSET Seeders, NEW ls, Keeps(ts, ls) PROVE CrewsInv'
  <2>1. \A k \in Crews : awaitedBy'[k] # NoTask =>
           awaitedBy'[k] = awaitedBy[k] /\ awaitedBy[k] \in Seeders /\ awaitedBy[k] \notin ts
    BY <1>0, <1>2 DEF Keeps
  <2>2. \A k \in Crews : awaitedBy'[k] # NoTask =>
           /\ tpc'[awaitedBy'[k]] = "working" /\ CrewProc[k] = TaskProc[awaitedBy'[k]]
           /\ tcycle'[awaitedBy'[k]] = tcycle[awaitedBy[k]]
    BY <1>2, <2>1 DEF Keeps, CrewsInv
  <2>3. \A l \in Loops : awaitedBy'[CrewOf[l]] # NoTask /\ lpc'[l] # "off"
                            => lcycle'[l] = tcycle'[awaitedBy'[CrewOf[l]]]
    BY <1>0, <1>2, <2>1, <2>2 DEF Keeps, CrewsInv
  <2> QED
    BY <2>1, <2>2, <2>3 DEF CrewsInv
<1> QED
  BY <1>1, <1>2, ServesOrKeeps DEF KeepsAllElse

LEMMA CrewsInvHolds == Spec => []CrewsInv
<1>1. Init => CrewsInv
  BY DEF Init, CrewsInv
<1> QED
  BY <1>1, CrewsInvStep, CycleInvHolds, PTL DEF Spec

\* The loops that a working task awaits stay on until they return; none joins them.
LEMMA AwaitedStayOn ==
    ASSUME CycleInv, CrewsInv, [Next]_vars, NEW t \in Seeders,
           tpc[t] = "working", tpc'[t] = "working"
    PROVE  /\ tcycle'[t] = tcycle[t]
           /\ LoopsOn(t)' \subseteq LoopsOn(t)
           /\ \A l \in LoopsOn(t) : LoopExit(l) \/ l \in LoopsOn(t)'
<1> USE CycleAssumption, CrewAssumption DEF LoopsOn, LoopsOf
<1>1. ASSUME NEW r \in Seeders, Serve(r)
      PROVE  UNCHANGED tcycle /\ LoopsOn(t)' = LoopsOn(t)
  <2>1. PICK crews \in SUBSET Crews : Started(r, crews)
    BY <1>1, ServeStarts
  <2>2. r # t
    BY <2>1 DEF Started
  <2>3. \A l \in Loops : /\ CrewOf[l] \in crews => awaitedBy[CrewOf[l]] # t
                                                  /\ awaitedBy'[CrewOf[l]] # t
                         /\ CrewOf[l] \notin crews => awaitedBy'[CrewOf[l]] = awaitedBy[CrewOf[l]]
                                                     /\ lpc'[l] = lpc[l]
    BY <2>1, <2>2 DEF Started
  <2> QED
    BY <2>1, <2>3 DEF Started
<1>2. ASSUME NEW ts \in SUBSET Seeders, NEW ls \in SUBSET Loops, Keeps(ts, ls), Justified(ts, ls)
      PROVE  /\ tcycle'[t] = tcycle[t]
             /\ LoopsOn(t)' \subseteq LoopsOn(t)
             /\ \A l \in LoopsOn(t) : LoopExit(l) \/ l \in LoopsOn(t)'
  <2>1. tcycle'[t] = tcycle[t] /\ t \notin ts
    BY <1>2 DEF Keeps
  <2>2. \A k \in Crews : awaitedBy'[k] = t <=> awaitedBy[k] = t
    BY <1>2, <2>1 DEF Keeps
  <2>3. LoopsOn(t)' \subseteq LoopsOn(t)
    BY <1>2, <2>2 DEF Keeps
  <2>4. ASSUME NEW l \in LoopsOn(t), ~LoopExit(l) PROVE l \in LoopsOn(t)'
    BY <1>2, <2>1, <2>2, <2>4 DEF Keeps, Justified
  <2> QED
    BY <2>1, <2>3, <2>4
<1> QED
  BY <1>1, <1>2, ServesOrKeeps DEF KeepsAllElse

-----------------------------------------------------------------------------
(* Who closes a cycle.                                                     *)

\* No run() finalizes or abandons a cycle in which a loop is busy, whoever awaits it.
ClosedUnworked ==
    \A t \in Seeders, l \in Loops : tpc[t] \in {"finalizing", "abandoning"} /\ Busy(l)
                                    => tcycle[t] # lcycle[l]

\* What such a loop works on, until it is done, is what it has claimed.
LEMMA BusyGoesOn ==
    ASSUME CycleInv, [Next]_vars, NEW l \in Loops, Busy(l)',
           ~\E u \in Urls : LoopClaim(l, u)
    PROVE  Busy(l) /\ lurl'[l] = lurl[l] /\ lcycle'[l] = lcycle[l]
<1> USE DEF CycleInv, LocalInv, LoopInv, LoopTypeOK, Busy
<1> DEFINE Goal == Busy(l) /\ lurl'[l] = lurl[l] /\ lcycle'[l] = lcycle[l]
<1>1. ASSUME NEW t \in Seeders, TaskStep(t) PROVE Goal
  <2>1. CASE Serve(t)
    BY <2>1, ServeStarts DEF Started
  <2>2. CASE UNCHANGED loopVars
    BY <2>2 DEF loopVars
  <2> QED
    BY <1>1, <2>1, <2>2, TaskStepsApart
<1>2. ASSUME NEW k \in Loops, LoopStep(k) \/ SwallowError(k) PROVE Goal
  <2>1. CASE k # l
    BY <1>2, <2>1, LoopStepsApart
  <2>2. CASE k = l
    BY <1>2, <2>2
    DEF LoopStep, LoopExit, RecordOk, RecordFailure, LostLease, AfterOutcome,
        LoopPrune, LoopOffer, LoopLink, SwallowError, Rest
  <2> QED
    BY <2>1, <2>2
<1>3. ASSUME NEW ts, NEW ls, Gone(ts, ls) PROVE Goal
  BY <1>3 DEF Gone
<1>4. ASSUME NEW p \in Procs, Crash(p) PROVE Goal
  BY <1>3, <1>4 DEF Crash
<1>5. ASSUME NEW t \in Seeders, JobTimeout(t) PROVE Goal
  BY <1>3, <1>5 DEF JobTimeout
<1>6. ASSUME \/ \E p \in Procs : Reap(p) \/ SkipDisabledOf(p) \/ Heartbeat(p) \/ LoseReaper(p)
             \/ \E c \in Known : GoesStale(c)
             \/ \E s \in Sources, on \in BOOLEAN : Toggle(s, on)
             \/ Clock \/ Quiet \/ UNCHANGED vars
      PROVE  Goal
  BY <1>6 DEF Reap, SkipDisabledOf, Heartbeat, LoseReaper, GoesStale, Toggle, Clock,
              Quiet, vars, localVars, loopVars
<1>7. ASSUME NEW k \in Loops, LoopRaises(k) PROVE Goal
  BY <1>7, LoopRaisesApart
<1> QED
  BY <1>1, <1>2, <1>4, <1>5, <1>6, <1>7 DEF Next

\* Steps that are not run()'s leave the cycles as they are, and a task where it is,
\* or gone.
LEMMA OtherStepsApart ==
    ASSUME CycleInv, [Next]_vars, ~\E t \in Seeders : TaskStep(t)
    PROVE  /\ UNCHANGED cycleStatus
           /\ \A t \in Seeders : tpc'[t] # "idle" => tpc'[t] = tpc[t] /\ tcycle'[t] = tcycle[t]
<1> USE DEF CycleInv, LocalInv, TaskInv, TaskTypeOK
<1> DEFINE Goal == /\ UNCHANGED cycleStatus
                   /\ \A t \in Seeders : tpc'[t] # "idle" =>
                                            tpc'[t] = tpc[t] /\ tcycle'[t] = tcycle[t]
<1>1. ASSUME NEW l \in Loops, LoopStep(l) \/ SwallowError(l) PROVE Goal
  <2>1. UNCHANGED cycleStatus
    BY <1>1 DEF LoopStep, LoopClaim, Claim, LoopExit, RecordOk, Complete, RecordFailure, Fail,
                Settle, LostLease, LoopPrune, PruneListing, SkipRows, LoopOffer, LoopLink,
                EnqueueLinks,
                SwallowError, queueVars, cycleVars
  <2> QED
    BY <1>1, <2>1, LoopStepsApart
<1>2. ASSUME NEW ts, NEW ls, Gone(ts, ls) PROVE Goal
  BY <1>2 DEF Gone
<1>3. ASSUME NEW p \in Procs, Crash(p) PROVE Goal
  BY <1>2, <1>3 DEF Crash
<1>4. ASSUME NEW r \in Seeders, JobTimeout(r) PROVE Goal
  BY <1>2, <1>4 DEF JobTimeout
<1>5. ASSUME \/ \E p \in Procs : Reap(p) \/ SkipDisabledOf(p) \/ Heartbeat(p) \/ LoseReaper(p)
             \/ \E c \in Known : GoesStale(c)
             \/ \E s \in Sources, on \in BOOLEAN : Toggle(s, on)
             \/ Clock \/ Quiet \/ UNCHANGED vars
      PROVE  Goal
  BY <1>5 DEF Reap, ReapExpired, SkipDisabledOf, SkipDisabled, SkipRows, Heartbeat, LoseReaper,
              GoesStale, Toggle, SetEnabled, Clock, LeaseRunsOut, ComesDue,
              Quiet, vars, localVars, taskVars, queueVars, cycleVars
<1>6. ASSUME NEW l \in Loops, LoopRaises(l) PROVE Goal
  <2>1. UNCHANGED cycleStatus
    BY <1>6 DEF LoopRaises, queueVars, cycleVars
  <2> QED
    BY <1>6, <2>1, LoopRaisesApart
<1> QED
  BY <1>1, <1>3, <1>4, <1>5, <1>6 DEF Next

\* A cycle is closed by a run() that finalizes or abandons it, and the loops are
\* where they were.
LEMMA WhoCloses ==
    ASSUME CycleInv, [Next]_vars, NEW c \in Cycles,
           cycleStatus[c] = "running", cycleStatus'[c] # "running"
    PROVE  /\ UNCHANGED loopVars
           /\ \E t \in Seeders : tpc[t] \in {"finalizing", "abandoning"} /\ tcycle[t] = c
<1>1. PICK t \in Seeders : TaskStep(t)
  BY OtherStepsApart
<1>2. cycleStatus' # cycleStatus
  OBVIOUS
<1>3. CASE Finalize(t)
  BY <1>3 DEF Finalize, FinalizeCycle
<1>4. CASE AbandonStale(t)
  <2>1. tpc[t] = "abandoning" /\ UNCHANGED loopVars
    BY <1>4 DEF AbandonStale
  <2>2. AbandonCycle(tcycle[t]) \/ UNCHANGED queueVars
    BY <1>4 DEF AbandonStale
  <2>3. cycleStatus' = [cycleStatus EXCEPT ![tcycle[t]] = "abandoned"]
    BY <1>2, <2>2 DEF AbandonCycle, queueVars
  <2>4. cycleStatus \in [Cycles -> {"unborn", "running"} \cup Closed]
    BY DEF CycleInv, QueueTypeOK
  <2>5. tcycle[t] = c
    BY <2>3, <2>4
  <2> QED
    BY <2>1, <2>5
<1>5. CASE LockAndStart(t)
  BY <1>5 DEF LockAndStart, StartCycle
<1>6. CASE ~Finalize(t) /\ ~AbandonStale(t) /\ ~LockAndStart(t)
  BY <1>1, <1>2, <1>6
  DEF TaskStep, BeginRun, Run, RefusedLock, Beaten, JoinWinner, BeginSeed, HoldCycleOpen,
      SeedRefused, SeedSource, SeedListing, SeedLinks, RequeueDueLinks, EndSeed, ReleaseHolds,
      Serve, AlreadyServing, Drained, LaneRaises, ReapLast, ReapExpired, NotFinalized, Return,
      queueVars, cycleVars
<1> QED
  BY <1>3, <1>4, <1>5, <1>6

-----------------------------------------------------------------------------
(* A closed cycle is quiet, as long as nobody closes one in which a loop   *)
(* is busy.  The two facts need each other: a loop has what it claimed     *)
(* from a cycle in which something was active, and what it queues goes     *)
(* into that cycle.                                                        *)

\* The cycle in which a loop is busy is running.
BusyInOpenCycle == \A l \in Loops : Busy(l) => cycleStatus[lcycle[l]] = "running"

QuietInv ==
    \A u \in Urls : status[u] \in Active =>
        cycleId[u] \in Cycles /\ cycleStatus[cycleId[u]] = "running"

LEMMA BusyInOpenCycleStep ==
    ASSUME CycleInv, ClosedUnworked, QuietInv, BusyInOpenCycle, [Next]_vars
    PROVE  BusyInOpenCycle'
<1> SUFFICES ASSUME NEW l \in Loops, Busy(l)'
             PROVE  cycleStatus'[lcycle'[l]] = "running"
  BY DEF BusyInOpenCycle, Busy
<1>1. Busy(l) \/ \E u \in Urls : LoopClaim(l, u)
  BY BusyGoesOn
<1>2. /\ lcycle'[l] = lcycle[l] /\ cycleStatus[lcycle[l]] = "running"
      /\ lpc[l] # "off"
  <2>1. ASSUME NEW u \in Urls, LoopClaim(l, u)
        PROVE  /\ lcycle'[l] = lcycle[l] /\ cycleStatus[lcycle[l]] = "running"
               /\ lpc[l] # "off"
    BY <2>1 DEF LoopClaim, Claim, Claimable, QuietInv, Active
  <2> QED
    BY <1>1, <2>1, BusyGoesOn DEF BusyInOpenCycle, Busy
<1>3. lcycle[l] \in Cycles
  BY <1>2, QueueAssumption DEF CycleInv, LocalInv, LoopInv, LoopTypeOK, Cycles
<1>4. SUFFICES ASSUME cycleStatus'[lcycle[l]] # "running" PROVE FALSE
  BY <1>2
<1>5. PICK t \in Seeders : tpc[t] \in {"finalizing", "abandoning"} /\ tcycle[t] = lcycle[l]
  BY <1>2, <1>3, <1>4, WhoCloses
<1>6. Busy(l)
  BY <1>2, <1>3, <1>4, WhoCloses DEF Busy, loopVars
<1> QED
  BY <1>5, <1>6 DEF ClosedUnworked

LEMMA QuietInvStep ==
    ASSUME CycleInv, HoldsKeepOpen, BusyInOpenCycle, QuietInv, [Next]_vars
    PROVE  QuietInv'
<1> SUFFICES ASSUME NEW u \in Urls, status'[u] \in Active
             PROVE  cycleId'[u] \in Cycles /\ cycleStatus'[cycleId'[u]] = "running"
  BY DEF QuietInv
<1>0. QueueTypeOK /\ [QueueNext]_queueVars
  BY CycleInvStep DEF CycleInv
<1>1. ASSUME cycleId'[u] \in Cycles, cycleStatus[cycleId'[u]] = "running"
      PROVE  cycleId'[u] \in Cycles /\ cycleStatus'[cycleId'[u]] = "running"
  BY <1>0, <1>1, ClosedIsEmpty
<1>2. CASE status[u] \in Active /\ cycleId'[u] = cycleId[u]
  BY <1>1, <1>2 DEF QuietInv
<1>3. ASSUME NEW t \in Seeders, SeederQueues(t)
      PROVE cycleId'[u] \in Cycles /\ cycleStatus[cycleId'[u]] = "running"
  BY <1>3 DEF SeederQueues, Queues, HoldsKeepOpen, QuietInv
<1>4. ASSUME NEW l \in Loops, LoopQueues(l)
      PROVE  cycleId'[u] \in Cycles /\ cycleStatus[cycleId'[u]] = "running"
  <2>1. lpc[l] = "linking"
    BY <1>4 DEF LoopQueues, LoopLink
  <2>2. cycleStatus[lcycle[l]] = "running" /\ lcycle[l] \in Cycles
    BY <2>1, QueueAssumption
    DEF BusyInOpenCycle, Busy, CycleInv, LocalInv, LoopInv, LoopTypeOK, Cycles
  <2> QED
    BY <1>4, <2>2 DEF LoopQueues, Queues, QuietInv
<1>5. CASE NothingQueued
  BY <1>2, <1>5 DEF NothingQueued, Queues
<1> QED
  BY <1>0, <1>1, <1>3, <1>4, <1>5, WhoQueues

LEMMA QuietInvHolds == Spec /\ []ClosedUnworked => []QuietInv /\ []BusyInOpenCycle
<1>1. Init => QuietInv /\ BusyInOpenCycle
  BY DEF Init, QueueInit, QuietInv, Active, Waiting, BusyInOpenCycle, Busy
<1>2. /\ CycleInv /\ HoldsKeepOpen /\ ClosedUnworked
      /\ QuietInv /\ BusyInOpenCycle /\ [Next]_vars
      => QuietInv' /\ BusyInOpenCycle'
  BY QuietInvStep, BusyInOpenCycleStep
<1>3. Spec => []HoldsKeepOpen
  BY ImplementsQueue, OpenHolds, PTL
<1> QED
  BY <1>1, <1>2, <1>3, CycleInvHolds, PTL DEF Spec

\* As long as no run() closes a cycle in which a loop is busy, nothing is left
\* active in a closed cycle (QuietWhenClosed), whatever crashes, raises, times out
\* or goes stale, and however many processes and Syncs seed, work and join the same
\* cycle: there is no other way to an orphan.
THEOREM QuietUnlessClosedWorked == Spec /\ []ClosedUnworked => []QuietWhenClosed
<1>1. QuietInv => QuietWhenClosed
  BY DEF QuietInv, QuietWhenClosed
<1> QED
  BY <1>1, QuietInvHolds, PTL

-----------------------------------------------------------------------------
(* The lanes.                                                              *)

\* The index crawl_cycles_one_running, and that ids only grow.
RunningIsLast == \A c \in Cycles : cycleStatus[c] = "running" => c = lastCycle

LEMMA RunningIsLastStep ==
    ASSUME QueueTypeOK, RunningIsLast, [QueueNext]_queueVars
    PROVE  RunningIsLast'
<1> USE DEF QueueTypeOK, RunningIsLast, RunningCycles
<1>1. \/ \E c \in Cycles : StartCycle(c)
      \/ \E c \in Known, scheduled \in BOOLEAN : FinalizeCycle(c, scheduled)
      \/ \E c \in Known : AbandonCycle(c)
      \/ UNCHANGED <<cycleStatus, lastCycle>>
  BY DEF QueueNext, HoldCycleOpen, ReleaseHolds, SeedListing, RequeueDueLinks, Claim, Complete,
         Fail, Settle, PruneListing, SkipRows, EnqueueLinks, SkipDisabled, ReapExpired,
         LeaseRunsOut, ComesDue, SetEnabled, cycleVars, queueVars
<1>2. ASSUME NEW c \in Cycles, StartCycle(c) PROVE RunningIsLast'
  BY <1>2 DEF StartCycle
<1>3. ASSUME NEW c, NEW scheduled, FinalizeCycle(c, scheduled) PROVE RunningIsLast'
  BY <1>3, VerdictType DEF FinalizeCycle, Verdicts
<1>4. ASSUME NEW c, AbandonCycle(c) PROVE RunningIsLast'
  BY <1>4 DEF AbandonCycle
<1> QED
  BY <1>1, <1>2, <1>3, <1>4

LEMMA RunningIsLastHolds == Spec => []RunningIsLast
<1>1. Init => RunningIsLast
  BY DEF Init, QueueInit, RunningIsLast
<1>2. CycleInv /\ RunningIsLast /\ [Next]_vars => RunningIsLast'
  BY CycleInvStep, RunningIsLastStep DEF CycleInv
<1> QED
  BY <1>1, <1>2, CycleInvHolds, PTL DEF Spec

\* A loop's URL has a row, and without browser loops no browser page has one.
RowsInv ==
    /\ \A l \in Loops : lpc[l] \notin {"off", "idle"} => status[lurl[l]] # "absent"
    /\ LaneLimit["browser"] = 0 => \A u \in Urls : LaneOf(u) = "browser" => status[u] = "absent"

LEMMA RowsInvStep ==
    ASSUME CycleInv, RowsInv, [Next]_vars
    PROVE  RowsInv'
<1> USE DEF CycleInv, LocalInv, LoopInv, LoopTypeOK
<1>1. \A u \in Urls : status[u] # "absent" => status'[u] # "absent"
  BY WhoQueues DEF NothingQueued, SeederQueues, LoopQueues, Queues
<1>2. ASSUME NEW l \in Loops, lpc'[l] \notin {"off", "idle"} PROVE status'[lurl'[l]] # "absent"
  <2>1. CASE \E u \in Urls : LoopClaim(l, u)
    BY <2>1 DEF LoopClaim, Claim, QueueTypeOK
  <2>2. CASE ~\E u \in Urls : LoopClaim(l, u)
    BY <1>1, <1>2, <2>2, BusyGoesOn DEF RowsInv, Busy
  <2> QED
    BY <2>1, <2>2
<1>3. ASSUME LaneLimit["browser"] = 0, NEW u \in Urls, LaneOf(u) = "browser"
      PROVE  status'[u] = "absent"
  <2>1. status[u] = "absent"
    BY <1>3 DEF RowsInv
  <2>2. CASE NothingQueued
    BY <2>1, <2>2 DEF NothingQueued, Queues
  <2>3. ASSUME NEW t \in Seeders, SeederQueues(t) PROVE status'[u] = "absent"
    BY <1>3, <2>1, <2>3 DEF SeederQueues, Queues
  <2>4. ASSUME NEW l \in Loops, LoopQueues(l) PROVE status'[u] = "absent"
    <3>1. lurl[l] \in Urls /\ status[lurl[l]] # "absent"
      BY <2>4 DEF LoopQueues, LoopLink, RowsInv
    <3>2. u \notin UrlsOf(SourceOf[lurl[l]])
      BY <1>3, <3>1 DEF RowsInv, UrlsOf, LaneOf
    <3> QED
      BY <2>1, <2>4, <3>2 DEF LoopQueues, Queues
  <2> QED
    BY <2>2, <2>3, <2>4, WhoQueues
<1>4. (\A u \in Urls : LaneOf(u) = "browser" => status[u] = "absent")'
      <=> \A u \in Urls : LaneOf(u) = "browser" => status'[u] = "absent"
  BY DEF LaneOf
<1> QED
  BY <1>2, <1>3, <1>4 DEF RowsInv

\* A loop is busy with a URL of its lane.
BusyInItsLane == \A l \in Loops : Busy(l) => LaneOfLoop(l) = LaneOf(lurl[l])

LEMMA BusyInItsLaneHolds == Spec => []BusyInItsLane
<1>1. Init => BusyInItsLane
  BY DEF Init, BusyInItsLane, Busy
<1>2. ASSUME CycleInv, BusyInItsLane, [Next]_vars PROVE BusyInItsLane'
  <2> SUFFICES ASSUME NEW l \in Loops, Busy(l)' PROVE LaneOfLoop(l) = LaneOf(lurl'[l])
    BY DEF BusyInItsLane, LaneOfLoop, LaneOf
  <2>1. CASE \E u \in Urls : LoopClaim(l, u)
    BY <1>2, <2>1 DEF LoopClaim, CycleInv, LocalInv, LoopInv, LoopTypeOK
  <2>2. CASE ~\E u \in Urls : LoopClaim(l, u)
    BY <1>2, <2>2, BusyGoesOn DEF BusyInItsLane
  <2> QED
    BY <2>1, <2>2
<1> QED
  BY <1>1, <1>2, CycleInvHolds, PTL DEF Spec

\* The cycle that a run() works is held open by no other, and worked by no loop
\* but those it awaits.
WorkedAlone ==
    \A t \in Seeders : tpc[t] = "working" =>
        /\ \A r \in Seeders : r # t => held[r] # tcycle[t]
        /\ \A l \in Loops : l \notin LoopsOf(t) => lcycle[l] # tcycle[t]

\* While a run() awaits loops that are on, every lane with anything left to do in
\* its cycle has one of them.
LaneInv ==
    \A t \in Seeders : tpc[t] = "working" /\ LoopsOn(t) # {} =>
        \A u \in Urls : status[u] \in Active /\ cycleId[u] = tcycle[t] =>
            \E l \in LoopsOn(t) : LaneOfLoop(l) = LaneOf(u)

\* What is queued in a cycle that one run() works alone is queued by its own loops.
LEMMA OnlyItsLoopsQueue ==
    ASSUME CycleInv, BusyInItsLane, WorkedAlone, [Next]_vars, NEW t \in Seeders,
           tpc[t] = "working", NEW u \in Urls, status'[u] \in Active, cycleId'[u] = tcycle[t]
    PROVE  \/ status[u] \in Active /\ cycleId[u] = tcycle[t]
           \/ \E l \in LoopsOn(t) : LoopQueues(l) /\ LaneOfLoop(l) = LaneOf(u)
<1> USE DEF CycleInv, LocalInv, LoopInv, LoopTypeOK
<1>1. CASE NothingQueued
  BY <1>1 DEF NothingQueued, Queues
<1>2. ASSUME NEW r \in Seeders, SeederQueues(r) PROVE status[u] \in Active /\ cycleId[u] = tcycle[t]
  BY <1>2 DEF SeederQueues, Queues, WorkedAlone
<1>3. ASSUME NEW l \in Loops, LoopQueues(l), ~(status[u] \in Active /\ cycleId[u] = tcycle[t])
      PROVE  l \in LoopsOn(t) /\ LaneOfLoop(l) = LaneOf(u)
  <2>1. lpc[l] = "linking"
    BY <1>3 DEF LoopQueues, LoopLink
  <2>2. u \in UrlsOf(SourceOf[lurl[l]]) /\ lcycle[l] = tcycle[t]
    BY <1>3 DEF LoopQueues, Queues
  <2>3. l \in LoopsOf(t)
    BY <2>2 DEF WorkedAlone
  <2>4. LaneOfLoop(l) = LaneOf(lurl[l])
    BY <2>1 DEF BusyInItsLane, Busy
  <2> QED
    BY <2>1, <2>2, <2>3, <2>4 DEF LoopsOn, UrlsOf, LaneOf
<1> QED
  BY <1>1, <1>2, <1>3, WhoQueues

\* A task that is working was so before the step, or serves now.
LEMMA WorkingGoesOn ==
    ASSUME CycleInv, CrewsInv, [Next]_vars, NEW t \in Seeders, tpc'[t] = "working"
    PROVE  Serve(t) \/ tpc[t] = "working"
<1>1. ASSUME NEW r \in Seeders, Serve(r), r # t PROVE tpc[t] = "working"
  BY <1>1, ServeStarts DEF Started, CycleInv, LocalInv, TaskInv, TaskTypeOK
<1>2. CASE KeepsAllElse
  BY <1>2 DEF KeepsAllElse, Keeps
<1> QED
  BY <1>1, <1>2, ServesOrKeeps

LEMMA LaneInvStep ==
    ASSUME LaneLimit["http"] # 0, CycleInv, CrewsInv, BusyInItsLane, WorkedAlone, RowsInv',
           LaneInv, [Next]_vars
    PROVE  LaneInv'
<1> SUFFICES ASSUME NEW t \in Seeders, tpc'[t] = "working", LoopsOn(t)' # {},
                    NEW u \in Urls, status'[u] \in Active, cycleId'[u] = tcycle'[t]
             PROVE  \E l \in LoopsOn(t)' : LaneOfLoop(l) = LaneOf(u)
  BY DEF LaneInv, LaneOf, LaneOfLoop
<1>1. CASE Serve(t)
  <2>1. PICK crews \in SUBSET Crews : Started(t, crews)
    BY <1>1, ServeStarts
  <2>2. status'[u] # "absent" /\ LaneLimit[LaneOf(u)] # 0 /\ LaneOf(u) \in Lanes
    BY DEF RowsInv, LaneOf, Lanes, Active, Waiting
  <2>3. PICK k \in crews : CrewLane[k] = LaneOf(u)
    BY <2>1, <2>2 DEF Started, LanesOn
  <2>4. PICK l \in Loops : CrewOf[l] = k
    BY CrewAssumption
  <2>5. lpc'[l] = "idle" /\ awaitedBy'[CrewOf[l]] = t
    BY <2>1, <2>3, <2>4 DEF Started
  <2> QED
    BY <2>3, <2>4, <2>5 DEF LoopsOn, LoopsOf, LaneOfLoop
<1>2. CASE tpc[t] = "working"
  <2>0. /\ tcycle'[t] = tcycle[t] /\ LoopsOn(t) # {}
        /\ \A l \in LoopsOn(t) : LoopExit(l) \/ l \in LoopsOn(t)'
    BY <1>2, AwaitedStayOn
  <2>1. CASE \E k \in LoopsOn(t) : LoopExit(k)
    <3>1. PICK k \in LoopsOn(t) : LoopExit(k)
      BY <2>1
    <3>2. lcycle[k] = tcycle[t]
      BY <3>1, CycleAssumption DEF CrewsInv, LoopsOn, LoopsOf
    <3> QED
      BY <2>0, <3>1, <3>2 DEF LoopExit, ActiveCount0, queueVars, rowVars
  <2>2. CASE ~\E k \in LoopsOn(t) : LoopExit(k)
    <3>1. ASSUME status[u] \in Active, cycleId[u] = tcycle[t]
          PROVE  \E l \in LoopsOn(t)' : LaneOfLoop(l) = LaneOf(u)
      BY <1>2, <2>0, <2>2, <3>1 DEF LaneInv
    <3> QED
      BY <1>2, <2>0, <2>2, <3>1, OnlyItsLoopsQueue
  <2> QED
    BY <2>1, <2>2
<1> QED
  BY <1>1, <1>2, WorkingGoesOn

\* As long as the cycle that a run() works is neither seeded nor worked by anybody
\* else, a lane is worked until nothing in it is left to do (LaneWorkedUntilDone):
\* no loop returns while there are pages, or links still to be found, for it.
THEOREM LanesAreWorked ==
    ASSUME LaneLimit["http"] # 0
    PROVE  Spec /\ []WorkedAlone => []LaneWorkedUntilDone
<1>1. Init => RowsInv /\ LaneInv
  BY DEF Init, QueueInit, RowsInv, LaneInv
<1>2. CycleInv /\ RowsInv /\ [Next]_vars => RowsInv'
  BY RowsInvStep
<1>3. /\ CycleInv /\ CrewsInv /\ BusyInItsLane /\ WorkedAlone /\ RowsInv' /\ LaneInv
      /\ [Next]_vars
      => LaneInv'
  BY LaneInvStep
<1>4. CrewsInv /\ LaneInv => LaneWorkedUntilDone
  <2>1. ASSUME CrewsInv, NEW t \in Seeders, LoopsOn(t) # {} PROVE tpc[t] = "working"
    BY <2>1, CycleAssumption, CrewAssumption DEF CrewsInv, LoopsOn, LoopsOf
  <2> QED
    BY <2>1 DEF LaneInv, LaneWorkedUntilDone, Active
<1> QED
  BY <1>1, <1>2, <1>3, <1>4, CycleInvHolds, CrewsInvHolds, BusyInItsLaneHolds, PTL DEF Spec

-----------------------------------------------------------------------------
(* Discovery.  The budget counts a link for the cycle it is in if it was   *)
(* discovered since that cycle started.  A loop that is still queueing the *)
(* links of an earlier cycle inserts rows that are as new as the cycle     *)
(* after it: requeued into that one, they count for it although nobody     *)
(* checked them against its budget.                                        *)

\* Nobody queues the links of a page for a cycle after the next one has started.
NoStragglers == \A l \in Loops : lpc[l] = "linking" => lcycle[l] = lastCycle

\* A link was discovered, at the latest, while the cycle it is in was the last.
FoundInv ==
    \A u \in Urls : IsLink(u) /\ status[u] # "absent" =>
                       foundIn[u] <= cycleId[u] /\ cycleId[u] <= lastCycle

\* Links come into being, and move to another cycle, only by RequeueDueLinks and
\* EnqueueLinks.
LinksStay ==
    \A u \in Urls : IsLink(u) => /\ cycleId'[u] = cycleId[u] /\ foundIn'[u] = foundIn[u]
                                 /\ status'[u] = "absent" <=> status[u] = "absent"

LEMMA WhoMovesLinks ==
    ASSUME QueueTypeOK, [Next]_vars
    PROVE  \/ LinksStay
           \/ \E t \in Seeders : RequeueDueLinks(t, relink[t])
           \/ \E l \in Loops : LoopLink(l)
<1>1. CASE NothingQueued
  BY <1>1 DEF LinksStay, NothingQueued, Queues
<1>2. ASSUME NEW t \in Seeders, SeedSource(t) PROVE LinksStay
  <2>1. CASE UNCHANGED queueVars
    BY <2>1 DEF queueVars, LinksStay
  <2>2. ASSUME NEW s, NEW n, NEW force, SeedListing(t, s, n, force) PROVE LinksStay
    <3>1. \A u \in Urls : IsLink(u) => u \notin {v \in UrlsOf(s) : PageNo[v] \in 1 .. n}
      BY DEF IsLink
    <3> QED
      BY <2>2, <3>1 DEF SeedListing, EnqueueRows, LinksStay
  <2> QED
    BY <1>2, <2>1, <2>2 DEF SeedSource, queueVars
<1> QED
  BY <1>1, <1>2, WhoQueues DEF SeederQueues, SeedLinks, LoopQueues

LEMMA DiscoveredIsFinite ==
    \A s, c : /\ IsFiniteSet(DiscoveredIn(s, c)) /\ Cardinality(DiscoveredIn(s, c)) \in Nat
              /\ Cardinality(DiscoveredIn(s, c)') \in Nat
<1> SUFFICES ASSUME NEW s, NEW c
             PROVE  /\ IsFiniteSet(DiscoveredIn(s, c)) /\ Cardinality(DiscoveredIn(s, c)) \in Nat
                    /\ Cardinality(DiscoveredIn(s, c)') \in Nat
  OBVIOUS
<1>1. DiscoveredIn(s, c) \subseteq Urls /\ DiscoveredIn(s, c)' \subseteq Urls
  BY DEF DiscoveredIn, LinksOf, UrlsOf
<1> QED
  BY <1>1, QueueAssumption, FS_Subset, FS_CardinalityType

\* enqueue_links, counting under the link lock, keeps within the budget.
LEMMA EnqueueLinksKeepsBudget ==
    ASSUME QueueTypeOK, DiscoveryBounded, NEW s0, NEW c0, NEW offered \in SUBSET Urls,
           EnqueueLinks(s0, c0, offered), NEW s \in Sources, NEW c \in Cycles
    PROVE  Cardinality(DiscoveredIn(s, c)') <= LinkMaxPages
<1>0. LinkMaxPages \in Nat /\ IsFiniteSet(Urls)
  BY QueueAssumption
<1>1. PICK kept \in SUBSET offered :
         /\ Cardinality(kept) = Smaller(Cardinality(offered),
                                        Room(LinkMaxPages, Cardinality(DiscoveredIn(s0, c0))))
         /\ EnqueueRows(c0, kept, FALSE)
  BY DEF EnqueueLinks
<1>2. \A u \in kept : u \in UrlsOf(s0)
  BY <1>1 DEF EnqueueLinks
<1> DEFINE D == DiscoveredIn(s, c)
<1>3. /\ IsFiniteSet(D) /\ Cardinality(D) \in Nat /\ Cardinality(D') \in Nat
      /\ Cardinality(D) <= LinkMaxPages
  BY DiscoveredIsFinite DEF DiscoveryBounded
<1>4. CASE s = s0 /\ c = c0
  <2>1. D' \subseteq D \cup kept
    BY <1>1, <1>4 DEF EnqueueRows, DiscoveredIn, LinksOf, UrlsOf, QueueTypeOK, Reschedule, Finished,
                      Fresh
  <2>2. IsFiniteSet(kept) /\ Cardinality(kept) \in Nat /\ Cardinality(offered) \in Nat
    BY <1>0, <1>1, FS_Subset, FS_CardinalityType
  <2>3. Cardinality(kept) <= Room(LinkMaxPages, Cardinality(D))
    BY <1>0, <1>1, <1>3, <1>4, <2>2 DEF Smaller, Room
  <2>4. /\ IsFiniteSet(D \cup kept)
        /\ Cardinality(D \cup kept) = Cardinality(D) + Cardinality(kept) - Cardinality(D \cap kept)
    BY <1>3, <2>2, FS_Union
  <2>5. Cardinality(D \cap kept) \in Nat
    BY <1>3, FS_Subset, FS_CardinalityType
  <2>6. Cardinality(D') <= Cardinality(D \cup kept) /\ Cardinality(D \cup kept) \in Nat
    BY <2>1, <2>4, FS_Subset, FS_CardinalityType
  <2> QED
    BY <1>0, <1>3, <2>2, <2>3, <2>4, <2>5, <2>6 DEF Room
<1>5. CASE ~(s = s0 /\ c = c0)
  <2>1. D' \subseteq D
    BY <1>1, <1>2, <1>5 DEF EnqueueRows, DiscoveredIn, LinksOf, UrlsOf, QueueTypeOK, Reschedule,
                            Finished, Fresh
  <2>2. Cardinality(D') <= Cardinality(D)
    BY <1>3, <2>1, FS_Subset
  <2> QED
    BY <1>0, <1>3, <2>2
<1> QED
  BY <1>4, <1>5

\* requeue_due_links brings links back into a running cycle, which is the last:
\* those that count as discovered in it were in it already.
LEMMA RequeueDiscoversNothing ==
    ASSUME QueueTypeOK, HoldsKeepOpen, RunningIsLast, FoundInv, NEW t \in Seeders, NEW s0,
           RequeueDueLinks(t, s0)
    PROVE  /\ FoundInv'
           /\ \A s, c : DiscoveredIn(s, c)' \subseteq DiscoveredIn(s, c)
<1>1. PICK taken \in SUBSET DueLinks(s0) :
          \E outOfScope \in SUBSET taken :
             RequeueRows(held[t], taken \ outOfScope, outOfScope)
  BY DEF RequeueDueLinks
<1>2. PICK outOfScope \in SUBSET taken :
          RequeueRows(held[t], taken \ outOfScope, outOfScope)
  BY <1>1
<1>3. held[t] = lastCycle /\ lastCycle' = lastCycle /\ lastCycle \in Nat
  BY QueueAssumption DEF RequeueDueLinks, HoldsKeepOpen, RunningIsLast, cycleVars, QueueTypeOK
<1>4. \A u \in taken : status[u] # "absent" /\ IsLink(u)
  BY DEF DueLinks, Reschedule, Finished
<1>5. \A u \in Urls : IsLink(u) /\ status[u] # "absent" =>
         /\ foundIn[u] \in Nat /\ cycleId[u] \in Nat
         /\ foundIn[u] <= cycleId[u] /\ cycleId[u] <= lastCycle
  BY QueueAssumption DEF FoundInv, QueueTypeOK
<1>6. \A u \in Urls : status'[u] # "absent" => status[u] # "absent"
  BY <1>2, <1>4 DEF RequeueRows, QueueTypeOK
<1>7. \A u \in Urls : /\ foundIn'[u] = foundIn[u]
                     /\ (cycleId'[u] = cycleId[u] \/ cycleId'[u] = lastCycle)
  BY <1>2, <1>3 DEF RequeueRows
<1>8. FoundInv'
  BY <1>3, <1>5, <1>6, <1>7 DEF FoundInv, IsLink
<1>9. ASSUME NEW s, NEW c, NEW u \in DiscoveredIn(s, c)' PROVE u \in DiscoveredIn(s, c)
  <2>1. /\ u \in UrlsOf(s) /\ u \in Urls /\ IsLink(u) /\ status[u] # "absent"
        /\ cycleId'[u] = c /\ foundIn[u] >= c
    BY <1>6, <1>7 DEF DiscoveredIn, LinksOf, UrlsOf, IsLink
  <2>2. cycleId[u] = c
    BY <1>3, <1>5, <1>7, <2>1
  <2> QED
    BY <2>1, <2>2 DEF DiscoveredIn, LinksOf
<1> QED
  BY <1>8, <1>9

LEMMA EnqueueLinksFound ==
    ASSUME QueueTypeOK, FoundInv, NEW s0, NEW offered, EnqueueLinks(s0, lastCycle, offered)
    PROVE  FoundInv'
<1>1. PICK kept : EnqueueRows(lastCycle, kept, FALSE)
  BY DEF EnqueueLinks
<1>2. lastCycle' = lastCycle /\ lastCycle \in Nat
  BY QueueAssumption DEF EnqueueLinks, cycleVars, QueueTypeOK
<1>3. \A u \in Urls : foundIn[u] \in Nat /\ cycleId[u] \in Nat
  BY QueueAssumption DEF QueueTypeOK
<1> QED
  BY <1>1, <1>2, <1>3 DEF EnqueueRows, FoundInv, IsLink, Fresh, Reschedule, Finished, QueueTypeOK

LEMMA DiscoveryStep ==
    ASSUME CycleInv, HoldsKeepOpen, RunningIsLast, FoundInv, DiscoveryBounded, NoStragglers,
           [Next]_vars
    PROVE  FoundInv' /\ DiscoveryBounded'
<1>0. QueueTypeOK /\ lastCycle \in Nat /\ lastCycle' \in Nat /\ lastCycle <= lastCycle'
  BY CycleInvStep, LastCycleGrows DEF CycleInv
<1>1. ASSUME \A s, c : DiscoveredIn(s, c)' \subseteq DiscoveredIn(s, c)
      PROVE  DiscoveryBounded'
  <2> SUFFICES ASSUME NEW s \in Sources, NEW c \in Cycles
               PROVE  Cardinality(DiscoveredIn(s, c)') <= LinkMaxPages
    BY DEF DiscoveryBounded
  <2>1. Cardinality(DiscoveredIn(s, c)') <= Cardinality(DiscoveredIn(s, c))
    BY <1>1, DiscoveredIsFinite, FS_Subset
  <2> QED
    BY <2>1, DiscoveredIsFinite, QueueAssumption DEF DiscoveryBounded
<1>2. CASE LinksStay
  <2>1. \A s, c : DiscoveredIn(s, c)' \subseteq DiscoveredIn(s, c)
    BY <1>2 DEF LinksStay, DiscoveredIn, LinksOf, UrlsOf, IsLink
  <2>2. FoundInv'
    <3>1. \A u \in Urls : cycleId[u] \in Nat
      BY <1>0, QueueAssumption DEF QueueTypeOK
    <3> QED
      BY <1>0, <1>2, <3>1 DEF LinksStay, FoundInv, IsLink
  <2> QED
    BY <1>1, <2>1, <2>2
<1>3. ASSUME NEW t \in Seeders, RequeueDueLinks(t, relink[t]) PROVE FoundInv' /\ DiscoveryBounded'
  BY <1>0, <1>1, <1>3, RequeueDiscoversNothing
<1>4. ASSUME NEW l \in Loops, LoopLink(l) PROVE FoundInv' /\ DiscoveryBounded'
  <2>1. lcycle[l] = lastCycle /\ loffer[l] \in SUBSET Urls
    BY <1>4 DEF LoopLink, NoStragglers, CycleInv, LocalInv, LoopInv, LoopTypeOK
  <2>2. EnqueueLinks(SourceOf[lurl[l]], lastCycle, loffer[l])
    BY <1>4, <2>1 DEF LoopLink
  <2>3. FoundInv'
    BY <1>0, <2>2, EnqueueLinksFound
  <2>4. \A s \in Sources, c \in Cycles : Cardinality(DiscoveredIn(s, c)') <= LinkMaxPages
    BY <1>0, <2>1, <2>2, EnqueueLinksKeepsBudget
  <2> QED
    BY <2>3, <2>4 DEF DiscoveryBounded
<1> QED
  BY <1>0, <1>2, <1>3, <1>4, WhoMovesLinks

\* The links a source has discovered in a cycle never exceed its budget
\* (DiscoveryBounded), however many workers offer links read as eligible before
\* the lock, as long as nobody queues them for a cycle that another has followed.
THEOREM DiscoveryStaysBounded == Spec /\ []NoStragglers => []DiscoveryBounded
<1>1. Init => FoundInv /\ DiscoveryBounded
  <2> SUFFICES ASSUME Init PROVE FoundInv /\ DiscoveryBounded
    OBVIOUS
  <2>1. \A s, c : DiscoveredIn(s, c) = {}
    BY DEF Init, QueueInit, DiscoveredIn, LinksOf, UrlsOf
  <2>2. \A s, c : Cardinality(DiscoveredIn(s, c)) = 0
    BY <2>1, FS_EmptySet
  <2>3. DiscoveryBounded
    BY <2>2, QueueAssumption DEF DiscoveryBounded
  <2> QED
    BY <2>3 DEF Init, QueueInit, FoundInv
<1>2. /\ CycleInv /\ HoldsKeepOpen /\ RunningIsLast /\ FoundInv /\ DiscoveryBounded
      /\ NoStragglers /\ [Next]_vars
      => FoundInv' /\ DiscoveryBounded'
  BY DiscoveryStep
<1>3. Spec => []HoldsKeepOpen
  BY ImplementsQueue, OpenHolds, PTL
<1> QED
  BY <1>1, <1>2, <1>3, CycleInvHolds, RunningIsLastHolds, PTL DEF Spec

\* If no run() closes a cycle in which a loop is busy there are no stragglers, so the
\* budget holds (DiscoveryBounded) under that condition alone.
THEOREM DiscoveryBoundedUnlessClosedWorked == Spec /\ []ClosedUnworked => []DiscoveryBounded
<1>1. CycleInv /\ BusyInOpenCycle /\ RunningIsLast => NoStragglers
  <2> SUFFICES ASSUME CycleInv, BusyInOpenCycle, RunningIsLast,
                      NEW l \in Loops, lpc[l] = "linking"
               PROVE  lcycle[l] = lastCycle
    BY DEF NoStragglers
  <2>1. lcycle[l] \in Cycles /\ cycleStatus[lcycle[l]] = "running"
    BY QueueAssumption DEF BusyInOpenCycle, Busy, CycleInv, LocalInv, LoopInv, LoopTypeOK, Cycles
  <2> QED
    BY <2>1 DEF RunningIsLast
<1> QED
  BY <1>1, CycleInvHolds, QuietInvHolds, RunningIsLastHolds, DiscoveryStaysBounded, PTL

-----------------------------------------------------------------------------
(* Deployments that meet the conditions.  An exception in a reaper or in a *)
(* claim loop makes the gather raise and leaves loops nobody awaits; no    *)
(* number of tasks excludes that, so both are excluded here.  Crashes,     *)
(* timeouts, stale cycles and errors in the bookkeeping are not.           *)

NothingRaises == FaultKinds \cap {"reaper", "database"} = {}

\* Every loop that is on is awaited, and has its reaper.
AllAwaited ==
    /\ failedReaper = {}
    /\ \A l \in Loops : lpc[l] # "off" => awaitedBy[CrewOf[l]] # NoTask

LEMMA AllAwaitedStep ==
    ASSUME NothingRaises, CycleInv, CrewsInv, AllAwaited, [Next]_vars
    PROVE  AllAwaited'
<1> USE CycleAssumption, CrewAssumption DEF AllAwaited
<1>0. awaitedBy \in [Crews -> Seeders \cup {NoTask}]
  BY DEF CycleInv, LocalInv, ProcInv, ProcTypeOK
<1>1. ASSUME UNCHANGED <<failedReaper, awaitedBy>>,
             \A l \in Loops : lpc[l] = "off" => lpc'[l] = "off"
      PROVE  AllAwaited'
  BY <1>1
<1>2. ASSUME NEW t \in Seeders, Serve(t) PROVE AllAwaited'
  <2>1. PICK crews \in SUBSET Crews : Started(t, crews)
    BY <1>2, ServeStarts
  <2>2. failedReaper' = {}
    BY <1>2 DEF Serve
  <2> QED
    BY <1>0, <2>1, <2>2 DEF Started
<1>3. ASSUME NEW t \in Seeders, TaskStep(t), ~Serve(t) PROVE AllAwaited'
  <2>1. ~LaneRaises(t)
    BY DEF LaneRaises
  <2>2. CASE Drained(t)
    BY <1>0, <2>2 DEF Drained, GatherEnds, LoopsOn, LoopsOf, loopVars
  <2>3. CASE ~Drained(t)
    <3>1. UNCHANGED <<failedReaper, awaitedBy, lpc>>
      BY <1>3, <2>1, <2>3
      DEF TaskStep, BeginRun, AbandonStale, Run, RefusedLock, LockAndStart, Beaten, JoinWinner,
          BeginSeed, SeedRefused, SeedSource, SeedLinks, EndSeed, AlreadyServing, ReapLast,
          Finalize, NotFinalized, Return, procVars, loopVars
    <3> QED
      BY <1>1, <3>1
  <2> QED
    BY <2>2, <2>3
<1>4. ASSUME NEW l \in Loops, LoopStep(l) \/ SwallowError(l) PROVE AllAwaited'
  <2>1. UNCHANGED <<failedReaper, awaitedBy>>
    BY <1>4 DEF LoopStep, LoopClaim, LoopExit, RecordOk, RecordFailure, LostLease, AfterOutcome,
                LoopPrune, LoopOffer, LoopLink, SwallowError, procVars
  <2> QED
    BY <1>1, <1>4, <2>1, LoopStepsApart
<1>5. ASSUME NEW p \in Procs, Crash(p) PROVE AllAwaited'
  <2>1. \A l \in Loops : lpc'[l] # "off" => lpc[l] # "off" /\ CrewProc[CrewOf[l]] # p
    BY <1>5 DEF Crash, Gone
  <2>2. \A k \in Crews : CrewProc[k] # p => awaitedBy'[k] = awaitedBy[k]
    BY <1>0, <1>5 DEF Crash
  <2> QED
    BY <1>5, <2>1, <2>2 DEF Crash
<1>6. ASSUME NEW t \in Seeders, JobTimeout(t) PROVE AllAwaited'
  <2>1. CASE tpc[t] = "working"
    BY <1>0, <1>6, <2>1 DEF JobTimeout, Gone, GatherEnds, LoopsOf
  <2>2. CASE tpc[t] # "working"
    BY <1>1, <1>6, <2>2 DEF JobTimeout, Gone
  <2> QED
    BY <2>1, <2>2
<1>7. ASSUME \/ \E p \in Procs : Reap(p) \/ SkipDisabledOf(p) \/ Heartbeat(p)
             \/ \E c \in Known : GoesStale(c)
             \/ \E s \in Sources, on \in BOOLEAN : Toggle(s, on)
             \/ Clock \/ Quiet \/ UNCHANGED vars
      PROVE  AllAwaited'
  <2>1. UNCHANGED <<failedReaper, awaitedBy, lpc>>
    BY <1>7 DEF Reap, SkipDisabledOf, Heartbeat, GoesStale, Toggle, Clock,
                Quiet, vars, localVars, loopVars, procVars
  <2> QED
    BY <1>1, <2>1
<1>8. /\ \A p \in Procs : ~LoseReaper(p)
      /\ \A l \in Loops : ~LoopRaises(l)
  BY DEF NothingRaises, LoseReaper, LoopRaises
<1> QED
  BY <1>2, <1>3, <1>4, <1>5, <1>6, <1>7, <1>8 DEF Next

LEMMA AllAwaitedHolds ==
    ASSUME NothingRaises
    PROVE  Spec => []AllAwaited
<1>1. Init => AllAwaited
  BY DEF Init, AllAwaited
<1>2. CycleInv /\ CrewsInv /\ AllAwaited /\ [Next]_vars => AllAwaited'
  BY AllAwaitedStep
<1> QED
  BY <1>1, <1>2, CycleInvHolds, CrewsInvHolds, PTL DEF Spec

\* A deployment with one task, a single cron job and no Sync, in which no reaper and
\* no claim loop raises: a closed cycle is quiet (QuietWhenClosed), lanes are worked
\* until they are done, and the budget holds, through any crashes, timeouts, stale
\* cycles and errors in the bookkeeping.
THEOREM OneTaskIsEnough ==
    ASSUME \A t, r \in Seeders : t = r, NothingRaises, LaneLimit["http"] # 0
    PROVE  Spec => [](QuietWhenClosed /\ LaneWorkedUntilDone /\ DiscoveryBounded)
<1> USE CycleAssumption, CrewAssumption
<1>0. ASSUME CycleInv, CrewsInv, AllAwaited, NEW l \in Loops, lpc[l] # "off", NEW t \in Seeders
      PROVE  l \in LoopsOf(t) /\ tpc[t] = "working"
  BY <1>0 DEF CycleInv, LocalInv, ProcInv, ProcTypeOK, CrewsInv, AllAwaited, LoopsOf
<1>1. CycleInv /\ CrewsInv /\ AllAwaited => ClosedUnworked
  BY <1>0 DEF ClosedUnworked, Busy
<1>2. CycleInv /\ CrewsInv /\ AllAwaited => WorkedAlone
  <2> SUFFICES ASSUME CycleInv, CrewsInv, AllAwaited, NEW t \in Seeders, tpc[t] = "working",
                      NEW l \in Loops, l \notin LoopsOf(t)
               PROVE  lcycle[l] # tcycle[t]
    BY DEF WorkedAlone
  <2>1. lpc[l] = "off"
    BY <1>0
  <2>2. lcycle[l] = 0 /\ tcycle[t] # 0
    BY <2>1 DEF CycleInv, LocalInv, LoopInv, LoopTypeOK, TaskInv, InCycle
  <2> QED
    BY <2>2
<1>3. Spec => []CycleInv /\ []CrewsInv /\ []AllAwaited
  BY CycleInvHolds, CrewsInvHolds, AllAwaitedHolds
<1>4. Spec => []QuietWhenClosed
  BY <1>1, <1>3, QuietUnlessClosedWorked, PTL
<1>5. Spec => []LaneWorkedUntilDone
  BY <1>2, <1>3, LanesAreWorked, PTL
<1>6. Spec => []DiscoveryBounded
  BY <1>1, <1>3, DiscoveryBoundedUnlessClosedWorked, PTL
<1> QED
  BY <1>4, <1>5, <1>6, PTL

\* Where no process runs two tasks, and no reaper and no claim loop raises, no two
\* loops of one name are on at the same time, and every outcome belongs to the claim
\* it was fetched under (OutcomeOfItsClaim), however many processes there are.
THEOREM OneTaskPerProcessIsEnough ==
    ASSUME \A t, r \in Seeders : TaskProc[t] = TaskProc[r] => t = r, NothingRaises
    PROVE  Spec => OutcomeOfItsClaim
<1>1. CycleInv /\ CrewsInv /\ AllAwaited => NoNamesakes
  <2> SUFFICES ASSUME CycleInv, CrewsInv, AllAwaited, NEW l \in Loops, NEW k \in Loops,
                      lpc[l] # "off", lpc[k] # "off", NameOf[l] = NameOf[k], l # k
               PROVE  FALSE
    BY DEF NoNamesakes
  <2>1. /\ CrewOf[l] \in Crews /\ CrewOf[k] \in Crews /\ CrewOf[l] # CrewOf[k]
        /\ CrewProc[CrewOf[l]] = CrewProc[CrewOf[k]]
        /\ CrewLane[CrewOf[l]] = CrewLane[CrewOf[k]]
    BY CrewAssumption
  <2>2. /\ awaitedBy[CrewOf[l]] \in Seeders /\ awaitedBy[CrewOf[k]] \in Seeders
        /\ awaitedBy[CrewOf[l]] # NoTask /\ awaitedBy[CrewOf[k]] # NoTask
    BY <2>1 DEF CycleInv, LocalInv, ProcInv, ProcTypeOK, AllAwaited
  <2>3. awaitedBy[CrewOf[l]] = awaitedBy[CrewOf[k]]
    BY <2>1, <2>2 DEF CrewsInv
  <2> QED
    BY <2>1, <2>2, <2>3 DEF CrewsInv
<1> QED
  BY <1>1, CycleInvHolds, CrewsInvHolds, AllAwaitedHolds, OutcomesBelong, PTL
=============================================================================
