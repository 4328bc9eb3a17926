-------------------------- MODULE CrawlQueueProofs --------------------------
(***************************************************************************)
(* Theorems about CrawlQueue, for every value of its constants: any number *)
(* of URLs, sources, workers, seeders and cycles, and any limits.          *)
(***************************************************************************)
EXTENDS CrawlQueue, FiniteSetTheorems, TLAPS

-----------------------------------------------------------------------------
(* Type correctness.                                                       *)

\* A batch offered to a cycle leaves every column it writes well typed.
LEMMA EnqueueRowsType ==
    ASSUME QueueTypeOK, NEW c \in 0 .. MaxCycles, NEW batch, NEW force, EnqueueRows(c, batch, force)
    PROVE  /\ status'   \in [Urls -> Statuses]
           /\ cycleId'  \in [Urls -> 0 .. MaxCycles]
           /\ attempt'  \in [Urls -> Nat]
           /\ leasedBy' \in [Urls -> Workers \cup {NoWorker}]
           /\ leased'   \in [Urls -> BOOLEAN]
           /\ due'      \in [Urls -> BOOLEAN]
           /\ foundIn'  \in [Urls -> 0 .. MaxCycles]
  BY DEF QueueTypeOK, EnqueueRows, Statuses, Active, Waiting

\* The same of an outcome, whatever status it settles on.
LEMMA SettleType ==
    ASSUME QueueTypeOK, NEW u \in Urls, NEW st \in Statuses, Settle(u, st)
    PROVE  QueueTypeOK'
  BY DEF QueueTypeOK, Settle, cycleVars, Cycles

LEMMA SkipRowsType ==
    ASSUME QueueTypeOK, NEW rows, SkipRows(rows)
    PROVE  QueueTypeOK'
  BY DEF QueueTypeOK, SkipRows, cycleVars, Cycles, Statuses, Finished

LEMMA VerdictType == \A c : Verdict(c) \in Verdicts
  BY DEF Verdict, Verdicts

LEMMA QueueTypeStep ==
    ASSUME QueueTypeOK, [QueueNext]_queueVars
    PROVE  QueueTypeOK'
<1> USE QueueAssumption
<1>0. Known \subseteq Cycles
  BY DEF Known, Cycles, QueueTypeOK
<1>1. ASSUME NEW c \in Cycles, StartCycle(c) PROVE QueueTypeOK'
  BY <1>1 DEF StartCycle, QueueTypeOK, rowVars, Cycles, Closed, Verdicts
<1>2. ASSUME NEW t \in Seeders, NEW c \in Known, HoldCycleOpen(t, c) PROVE QueueTypeOK'
  BY <1>0, <1>2 DEF HoldCycleOpen, QueueTypeOK, rowVars, Cycles
<1>3. ASSUME NEW ts \in SUBSET Seeders, ReleaseHolds(ts) PROVE QueueTypeOK'
  BY <1>3 DEF ReleaseHolds, QueueTypeOK, rowVars
<1>4. ASSUME NEW t \in Seeders, NEW s, NEW n, NEW force, SeedListing(t, s, n, force)
      PROVE  QueueTypeOK'
  <2>1. held[t] \in 0 .. MaxCycles
    BY DEF QueueTypeOK
  <2> QED
    BY <1>4, <2>1, EnqueueRowsType DEF SeedListing, QueueTypeOK, cycleVars
<1>5. ASSUME NEW t \in Seeders, NEW s, RequeueDueLinks(t, s) PROVE QueueTypeOK'
  <2>1. held[t] \in 0 .. MaxCycles
    BY DEF QueueTypeOK
  <2>2. PICK ok, outOfScope : RequeueRows(held[t], ok, outOfScope)
    BY <1>5 DEF RequeueDueLinks
  <2> QED
    BY <1>5, <2>1, <2>2 DEF RequeueDueLinks, RequeueRows, QueueTypeOK, cycleVars, Statuses,
                            Active, Waiting, Finished
<1>6. ASSUME NEW w \in Workers, NEW u \in Urls, NEW c, Claim(w, u, c) PROVE QueueTypeOK'
  BY <1>6 DEF Claim, QueueTypeOK, cycleVars, Statuses, Active
<1>7. ASSUME NEW w, NEW u \in Urls, Complete(w, u) PROVE QueueTypeOK'
  BY <1>7, SettleType DEF Complete, Statuses, Finished
<1>8. ASSUME NEW w, NEW u \in Urls, NEW transient, Fail(w, u, transient) PROVE QueueTypeOK'
  BY <1>8, SettleType DEF Fail, AfterFailure, Statuses, Finished, Active, Waiting
<1>9. ASSUME NEW s, NEW c, NEW after, PruneListing(s, c, after) PROVE QueueTypeOK'
  BY <1>9, SkipRowsType DEF PruneListing
<1>10. ASSUME NEW s, NEW c \in Known, NEW offered, EnqueueLinks(s, c, offered)
       PROVE  QueueTypeOK'
  <2>1. c \in 0 .. MaxCycles
    BY <1>0 DEF Cycles
  <2> QED
    BY <1>10, <2>1, EnqueueRowsType DEF EnqueueLinks, QueueTypeOK, cycleVars
<1>11. ASSUME NEW c, SkipDisabled(c) PROVE QueueTypeOK'
  BY <1>11, SkipRowsType DEF SkipDisabled
<1>12. CASE ReapExpired
  BY <1>12 DEF ReapExpired, AfterFailure, QueueTypeOK, cycleVars, Statuses, Active,
               Waiting, Finished
<1>13. ASSUME NEW c \in Known, NEW scheduled, FinalizeCycle(c, scheduled) PROVE QueueTypeOK'
  BY <1>0, <1>13, VerdictType DEF FinalizeCycle, QueueTypeOK, rowVars, Closed
<1>14. ASSUME NEW c \in Known, AbandonCycle(c) PROVE QueueTypeOK'
  BY <1>0, <1>14 DEF AbandonCycle, QueueTypeOK, Closed, Statuses, Finished
<1>15. ASSUME NEW u \in Urls, LeaseRunsOut(u) PROVE QueueTypeOK'
  BY <1>15 DEF LeaseRunsOut, QueueTypeOK, cycleVars
<1>16. ASSUME NEW u \in Urls, ComesDue(u) PROVE QueueTypeOK'
  BY <1>16 DEF ComesDue, QueueTypeOK, cycleVars
<1>17. ASSUME NEW s \in Sources, NEW on, SetEnabled(s, on) PROVE QueueTypeOK'
  BY <1>17 DEF SetEnabled, QueueTypeOK, rowVars, cycleVars
<1>18. CASE UNCHANGED queueVars
  BY <1>18 DEF queueVars, QueueTypeOK
<1> QED
  BY <1>1, <1>2, <1>3, <1>4, <1>5, <1>6, <1>7, <1>8, <1>9, <1>10, <1>11, <1>12, <1>13,
     <1>14, <1>15, <1>16, <1>17, <1>18 DEF QueueNext

\* Every reachable state of the queue is well typed (QueueTypeOK).
THEOREM QueueTypeCorrect == QueueSpec => []QueueTypeOK
<1>1. QueueInit => QueueTypeOK
  BY QueueAssumption DEF QueueInit, QueueTypeOK, Statuses, Cycles
<1> QED
  BY <1>1, QueueTypeStep, PTL DEF QueueSpec

-----------------------------------------------------------------------------
(* Attempts.  AttemptsBounded alone is not inductive: that a claim takes a *)
(* URL to at most MaxAttempts needs every waiting URL to be below it.      *)

RetriesLeft == \A u \in Urls : status[u] \in Waiting => attempt[u] < MaxAttempts

AttemptInv == QueueTypeOK /\ AttemptsBounded /\ RetriesLeft

\* A batch that is scheduled afresh starts again from no attempt, one that is
\* adopted keeps the attempts it has used.
LEMMA EnqueueRowsAttempts ==
    ASSUME AttemptInv, NEW c, NEW batch, NEW force, EnqueueRows(c, batch, force)
    PROVE  AttemptsBounded' /\ RetriesLeft'
  BY QueueAssumption
  DEF AttemptInv, AttemptsBounded, RetriesLeft, QueueTypeOK, EnqueueRows, Waiting

LEMMA SettleAttempts ==
    ASSUME AttemptInv, NEW u \in Urls, NEW st \in Finished \cup {"retry"},
           st = "retry" => attempt[u] < MaxAttempts, Settle(u, st)
    PROVE  AttemptsBounded' /\ RetriesLeft'
  BY DEF AttemptInv, AttemptsBounded, RetriesLeft, QueueTypeOK, Settle, Finished, Waiting

LEMMA SkipRowsAttempts ==
    ASSUME AttemptInv, NEW rows, SkipRows(rows)
    PROVE  AttemptsBounded' /\ RetriesLeft'
  BY DEF AttemptInv, AttemptsBounded, RetriesLeft, QueueTypeOK, SkipRows, Waiting

\* No URL is ever claimed more than MaxAttempts times between two schedulings
\* (AttemptsBounded), whoever fails, dies, adopts or re-queues it.
THEOREM AttemptsAreBounded == QueueSpec => []AttemptsBounded
<1>1. QueueInit => AttemptsBounded /\ RetriesLeft
  BY QueueAssumption DEF QueueInit, AttemptsBounded, RetriesLeft, Waiting
<1>2. AttemptInv /\ [QueueNext]_queueVars => AttemptsBounded' /\ RetriesLeft'
  <2> SUFFICES ASSUME AttemptInv, [QueueNext]_queueVars PROVE AttemptsBounded' /\ RetriesLeft'
    OBVIOUS
  <2>1. CASE UNCHANGED <<status, attempt>>
    BY <2>1 DEF AttemptInv, AttemptsBounded, RetriesLeft
  <2>2. ASSUME NEW t, NEW s, NEW n, NEW force, SeedListing(t, s, n, force)
        PROVE  AttemptsBounded' /\ RetriesLeft'
    BY <2>2, EnqueueRowsAttempts DEF SeedListing
  <2>3. ASSUME NEW s, NEW c, NEW offered, EnqueueLinks(s, c, offered)
        PROVE  AttemptsBounded' /\ RetriesLeft'
    BY <2>3, EnqueueRowsAttempts DEF EnqueueLinks
  <2>4. ASSUME NEW t, NEW s, RequeueDueLinks(t, s) PROVE AttemptsBounded' /\ RetriesLeft'
    <3>1. PICK ok, outOfScope : RequeueRows(held[t], ok, outOfScope)
      BY <2>4 DEF RequeueDueLinks
    <3> QED
      BY <3>1, QueueAssumption
      DEF AttemptInv, AttemptsBounded, RetriesLeft, QueueTypeOK, RequeueRows, Waiting
  <2>5. ASSUME NEW w, NEW u \in Urls, NEW c, Claim(w, u, c) PROVE AttemptsBounded' /\ RetriesLeft'
    BY <2>5, QueueAssumption
    DEF Claim, Claimable, AttemptInv, AttemptsBounded, RetriesLeft, QueueTypeOK, Waiting
  <2>6. ASSUME NEW w, NEW u \in Urls, Complete(w, u) PROVE AttemptsBounded' /\ RetriesLeft'
    BY <2>6, SettleAttempts DEF Complete, Finished
  <2>7. ASSUME NEW w, NEW u \in Urls, NEW transient, Fail(w, u, transient)
        PROVE  AttemptsBounded' /\ RetriesLeft'
    BY <2>7, SettleAttempts DEF Fail, AfterFailure, Finished
  <2>8. CASE ReapExpired
    BY <2>8 DEF ReapExpired, AfterFailure, AttemptInv, AttemptsBounded, RetriesLeft,
                QueueTypeOK, Waiting
  <2>9. ASSUME NEW s, NEW c, NEW after, PruneListing(s, c, after)
        PROVE  AttemptsBounded' /\ RetriesLeft'
    BY <2>9, SkipRowsAttempts DEF PruneListing
  <2>10. ASSUME NEW c, SkipDisabled(c) PROVE AttemptsBounded' /\ RetriesLeft'
    BY <2>10, SkipRowsAttempts DEF SkipDisabled
  <2>11. ASSUME NEW c, AbandonCycle(c) PROVE AttemptsBounded' /\ RetriesLeft'
    BY <2>11 DEF AbandonCycle, AttemptInv, AttemptsBounded, RetriesLeft, QueueTypeOK, Waiting
  <2>12. \/ UNCHANGED <<status, attempt>>
         \/ \E t, s, n, force : SeedListing(t, s, n, force)
         \/ \E s, c, offered : EnqueueLinks(s, c, offered)
         \/ \E t, s : RequeueDueLinks(t, s)
         \/ \E w, c : \E u \in Urls : Claim(w, u, c)
         \/ \E w : \E u \in Urls : Complete(w, u)
         \/ \E w, transient : \E u \in Urls : Fail(w, u, transient)
         \/ ReapExpired
         \/ \E s, c, after : PruneListing(s, c, after)
         \/ \E c : SkipDisabled(c)
         \/ \E c : AbandonCycle(c)
    BY DEF QueueNext, StartCycle, HoldCycleOpen, ReleaseHolds, FinalizeCycle, LeaseRunsOut,
           ComesDue, SetEnabled, rowVars, queueVars
  <2> QED
    BY <2>1, <2>2, <2>3, <2>4, <2>5, <2>6, <2>7, <2>8, <2>9, <2>10, <2>11, <2>12
<1>3. QueueSpec => [](AttemptsBounded /\ RetriesLeft)
  BY <1>1, <1>2, QueueTypeCorrect, PTL DEF QueueSpec, AttemptInv
<1> QED
  BY <1>3, PTL

-----------------------------------------------------------------------------
(* Live leases.  A step that is not a claim makes no lease live; a step of *)
(* any kind leaves a live lease to the worker that holds it.               *)

LiveRow(u) == status[u] = "running" /\ leased[u]

\* What a step may do to a row whose lease is live (the body of
\* LiveLeaseIsExclusive).
KeepsLease(u) ==
    /\ cycleId'[u] = cycleId[u]
    /\ attempt'[u] = attempt[u]
    /\ status'[u] = "running" => leasedBy'[u] = leasedBy[u]
    /\ status'[u] \in {"running", "succeeded", "failed", "retry"}

\* No lease becomes live but by a claim, and no live lease is disturbed.
LEMMA StepOnLeases ==
    ASSUME QueueTypeOK, [QueueNext]_queueVars
    PROVE  /\ \A u \in Urls : LiveRow(u) => KeepsLease(u)
           /\ \/ \A u \in Urls : LiveRow(u)' => LiveRow(u)
              \/ \E w \in Workers, u \in Urls, c \in Known : Claim(w, u, c)
<1> DEFINE Quiet == \A u \in Urls : LiveRow(u)' => LiveRow(u)
           Safe  == \A u \in Urls : LiveRow(u) => KeepsLease(u)
<1> USE DEF LiveRow, KeepsLease
<1>1. CASE UNCHANGED <<status, cycleId, attempt, leasedBy>>
           /\ \A u \in Urls : leased'[u] => leased[u]
  BY <1>1
<1>2. ASSUME NEW c, NEW batch, NEW force, EnqueueRows(c, batch, force) PROVE Safe /\ Quiet
  BY <1>2 DEF EnqueueRows, Fresh, Reschedule, Adoptable, Finished, Waiting, QueueTypeOK
<1>3. ASSUME NEW t, NEW s, RequeueDueLinks(t, s) PROVE Safe /\ Quiet
  <2>1. PICK taken \in SUBSET DueLinks(s) : \E out \in SUBSET taken :
           RequeueRows(held[t], taken \ out, out)
    BY <1>3 DEF RequeueDueLinks
  <2>2. \A u \in taken : status[u] \in Finished
    BY <2>1 DEF DueLinks, Reschedule
  <2> QED
    BY <2>1, <2>2 DEF RequeueRows, QueueTypeOK, Finished
<1>4. ASSUME NEW w, NEW u \in Urls, NEW c, Claim(w, u, c) PROVE Safe
  BY <1>4 DEF Claim, Claimable, Waiting, QueueTypeOK
<1>5. ASSUME NEW u \in Urls, NEW st \in Finished \cup {"retry"}, Settle(u, st),
             st # "skipped"
      PROVE  Safe /\ Quiet
  BY <1>5 DEF Settle, QueueTypeOK, Finished
<1>6. ASSUME NEW w, NEW u \in Urls, Complete(w, u) PROVE Safe /\ Quiet
  BY <1>5, <1>6 DEF Complete, Finished
<1>7. ASSUME NEW w, NEW u \in Urls, NEW transient, Fail(w, u, transient) PROVE Safe /\ Quiet
  BY <1>5, <1>7 DEF Fail, AfterFailure, Finished
<1>8. ASSUME NEW rows, SkipRows(rows), \A u \in rows : status[u] \in Waiting PROVE Safe /\ Quiet
  BY <1>8 DEF SkipRows, Waiting, QueueTypeOK
<1>9. ASSUME NEW s, NEW c, NEW after, PruneListing(s, c, after) PROVE Safe /\ Quiet
  BY <1>8, <1>9 DEF PruneListing, BehindPage
<1>10. ASSUME NEW c, SkipDisabled(c) PROVE Safe /\ Quiet
  BY <1>8, <1>10 DEF SkipDisabled, OfDisabled
<1>11. CASE ReapExpired
  BY <1>11 DEF ReapExpired, Expired, AfterFailure, QueueTypeOK
<1>12. ASSUME NEW c, AbandonCycle(c) PROVE Safe /\ Quiet
  BY <1>12 DEF AbandonCycle, QueueTypeOK
<1>13. ASSUME NEW u \in Urls, LeaseRunsOut(u) PROVE Safe /\ Quiet
  BY <1>13 DEF LeaseRunsOut, QueueTypeOK
<1>14. \/ UNCHANGED <<status, cycleId, attempt, leasedBy, leased>>
       \/ \E c, batch, force : EnqueueRows(c, batch, force)
       \/ \E t, s : RequeueDueLinks(t, s)
       \/ \E w \in Workers, u \in Urls, c \in Known : Claim(w, u, c)
       \/ \E w : \E u \in Urls : Complete(w, u)
       \/ \E w, transient : \E u \in Urls : Fail(w, u, transient)
       \/ ReapExpired
       \/ \E s, c, after : PruneListing(s, c, after)
       \/ \E c : SkipDisabled(c)
       \/ \E c : AbandonCycle(c)
       \/ \E u \in Urls : LeaseRunsOut(u)
  BY DEF QueueNext, StartCycle, HoldCycleOpen, ReleaseHolds, FinalizeCycle, ComesDue, SetEnabled,
         SeedListing, EnqueueLinks, rowVars, queueVars
<1>15. Safe
  BY <1>1, <1>2, <1>3, <1>4, <1>6, <1>7, <1>9, <1>10, <1>11, <1>12, <1>13, <1>14
<1>16. Quiet \/ \E w \in Workers, u \in Urls, c \in Known : Claim(w, u, c)
  BY <1>1, <1>2, <1>3, <1>6, <1>7, <1>9, <1>10, <1>11, <1>12, <1>13, <1>14
<1> QED
  BY <1>15, <1>16

\* A live lease is its holder's alone (LiveLeaseIsExclusive): nothing but its
\* outcome or the abandonment of its cycle takes the row away.
THEOREM LiveLeasesAreExclusive == QueueSpec => LiveLeaseIsExclusive
<1>1. QueueTypeOK /\ [QueueNext]_queueVars
        => [\A u \in Urls :
              status[u] = "running" /\ leased[u] =>
                 /\ cycleId'[u] = cycleId[u]
                 /\ attempt'[u] = attempt[u]
                 /\ status'[u] = "running" => leasedBy'[u] = leasedBy[u]
                 /\ status'[u] \in {"running", "succeeded", "failed", "retry"}]_queueVars
  BY StepOnLeases DEF LiveRow, KeepsLease
<1> QED
  BY <1>1, QueueTypeCorrect, PTL DEF QueueSpec, LiveLeaseIsExclusive

-----------------------------------------------------------------------------
(* The limits.                                                             *)

LEMMA LiveSetsAreFinite ==
    \A x : /\ IsFiniteSet(LiveInLane(x)) /\ Cardinality(LiveInLane(x)) \in Nat
           /\ IsFiniteSet(LiveOfSource(x)) /\ Cardinality(LiveOfSource(x)) \in Nat
<1> SUFFICES ASSUME NEW x
             PROVE  /\ IsFiniteSet(LiveInLane(x)) /\ Cardinality(LiveInLane(x)) \in Nat
                    /\ IsFiniteSet(LiveOfSource(x)) /\ Cardinality(LiveOfSource(x)) \in Nat
  OBVIOUS
<1>1. LiveInLane(x) \subseteq Urls /\ LiveOfSource(x) \subseteq Urls
  BY DEF LiveInLane, LiveOfSource
<1> QED
  BY <1>1, QueueAssumption, FS_Subset, FS_CardinalityType

\* A set that gains at most one element grows by at most one.
LEMMA GainsAtMostOne ==
    ASSUME NEW S, IsFiniteSet(S), NEW x, NEW T \in SUBSET (S \cup {x})
    PROVE  IsFiniteSet(T) /\ Cardinality(T) <= Cardinality(S) + 1
<1>1. Cardinality(S) \in Nat
  BY FS_CardinalityType
<1>2. /\ IsFiniteSet(S \cup {x})
      /\ Cardinality(S \cup {x}) = IF x \in S THEN Cardinality(S) ELSE Cardinality(S) + 1
  BY FS_AddElement
<1>3. IsFiniteSet(T) /\ Cardinality(T) <= Cardinality(S \cup {x})
  BY <1>2, FS_Subset
<1>4. Cardinality(T) \in Nat
  BY <1>3, FS_CardinalityType
<1> QED
  BY <1>1, <1>2, <1>3, <1>4

\* The lane limits and the per-source limit hold of the live leases at every
\* moment (LimitsHold), in however many processes the claims are made.
THEOREM LimitsAlwaysHold == QueueSpec => []LimitsHold
<1>1. QueueInit => LimitsHold
  <2> SUFFICES ASSUME QueueInit PROVE LimitsHold
    OBVIOUS
  <2>1. \A x : LiveInLane(x) = {} /\ LiveOfSource(x) = {}
    BY DEF QueueInit, LiveInLane, LiveOfSource
  <2> QED
    BY <2>1, FS_EmptySet, QueueAssumption DEF LimitsHold
<1>2. QueueTypeOK /\ LimitsHold /\ [QueueNext]_queueVars => LimitsHold'
  <2> SUFFICES ASSUME QueueTypeOK, LimitsHold, [QueueNext]_queueVars PROVE LimitsHold'
    OBVIOUS
  <2>1. CASE \A u \in Urls : LiveRow(u)' => LiveRow(u)
    <3>1. \A x : LiveInLane(x)' \subseteq LiveInLane(x)
          /\ LiveOfSource(x)' \subseteq LiveOfSource(x)
      BY <2>1 DEF LiveRow, LiveInLane, LiveOfSource
    <3>2. \A x : /\ Cardinality(LiveInLane(x)') <= Cardinality(LiveInLane(x))
                 /\ Cardinality(LiveInLane(x)') \in Nat
                 /\ Cardinality(LiveOfSource(x)') <= Cardinality(LiveOfSource(x))
                 /\ Cardinality(LiveOfSource(x)') \in Nat
      BY <3>1, LiveSetsAreFinite, FS_Subset, FS_CardinalityType
    <3> QED
      BY <3>2, LiveSetsAreFinite, QueueAssumption DEF LimitsHold
  <2>2. ASSUME NEW w \in Workers, NEW u \in Urls, NEW c, Claim(w, u, c) PROVE LimitsHold'
    <3>1. \A v \in Urls : v # u => (LiveRow(v)' => LiveRow(v))
      BY <2>2 DEF Claim, LiveRow, QueueTypeOK
    <3>2. ASSUME NEW lane \in Lanes PROVE Cardinality(LiveInLane(lane)') <= LaneLimit[lane]
      <4>1. CASE lane = LaneOf(u)
        <5>1. LiveInLane(lane)' \in SUBSET (LiveInLane(lane) \cup {u})
          BY <3>1 DEF LiveRow, LiveInLane
        <5>2. Cardinality(LiveInLane(lane)) < LaneLimit[lane]
          BY <2>2, <4>1 DEF Claim, Claimable
        <5>3. /\ IsFiniteSet(LiveInLane(lane)')
              /\ Cardinality(LiveInLane(lane)') <= Cardinality(LiveInLane(lane)) + 1
          BY <5>1, LiveSetsAreFinite, GainsAtMostOne
        <5> QED
          BY <5>2, <5>3, LiveSetsAreFinite, FS_CardinalityType, QueueAssumption
      <4>2. CASE lane # LaneOf(u)
        <5>1. LiveInLane(lane)' \subseteq LiveInLane(lane)
          BY <3>1, <4>2 DEF LiveRow, LiveInLane, LaneOf
        <5>2. Cardinality(LiveInLane(lane)') \in Nat
              /\ Cardinality(LiveInLane(lane)') <= Cardinality(LiveInLane(lane))
          BY <5>1, LiveSetsAreFinite, FS_Subset, FS_CardinalityType
        <5> QED
          BY <5>2, LiveSetsAreFinite, QueueAssumption DEF LimitsHold
      <4> QED
        BY <4>1, <4>2
    <3>3. ASSUME NEW s \in Sources PROVE Cardinality(LiveOfSource(s)') <= SourceLimit
      <4>1. CASE s = SourceOf[u]
        <5>1. LiveOfSource(s)' \in SUBSET (LiveOfSource(s) \cup {u})
          BY <3>1 DEF LiveRow, LiveOfSource
        <5>2. Cardinality(LiveOfSource(s)) < SourceLimit
          BY <2>2, <4>1 DEF Claim, Claimable
        <5>3. /\ IsFiniteSet(LiveOfSource(s)')
              /\ Cardinality(LiveOfSource(s)') <= Cardinality(LiveOfSource(s)) + 1
          BY <5>1, LiveSetsAreFinite, GainsAtMostOne
        <5> QED
          BY <5>2, <5>3, LiveSetsAreFinite, FS_CardinalityType, QueueAssumption
      <4>2. CASE s # SourceOf[u]
        <5>1. LiveOfSource(s)' \subseteq LiveOfSource(s)
          BY <3>1, <4>2 DEF LiveRow, LiveOfSource
        <5>2. Cardinality(LiveOfSource(s)') \in Nat
              /\ Cardinality(LiveOfSource(s)') <= Cardinality(LiveOfSource(s))
          BY <5>1, LiveSetsAreFinite, FS_Subset, FS_CardinalityType
        <5> QED
          BY <5>2, LiveSetsAreFinite, QueueAssumption DEF LimitsHold
      <4> QED
        BY <4>1, <4>2
    <3> QED
      BY <3>2, <3>3 DEF LimitsHold
  <2> QED
    BY <2>1, <2>2, StepOnLeases
<1> QED
  BY <1>1, <1>2, QueueTypeCorrect, PTL DEF QueueSpec

-----------------------------------------------------------------------------
(* Open cycles.  ListingInOpenCycle is not inductive by itself: that a     *)
(* seeder adds pages to a running cycle is what its hold guarantees, and   *)
(* that the hold guarantees it is what the closers' lock guarantees.       *)

HoldsKeepOpen ==
    \A t \in Seeders : held[t] # 0 => held[t] \in Cycles /\ cycleStatus[held[t]] = "running"

PagesInOpenCycle ==
    \A u \in Urls : ~IsLink(u) /\ status[u] \in Active =>
                       cycleId[u] \in Cycles /\ cycleStatus[cycleId[u]] = "running"

OpenInv == QueueTypeOK /\ HoldsKeepOpen /\ PagesInOpenCycle

\* Rows that are seeded belong to the cycle held open, others to the one they did.
LEMMA EnqueueRowsOpen ==
    ASSUME OpenInv, NEW c \in Cycles, cycleStatus[c] = "running", NEW batch, NEW force,
           EnqueueRows(c, batch, force), UNCHANGED cycleVars
    PROVE  HoldsKeepOpen' /\ PagesInOpenCycle'
  BY DEF OpenInv, HoldsKeepOpen, PagesInOpenCycle, QueueTypeOK, EnqueueRows, cycleVars, IsLink,
         Fresh, Reschedule, Adoptable, Waiting, Active

\* A step that makes no listing page active and moves none, and closes no cycle
\* somebody holds or works, keeps the invariant.
LEMMA NothingOpened ==
    ASSUME OpenInv, UNCHANGED cycleVars,
           \A u \in Urls : /\ ~IsLink(u) /\ status'[u] \in Active => status[u] \in Active
                           /\ ~IsLink(u) => cycleId'[u] = cycleId[u]
    PROVE  HoldsKeepOpen' /\ PagesInOpenCycle'
  BY DEF OpenInv, HoldsKeepOpen, PagesInOpenCycle, cycleVars, IsLink

LEMMA SettleOpen ==
    ASSUME OpenInv, NEW u \in Urls, status[u] = "running", NEW st, Settle(u, st)
    PROVE  HoldsKeepOpen' /\ PagesInOpenCycle'
<1>1. \A v \in Urls : /\ status'[v] \in Active => status[v] \in Active
                      /\ cycleId'[v] = cycleId[v]
  BY DEF Settle, OpenInv, QueueTypeOK, Active
<1> QED
  BY <1>1, NothingOpened DEF Settle

LEMMA SkipRowsOpen ==
    ASSUME OpenInv, NEW rows, SkipRows(rows)
    PROVE  HoldsKeepOpen' /\ PagesInOpenCycle'
<1>1. \A v \in Urls : /\ status'[v] \in Active => status[v] \in Active
                      /\ cycleId'[v] = cycleId[v]
  BY DEF SkipRows, OpenInv, QueueTypeOK, Active, Waiting
<1> QED
  BY <1>1, NothingOpened DEF SkipRows

\* Seeding and closing exclude each other: no step adds a listing page to a cycle
\* that is closed, or closes one somebody holds or works.
LEMMA OpenStep ==
    ASSUME OpenInv, [QueueNext]_queueVars
    PROVE  HoldsKeepOpen' /\ PagesInOpenCycle'
<1>0. Known \subseteq Cycles
  BY QueueAssumption DEF OpenInv, QueueTypeOK, Known, Cycles
<1>1. ASSUME NEW c \in Cycles, StartCycle(c) PROVE HoldsKeepOpen' /\ PagesInOpenCycle'
  BY <1>1 DEF StartCycle, OpenInv, HoldsKeepOpen, PagesInOpenCycle, QueueTypeOK, rowVars, IsLink
<1>2. ASSUME NEW t \in Seeders, NEW c \in Known, HoldCycleOpen(t, c)
      PROVE  HoldsKeepOpen' /\ PagesInOpenCycle'
  BY <1>0, <1>2
  DEF HoldCycleOpen, OpenInv, HoldsKeepOpen, PagesInOpenCycle, QueueTypeOK, rowVars, IsLink
<1>3. ASSUME NEW ts \in SUBSET Seeders, ReleaseHolds(ts)
      PROVE  HoldsKeepOpen' /\ PagesInOpenCycle'
  BY <1>3
  DEF ReleaseHolds, OpenInv, HoldsKeepOpen, PagesInOpenCycle, QueueTypeOK, rowVars, IsLink
<1>4. ASSUME NEW t \in Seeders, NEW s, NEW n, NEW force, SeedListing(t, s, n, force)
      PROVE  HoldsKeepOpen' /\ PagesInOpenCycle'
  BY <1>4, EnqueueRowsOpen DEF SeedListing, OpenInv, HoldsKeepOpen
<1>5. ASSUME NEW t \in Seeders, NEW s, RequeueDueLinks(t, s)
      PROVE  HoldsKeepOpen' /\ PagesInOpenCycle'
  <2>1. PICK taken \in SUBSET DueLinks(s) : \E out \in SUBSET taken :
           RequeueRows(held[t], taken \ out, out)
    BY <1>5 DEF RequeueDueLinks
  <2>2. \A u \in taken : IsLink(u)
    BY <2>1 DEF DueLinks
  <2>3. \A u \in Urls : ~IsLink(u) => status'[u] = status[u] /\ cycleId'[u] = cycleId[u]
    BY <2>1, <2>2 DEF RequeueRows
  <2> QED
    BY <1>5, <2>3, NothingOpened DEF RequeueDueLinks
<1>6. ASSUME NEW w, NEW u \in Urls, NEW c, Claim(w, u, c)
      PROVE  HoldsKeepOpen' /\ PagesInOpenCycle'
  <2>1. \A v \in Urls : /\ status'[v] \in Active => status[v] \in Active
                        /\ cycleId'[v] = cycleId[v]
    BY <1>6 DEF Claim, Claimable, OpenInv, QueueTypeOK, Active, Waiting
  <2> QED
    BY <1>6, <2>1, NothingOpened DEF Claim
<1>7. ASSUME NEW w, NEW u \in Urls, Complete(w, u) PROVE HoldsKeepOpen' /\ PagesInOpenCycle'
  BY <1>7, SettleOpen DEF Complete, HoldsLease
<1>8. ASSUME NEW w, NEW u \in Urls, NEW transient, Fail(w, u, transient)
      PROVE  HoldsKeepOpen' /\ PagesInOpenCycle'
  BY <1>8, SettleOpen DEF Fail, HoldsLease
<1>9. ASSUME NEW s, NEW c, NEW after, PruneListing(s, c, after)
      PROVE  HoldsKeepOpen' /\ PagesInOpenCycle'
  BY <1>9, SkipRowsOpen DEF PruneListing
<1>10. ASSUME NEW s, NEW c, NEW offered, EnqueueLinks(s, c, offered)
       PROVE  HoldsKeepOpen' /\ PagesInOpenCycle'
  <2>1. PICK kept \in SUBSET offered : EnqueueRows(c, kept, FALSE)
    BY <1>10 DEF EnqueueLinks
  <2>2. \A u \in kept : IsLink(u)
    BY <1>10, <2>1 DEF EnqueueLinks
  <2>3. \A u \in Urls : ~IsLink(u) => status'[u] = status[u] /\ cycleId'[u] = cycleId[u]
    BY <2>1, <2>2 DEF EnqueueRows
  <2> QED
    BY <1>10, <2>3, NothingOpened DEF EnqueueLinks
<1>11. ASSUME NEW c, SkipDisabled(c) PROVE HoldsKeepOpen' /\ PagesInOpenCycle'
  BY <1>11, SkipRowsOpen DEF SkipDisabled
<1>12. CASE ReapExpired
  <2>1. \A v \in Urls : /\ status'[v] \in Active => status[v] \in Active
                        /\ cycleId'[v] = cycleId[v]
    BY <1>12 DEF ReapExpired, Expired, OpenInv, QueueTypeOK, Active
  <2> QED
    BY <1>12, <2>1, NothingOpened DEF ReapExpired
<1>13. ASSUME NEW c \in Known, NEW scheduled, FinalizeCycle(c, scheduled)
       PROVE  HoldsKeepOpen' /\ PagesInOpenCycle'
  BY <1>0, <1>13 DEF FinalizeCycle, HeldOpen, ActiveCount0, OpenInv, HoldsKeepOpen,
                     PagesInOpenCycle, QueueTypeOK, rowVars, IsLink
<1>14. ASSUME NEW c \in Known, AbandonCycle(c) PROVE HoldsKeepOpen' /\ PagesInOpenCycle'
  BY <1>0, <1>14 DEF AbandonCycle, HeldOpen, OpenInv, HoldsKeepOpen, PagesInOpenCycle,
                     QueueTypeOK, IsLink, Active, Waiting
<1>15. CASE UNCHANGED <<status, cycleId, cycleVars>>
  BY <1>15, NothingOpened
<1>16. \/ \E u \in Urls : LeaseRunsOut(u) \/ ComesDue(u)
       \/ \E s \in Sources, on \in BOOLEAN : SetEnabled(s, on)
       \/ UNCHANGED queueVars
       => UNCHANGED <<status, cycleId, cycleVars>>
  BY DEF LeaseRunsOut, ComesDue, SetEnabled, queueVars, rowVars, cycleVars
<1> QED
  BY <1>1, <1>2, <1>3, <1>4, <1>5, <1>6, <1>7, <1>8, <1>9, <1>10, <1>11, <1>12, <1>13,
     <1>14, <1>15, <1>16 DEF QueueNext

LEMMA OpenHolds == QueueSpec => [](HoldsKeepOpen /\ PagesInOpenCycle)
<1>1. QueueInit => HoldsKeepOpen /\ PagesInOpenCycle
  BY DEF QueueInit, HoldsKeepOpen, PagesInOpenCycle, Active, Waiting
<1>2. OpenInv /\ [QueueNext]_queueVars => HoldsKeepOpen' /\ PagesInOpenCycle'
  BY OpenStep
<1> QED
  BY <1>1, <1>2, QueueTypeCorrect, PTL DEF QueueSpec, OpenInv

\* No listing page is ever queued, running or waiting to retry in a cycle that is
\* not running (ListingInOpenCycle): seeding and closing exclude each other.
THEOREM ListingStaysInOpenCycle == QueueSpec => []ListingInOpenCycle
<1>1. PagesInOpenCycle => ListingInOpenCycle
  BY DEF PagesInOpenCycle, ListingInOpenCycle
<1> QED
  BY <1>1, OpenHolds, PTL
=============================================================================
