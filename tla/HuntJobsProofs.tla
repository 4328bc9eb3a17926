--------------------------- MODULE HuntJobsProofs ---------------------------
(***************************************************************************)
(* What HuntJobs keeps for any number of companies, clients, ticks and     *)
(* hunts, and any timeout: the types; that a hunt in a tick's hands is     *)
(* running and nobody else's; that the last answer of a poll has all       *)
(* findings; and that the whole implements HuntLife.                       *)
(***************************************************************************)
EXTENDS HuntJobs, TLAPS

Held(w) == tick[w].hunt # NoHunt

\* A hunt in a tick's hands is running, it is no older than the tick, which is no
\* older than the timeout, and it is in no other hands.
HandsOK ==
    \A w \in Workers : Held(w) =>
        /\ tick[w].busy
        /\ job[tick[w].hunt].status = "running"
        /\ job[tick[w].hunt].age <= tick[w].age
        /\ \A v \in Workers : tick[v].hunt = tick[w].hunt => v = w

\* A GET that has read the row of a hunt that is over finds it over ever after.
GetOK ==
    /\ get.at # "idle" => job[get.hunt].status \in Finished
    /\ get.at = "answered" => get.rows = found[get.hunt]

HuntInv == HuntTypeOK /\ HandsOK

-----------------------------------------------------------------------------
(* The rows the handlers write.                                            *)

LEMMA OverRow ==
    ASSUME NEW row \in HuntRow, NEW s \in Finished, NEW n \in Nat
    PROVE  /\ Over(row, s, n) \in HuntRow
           /\ Over(row, s, n).status = s
           /\ Over(row, s, n).query = row.query
  BY DEF Over, HuntRow, Statuses

LEMMA OlderRow ==
    ASSUME NEW row \in HuntRow
    PROVE  /\ Older(row) \in HuntRow
           /\ Older(row).status = row.status
           /\ Older(row).query = row.query
           /\ Older(row).age <= row.age + 1
  <1>1. CASE row.status = "running" /\ row.age <= Timeout
    BY <1>1 DEF Older, HuntRow
  <1>2. CASE ~(row.status = "running" /\ row.age <= Timeout)
    BY <1>2 DEF Older, HuntRow
  <1> QED BY <1>1, <1>2

\* The hunt in a tick's hands is one of the hunts.
LEMMA HeldIsHunt ==
    ASSUME HuntTypeOK, NEW w \in Workers, Held(w)
    PROVE  /\ tick[w].hunt \in Hunts
           /\ tick[w] \in TickState
           /\ job[tick[w].hunt] \in HuntRow
  BY DEF HuntTypeOK, Held, TickState

-----------------------------------------------------------------------------
(* The types.                                                              *)

LEMMA TypesBegin == HuntInit => HuntTypeOK
  <1> SUFFICES ASSUME HuntInit PROVE HuntTypeOK
    OBVIOUS
  <1>1. NoRow \in HuntRow
    BY DEF NoRow, HuntRow, Statuses
  <1>2. NoTick \in TickState
    BY HuntAssumption DEF NoTick, TickState
  <1>3. Idle \in PostState /\ Idle \in GetState
    BY DEF Idle, PostState, GetState
  <1> QED BY <1>1, <1>2, <1>3 DEF HuntInit, HuntTypeOK

LEMMA TypesOfTheApi ==
    ASSUME HuntTypeOK,
           \/ \E c \in Clients, q \in Queries : PostHunt(c, q)
           \/ \E c \in Clients : LookForCached(c) \/ LookForInFlight(c)
                                 \/ InsertHunt(c) \/ PostEnds(c)
           \/ \E h \in Hunts : GetHunt(h)
           \/ GetFindings \/ GetEnds
    PROVE  HuntTypeOK'
  <1> USE DEF HuntTypeOK
  <1>1. ASSUME NEW c \in Clients, NEW q \in Queries, PostHunt(c, q)
        PROVE  HuntTypeOK'
    BY <1>1 DEF PostHunt, PostState
  <1>2. ASSUME NEW c \in Clients, LookForCached(c) \/ LookForInFlight(c)
        PROVE  HuntTypeOK'
    <2>1. post[c].query \in Queries
      BY <1>2 DEF LookForCached, LookForInFlight, PostState
    <2>2. \/ \E h \in Hunts : post' = [post EXCEPT ![c] = [at |-> "answered", hunt |-> h]]
          \/ \E a \in {"inFlight", "insert"} :
                post' = [post EXCEPT ![c] = [at |-> a, query |-> post[c].query]]
      BY <1>2 DEF LookForCached, LookForInFlight, Reply, LatestRecent, Recent,
                  LastInFlight, InFlight
    <2>3. post' \in [Clients -> PostState]
      BY <2>1, <2>2 DEF PostState
    <2> QED BY <1>2, <2>3 DEF LookForCached, LookForInFlight, Reply
  <1>3. ASSUME NEW c \in Clients, InsertHunt(c)
        PROVE  HuntTypeOK'
    <2>1. PICK h \in Hunts :
            /\ job' = [job EXCEPT ![h] =
                         [NoRow EXCEPT !.query = post[c].query, !.status = "queued"]]
            /\ post' = [post EXCEPT ![c] = [at |-> "answered", hunt |-> h]]
      BY <1>3 DEF InsertHunt
    <2>2. post[c].query \in Queries
      BY <1>3 DEF InsertHunt, PostState
    <2>3. [NoRow EXCEPT !.query = post[c].query, !.status = "queued"] \in HuntRow
      BY <2>2 DEF NoRow, HuntRow, Statuses
    <2>4. post' \in [Clients -> PostState]
      BY <2>1 DEF PostState
    <2> QED BY <1>3, <2>1, <2>3, <2>4 DEF InsertHunt
  <1>4. ASSUME NEW c \in Clients, PostEnds(c)
        PROVE  HuntTypeOK'
    BY <1>4 DEF PostEnds, PostState, Idle
  <1>5. ASSUME NEW h \in Hunts, GetHunt(h)
        PROVE  HuntTypeOK'
    BY <1>5 DEF GetHunt, GetState
  <1>6. ASSUME GetFindings
        PROVE  HuntTypeOK'
    <2>1. get.hunt \in Hunts
      BY <1>6 DEF GetFindings, GetState
    <2> QED BY <1>6, <2>1 DEF GetFindings, GetState
  <1>7. ASSUME GetEnds
        PROVE  HuntTypeOK'
    BY <1>7 DEF GetEnds, GetState, Idle
  <1> QED BY <1>1, <1>2, <1>3, <1>4, <1>5, <1>6, <1>7

LEMMA TypesOfTheWorker ==
    ASSUME HuntTypeOK, NEW w \in Workers, WorkerStep(w)
    PROVE  HuntTypeOK'
  <1> USE DEF HuntTypeOK
  <1>1. CASE StartTick(w)
    <2>1. [busy |-> TRUE, hunt |-> NoHunt, age |-> 0] \in TickState
      BY HuntAssumption DEF TickState
    <2>2. \A h \in Hunts : Over(job[h], "failed", 0) \in HuntRow
      BY OverRow DEF Finished
    <2> QED BY <1>1, <2>1, <2>2 DEF StartTick
  <1>2. CASE ClaimHunt(w)
    <2>1. PICK h \in Hunts :
            /\ job' = [job EXCEPT ![h].status = "running", ![h].age = 0]
            /\ tick' = [tick EXCEPT ![w].hunt = h]
      BY <1>2 DEF ClaimHunt, Queued
    <2>2. [job[h] EXCEPT !.status = "running", !.age = 0] \in HuntRow
      BY DEF HuntRow, Statuses
    <2>3. job' \in [Hunts -> HuntRow]
      BY <2>1, <2>2
    <2>4. tick' \in [Workers -> TickState]
      BY <2>1 DEF TickState
    <2> QED BY <1>2, <2>3, <2>4 DEF ClaimHunt
  <1>3. CASE NothingQueued(w) \/ TickDies(w)
    <2>1. NoTick \in TickState
      BY HuntAssumption DEF NoTick, TickState
    <2> QED BY <1>3, <2>1 DEF NothingQueued, TickDies
  <1>4. ASSUME NEW n \in 1 .. MaxRows, Held(w), AddHuntFindings(w, n)
        PROVE  HuntTypeOK'
    BY <1>4, HeldIsHunt, HuntAssumption DEF AddHuntFindings
  <1>5. ASSUME NEW s \in Finished, FinishHunt(w, s)
        PROVE  HuntTypeOK'
    <2>1. Held(w)
      BY <1>5 DEF FinishHunt, Held
    <2>2. Ends(s) \subseteq Nat
      BY HuntAssumption DEF Ends
    <2>3. PICK n \in Nat : job' = [job EXCEPT ![tick[w].hunt] = Over(job[tick[w].hunt], s, n)]
      BY <1>5, <2>2 DEF FinishHunt
    <2>4. job' \in [Hunts -> HuntRow]
      BY <2>1, <2>3, HeldIsHunt, OverRow
    <2>5. tick' \in [Workers -> TickState]
      BY <1>5 DEF FinishHunt, TickState
    <2> QED BY <1>5, <2>4, <2>5 DEF FinishHunt
  <1> QED BY <1>1, <1>2, <1>3, <1>4, <1>5 DEF WorkerStep, Held

LEMMA TypesOfTime ==
    ASSUME HuntTypeOK, TimePasses \/ \E h \in Hunts : CacheLapses(h)
    PROVE  HuntTypeOK'
  <1> USE DEF HuntTypeOK
  <1>1. CASE TimePasses
    <2>1. \A h \in Hunts : Older(job[h]) \in HuntRow
      BY OlderRow
    <2>2. \A w \in Workers : [tick[w] EXCEPT !.age = tick[w].age + 1] \in TickState
      BY <1>1, HuntAssumption DEF TimePasses, TickState
    <2> QED BY <1>1, <2>1, <2>2 DEF TimePasses
  <1>2. ASSUME NEW h \in Hunts, CacheLapses(h)
        PROVE  HuntTypeOK'
    <2>1. [job[h] EXCEPT !.ended = 0] \in HuntRow
      BY DEF HuntRow
    <2> QED BY <1>2, <2>1 DEF CacheLapses
  <1> QED BY <1>1, <1>2

LEMMA TypesKept == HuntTypeOK /\ [HuntNext]_huntVars => HuntTypeOK'
  <1> SUFFICES ASSUME HuntTypeOK, [HuntNext]_huntVars PROVE HuntTypeOK'
    OBVIOUS
  <1>1. CASE UNCHANGED huntVars
    BY <1>1 DEF HuntTypeOK, huntVars
  <1> QED BY <1>1, TypesOfTheApi, TypesOfTheWorker, TypesOfTime DEF HuntNext

\* The rows of hunt_jobs and the state of every handler and tick keep their shapes,
\* and no tick outlives its timeout.
THEOREM HuntTypes == HuntSpec => []HuntTypeOK
  BY TypesBegin, TypesKept, PTL DEF HuntSpec
-----------------------------------------------------------------------------
(* A hunt in a tick's hands is running.                                    *)

LEMMA HandsBegin == HuntInit => HandsOK
  BY DEF HuntInit, HandsOK, Held, NoTick

\* A step that leaves the ticks alone and every running hunt as it is.
LEMMA HandsUntouched ==
    ASSUME HuntTypeOK, HandsOK, tick' = tick,
           \A h \in Hunts : job[h].status = "running" =>
               job'[h].status = "running" /\ job'[h].age = job[h].age
    PROVE  HandsOK'
  BY HeldIsHunt DEF HandsOK, Held

LEMMA HandsOfTheApi ==
    ASSUME HuntTypeOK, HandsOK,
           \/ \E c \in Clients, q \in Queries : PostHunt(c, q)
           \/ \E c \in Clients : LookForCached(c) \/ LookForInFlight(c)
                                 \/ InsertHunt(c) \/ PostEnds(c)
           \/ \E h \in Hunts : GetHunt(h)
           \/ GetFindings \/ GetEnds
    PROVE  HandsOK'
  <1>1. tick' = tick
    BY DEF PostHunt, LookForCached, LookForInFlight, Reply, InsertHunt, PostEnds,
           GetHunt, GetFindings, GetEnds
  <1>2. CASE \E c \in Clients : InsertHunt(c)
    <2>1. PICK c \in Clients, h \in Hunts :
            /\ job[h].status = "absent"
            /\ job' = [job EXCEPT ![h] =
                         [NoRow EXCEPT !.query = post[c].query, !.status = "queued"]]
      <3>1. PICK c \in Clients : InsertHunt(c)
        BY <1>2
      <3>2. PICK h \in Hunts :
              /\ \A g \in Hunts : job[g].status = "absent" <=> g >= h
              /\ job' = [job EXCEPT ![h] =
                           [NoRow EXCEPT !.query = post[c].query, !.status = "queued"]]
        BY <3>1 DEF InsertHunt
      <3>3. h >= h
        BY HuntAssumption DEF Hunts
      <3>4. job[h].status = "absent"
        BY <3>2, <3>3
      <3> QED BY <3>2, <3>4
    <2>2. \A g \in Hunts : job[g].status = "running" => job'[g] = job[g]
      BY <2>1 DEF HuntTypeOK
    <2> QED BY <1>1, <2>2, HandsUntouched
  <1>3. CASE job' = job
    BY <1>1, <1>3, HandsUntouched
  <1> QED BY <1>2, <1>3 DEF PostHunt, LookForCached, LookForInFlight, Reply, PostEnds,
                            GetHunt, GetFindings, GetEnds

LEMMA HandsOfTheWorker ==
    ASSUME HuntTypeOK, HandsOK, NEW w \in Workers, WorkerStep(w)
    PROVE  HandsOK'
  <1>1. CASE StartTick(w)
    <2>1. ASSUME NEW v \in Workers, tick'[v].hunt # NoHunt
          PROVE  v # w /\ tick'[v] = tick[v] /\ Held(v)
      BY <1>1, <2>1 DEF StartTick, HuntTypeOK, Held
    <2>2. ASSUME NEW v \in Workers, Held(v)
          PROVE  job'[tick[v].hunt] = job[tick[v].hunt]
      <3>1. tick[v].hunt \in Hunts /\ tick[v] \in TickState /\ job[tick[v].hunt] \in HuntRow
        BY <2>2, HeldIsHunt
      <3>2. job[tick[v].hunt].age <= tick[v].age /\ tick[v].age <= Timeout
        BY <2>2, <3>1, HuntAssumption DEF HandsOK, TickState
      <3>3. ~(job[tick[v].hunt].age > Timeout)
        BY <3>1, <3>2, HuntAssumption DEF TickState, HuntRow
      <3> QED BY <1>1, <3>1, <3>3 DEF StartTick, Stale
    <2> QED BY <2>1, <2>2 DEF HandsOK, Held
  <1>2. CASE ClaimHunt(w)
    <2>1. PICK h \in Hunts :
            /\ job[h].status = "queued"
            /\ job' = [job EXCEPT ![h].status = "running", ![h].age = 0]
            /\ tick' = [tick EXCEPT ![w].hunt = h]
      BY <1>2 DEF ClaimHunt, Queued
    <2>2. tick[w].busy /\ tick[w].age \in Nat
      BY <1>2, HuntAssumption DEF ClaimHunt, HuntTypeOK, TickState
    <2>3. \A v \in Workers : Held(v) => tick[v].hunt # h
      BY <2>1 DEF HandsOK
    <2>4. tick'[w].hunt = h /\ tick'[w].busy /\ tick'[w].age = tick[w].age
      BY <2>1, <2>2 DEF HuntTypeOK, TickState
    <2>5. \A v \in Workers : v # w => tick'[v] = tick[v]
      BY <2>1 DEF HuntTypeOK
    <2>6. job'[h].status = "running" /\ job'[h].age = 0
      BY <2>1 DEF HuntTypeOK, HuntRow
    <2>7. \A g \in Hunts : g # h => job'[g] = job[g]
      BY <2>1 DEF HuntTypeOK
    <2>8. h # NoHunt
      BY DEF Hunts, NoHunt
    <2>9. ASSUME NEW v \in Workers, tick'[v].hunt # NoHunt
          PROVE  /\ tick'[v].busy
                 /\ job'[tick'[v].hunt].status = "running"
                 /\ job'[tick'[v].hunt].age <= tick'[v].age
                 /\ \A u \in Workers : tick'[u].hunt = tick'[v].hunt => u = v
      <3>1. CASE v = w
        <4>1. \A u \in Workers : tick'[u].hunt = h => u = w
          BY <2>3, <2>5, <2>8 DEF Held
        <4>2. 0 <= tick[w].age
          BY <2>2
        <4> QED BY <3>1, <4>1, <4>2, <2>2, <2>4, <2>6
      <3>2. CASE v # w
        <4>1. Held(v) /\ tick'[v] = tick[v]
          BY <2>5, <2>9, <3>2 DEF Held
        <4>2. tick[v].hunt \in Hunts /\ tick[v].hunt # h
          BY <4>1, <2>3, HeldIsHunt
        <4>3. job'[tick[v].hunt] = job[tick[v].hunt]
          BY <4>2, <2>7
        <4>4. \A u \in Workers : tick'[u].hunt = tick[v].hunt => u = v
          BY <2>4, <2>5, <4>1, <4>2 DEF HandsOK
        <4> QED BY <4>1, <4>3, <4>4 DEF HandsOK
      <3> QED BY <3>1, <3>2
    <2> QED BY <2>9 DEF HandsOK, Held
  <1>3. CASE NothingQueued(w) \/ TickDies(w)
    BY <1>3 DEF NothingQueued, TickDies, HandsOK, Held, NoTick, HuntTypeOK
  <1>4. ASSUME NEW n \in 1 .. MaxRows, AddHuntFindings(w, n)
        PROVE  HandsOK'
    BY <1>4, HandsUntouched DEF AddHuntFindings
  <1>5. ASSUME NEW s \in Finished, FinishHunt(w, s)
        PROVE  HandsOK'
    <2>1. Held(w) /\ tick' = [tick EXCEPT ![w].hunt = NoHunt]
      BY <1>5 DEF FinishHunt, Held
    <2>2. \A g \in Hunts : g # tick[w].hunt => job'[g] = job[g]
      BY <1>5 DEF FinishHunt, HuntTypeOK
    <2>3. \A v \in Workers : tick'[v].hunt # NoHunt =>
             v # w /\ tick'[v] = tick[v] /\ Held(v)
      BY <2>1 DEF HuntTypeOK, TickState, Held
    <2>4. \A v \in Workers : tick'[v].hunt # NoHunt =>
             tick[v].hunt \in Hunts /\ job'[tick[v].hunt] = job[tick[v].hunt]
      BY <2>1, <2>2, <2>3, HeldIsHunt DEF HandsOK
    <2> QED BY <2>3, <2>4 DEF HandsOK, Held
  <1> QED BY <1>1, <1>2, <1>3, <1>4, <1>5 DEF WorkerStep

LEMMA HandsOfTime ==
    ASSUME HuntTypeOK, HandsOK, TimePasses \/ \E h \in Hunts : CacheLapses(h)
    PROVE  HandsOK'
  <1>1. CASE TimePasses
    <2>1. ASSUME NEW v \in Workers, tick'[v].hunt # NoHunt
          PROVE  /\ Held(v)
                 /\ tick'[v].hunt = tick[v].hunt
                 /\ tick'[v].busy
                 /\ tick'[v].age = tick[v].age + 1
      BY <1>1, <2>1 DEF TimePasses, HandsOK, Held, HuntTypeOK, TickState
    <2>2. \A v \in Workers : tick'[v].hunt = tick[v].hunt
      BY <1>1 DEF TimePasses, HuntTypeOK, TickState
    <2>3. ASSUME NEW v \in Workers, Held(v)
          PROVE  /\ job'[tick[v].hunt].status = "running"
                 /\ job'[tick[v].hunt].age <= tick[v].age + 1
      <3> DEFINE h == tick[v].hunt
      <3>1. h \in Hunts /\ job[h] \in HuntRow /\ tick[v] \in TickState
        BY <2>3, HeldIsHunt
      <3>2. job[h].status = "running" /\ job[h].age <= tick[v].age
        BY <2>3 DEF HandsOK
      <3>3. job'[h] = Older(job[h])
        BY <1>1, <3>1 DEF TimePasses
      <3>4. job'[h].status = "running" /\ job'[h].age <= job[h].age + 1
        BY <3>1, <3>2, <3>3, OlderRow
      <3>5. job'[h].age \in Nat
        BY <3>1, <3>3, OlderRow DEF HuntRow
      <3>6. job[h].age \in Nat /\ tick[v].age \in Nat
        BY <3>1, HuntAssumption DEF HuntRow, TickState
      <3>7. job'[h].age <= tick[v].age + 1
        BY <3>2, <3>4, <3>5, <3>6
      <3> QED BY <3>4, <3>7
    <2> QED BY <2>1, <2>2, <2>3 DEF HandsOK, Held
  <1>2. ASSUME NEW h \in Hunts, CacheLapses(h)
        PROVE  HandsOK'
    <2>1. \A g \in Hunts : job'[g].status = job[g].status /\ job'[g].age = job[g].age
      BY <1>2 DEF CacheLapses, HuntTypeOK, HuntRow
    <2> QED BY <1>2, <2>1, HandsUntouched DEF CacheLapses
  <1> QED BY <1>1, <1>2

LEMMA HandsKept == HuntInv /\ [HuntNext]_huntVars => HandsOK'
  <1> SUFFICES ASSUME HuntTypeOK, HandsOK, [HuntNext]_huntVars PROVE HandsOK'
    BY DEF HuntInv
  <1>1. CASE UNCHANGED huntVars
    BY <1>1, HandsUntouched DEF huntVars
  <1> QED BY <1>1, HandsOfTheApi, HandsOfTheWorker, HandsOfTime DEF HuntNext

LEMMA HuntInvHolds == HuntSpec => []HuntInv
  <1>1. HuntInit => HuntInv
    BY TypesBegin, HandsBegin DEF HuntInv
  <1>2. HuntInv /\ [HuntNext]_huntVars => HuntInv'
    BY TypesKept, HandsKept DEF HuntInv
  <1> QED BY <1>1, <1>2, PTL DEF HuntSpec

LEMMA HandsMean == HuntInv => HeldHuntIsRunning
  <1> SUFFICES ASSUME HuntInv, NEW w \in Workers, Held(w)
               PROVE  /\ job[tick[w].hunt].status = "running"
                      /\ ~Stale(tick[w].hunt)
                      /\ \A v \in Workers : tick[v].hunt = tick[w].hunt => v = w
    BY DEF HeldHuntIsRunning, Held
  <1>1. tick[w] \in TickState /\ job[tick[w].hunt] \in HuntRow
    BY HeldIsHunt DEF HuntInv
  <1>2. job[tick[w].hunt].age <= tick[w].age
    BY DEF HuntInv, HandsOK
  <1>3. ~(job[tick[w].hunt].age > Timeout)
    BY <1>1, <1>2, HuntAssumption DEF TickState, HuntRow
  <1> QED BY <1>3 DEF HuntInv, HandsOK, Stale

\* The hunt a tick works on is running, too young to be given up for dead, and no
\* other tick's: what finish_hunt_job and add_hunt_findings write, looking at no
\* status, they write to the hunt they claimed.
THEOREM HeldHuntsRun == HuntSpec => []HeldHuntIsRunning
  BY HuntInvHolds, HandsMean, PTL
-----------------------------------------------------------------------------
(* A hunt that is over stays as it is.                                     *)

LEMMA OverIsOver ==
    ASSUME HuntInv, [HuntNext]_huntVars, NEW h \in Hunts, job[h].status \in Finished
    PROVE  job'[h].status = job[h].status /\ found'[h] = found[h]
  <1> USE DEF HuntTypeOK
  <1>0. HuntTypeOK /\ HandsOK /\ "running" \notin Finished /\ "queued" \notin Finished
        /\ "absent" \notin Finished
    BY DEF HuntInv, Finished
  <1>1. CASE UNCHANGED <<job, found>>
    BY <1>1
  <1>2. ASSUME NEW c \in Clients, InsertHunt(c)
        PROVE  job'[h].status = job[h].status /\ found'[h] = found[h]
    <2>1. PICK g \in Hunts :
            /\ \A i \in Hunts : job[i].status = "absent" <=> i >= g
            /\ job' = [job EXCEPT ![g] =
                         [NoRow EXCEPT !.query = post[c].query, !.status = "queued"]]
      BY <1>2 DEF InsertHunt
    <2>2. g >= g
      BY HuntAssumption DEF Hunts
    <2>3. h # g
      BY <1>0, <2>1, <2>2
    <2> QED BY <1>0, <1>2, <2>1, <2>3 DEF InsertHunt
  <1>3. ASSUME NEW w \in Workers, StartTick(w)
        PROVE  job'[h].status = job[h].status /\ found'[h] = found[h]
    BY <1>0, <1>3 DEF StartTick, Stale
  <1>4. ASSUME NEW w \in Workers, ClaimHunt(w)
        PROVE  job'[h].status = job[h].status /\ found'[h] = found[h]
    BY <1>0, <1>4 DEF ClaimHunt, Queued
  <1>5. ASSUME NEW w \in Workers, NEW n \in 1 .. MaxRows, Held(w), AddHuntFindings(w, n)
        PROVE  job'[h].status = job[h].status /\ found'[h] = found[h]
    BY <1>0, <1>5, HeldIsHunt DEF AddHuntFindings, HandsOK
  <1>6. ASSUME NEW w \in Workers, NEW s \in Finished, FinishHunt(w, s)
        PROVE  job'[h].status = job[h].status /\ found'[h] = found[h]
    BY <1>0, <1>6 DEF FinishHunt, HandsOK, Held
  <1>7. CASE TimePasses
    BY <1>0, <1>7, OlderRow DEF TimePasses
  <1>8. ASSUME NEW g \in Hunts, CacheLapses(g)
        PROVE  job'[h].status = job[h].status /\ found'[h] = found[h]
    BY <1>0, <1>8 DEF CacheLapses, HuntRow
  <1>9. CASE \E c \in Clients, q \in Queries : PostHunt(c, q)
    BY <1>1, <1>9 DEF PostHunt
  <1>10. CASE \E c \in Clients : LookForCached(c) \/ LookForInFlight(c) \/ PostEnds(c)
    BY <1>1, <1>10 DEF LookForCached, LookForInFlight, Reply, PostEnds
  <1>11. CASE GetFindings \/ GetEnds \/ \E g \in Hunts : GetHunt(g)
    BY <1>1, <1>11 DEF GetHunt, GetFindings, GetEnds
  <1>12. CASE \E w \in Workers : NothingQueued(w) \/ TickDies(w)
    BY <1>1, <1>12 DEF NothingQueued, TickDies
  <1> QED BY <1>1, <1>2, <1>3, <1>4, <1>5, <1>6, <1>7, <1>8, <1>9, <1>10, <1>11, <1>12
          DEF HuntNext, WorkerStep, Held, huntVars

LEMMA GetKept ==
    ASSUME HuntInv, GetOK, [HuntNext]_huntVars
    PROVE  GetOK'
  <1>1. get \in GetState
    BY DEF HuntInv, HuntTypeOK
  <1>2. CASE get' = get
    <2>1. CASE get.at = "idle"
      BY <1>2, <2>1 DEF GetOK
    <2>2. CASE get.at # "idle"
      <3>1. get.hunt \in Hunts /\ job[get.hunt].status \in Finished
        BY <1>1, <2>2 DEF GetState, GetOK
      <3> QED BY <1>2, <2>2, <3>1, OverIsOver DEF GetOK
    <2> QED BY <2>1, <2>2
  <1>3. ASSUME NEW h \in Hunts, GetHunt(h)
        PROVE  GetOK'
    BY <1>3 DEF GetHunt, GetOK
  <1>4. CASE GetFindings
    BY <1>4 DEF GetFindings, GetOK
  <1>5. CASE GetEnds
    BY <1>5 DEF GetEnds, GetOK, Idle
  <1>6. CASE \E c \in Clients, q \in Queries : PostHunt(c, q)
    BY <1>2, <1>6 DEF PostHunt
  <1>7. CASE \E c \in Clients : LookForCached(c) \/ LookForInFlight(c)
                                \/ InsertHunt(c) \/ PostEnds(c)
    BY <1>2, <1>7 DEF LookForCached, LookForInFlight, Reply, InsertHunt, PostEnds
  <1>8. CASE \E w \in Workers : WorkerStep(w)
    BY <1>2, <1>8 DEF WorkerStep, StartTick, ClaimHunt, NothingQueued, TickDies,
                      AddHuntFindings, FinishHunt
  <1>9. CASE TimePasses \/ \E h \in Hunts : CacheLapses(h)
    BY <1>2, <1>9 DEF TimePasses, CacheLapses
  <1> QED BY <1>2, <1>3, <1>4, <1>5, <1>6, <1>7, <1>8, <1>9 DEF HuntNext, huntVars

\* The answer that tells a page its hunt is over carries every finding there will
\* ever be, though the row and the findings are read in two statements.
THEOREM LastAnswersAreWhole == HuntSpec => []LastAnswerIsWhole
  <1>1. HuntInit => GetOK
    BY DEF HuntInit, GetOK, Idle
  <1>2. HuntInv /\ GetOK /\ [HuntNext]_huntVars => GetOK'
    BY GetKept
  <1>3. GetOK => LastAnswerIsWhole
    BY DEF GetOK, LastAnswerIsWhole
  <1> QED BY <1>1, <1>2, <1>3, HuntInvHolds, PTL DEF HuntSpec
-----------------------------------------------------------------------------
(* The detailed model implements HuntLife.                                 *)

LifeQuery  == [h \in Hunts |-> job[h].query]
LifeStatus == [h \in Hunts |-> job[h].status]

LEMMA LifeBegins == HuntInit => Life!LifeInit
  BY DEF HuntInit, NoRow, Life!LifeInit, Life!Hunts, Hunts

\* What the abstract state does when a step leaves it alone.
LEMMA LifeStutters ==
    ASSUME \A h \in Hunts : job'[h].query = job[h].query /\ job'[h].status = job[h].status,
           found' = found
    PROVE  UNCHANGED Life!lifeVars
  BY DEF Life!lifeVars

LEMMA InsertAsks ==
    ASSUME HuntInv, NEW c \in Clients, InsertHunt(c)
    PROVE  Life!LifeNext
  <1> USE DEF HuntInv, HuntTypeOK
  <1>1. PICK h \in Hunts :
          /\ \A g \in Hunts : job[g].status = "absent" <=> g >= h
          /\ job' = [job EXCEPT ![h] =
                       [NoRow EXCEPT !.query = post[c].query, !.status = "queued"]]
    BY DEF InsertHunt
  <1>2. PICK q \in Queries : q = post[c].query
    BY DEF InsertHunt, PostState
  <1>3. h >= h
    BY HuntAssumption DEF Hunts
  <1>4. job[h].status = "absent"
    BY <1>1, <1>3
  <1>5. /\ job'[h].query = q /\ job'[h].status = "queued"
        /\ \A g \in Hunts : g # h => job'[g] = job[g]
    BY <1>1, <1>2 DEF NoRow
  <1>6. LifeQuery' = [LifeQuery EXCEPT ![h] = q]
    BY <1>5 DEF LifeQuery
  <1>7. LifeStatus' = [LifeStatus EXCEPT ![h] = "queued"]
    BY <1>5 DEF LifeStatus
  <1>8. found' = found
    BY DEF InsertHunt
  <1>9. Life!Ask(h, q)
    BY <1>4, <1>6, <1>7, <1>8 DEF Life!Ask, LifeQuery, LifeStatus
  <1> QED BY <1>2, <1>9 DEF Life!LifeNext, Life!Hunts, Hunts

LEMMA ClaimBegins ==
    ASSUME HuntInv, NEW w \in Workers, ClaimHunt(w)
    PROVE  Life!LifeNext
  <1> USE DEF HuntInv, HuntTypeOK
  <1>1. PICK h \in Queued :
          /\ \A g \in Queued : h <= g
          /\ job' = [job EXCEPT ![h].status = "running", ![h].age = 0]
    BY DEF ClaimHunt
  <1>2. h \in Hunts /\ job[h].status = "queued" /\ found' = found
    BY <1>1 DEF Queued, ClaimHunt
  <1>3. job[h] \in HuntRow
    BY <1>2
  <1>4. /\ job'[h].query = job[h].query /\ job'[h].status = "running"
        /\ \A g \in Hunts : g # h => job'[g] = job[g]
    BY <1>1, <1>2, <1>3 DEF HuntRow
  <1>5. LifeQuery' = LifeQuery
    BY <1>4 DEF LifeQuery
  <1>6. LifeStatus' = [LifeStatus EXCEPT ![h] = "running"]
    BY <1>4 DEF LifeStatus
  <1>7. \A g \in Hunts : LifeStatus[g] = "queued" => h <= g
    BY <1>1 DEF LifeStatus, Queued
  <1>8. Life!Begin(h)
    BY <1>2, <1>5, <1>6, <1>7 DEF Life!Begin, Life!Hunts, Hunts, LifeQuery, LifeStatus
  <1> QED BY <1>2, <1>8 DEF Life!LifeNext, Life!Hunts, Hunts

LEMMA FindingsAreLearnt ==
    ASSUME HuntInv, NEW w \in Workers, NEW n \in 1 .. MaxRows, Held(w), AddHuntFindings(w, n)
    PROVE  Life!LifeNext
  <1>0. PICK h \in Hunts : h = tick[w].hunt
    BY HeldIsHunt DEF HuntInv, FinishHunt, Held
  <1>1. h \in Hunts /\ job[h].status = "running"
    BY <1>0, HeldIsHunt DEF HuntInv, HandsOK
  <1>2. found' = [found EXCEPT ![h] = found[h] + n] /\ job' = job
    BY <1>0 DEF AddHuntFindings
  <1>3. found[h] \in Nat /\ n \in Nat /\ n > 0
    BY <1>1, HuntAssumption DEF HuntInv, HuntTypeOK
  <1>4. found'[h] = found[h] + n
    BY <1>1, <1>2 DEF HuntInv, HuntTypeOK
  <1>5. found' = [found EXCEPT ![h] = found'[h]]
    BY <1>2, <1>4
  <1>7. found'[h] > found[h]
    BY <1>3, <1>4
  <1>6. Life!Learn(h, found'[h])
    BY <1>1, <1>2, <1>5, <1>7 DEF Life!Learn, Life!Hunts, Hunts
  <1> QED BY <1>1, <1>6 DEF Life!LifeNext, Life!Hunts, Hunts

LEMMA EndsAreEnds ==
    ASSUME HuntInv, NEW w \in Workers, NEW s \in Finished, FinishHunt(w, s)
    PROVE  Life!LifeNext
  <1>0. PICK h \in Hunts : h = tick[w].hunt
    BY HeldIsHunt DEF HuntInv, FinishHunt, Held
  <1>1. h \in Hunts /\ job[h].status = "running" /\ job[h] \in HuntRow
    BY <1>0, HeldIsHunt DEF HuntInv, HandsOK, FinishHunt, Held
  <1>2. Ends(s) \subseteq Nat
    BY HuntAssumption DEF Ends
  <1>3. PICK n \in Nat : job' = [job EXCEPT ![h] = Over(job[h], s, n)]
    BY <1>0, <1>2 DEF FinishHunt
  <1>4. found' = found
    BY DEF FinishHunt
  <1>5. /\ job'[h].query = job[h].query /\ job'[h].status = s
        /\ \A g \in Hunts : g # h => job'[g] = job[g]
    BY <1>1, <1>3, OverRow DEF HuntInv, HuntTypeOK
  <1>6. LifeQuery' = LifeQuery
    BY <1>5 DEF LifeQuery
  <1>7. CASE s = "succeeded"
    <2>1. LifeStatus' = [LifeStatus EXCEPT ![h] = "succeeded"]
      BY <1>5, <1>7 DEF LifeStatus
    <2>2. Life!Succeed(h)
      BY <1>1, <1>4, <1>6, <2>1 DEF Life!Succeed, LifeQuery, LifeStatus
    <2> QED BY <1>1, <2>2 DEF Life!LifeNext, Life!Hunts, Hunts
  <1>8. CASE s = "failed"
    <2>1. LifeStatus' = [g \in Hunts |-> IF g \in {h} THEN "failed" ELSE LifeStatus[g]]
      BY <1>5, <1>8 DEF LifeStatus
    <2>2. Life!Fail({h})
      BY <1>1, <1>4, <1>6, <2>1 DEF Life!Fail, Life!Hunts, Hunts, LifeQuery, LifeStatus
    <2>3. PICK hs \in SUBSET Hunts : hs = {h}
      BY <1>1
    <2>4. Life!Fail(hs)
      BY <2>2, <2>3
    <2> QED BY <2>4 DEF Life!LifeNext, Life!Hunts, Hunts
  <1> QED BY <1>7, <1>8 DEF Finished

LEMMA ExpiryFails ==
    ASSUME HuntInv, NEW w \in Workers, StartTick(w)
    PROVE  Life!LifeNext
  <1>0. PICK hs \in SUBSET Hunts : hs = {h \in Hunts : Stale(h)}
    OBVIOUS
  <1>1. job' = [h \in Hunts |-> IF h \in hs THEN Over(job[h], "failed", 0) ELSE job[h]]
    BY <1>0 DEF StartTick
  <1>2. \A h \in Hunts : job[h] \in HuntRow
    BY DEF HuntInv, HuntTypeOK
  <1>3. \A h \in Hunts : /\ job'[h].query = job[h].query
                         /\ job'[h].status = IF h \in hs THEN "failed" ELSE job[h].status
    BY <1>1, <1>2, OverRow DEF Finished
  <1>4. LifeQuery' = LifeQuery
    BY <1>3 DEF LifeQuery
  <1>5. LifeStatus' = [h \in Hunts |-> IF h \in hs THEN "failed" ELSE LifeStatus[h]]
    BY <1>3 DEF LifeStatus
  <1>6. \A h \in hs : LifeStatus[h] = "running"
    BY <1>0 DEF LifeStatus, Stale
  <1>7. found' = found
    BY DEF StartTick
  <1>8. Life!Fail(hs)
    BY <1>4, <1>5, <1>6, <1>7 DEF Life!Fail, Life!Hunts, Hunts, LifeQuery, LifeStatus
  <1> QED BY <1>8 DEF Life!LifeNext, Life!Hunts, Hunts

LEMMA LifeSteps ==
    ASSUME HuntInv, [HuntNext]_huntVars
    PROVE  [Life!LifeNext]_Life!lifeVars
  <1>1. CASE UNCHANGED <<job, found>>
    BY <1>1, LifeStutters
  <1>2. CASE \E c \in Clients, q \in Queries : PostHunt(c, q)
    BY <1>1, <1>2 DEF PostHunt
  <1>3. CASE \E c \in Clients : LookForCached(c) \/ LookForInFlight(c) \/ PostEnds(c)
    BY <1>1, <1>3 DEF LookForCached, LookForInFlight, Reply, PostEnds
  <1>4. CASE GetFindings \/ GetEnds \/ \E g \in Hunts : GetHunt(g)
    BY <1>1, <1>4 DEF GetHunt, GetFindings, GetEnds
  <1>5. CASE \E w \in Workers : NothingQueued(w) \/ TickDies(w)
    BY <1>1, <1>5 DEF NothingQueued, TickDies
  <1>6. CASE TimePasses
    <2>1. \A h \in Hunts : job'[h].query = job[h].query /\ job'[h].status = job[h].status
      BY <1>6, OlderRow DEF TimePasses, HuntInv, HuntTypeOK
    <2> QED BY <1>6, <2>1, LifeStutters DEF TimePasses
  <1>7. CASE \E g \in Hunts : CacheLapses(g)
    <2>1. \A h \in Hunts : job'[h].query = job[h].query /\ job'[h].status = job[h].status
      BY <1>7 DEF CacheLapses, HuntInv, HuntTypeOK, HuntRow
    <2> QED BY <1>7, <2>1, LifeStutters DEF CacheLapses
  <1> QED BY <1>1, <1>2, <1>3, <1>4, <1>5, <1>6, <1>7, InsertAsks, ClaimBegins,
             FindingsAreLearnt, EndsAreEnds, ExpiryFails
          DEF HuntNext, WorkerStep, Held, huntVars

\* The API, the ticks and the clock implement HuntLife: a hunt is asked for once,
\* begins in the order of asking, learns only while it runs, and ends for good.
THEOREM HuntsLive == HuntSpec => ImplementsHuntLife
  BY LifeBegins, LifeSteps, HuntInvHolds, PTL DEF HuntSpec, ImplementsHuntLife, Life!LifeSpec
=============================================================================
