-------------------------- MODULE SearchPageProofs --------------------------
(***************************************************************************)
(* What SearchPage keeps for any number of companies, hunts and findings:  *)
(* the types; that the hunt somebody is reading is not swapped; that the   *)
(* tab and the worker together do to hunts only what HuntLife allows; and  *)
(* that only the answer of a POST can make the panel deny what was found.  *)
(***************************************************************************)
EXTENDS SearchPage, TLAPS

Asked(h) == status[h] # "absent"

\* A hunt the tab has heard of has been asked for.
KnownIsAsked ==
    /\ page.hunt # NoHunt => Asked(page.hunt)
    /\ \A q \in Queries :
          results[q] # Nothing => results[q].existing = NoHunt \/ Asked(results[q].existing)
    /\ post.at = "answered" => Asked(post.job.id)

PageInv == PageTypeOK /\ KnownIsAsked

\* An answer of POST /api/hunt is about a hunt that is still to end: nobody asked
\* again for a company whose last hunt succeeded within the hour.
AnswersAreOpen == post.at = "answered" => post.job.status \in Open

\* The page never shows results of another term than its own, as it does while
\* those of a new term load; and a POST is answered while its term is on show.
OwnResultsOnly ==
    page.open /\ page.term # Short /\ results[page.term] = Nothing
       => Shown(results, page) = Nothing
PostIsForTheTerm ==
    page.asking /\ post.at = "answered" /\ page.term # Short
       => query[post.job.id] = page.term

\* A hunt offered with a term's results, or on screen under a term, is for it.
CompanyInv ==
    /\ \A q \in Queries :
          results[q] # Nothing /\ results[q].existing # NoHunt => query[results[q].existing] = q
    /\ page.term # Short /\ page.hunt # NoHunt => query[page.hunt] = page.term

\* What is held or on its way of a hunt that is over is all of it: `rows` are
\* those it ended with, and it has not gained any since.
IsLast(job) == job.status \in Finished => status[job.id] = job.status
IsWhole(data) ==
    data.job.status \in Finished =>
        status[data.job.id] = data.job.status /\ data.rows = rows[data.job.id]
SeenInv ==
    /\ \A h \in Hunts : seen[h] # Nothing => seen[h].job.id = h /\ IsWhole(seen[h])
    /\ get.at = "findings" => IsLast(get.job)
    /\ get.at = "answered" => IsWhole(get.data)
-----------------------------------------------------------------------------
(* The effects of a commit, and what the worker may do.                    *)

\* The effects keep the term, and the hunt if there is one; a hunt they adopt is
\* one that a cached answer offers.
LEMMA EffectsAdopt ==
    ASSUME NEW rs \in [Queries -> SearchResult \cup {Nothing}], NEW p \in PageState
    PROVE  /\ Effects(rs, p) \in PageState
           /\ Effects(rs, p).open = p.open /\ Effects(rs, p).term = p.term
           /\ Effects(rs, p).asking = p.asking
           /\ p.hunt # NoHunt => Effects(rs, p).hunt = p.hunt
           /\ \/ Effects(rs, p).hunt = p.hunt
              \/ \E q \in Queries : rs[q] # Nothing /\ Effects(rs, p).hunt = rs[q].existing
  <1> DEFINE r == Shown(rs, p)
             new == [p EXCEPT !.last = IF p.term # Short /\ rs[p.term] # Nothing
                                       THEN p.term ELSE p.last,
                              !.hunt = IF r # Nothing /\ p.hunt = NoHunt
                                       THEN r.existing ELSE p.hunt]
  <1>1. r = Nothing \/ (\E q \in Queries : rs[q] # Nothing /\ r = rs[q])
    BY DEF Shown, PageState, Terms, Short
  <1>2. r # Nothing => r.existing \in Hunts \cup {NoHunt}
    BY <1>1 DEF SearchResult
  <1> HIDE DEF r
  <1>3. /\ new \in PageState
        /\ new.open = p.open /\ new.term = p.term /\ new.asking = p.asking
        /\ new.hunt = IF r # Nothing /\ p.hunt = NoHunt THEN r.existing ELSE p.hunt
    BY <1>2 DEF PageState, Terms
  <1>4. Effects(rs, p) = new
    BY DEF Effects, r
  <1> HIDE DEF new
  <1> QED BY <1>1, <1>3, <1>4

\* A hunt once asked for stays asked for by the same company, and one that is over stays as it is.
LEMMA LifeGoesOn ==
    ASSUME PageTypeOK, [LifeNext]_lifeVars, NEW h \in Hunts
    PROVE  /\ Asked(h) => Asked(h)' /\ query'[h] = query[h]
           /\ status[h] \in Finished => status'[h] = status[h] /\ rows'[h] = rows[h]
  <1>1. ASSUME NEW g \in Hunts, NEW q \in Queries, Ask(g, q)
        PROVE  /\ status' = [status EXCEPT ![g] = "queued"] /\ status[g] = "absent"
               /\ query' = [query EXCEPT ![g] = q] /\ rows' = rows
    BY <1>1 DEF Ask
  <1>2. ASSUME NEW g \in Hunts, Begin(g) \/ Succeed(g)
        PROVE  \E s \in {"running", "succeeded"} :
                  /\ status' = [status EXCEPT ![g] = s] /\ UNCHANGED <<query, rows>>
                  /\ status[g] \in Open
    BY <1>2 DEF Begin, Succeed, Open
  <1>3. ASSUME NEW g \in Hunts, NEW n, Learn(g, n)
        PROVE  /\ UNCHANGED <<query, status>> /\ status[g] = "running"
               /\ rows' = [rows EXCEPT ![g] = n]
    BY <1>3 DEF Learn
  <1>4. ASSUME NEW hs \in SUBSET Hunts, Fail(hs)
        PROVE  /\ status'[h] = IF h \in hs THEN "failed" ELSE status[h]
               /\ h \in hs => status[h] = "running"
               /\ UNCHANGED <<query, rows>>
    BY <1>4 DEF Fail
  <1> USE DEF PageTypeOK, Asked, Open, Finished
  <1>5. CASE UNCHANGED lifeVars
    BY <1>5 DEF lifeVars
  <1>6. ASSUME NEW g \in Hunts, NEW q \in Queries, Ask(g, q)
        PROVE  /\ Asked(h) => Asked(h)' /\ query'[h] = query[h]
               /\ status[h] \in Finished => status'[h] = status[h] /\ rows'[h] = rows[h]
    BY <1>1, <1>6
  <1>7. ASSUME NEW g \in Hunts, Begin(g) \/ Succeed(g)
        PROVE  /\ Asked(h) => Asked(h)' /\ query'[h] = query[h]
               /\ status[h] \in Finished => status'[h] = status[h] /\ rows'[h] = rows[h]
    BY <1>2, <1>7
  <1>8. ASSUME NEW g \in Hunts, Learn(g, rows'[g])
        PROVE  /\ Asked(h) => Asked(h)' /\ query'[h] = query[h]
               /\ status[h] \in Finished => status'[h] = status[h] /\ rows'[h] = rows[h]
    BY <1>3, <1>8
  <1>9. ASSUME NEW hs \in SUBSET Hunts, Fail(hs)
        PROVE  /\ Asked(h) => Asked(h)' /\ query'[h] = query[h]
               /\ status[h] \in Finished => status'[h] = status[h] /\ rows'[h] = rows[h]
    BY <1>4, <1>9
  <1> QED BY <1>5, <1>6, <1>7, <1>8, <1>9 DEF LifeNext

-----------------------------------------------------------------------------
(* The tab and the worker do to hunts what HuntLife allows.                *)

LEMMA StepIsLife ==
    ASSUME PageTypeOK, [PageNext]_vars
    PROVE  [LifeNext]_lifeVars
  <1>1. ASSUME PostAnswered
        PROVE  [LifeNext]_lifeVars
    <2>1. CASE UNCHANGED lifeVars
      BY <2>1
    <2>2. ASSUME NEW h \in Hunts, Ask(h, post.query)
          PROVE  LifeNext
      <3>1. post.query \in Queries
        BY <1>1 DEF PageTypeOK, PostState, PostAnswered, Idle
      <3> QED BY <2>2, <3>1 DEF LifeNext
    <2> QED BY <1>1, <2>1, <2>2 DEF PostAnswered
  <1>2. ASSUME PageStep, ~PostAnswered
        PROVE  UNCHANGED lifeVars
    BY <1>2 DEF PageStep, OpenSearch, ChangeTerm, LeaveSearch, SearchAnswers, RunHunt,
                HuntStarted, HuntNotStarted, Poll, Refetch, GetHunt, GetFindings, HuntAnswered
  <1>3. ASSUME NEW h \in Hunts, NEW n \in 1 .. MaxRows, Learn(h, n)
        PROVE  LifeNext
    <2>1. rows'[h] = n
      BY <1>3 DEF Learn, PageTypeOK
    <2> QED BY <1>3, <2>1 DEF LifeNext
  <1>4. ASSUME NEW h \in Hunts, Fail({h})
        PROVE  LifeNext
    BY <1>4 DEF LifeNext
  <1>5. ASSUME WorkerStep
        PROVE  LifeNext
    BY <1>3, <1>4, <1>5 DEF WorkerStep, WorkerEnds, LifeNext
  <1> QED BY <1>1, <1>2, <1>5 DEF PageNext, vars

-----------------------------------------------------------------------------
(* The types, and the hunts the tab has heard of.                          *)

LEMMA PageInvInit == PageInit => PageInv
  BY PageAssumption DEF PageInit, LifeInit, PageInv, PageTypeOK, KnownIsAsked, Closed,
     PageState, Terms, Short, NoHunt, PostState, GetState, Idle

\* The worker's part: hunts move on, and the tab is as it was.
LEMMA LifeTypes ==
    ASSUME PageTypeOK, PageNext
    PROVE  /\ query' \in [Hunts -> Queries \cup {Nothing}]
           /\ status' \in [Hunts -> Open \cup Finished \cup {"absent"}]
           /\ rows' \in [Hunts -> 0 .. MaxRows]
  <1> USE DEF PageTypeOK, Open, Finished
  <1>1. ASSUME NEW h \in Hunts, Ask(h, post.query), PostAnswered
        PROVE  /\ query' \in [Hunts -> Queries \cup {Nothing}]
               /\ status' \in [Hunts -> Open \cup Finished \cup {"absent"}]
               /\ rows' \in [Hunts -> 0 .. MaxRows]
    <2>1. post.query \in Queries
      BY <1>1 DEF PostState, PostAnswered, Idle
    <2> QED BY <1>1, <2>1 DEF Ask
  <1>2. CASE PageStep /\ UNCHANGED lifeVars
    BY <1>2 DEF lifeVars
  <1>3. CASE PageStep /\ ~UNCHANGED lifeVars
    BY <1>1, <1>3 DEF PageStep, OpenSearch, ChangeTerm, LeaveSearch, SearchAnswers, RunHunt,
       PostAnswered, HuntStarted, HuntNotStarted, Poll, Refetch, GetHunt, GetFindings,
       HuntAnswered
  <1>4. CASE WorkerStep
    <2>1. ASSUME NEW h \in Hunts, NEW n \in 1 .. MaxRows, Learn(h, n)
          PROVE  rows' \in [Hunts -> 0 .. MaxRows] /\ UNCHANGED <<query, status>>
      BY <2>1, PageAssumption DEF Learn
    <2>2. ASSUME NEW h \in Hunts, Begin(h) \/ Succeed(h) \/ Fail({h})
          PROVE  /\ status' \in [Hunts -> Open \cup Finished \cup {"absent"}]
                 /\ UNCHANGED <<query, rows>>
      BY <2>2 DEF Begin, Succeed, Fail
    <2> QED BY <1>4, <2>1, <2>2 DEF WorkerStep, WorkerEnds
  <1> QED BY <1>2, <1>3, <1>4 DEF PageNext

\* The component: its shape, and that it knows the hunt it shows from an answer.
LEMMA PageOK ==
    ASSUME PageInv, PageNext
    PROVE  /\ page' \in PageState
           /\ page'.hunt # NoHunt => Asked(page'.hunt)
  <1> USE DEF PageInv, PageTypeOK, KnownIsAsked
  <1>1. ASSUME NEW rs, NEW p \in PageState, page' = Effects(rs, p),
               rs \in [Queries -> SearchResult \cup {Nothing}],
               p.hunt # NoHunt => Asked(p.hunt),
               \A q \in Queries :
                   rs[q] # Nothing => rs[q].existing = NoHunt \/ Asked(rs[q].existing)
        PROVE  /\ page' \in PageState
               /\ page'.hunt # NoHunt => Asked(page'.hunt)
    <2>1. /\ Effects(rs, p) \in PageState
          /\ \/ Effects(rs, p).hunt = p.hunt
             \/ \E q \in Queries : rs[q] # Nothing /\ Effects(rs, p).hunt = rs[q].existing
      BY <1>1, EffectsAdopt
    <2> QED BY <1>1, <2>1
  <1>2. ASSUME NEW t \in Terms, OpenSearch(t)
        PROVE  /\ page' \in PageState
               /\ page'.hunt # NoHunt => Asked(page'.hunt)
    <2> DEFINE p == [Closed EXCEPT !.open = TRUE, !.term = t]
    <2>1. p \in PageState /\ p.hunt = NoHunt
      BY DEF Closed, PageState, Terms
    <2> QED BY <1>1, <1>2, <2>1 DEF OpenSearch
  <1>3. ASSUME NEW t \in Terms, ChangeTerm(t)
        PROVE  /\ page' \in PageState
               /\ page'.hunt # NoHunt => Asked(page'.hunt)
    <2> DEFINE p == [page EXCEPT !.term = t, !.hunt = NoHunt]
    <2>1. p \in PageState /\ p.hunt = NoHunt
      BY DEF PageState
    <2> QED BY <1>1, <1>3, <2>1 DEF ChangeTerm
  <1>4. CASE LeaveSearch
    BY <1>4 DEF LeaveSearch, Closed, PageState, Terms
  <1>5. CASE SearchAnswers
    <2>1. PICK h \in Usable(page.term, {"succeeded"}) \cup {NoHunt} :
             results' = [results EXCEPT ![page.term] = [existing |-> h]]
      BY <1>5 DEF SearchAnswers
    <2>2. h \in Hunts \cup {NoHunt} /\ (h # NoHunt => Asked(h))
      BY <2>1 DEF Usable, Asked
    <2>3. /\ results' \in [Queries -> SearchResult \cup {Nothing}]
          /\ \A q \in Queries : results'[q] # Nothing =>
                results'[q].existing = NoHunt \/ Asked(results'[q].existing)
      BY <2>1, <2>2 DEF SearchResult
    <2> QED BY <1>1, <1>5, <2>3 DEF SearchAnswers
  <1>6. CASE RunHunt
    BY <1>6 DEF RunHunt, PageState
  <1>7. CASE HuntStarted
    <2>1. post.job.id \in Hunts /\ Asked(post.job.id)
      BY <1>7 DEF HuntStarted, PostState, HuntJob, Idle
    <2> QED BY <1>7, <2>1 DEF HuntStarted, PageState
  <1>8. CASE HuntNotStarted
    BY <1>8 DEF HuntNotStarted, PageState
  <1>9. CASE UNCHANGED page
    BY <1>9
  <1>10. ASSUME ~UNCHANGED page
         PROVE  \/ \E t \in Terms : OpenSearch(t) \/ ChangeTerm(t)
                \/ LeaveSearch \/ SearchAnswers \/ RunHunt \/ HuntStarted \/ HuntNotStarted
    BY <1>10 DEF PageNext, PageStep, PostAnswered, Poll, Refetch, GetHunt, GetFindings,
       HuntAnswered, WorkerStep, WorkerEnds, pageVars
  <1> QED BY <1>2, <1>3, <1>4, <1>5, <1>6, <1>7, <1>8, <1>9, <1>10

\* The caches and the requests that are out.
LEMMA HeldOK ==
    ASSUME PageInv, PageNext
    PROVE  /\ results' \in [Queries -> SearchResult \cup {Nothing}]
           /\ \A q \in Queries : results'[q] # Nothing =>
                 results'[q].existing = NoHunt \/ Asked(results'[q].existing)
  <1> USE DEF PageInv, PageTypeOK, KnownIsAsked
  <1>1. CASE SearchAnswers
    <2>1. PICK h \in Usable(page.term, {"succeeded"}) \cup {NoHunt} :
             results' = [results EXCEPT ![page.term] = [existing |-> h]]
      BY <1>1 DEF SearchAnswers
    <2>2. h \in Hunts \cup {NoHunt} /\ (h # NoHunt => Asked(h))
      BY <2>1 DEF Usable, Asked
    <2> QED BY <2>1, <2>2 DEF SearchResult
  <1>2. ASSUME ~SearchAnswers
        PROVE  UNCHANGED results
    BY <1>2 DEF PageNext, PageStep, OpenSearch, ChangeTerm, LeaveSearch, RunHunt, PostAnswered,
       HuntStarted, HuntNotStarted, Poll, Refetch, GetHunt, GetFindings, HuntAnswered,
       WorkerStep, WorkerEnds, pageVars
  <1> QED BY <1>1, <1>2

LEMMA SeenOK ==
    ASSUME PageInv, PageNext
    PROVE  seen' \in [Hunts -> HuntData \cup {Nothing}]
  <1> USE DEF PageInv, PageTypeOK
  <1>1. CASE HuntStarted
    <2>1. post.job \in HuntJob
      BY <1>1 DEF HuntStarted, PostState, Idle
    <2>2. [job |-> post.job, rows |-> 0] \in HuntData
      BY <2>1, PageAssumption DEF HuntData
    <2> QED BY <1>1, <2>1, <2>2 DEF HuntStarted, HuntJob
  <1>2. CASE HuntAnswered
    <2>1. get.data \in HuntData
      BY <1>2 DEF HuntAnswered, GetState, Idle
    <2> QED BY <1>2, <2>1 DEF HuntAnswered, HuntData, HuntJob
  <1>3. ASSUME ~HuntStarted, ~HuntAnswered
        PROVE  UNCHANGED seen
    BY <1>3 DEF PageNext, PageStep, OpenSearch, ChangeTerm, LeaveSearch, SearchAnswers, RunHunt,
       PostAnswered, HuntNotStarted, Poll, Refetch, GetHunt, GetFindings,
       WorkerStep, WorkerEnds, pageVars
  <1> QED BY <1>1, <1>2, <1>3

\* The row of a hunt that has been asked for is one the API answers with.
LEMMA RowIsJob ==
    ASSUME PageTypeOK, NEW h \in Hunts, Asked(h)
    PROVE  Row(h) \in HuntJob
  BY DEF PageTypeOK, Asked, Row, HuntJob

LEMMA PostOK ==
    ASSUME PageInv, PageNext
    PROVE  /\ post' \in PostState
           /\ post'.at = "answered" => post'.job.id \in Hunts /\ status'[post'.job.id] # "absent"
  <1>1. PageTypeOK /\ post \in PostState
    BY DEF PageInv, PageTypeOK
  <1>2. CASE RunHunt
    <2>1. page.term \in Queries
      BY <1>2 DEF RunHunt, SearchScreen, PageInv, PageTypeOK, PageState, Terms
    <2> QED BY <1>2, <2>1 DEF RunHunt, PostState
  <1>3. CASE PostAnswered
    <2>1. ASSUME NEW h \in Usable(post.query, Open \cup {"succeeded"}),
                 post' = [at |-> "answered", job |-> Row(h)], UNCHANGED lifeVars
          PROVE  /\ post' \in PostState
                 /\ post'.at = "answered"
                      => post'.job.id \in Hunts /\ status'[post'.job.id] # "absent"
      <3>1. h \in Hunts /\ Asked(h)
        BY <2>1 DEF Usable, Asked, Open
      <3>2. Row(h) \in HuntJob /\ Row(h).id = h
        BY <1>1, <3>1, RowIsJob DEF Row
      <3> QED BY <2>1, <3>1, <3>2 DEF PostState, Asked, lifeVars
    <2>2. ASSUME NEW h \in Hunts, Ask(h, post.query),
                 post' = [at |-> "answered", job |-> [id |-> h, status |-> "queued"]]
          PROVE  /\ post' \in PostState
                 /\ post'.at = "answered"
                      => post'.job.id \in Hunts /\ status'[post'.job.id] # "absent"
      <3>1. status'[h] = "queued"
        BY <1>1, <2>2 DEF Ask, PageTypeOK
      <3>2. [id |-> h, status |-> "queued"] \in HuntJob
        BY DEF HuntJob, Open
      <3> QED BY <2>2, <3>1, <3>2 DEF PostState, Asked
    <2> QED BY <1>3, <2>1, <2>2 DEF PostAnswered
  <1>4. CASE HuntStarted \/ HuntNotStarted
    BY <1>4 DEF HuntStarted, HuntNotStarted, PostState, Idle
  <1>5. CASE UNCHANGED post
    <2> USE DEF Asked
    <2>1. ASSUME post.at = "answered"
          PROVE  post.job.id \in Hunts /\ Asked(post.job.id)
      BY <1>1, <2>1 DEF PostState, Idle, HuntJob, PageInv, KnownIsAsked
    <2>2. [LifeNext]_lifeVars
      BY <1>1, StepIsLife
    <2> QED BY <1>1, <1>5, <2>1, <2>2, LifeGoesOn
  <1>6. ASSUME ~UNCHANGED post
        PROVE  RunHunt \/ PostAnswered \/ HuntStarted \/ HuntNotStarted
    BY <1>6 DEF PageNext, PageStep, OpenSearch, ChangeTerm, LeaveSearch, SearchAnswers, netVars,
       Poll, Refetch, GetHunt, GetFindings, HuntAnswered, WorkerStep, WorkerEnds, pageVars
  <1> QED BY <1>2, <1>3, <1>4, <1>5, <1>6

LEMMA GetOK ==
    ASSUME PageInv, PageNext
    PROVE  get' \in GetState
  <1> USE DEF PageInv, PageTypeOK
  <1>1. CASE GetHunt
    <2>1. page.hunt \in Hunts /\ Asked(page.hunt)
      BY <1>1 DEF GetHunt, PageState, KnownIsAsked
    <2> QED BY <1>1, <2>1, RowIsJob DEF GetHunt, GetState
  <1>2. CASE GetFindings
    <2>1. get.job \in HuntJob
      BY <1>2 DEF GetFindings, GetState, Idle
    <2>2. [job |-> get.job, rows |-> rows[get.job.id]] \in HuntData
      BY <2>1 DEF HuntData, HuntJob
    <2> QED BY <1>2, <2>2 DEF GetFindings, GetState
  <1>3. CASE HuntAnswered
    BY <1>3 DEF HuntAnswered, GetState, Idle
  <1>4. ASSUME ~GetHunt, ~GetFindings, ~HuntAnswered
        PROVE  UNCHANGED get
    BY <1>4 DEF PageNext, PageStep, OpenSearch, ChangeTerm, LeaveSearch, SearchAnswers, netVars,
       RunHunt, PostAnswered, HuntStarted, HuntNotStarted, Poll, Refetch,
       WorkerStep, WorkerEnds, pageVars
  <1> QED BY <1>1, <1>2, <1>3, <1>4

LEMMA PageInvStep ==
    ASSUME PageInv, [PageNext]_vars
    PROVE  PageInv'
  <1>1. CASE UNCHANGED vars
    BY <1>1 DEF vars, lifeVars, pageVars, PageInv, PageTypeOK, KnownIsAsked, Asked
  <1>2. CASE PageNext
    <2>1. PageTypeOK /\ [LifeNext]_lifeVars
      BY <1>2, StepIsLife DEF PageInv
    <2>2. \A h \in Hunts : Asked(h) => status'[h] # "absent"
      BY <2>1, LifeGoesOn DEF Asked
    <2>3. PageTypeOK'
      BY <1>2, <2>1, LifeTypes, PageOK, HeldOK, SeenOK, PostOK, GetOK DEF PageTypeOK
    <2>4. page'.hunt # NoHunt => status'[page'.hunt] # "absent"
      <3>1. page'.hunt # NoHunt => Asked(page'.hunt) /\ page'.hunt \in Hunts
        BY <1>2, PageOK DEF PageState
      <3> QED BY <2>2, <3>1
    <2>5. ASSUME NEW q \in Queries, results'[q] # Nothing
          PROVE  results'[q].existing = NoHunt \/ status'[results'[q].existing] # "absent"
      <3>1. results'[q].existing \in Hunts \cup {NoHunt}
        BY <1>2, <2>5, HeldOK DEF SearchResult
      <3>2. results'[q].existing = NoHunt \/ Asked(results'[q].existing)
        BY <1>2, <2>5, HeldOK
      <3> QED BY <2>2, <3>1, <3>2
    <2>6. post'.at = "answered" => status'[post'.job.id] # "absent"
      BY <1>2, PostOK
    <2>7. KnownIsAsked'
      BY <2>4, <2>5, <2>6 DEF KnownIsAsked, Asked
    <2> QED BY <2>3, <2>7 DEF PageInv
  <1> QED BY <1>1, <1>2

LEMMA PageInvHolds == PageSpec => []PageInv
  BY PageInvInit, PageInvStep, PTL DEF PageSpec

\* Every variable of the tab and of the hunts it works with keeps its shape.
THEOREM PageTypes == PageSpec => []PageTypeOK
  <1>1. PageInv => PageTypeOK
    BY DEF PageInv
  <1> QED BY <1>1, PageInvHolds, PTL

\* The tab implements the life of hunts: whatever it adopts, asks for, polls or
\* forgets, and whenever its worker runs, hunts are asked for once, run in the
\* order of asking, gain findings only while they run, and end for good.
THEOREM TabKeepsHuntLife == PageSpec => LifeSpec
  <1>1. PageInit => LifeInit
    BY DEF PageInit
  <1>2. ASSUME PageInv, [PageNext]_vars
        PROVE  [LifeNext]_lifeVars
    BY <1>2, StepIsLife DEF PageInv
  <1> QED BY <1>1, <1>2, PageInvHolds, PTL DEF PageSpec, LifeSpec

-----------------------------------------------------------------------------
(* The hunt somebody is reading.                                           *)

\* While the term stays, another hunt comes on screen only by the answer to a
\* POST that this page has sent: no answer of the search, no effect and no poll
\* swaps it.
THEOREM HuntIsNotSwappedHolds == PageSpec => HuntIsNotSwapped
  <1> DEFINE Swapped == /\ page.open /\ page'.open /\ page.term = page'.term
                        /\ page.hunt # NoHunt /\ page'.hunt # page.hunt
             Brought == page.asking /\ post.at = "answered" /\ page'.hunt = post.job.id
  <1>1. ASSUME PageInv, [PageNext]_vars, Swapped
        PROVE  Brought
    <2>1. page \in PageState /\ results \in [Queries -> SearchResult \cup {Nothing}]
      BY <1>1 DEF PageInv, PageTypeOK
    <2>2. PageNext /\ ~UNCHANGED page
      BY <1>1 DEF vars, pageVars
    <2>3. ASSUME NEW t \in Terms, ChangeTerm(t)
          PROVE  FALSE
      <3> DEFINE p == [page EXCEPT !.term = t, !.hunt = NoHunt]
      <3>1. p \in PageState /\ p.term = t
        BY <2>1 DEF PageState
      <3>2. page'.term = t
        BY <2>1, <2>3, <3>1, EffectsAdopt DEF ChangeTerm
      <3> QED BY <1>1, <2>3, <3>2 DEF ChangeTerm
    <2>4. ~SearchAnswers
      <3>1. SUFFICES ASSUME SearchAnswers PROVE FALSE
        OBVIOUS
      <3>2. results' \in [Queries -> SearchResult \cup {Nothing}]
        BY <1>1, <2>2, HeldOK
      <3> QED BY <1>1, <2>1, <3>1, <3>2, EffectsAdopt DEF SearchAnswers
    <2>5. ~LeaveSearch
      BY <1>1 DEF LeaveSearch, Closed
    <2>6. ~RunHunt /\ ~HuntNotStarted
      BY <1>1, <2>1 DEF RunHunt, HuntNotStarted, PageState
    <2>7. HuntStarted
      BY <1>1, <2>2, <2>3, <2>4, <2>5, <2>6 DEF PageNext, PageStep, OpenSearch, PostAnswered, Poll,
         Refetch, GetHunt, GetFindings, HuntAnswered, WorkerStep, WorkerEnds, pageVars
    <2> QED BY <1>1, <2>1, <2>7 DEF HuntStarted, PageState
  <1>2. PageInv /\ [PageNext]_vars => [Swapped => Brought]_vars
    BY <1>1
  <1> QED BY <1>2, PageInvHolds, PTL DEF PageSpec, HuntIsNotSwapped

-----------------------------------------------------------------------------
(* What the panel says was found.                                          *)

LEMMA SeenInvInit == PageInit => SeenInv
  BY DEF PageInit, SeenInv, Idle

\* What was whole stays whole, the hunt being over.
LEMMA WholeStays ==
    ASSUME PageTypeOK, [LifeNext]_lifeVars, NEW data \in HuntData, IsWhole(data)
    PROVE  data.job.status \in Finished =>
              status'[data.job.id] = data.job.status /\ rows'[data.job.id] = rows[data.job.id]
                /\ data.rows = rows'[data.job.id]
  BY LifeGoesOn DEF IsWhole, HuntData, HuntJob

LEMMA LastStays ==
    ASSUME PageTypeOK, [LifeNext]_lifeVars, NEW job \in HuntJob, IsLast(job)
    PROVE  job.status \in Finished =>
              status'[job.id] = job.status /\ rows'[job.id] = rows[job.id]
  BY LifeGoesOn DEF IsLast, HuntJob

LEMMA SeenInvStep ==
    ASSUME PageInv, SeenInv, AnswersAreOpen, [PageNext]_vars
    PROVE  SeenInv'
  <1>1. PageTypeOK /\ [LifeNext]_lifeVars /\ get \in GetState /\ post \in PostState
    BY StepIsLife DEF PageInv, PageTypeOK
  <1>2. seen \in [Hunts -> HuntData \cup {Nothing}]
    BY DEF PageInv, PageTypeOK
  <1>3. ASSUME NEW h \in Hunts, seen'[h] # Nothing
        PROVE  seen'[h].job.id = h /\ IsWhole(seen[h])'
    <2>1. CASE seen'[h] = seen[h]
      <3>1. seen[h] \in HuntData /\ seen[h].job.id = h /\ IsWhole(seen[h])
        BY <1>2, <1>3, <2>1 DEF SeenInv
      <3> QED BY <1>1, <2>1, <3>1, WholeStays DEF IsWhole
    <2>2. CASE HuntStarted /\ seen'[h] # seen[h]
      <3>1. post.job \in HuntJob
        BY <1>1, <2>2 DEF HuntStarted, PostState, Idle
      <3>2. seen'[h] = [job |-> post.job, rows |-> 0] /\ post.job.id = h
        BY <1>2, <2>2 DEF HuntStarted
      <3>3. post.job.status \in Open
        BY <2>2 DEF HuntStarted, AnswersAreOpen
      <3> QED BY <3>2, <3>3 DEF IsWhole, Open, Finished
    <2>3. CASE HuntAnswered /\ seen'[h] # seen[h]
      <3>1. get.data \in HuntData /\ get.at = "answered"
        BY <1>1, <2>3 DEF HuntAnswered, GetState, Idle
      <3>2. seen'[h] = get.data /\ get.data.job.id = h
        BY <1>2, <2>3 DEF HuntAnswered
      <3>3. IsWhole(get.data)
        BY <3>1 DEF SeenInv
      <3> QED BY <1>1, <3>1, <3>2, <3>3, WholeStays DEF IsWhole
    <2>4. ASSUME ~HuntStarted, ~HuntAnswered
          PROVE  UNCHANGED seen
      BY <2>4 DEF PageNext, PageStep, OpenSearch, ChangeTerm, LeaveSearch, SearchAnswers, RunHunt,
         PostAnswered, HuntNotStarted, Poll, Refetch, GetHunt, GetFindings,
         WorkerStep, WorkerEnds, vars, pageVars
    <2> QED BY <2>1, <2>2, <2>3, <2>4
  <1>4. /\ get'.at = "findings" => IsLast(get.job)'
        /\ get'.at = "answered" => IsWhole(get.data)'
    <2>1. CASE GetHunt
      BY <1>1, <2>1 DEF GetHunt, Row, IsLast, lifeVars
    <2>2. CASE GetFindings
      <3>1. get.job \in HuntJob /\ IsLast(get.job)
        BY <1>1, <2>2 DEF GetFindings, GetState, Idle, SeenInv
      <3> QED BY <2>2, <3>1 DEF GetFindings, IsLast, IsWhole, lifeVars
    <2>3. CASE HuntAnswered
      BY <2>3 DEF HuntAnswered, Idle
    <2>4. CASE UNCHANGED get
      <3>1. ASSUME get.at = "findings"
            PROVE  IsLast(get.job)'
        <4>1. get.job \in HuntJob /\ IsLast(get.job)
          BY <1>1, <3>1 DEF GetState, Idle, SeenInv
        <4> QED BY <1>1, <2>4, <4>1, LastStays DEF IsLast
      <3>2. ASSUME get.at = "answered"
            PROVE  IsWhole(get.data)'
        <4>1. get.data \in HuntData /\ IsWhole(get.data)
          BY <1>1, <3>2 DEF GetState, Idle, SeenInv
        <4> QED BY <1>1, <2>4, <4>1, WholeStays DEF IsWhole
      <3> QED BY <2>4, <3>1, <3>2
    <2>5. ASSUME ~GetHunt, ~GetFindings, ~HuntAnswered
          PROVE  UNCHANGED get
      BY <2>5 DEF PageNext, PageStep, OpenSearch, ChangeTerm, LeaveSearch, SearchAnswers, netVars,
         RunHunt, PostAnswered, HuntStarted, HuntNotStarted, Poll, Refetch,
         WorkerStep, WorkerEnds, vars, pageVars
    <2> QED BY <2>1, <2>2, <2>3, <2>4, <2>5
  <1> QED BY <1>3, <1>4 DEF SeenInv

\* The panel says that nothing was found only of a hunt that found nothing, unless
\* a POST is answered with a hunt that has succeeded: no other order of polls,
\* events, findings and clicks empties the panel.
THEOREM NothingFoundUnlessAskedAgain ==
    PageSpec /\ []AnswersAreOpen => []NothingFoundIsTrue
  <1>1. ASSUME PageInv, SeenInv
        PROVE  NothingFoundIsTrue
    <2>1. SUFFICES ASSUME Panel = "nothing found"
                   PROVE  rows[page.hunt] = 0
      BY DEF NothingFoundIsTrue
    <2>2. page.hunt # NoHunt /\ seen[page.hunt] # Nothing
      BY <2>1 DEF Panel
    <2>3. page.hunt \in Hunts /\ seen[page.hunt] \in HuntData
      BY <1>1, <2>2 DEF PageInv, PageTypeOK, PageState
    <2>4. seen[page.hunt].rows = 0 /\ seen[page.hunt].job.status \notin Open
      <3>1. ~(SearchScreen \in {"closed", "type a name"} \/ page.hunt = NoHunt)
        BY <2>1 DEF Panel
      <3> QED BY <2>1, <2>2, <3>1 DEF Panel
    <2>5. seen[page.hunt].job.status \in Finished
      BY <2>3, <2>4 DEF HuntData, HuntJob
    <2> QED BY <1>1, <2>2, <2>3, <2>4, <2>5 DEF SeenInv, IsWhole
  <1>2. PageInv /\ SeenInv /\ AnswersAreOpen /\ [PageNext]_vars => SeenInv'
    BY SeenInvStep
  <1> QED BY <1>1, <1>2, SeenInvInit, PageInvHolds, PTL DEF PageSpec

-----------------------------------------------------------------------------
(* Whose hunt is on screen.                                                *)

\* A page without a hunt adopts the one its own results offer, or none unless
\* it shows another term's.
LEMMA EffectsOwn ==
    ASSUME NEW rs \in [Queries -> SearchResult \cup {Nothing}], NEW p \in PageState,
           p.term # Short, p.hunt = NoHunt
    PROVE  /\ rs[p.term] # Nothing => Effects(rs, p).hunt = rs[p.term].existing
           /\ rs[p.term] = Nothing /\ Shown(rs, Effects(rs, p)) = Nothing
                 => Effects(rs, p).hunt = NoHunt
  <1>1. CASE rs[p.term] # Nothing
    BY <1>1 DEF Effects, Shown, PageState
  <1>2. CASE rs[p.term] = Nothing
    <2>1. /\ Effects(rs, p).term = p.term /\ Effects(rs, p).last = p.last
          /\ Effects(rs, p).hunt = IF Shown(rs, p) # Nothing THEN Shown(rs, p).existing ELSE NoHunt
      BY <1>2 DEF Effects, PageState
    <2>2. Shown(rs, Effects(rs, p)) = Shown(rs, p)
      BY <2>1 DEF Shown
    <2> QED BY <1>2, <2>1, <2>2
  <1> QED BY <1>1, <1>2

LEMMA CompanyInvInit == PageInit => CompanyInv
  BY DEF PageInit, CompanyInv, Closed

LEMMA OffersStay ==
    ASSUME PageInv, CompanyInv, PageNext
    PROVE  \A q \in Queries :
              results'[q] # Nothing /\ results'[q].existing # NoHunt
                 => query'[results'[q].existing] = q
  <1>1. [LifeNext]_lifeVars /\ PageTypeOK
    BY StepIsLife DEF PageInv
  <1>2. ASSUME NEW q \in Queries, results'[q] # Nothing, results'[q].existing # NoHunt,
               results'[q] = results[q]
        PROVE  query'[results'[q].existing] = q
    <2>1. results[q].existing \in Hunts /\ Asked(results[q].existing)
      BY <1>2 DEF PageInv, PageTypeOK, KnownIsAsked, SearchResult
    <2> QED BY <1>1, <1>2, <2>1, LifeGoesOn DEF CompanyInv
  <1>3. ASSUME NEW q \in Queries, results'[q].existing # NoHunt, results'[q] # results[q],
               SearchAnswers
        PROVE  query'[results'[q].existing] = q
    <2>1. PICK h \in Usable(page.term, {"succeeded"}) \cup {NoHunt} :
             results' = [results EXCEPT ![page.term] = [existing |-> h]]
      BY <1>3 DEF SearchAnswers
    <2>2. q = page.term /\ results'[q].existing = h
      BY <1>1, <1>3, <2>1 DEF PageTypeOK
    <2> QED BY <1>3, <2>1, <2>2 DEF Usable, SearchAnswers, lifeVars
  <1>4. ASSUME ~SearchAnswers
        PROVE  UNCHANGED results
    BY <1>4 DEF PageNext, PageStep, OpenSearch, ChangeTerm, LeaveSearch, RunHunt, PostAnswered,
       HuntStarted, HuntNotStarted, Poll, Refetch, GetHunt, GetFindings, HuntAnswered,
       WorkerStep, WorkerEnds, pageVars
  <1> QED BY <1>2, <1>3, <1>4

\* A page that starts without a hunt ends up with one for its own term.
LEMMA AdoptsItsOwn ==
    ASSUME NEW rs \in [Queries -> SearchResult \cup {Nothing}], NEW p \in PageState,
           p.hunt = NoHunt, p.open, page' = Effects(rs, p), results' = rs, OwnResultsOnly',
           \A q \in Queries : rs[q] # Nothing /\ rs[q].existing # NoHunt
                                => query'[rs[q].existing] = q
    PROVE  page'.term # Short /\ page'.hunt # NoHunt => query'[page'.hunt] = page'.term
  <1>1. SUFFICES ASSUME page'.term # Short, page'.hunt # NoHunt
                 PROVE  query'[page'.hunt] = page'.term
    OBVIOUS
  <1>2. page'.term = p.term /\ page'.open = p.open /\ p.term \in Queries
    BY <1>1, EffectsAdopt DEF PageState, Terms
  <1>3. rs[p.term] # Nothing /\ page'.hunt = rs[p.term].existing
    BY <1>1, <1>2, EffectsOwn DEF OwnResultsOnly
  <1> QED BY <1>1, <1>2, <1>3

LEMMA CompanyInvStep ==
    ASSUME PageInv, CompanyInv, PostIsForTheTerm, OwnResultsOnly', [PageNext]_vars
    PROVE  CompanyInv'
  <1>1. CASE UNCHANGED vars
    BY <1>1 DEF CompanyInv, vars, lifeVars, pageVars
  <1>2. ASSUME PageNext
        PROVE  page'.term # Short /\ page'.hunt # NoHunt => query'[page'.hunt] = page'.term
    <2>1. /\ [LifeNext]_lifeVars /\ PageTypeOK /\ page \in PageState
          /\ results \in [Queries -> SearchResult \cup {Nothing}]
          /\ results' \in [Queries -> SearchResult \cup {Nothing}]
          /\ \A q \in Queries : results'[q] # Nothing /\ results'[q].existing # NoHunt
                                => query'[results'[q].existing] = q
      BY <1>2, StepIsLife, HeldOK, OffersStay DEF PageInv, PageTypeOK
    <2>2. ASSUME page'.term = page.term, page'.hunt \in {page.hunt, NoHunt}
          PROVE  page'.term # Short /\ page'.hunt # NoHunt => query'[page'.hunt] = page'.term
      <3>1. page.hunt # NoHunt => page.hunt \in Hunts /\ Asked(page.hunt)
        BY <2>1 DEF PageInv, KnownIsAsked, PageState
      <3> QED BY <2>1, <2>2, <3>1, LifeGoesOn DEF CompanyInv
    <2>3. ASSUME NEW t \in Terms, OpenSearch(t)
          PROVE  page'.term # Short /\ page'.hunt # NoHunt => query'[page'.hunt] = page'.term
      <3> DEFINE p == [Closed EXCEPT !.open = TRUE, !.term = t]
      <3>1. p \in PageState /\ p.hunt = NoHunt /\ p.open
        BY DEF Closed, PageState, Terms
      <3> QED BY <2>1, <2>3, <3>1, AdoptsItsOwn DEF OpenSearch
    <2>4. ASSUME NEW t \in Terms, ChangeTerm(t)
          PROVE  page'.term # Short /\ page'.hunt # NoHunt => query'[page'.hunt] = page'.term
      <3> DEFINE p == [page EXCEPT !.term = t, !.hunt = NoHunt]
      <3>1. p \in PageState /\ p.hunt = NoHunt /\ p.open
        BY <2>1, <2>4 DEF ChangeTerm, PageState
      <3> QED BY <2>1, <2>4, <3>1, AdoptsItsOwn DEF ChangeTerm
    <2>5. CASE SearchAnswers /\ page.hunt = NoHunt
      BY <2>1, <2>5, AdoptsItsOwn DEF SearchAnswers
    <2>6. CASE SearchAnswers /\ page.hunt # NoHunt
      BY <2>1, <2>2, <2>6, EffectsAdopt DEF SearchAnswers
    <2>7. CASE LeaveSearch
      BY <2>7 DEF LeaveSearch, Closed
    <2>8. CASE RunHunt \/ HuntNotStarted
      BY <2>1, <2>2, <2>8 DEF RunHunt, HuntNotStarted, PageState
    <2>9. CASE HuntStarted /\ ~page.asking
      BY <2>2, <2>9 DEF HuntStarted
    <2>10. CASE HuntStarted /\ page.asking
      BY <2>1, <2>10 DEF HuntStarted, PageState, PostIsForTheTerm, lifeVars
    <2>11. CASE UNCHANGED page
      BY <2>2, <2>11
    <2>12. ASSUME ~UNCHANGED page
           PROVE  \/ \E t \in Terms : OpenSearch(t) \/ ChangeTerm(t)
                  \/ LeaveSearch \/ SearchAnswers \/ RunHunt \/ HuntStarted \/ HuntNotStarted
      BY <1>2, <2>12 DEF PageNext, PageStep, PostAnswered, Poll, Refetch, GetHunt, GetFindings,
         HuntAnswered, WorkerStep, WorkerEnds, pageVars
    <2> QED BY <2>3, <2>4, <2>5, <2>6, <2>7, <2>8, <2>9, <2>10, <2>11, <2>12
  <1> QED BY <1>1, <1>2, OffersStay DEF CompanyInv

\* Two ways, and no third, lead to a company's findings under another company's
\* results: the results of the previous term are on show while those of the new
\* one load, or a POST is answered after its term has been changed.
THEOREM OtherCompanyTwoWays ==
    PageSpec /\ []OwnResultsOnly /\ []PostIsForTheTerm => []HuntIsOfTheCompany
  <1>1. CompanyInv => HuntIsOfTheCompany
    BY DEF CompanyInv, HuntIsOfTheCompany
  <1>2. /\ PageInv /\ CompanyInv /\ PostIsForTheTerm /\ OwnResultsOnly' /\ [PageNext]_vars
        => CompanyInv'
    BY CompanyInvStep
  <1> QED BY <1>1, <1>2, CompanyInvInit, PageInvHolds, PTL DEF PageSpec
=============================================================================
