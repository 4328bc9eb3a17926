----------------------------- MODULE SearchPage -----------------------------
(***************************************************************************)
(* Company search in a browser tab (SearchPage.tsx, HuntPanel.tsx and the  *)
(* hooks of queries.ts).  The tab adopts the hunt the search offers, asks  *)
(* for new ones, and polls the one on screen.  The hunts themselves are    *)
(* those of HuntLife, which HuntJobs implements; what TanStack Query keeps *)
(* is `results` and `seen`.                                                *)
(*                                                                         *)
(* One step is one commit of the page with all its effects: the reset of   *)
(* the hunt and the adoption of the offered one belong to the step that    *)
(* changes the term or brings the answer.  Typing is modelled once it has  *)
(* settled for DEBOUNCE_MS.                                                *)
(***************************************************************************)
EXTENDS HuntLife

CONSTANT MaxRows   \* bound: findings of one hunt

ASSUME PageAssumption == MaxHunts \in Nat /\ MaxRows \in Nat

VARIABLES
    page,     \* the component's state
    results,  \* cached answers of GET /api/search, by term
    seen,     \* cached answers of GET /api/hunt/:id
    post,     \* where the POST /api/hunt of this tab is
    get       \* where its GET /api/hunt/:id is

netVars  == <<post, get>>
pageVars == <<page, results, seen, post, get>>
vars == <<lifeVars, pageVars>>

NoHunt == 0
Short  == Nothing               \* a term of fewer than two characters
Terms  == Queries \cup {Short}

\* term: `debounced`.  hunt: `huntId`.  last: the latest term whose answer the
\* search hook has had, which is what it shows while the next is on its way.
\* asking: the POST that is out was sent by the page as it is mounted now.
Closed == [open |-> FALSE, term |-> Short, hunt |-> NoHunt, last |-> Short, asking |-> FALSE]
PageState == [open : BOOLEAN, term : Terms, hunt : Hunts \cup {NoHunt}, last : Terms,
              asking : BOOLEAN]

\* SearchResult, of which only hunt.existingJobId matters here.
SearchResult == [existing : Hunts \cup {NoHunt}]
HuntJob == [id : Hunts, status : Open \cup Finished]
HuntData == [job : HuntJob, rows : 0 .. MaxRows]
Row(h) == [id |-> h, status |-> status[h]]

Idle == [at |-> "idle"]
PostState == {Idle} \cup [at : {"asked"}, query : Queries] \cup [at : {"answered"}, job : HuntJob]
GetState == {Idle} \cup [at : {"findings"}, job : HuntJob] \cup [at : {"answered"}, data : HuntData]

PageInit ==
    /\ LifeInit
    /\ page = Closed
    /\ results = [q \in Queries |-> Nothing]
    /\ seen = [h \in Hunts |-> Nothing]
    /\ post = Idle
    /\ get = Idle
-----------------------------------------------------------------------------
\* The data of useSearch: the term's own, or the previous term's.
Shown(rs, p) ==
    CASE p.term # Short /\ rs[p.term] # Nothing -> rs[p.term]
      [] OTHER -> IF p.last # Short THEN rs[p.last] ELSE Nothing

Effects_AlwaysAdopts(rs, p) ==
    LET r == Shown(rs, p)
    IN  [p EXCEPT !.last = IF p.term # Short /\ rs[p.term] # Nothing THEN p.term ELSE p.last,
                  !.hunt = IF r # Nothing THEN r.existing ELSE p.hunt]

\* The effects of a commit: remember whose data is on show, adopt its hunt.
Effects(rs, p) ==
    LET r == Shown(rs, p)
    IN  [p EXCEPT !.last = IF p.term # Short /\ rs[p.term] # Nothing THEN p.term ELSE p.last,
                  !.hunt = IF r # Nothing /\ p.hunt = NoHunt THEN r.existing ELSE p.hunt]

\* The hunts that may answer for a query, and those that do without a worker.
Usable(q, states) == {h \in Hunts : query[h] = q /\ status[h] \in states}

\* The page is opened at ?q=t, by a link or by the box in the shell.  (On the
\* page itself the box only changes the URL, and the page changes it back.)
OpenSearch(t) ==
    /\ ~page.open
    /\ page' = Effects(results, [Closed EXCEPT !.open = TRUE, !.term = t])
    /\ UNCHANGED <<lifeVars, results, seen, netVars>>

LeaveSearch ==
    /\ page.open
    /\ page' = Closed
    /\ UNCHANGED <<lifeVars, results, seen, netVars>>

\* A new term: forget the hunt.
ChangeTerm(t) ==
    /\ page.open /\ t # page.term
    /\ page' = Effects(results, [page EXCEPT !.term = t, !.hunt = NoHunt])
    /\ UNCHANGED <<lifeVars, results, seen, netVars>>

\* GET /api/search: a hunt that succeeded is offered while it is recent.
SearchAnswers ==
    /\ page.open /\ page.term # Short
    /\ \E h \in Usable(page.term, {"succeeded"}) \cup {NoHunt} :
          results' = [results EXCEPT ![page.term] = [existing |-> h]]
    /\ page' = Effects(results', page)
    /\ UNCHANGED <<lifeVars, seen, netVars>>

\* What the page has under its search box.
SearchScreen ==
    CASE ~page.open                       -> "closed"
      [] page.open /\ page.term = Short   -> "type a name"
      [] page.open /\ page.term # Short   ->
            IF Shown(results, page) = Nothing THEN "loading" ELSE "results"

\* The button of HuntPrompt, which is there with the data.
RunHunt ==
    /\ SearchScreen = "results" /\ ~page.asking
    /\ post = Idle
    /\ post' = [at |-> "asked", query |-> page.term]
    /\ page' = [page EXCEPT !.asking = TRUE]
    /\ UNCHANGED <<lifeVars, results, seen, get>>

\* POST /api/hunt: a recent hunt, one in flight, or a new one.
PostAnswered ==
    /\ post.at = "asked"
    /\ \/ /\ \E h \in Usable(post.query, Open \cup {"succeeded"}) :
               post' = [at |-> "answered", job |-> Row(h)]
          /\ UNCHANGED lifeVars
       \/ \E h \in Hunts :
            /\ \A g \in Hunts : status[g] = "absent" <=> g >= h
            /\ Ask(h, post.query)
            /\ post' = [at |-> "answered", job |-> [id |-> h, status |-> "queued"]]
    /\ UNCHANGED <<page, results, seen, get>>

HuntStarted_NoFindings ==
    /\ post.at = "answered"
    /\ post' = Idle
    /\ seen' = [seen EXCEPT ![post.job.id] = [job |-> post.job]]
    /\ page' = IF page.asking THEN [page EXCEPT !.hunt = post.job.id, !.asking = FALSE] ELSE page
    /\ UNCHANGED <<lifeVars, results, get>>

\* The answer: seed the cache; the page that asked, if it is there, shows the hunt.
HuntStarted ==
    /\ post.at = "answered"
    /\ post' = Idle
    /\ seen' = [seen EXCEPT ![post.job.id] = [job |-> post.job, rows |-> 0]]
    /\ page' = IF page.asking THEN [page EXCEPT !.hunt = post.job.id, !.asking = FALSE] ELSE page
    /\ UNCHANGED <<lifeVars, results, get>>

\* No answer: refused, or lost on the way.
HuntNotStarted ==
    /\ post.at # "idle"
    /\ post' = Idle
    /\ page' = [page EXCEPT !.asking = FALSE]
    /\ UNCHANGED <<lifeVars, results, seen, get>>

Polls_RunningOnly(d) == IF d = Nothing THEN TRUE ELSE d.job.status = "running"

\* useHunt fetches when it has no data and polls while the hunt is open.  (Each
\* request is tried three times; a third failure in a row is not modelled.)
Polls(d) == IF d = Nothing THEN TRUE ELSE d.job.status \in Open

\* GET /api/hunt/:id reads the row first, the findings next.
GetHunt ==
    /\ page.open /\ page.hunt # NoHunt
    /\ get = Idle
    /\ get' = [at |-> "findings", job |-> Row(page.hunt)]
    /\ UNCHANGED <<lifeVars, page, results, seen, post>>

Poll == page.hunt # NoHunt /\ Polls(seen[page.hunt]) /\ GetHunt

\* A hunt_changed event, or a window that is looked at again when data is stale.
Refetch == GetHunt

GetFindings ==
    /\ get.at = "findings"
    /\ get' = [at |-> "answered", data |-> [job |-> get.job, rows |-> rows[get.job.id]]]
    /\ UNCHANGED <<lifeVars, page, results, seen, post>>

HuntAnswered ==
    /\ get.at = "answered"
    /\ get' = Idle
    /\ seen' = [seen EXCEPT ![get.data.job.id] = get.data]
    /\ UNCHANGED <<lifeVars, page, results, post>>

PageStep ==
    \/ \E t \in Terms : OpenSearch(t) \/ ChangeTerm(t)
    \/ LeaveSearch \/ SearchAnswers \/ RunHunt \/ PostAnswered \/ HuntStarted \/ HuntNotStarted
    \/ Poll \/ Refetch \/ GetFindings \/ HuntAnswered

\* What the worker does to a hunt meanwhile.
WorkerEnds(h) == (Succeed(h) \/ Fail({h})) /\ UNCHANGED pageVars
WorkerStep ==
    \E h \in Hunts :
        \/ Begin(h) /\ UNCHANGED pageVars
        \/ (\E n \in 1 .. MaxRows : Learn(h, n)) /\ UNCHANGED pageVars
        \/ WorkerEnds(h)

PageNext == PageStep \/ WorkerStep
PageSpec == PageInit /\ [][PageNext]_vars

\* HuntJobs's HuntsEnd, and a network that brings a poll that is due its answer.
\* Nobody has to click or type, and no event has to arrive.
FairPageSpec ==
    /\ PageSpec
    /\ \A h \in Hunts : WF_vars(Begin(h) /\ UNCHANGED pageVars) /\ WF_vars(WorkerEnds(h))
    /\ WF_vars(Poll) /\ WF_vars(GetFindings) /\ WF_vars(HuntAnswered)
-----------------------------------------------------------------------------
(* What HuntPanel shows of the hunt on screen.                             *)

Panel ==
    LET d == seen[page.hunt]
        open == d.job.status \in Open
    IN  CASE SearchScreen \in {"closed", "type a name"} \/ page.hunt = NoHunt -> "absent"
          [] OTHER ->
               IF d = Nothing THEN "loading"
               ELSE IF d.rows = 0 THEN IF open THEN "looking" ELSE "nothing found"
               ELSE IF open THEN "findings, still looking" ELSE "findings"
-----------------------------------------------------------------------------
(* Properties.                                                             *)

\* Every variable has its shape.
PageTypeOK ==
    /\ query \in [Hunts -> Queries \cup {Nothing}]
    /\ status \in [Hunts -> Open \cup Finished \cup {"absent"}]
    /\ rows \in [Hunts -> 0 .. MaxRows]
    /\ page \in PageState
    /\ results \in [Queries -> SearchResult \cup {Nothing}]
    /\ seen \in [Hunts -> HuntData \cup {Nothing}]
    /\ post \in PostState
    /\ get \in GetState

\* The panel does not spin for ever: the poll is enough to bring it to what the
\* hunt found, or off the screen, if every event is lost.
PanelSettles ==
    Panel \in {"loading", "looking", "findings, still looking"}
       ~> Panel \in {"absent", "nothing found", "findings"}

\* The hunt somebody is reading is not swapped for another: while the term stays,
\* the page shows a different hunt only when a POST of its own has brought it.
HuntIsNotSwapped ==
    [][ page.open /\ page'.open /\ page.term = page'.term /\ page.hunt # NoHunt
          /\ page'.hunt # page.hunt
        => page.asking /\ post.at = "answered" /\ page'.hunt = post.job.id ]_vars

\* "A new search term invalidates whichever hunt was on screen - leaving the
\* previous company's findings under a different company's results is actively
\* misleading" (SearchPage.tsx): with a company's own results on show, the hunt
\* on screen is a hunt for that company.
HuntIsOfTheCompany ==
    page.open /\ page.term # Short /\ results[page.term] # Nothing /\ page.hunt # NoHunt
       => query[page.hunt] = page.term

\* "Answering with the existing job means a repeat search renders instantly from
\* rows that already exist" (search.ts:301): the panel says that nothing was found
\* for a company only of a hunt that found nothing.
NothingFoundIsTrue ==
    Panel = "nothing found" => rows[page.hunt] = 0
=============================================================================
