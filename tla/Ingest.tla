------------------------------- MODULE Ingest -------------------------------
(***************************************************************************)
(* What becomes of a page that was fetched: the pages of one source, their *)
(* content hashes, raw_pages, and the leaks, details and exposures stored  *)
(* from them (crawl/fetch.py, pipeline.ingest_page, storage.py).           *)
(*                                                                         *)
(* A page is worked on in many transactions.  Two records say that a text  *)
(* need not be looked at again: the hash of the URL, written with the      *)
(* outcome, and raw_pages.extracted_at, which is the source's and not the  *)
(* URL's.  Between any two steps the worker may die, be cut off, or lose   *)
(* its claim to another.  Claims, retries and budgets are CrawlQueue's.    *)
(*                                                                         *)
(* A leak is one row for all who report it.  The feed of ransomware.live,  *)
(* and another source of the same actor, store leaks too; a row they were  *)
(* the first to write is never this source's.                              *)
(***************************************************************************)
EXTENDS Naturals

CONSTANTS
    Listings,    \* pages that list victims
    Links,       \* pages that may be followed from other pages
    Texts,       \* what a page may read as, cleaned
    Blank,       \* too little text to be a page, or a gate
    ShownAt,     \* the texts a URL may ever show
    Names,       \* the victims a text lists, or is about
    Secrets,     \* what the exposure detector finds in a text
    LinksOn,     \* the links in a text
    Workers,
    None,        \* no hash, no worker, no URL
    MaxFaults,   \* bound: failed handlers and crashes
    MaxChanges   \* bound: changes of the site and leaks reported elsewhere

Urls == Listings \cup Links
Victims == UNION {Names[t] : t \in Texts}

ASSUME IngestAssumption ==
    /\ ShownAt \in [Urls -> SUBSET (Texts \cup {Blank})]
    /\ LinksOn \in [Texts -> SUBSET Links]
    /\ Listings \cap Links = {}
    /\ Blank \notin Texts /\ None \notin Texts
    /\ None \notin Urls /\ None \notin Workers
    /\ MaxFaults \in Nat /\ MaxChanges \in Nat

VARIABLES
    site,       \* the text each URL shows now
    known,      \* URLs in crawl_urls
    holder,     \* crawl_urls.leased_by
    hash,       \* crawl_urls.content_sha256: the text it stands for
    raw,        \* raw_pages, by text
    leaks,      \* victims with a row in leaks
    foreign,    \* those whose row, leaks.source_id, is not this source's
    detailed,   \* those whose own page has filled in their row
    exposures,
    at,         \* what each worker does
    faults, changes

tables  == <<hash, raw, leaks, foreign, detailed, exposures>>
bounded == <<site, faults, changes>>
vars    == <<bounded, known, holder, tables, at>>

\* The steps of ingest_page, and those of the loop around it.
Ingesting == {"save", "insert", "store", "mark", "expose"}
Steps == {"idle", "fetch", "record", "link"} \cup Ingesting

\* seen: the hash the claim was answered with.  ok, hash, links: of the Outcome.
Work == [step : Steps, url : Urls \cup {None}, seen : Texts \cup {None},
         text : Texts \cup {None}, ok : BOOLEAN, hash : Texts \cup {None},
         links : SUBSET Links]

NoWork == [step |-> "idle", url |-> None, seen |-> None, text |-> None, ok |-> FALSE,
           hash |-> None, links |-> {}]

Init ==
    /\ site \in [Urls -> Texts \cup {Blank}] /\ \A u \in Urls : site[u] \in ShownAt[u]
    /\ known = Listings
    /\ holder = [u \in Urls |-> None]
    /\ hash = [u \in Urls |-> None]
    /\ raw = [t \in Texts |-> "absent"]
    /\ leaks = {} /\ foreign = {} /\ detailed = {} /\ exposures = {}
    /\ at = [w \in Workers |-> NoWork]
    /\ faults = 0 /\ changes = 0
-----------------------------------------------------------------------------
(* The handler: fetch.py and pipeline.py.                                  *)

On(w, step) == at[w].step = step
Goto(w, step) == at' = [at EXCEPT ![w].step = step]

\* The handler returns an Outcome.  h: the hash to remember.
Report(w, ok, h, links) ==
    at' = [at EXCEPT ![w].step = "record", ![w].ok = ok, ![w].hash = h, ![w].links = links]

\* Any claim that CrawlQueue may grant: a first one, a retry, a recrawl.
Claim(w, u) ==
    /\ On(w, "idle")
    /\ u \in known /\ holder[u] = None
    /\ holder' = [holder EXCEPT ![u] = w]
    /\ at' = [at EXCEPT ![w] = [NoWork EXCEPT !.step = "fetch", !.url = u, !.seen = hash[u]]]
    /\ UNCHANGED <<bounded, known, tables>>

\* Nothing to read: the end of a listing, or a gate in front of it.  The text
\* of the last time: unchanged.  Anything else is ingested.
Fetch(w) ==
    /\ On(w, "fetch")
    /\ LET text == site[at[w].url]
       IN  \/ text = Blank /\ \E ok \in BOOLEAN : Report(w, ok, None, {})
           \/ text = at[w].seen /\ Report(w, TRUE, None, {})
           \/ /\ text \notin {Blank, at[w].seen}
              /\ at' = [at EXCEPT ![w].step = "save", ![w].text = text]
    /\ UNCHANGED <<bounded, known, holder, tables>>

SavePage_StoredIsSeen(w) ==
    /\ On(w, "save")
    /\ \/ raw[at[w].text] # "absent" /\ Report(w, TRUE, at[w].text, {})
       \/ raw[at[w].text] = "absent" /\ Goto(w, "insert")
    /\ UNCHANGED <<bounded, known, holder, tables>>

\* "Only a page that was actually extracted counts as seen."
SavePage(w) ==
    /\ On(w, "save")
    /\ \/ raw[at[w].text] = "extracted" /\ Report(w, TRUE, at[w].text, {})
       \/ raw[at[w].text] = "stored" /\ Goto(w, "store")
       \/ raw[at[w].text] = "absent" /\ Goto(w, "insert")
    /\ UNCHANGED <<bounded, known, holder, tables>>

\* A second row of the same text is possible, and any extracted one counts.
InsertPage(w) ==
    /\ On(w, "insert")
    /\ raw' = [raw EXCEPT ![at[w].text] = IF @ = "absent" THEN "stored" ELSE @]
    /\ Goto(w, "store")
    /\ UNCHANGED <<bounded, known, holder, hash, leaks, foreign, detailed, exposures>>

\* A listing: its victims, in one transaction.  A row that is there keeps its source.
UpsertLeaks(w) ==
    /\ On(w, "store") /\ at[w].url \in Listings
    /\ leaks' = leaks \cup Names[at[w].text]
    /\ Goto(w, "mark")
    /\ UNCHANGED <<bounded, known, holder, hash, raw, foreign, detailed, exposures>>

EnrichLeak_OfAnySource(w) ==
    /\ On(w, "store") /\ at[w].url \in Links
    /\ LET target == Names[at[w].text] \cap leaks
       IN  \/ target = {} /\ UNCHANGED detailed
           \/ \E v \in target : detailed' = detailed \cup {v}
    /\ Goto(w, "mark")
    /\ UNCHANGED <<bounded, known, holder, hash, raw, leaks, foreign, exposures>>

\* A followed page: it fills in one leak of its source (`source_id = $1`, `limit 1`), and
\* never makes one.
EnrichLeak(w) ==
    LET target == Names[at[w].text] \cap (leaks \ foreign)
    IN  /\ On(w, "store") /\ at[w].url \in Links
        /\ \/ target = {} /\ UNCHANGED detailed
           \/ \E v \in target : detailed' = detailed \cup {v}
        /\ Goto(w, "mark")
        /\ UNCHANGED <<bounded, known, holder, hash, raw, leaks, foreign, exposures>>

MarkExtracted(w) ==
    /\ On(w, "mark")
    /\ raw' = [raw EXCEPT ![at[w].text] = "extracted"]
    /\ Goto(w, "expose")
    /\ UNCHANGED <<bounded, known, holder, hash, leaks, foreign, detailed, exposures>>

\* Candidates in page order; which of them are taken is the queue's affair.
CandidateLinks(w) == LinksOn[at[w].text]

\* `_record_exposures` swallows its errors, and the page counts as done.
RecordExposures(w) ==
    /\ On(w, "expose")
    /\ \/ exposures' = exposures \cup Secrets[at[w].text] /\ UNCHANGED bounded
       \/ /\ faults < MaxFaults /\ faults' = faults + 1
          /\ UNCHANGED <<exposures, site, changes>>
    /\ Report(w, TRUE, at[w].text, CandidateLinks(w))
    /\ UNCHANGED <<known, holder, hash, raw, leaks, foreign, detailed>>

HandlerFails_KeepsHash(w) ==
    /\ at[w].step \in {"fetch"} \cup Ingesting
    /\ faults < MaxFaults /\ faults' = faults + 1
    /\ Report(w, at[w].text # None, at[w].text, {})
    /\ UNCHANGED <<site, changes, known, holder, tables>>

\* The site fails, a statement raises, or the handler is cut off at 90 % of the
\* lease: no hash.
HandlerFails(w) ==
    /\ at[w].step \in {"fetch"} \cup Ingesting
    /\ faults < MaxFaults /\ faults' = faults + 1
    /\ Report(w, FALSE, None, {})
    /\ UNCHANGED <<site, changes, known, holder, tables>>
-----------------------------------------------------------------------------
(* What the loop does with the outcome.                                    *)

\* `complete` and `fail` find the row only while it is the worker's; a worker
\* whose row is not, goes on to the next.
Complete(w) ==
    LET u == at[w].url
    IN  /\ On(w, "record") /\ at[w].ok
        /\ IF holder[u] = w
           THEN /\ hash' = [hash EXCEPT ![u] = IF at[w].hash = None THEN @ ELSE at[w].hash]
                /\ holder' = [holder EXCEPT ![u] = None]
                /\ Goto(w, "link")
           ELSE at' = [at EXCEPT ![w] = NoWork] /\ UNCHANGED <<hash, holder>>
        /\ UNCHANGED <<bounded, known, raw, leaks, foreign, detailed, exposures>>

Fail(w) ==
    LET u == at[w].url
    IN  /\ On(w, "record") /\ ~at[w].ok
        /\ holder' = IF holder[u] = w THEN [holder EXCEPT ![u] = None] ELSE holder
        /\ at' = [at EXCEPT ![w] = NoWork]
        /\ UNCHANGED <<bounded, known, tables>>

\* Depth and budgets leave links out, and an error here is swallowed.
EnqueueLinks(w) ==
    /\ On(w, "link")
    /\ \E taken \in SUBSET at[w].links : known' = known \cup taken
    /\ at' = [at EXCEPT ![w] = NoWork]
    /\ UNCHANGED <<bounded, holder, tables>>

\* The worker dies; what it held waits for the reaper.
Crash(w) ==
    /\ ~On(w, "idle")
    /\ faults < MaxFaults /\ faults' = faults + 1
    /\ at' = [at EXCEPT ![w] = NoWork]
    /\ UNCHANGED <<site, changes, known, holder, tables>>

\* A lease runs out and is reaped, whether its holder is dead or slow.
Reap(u) ==
    /\ holder[u] # None
    /\ holder' = [holder EXCEPT ![u] = None]
    /\ UNCHANGED <<bounded, known, tables, at>>

\* The feed, or another source of the actor, is the first to report a victim.
StoredElsewhere(v) ==
    /\ v \notin leaks
    /\ changes < MaxChanges /\ changes' = changes + 1
    /\ leaks' = leaks \cup {v} /\ foreign' = foreign \cup {v}
    /\ UNCHANGED <<site, faults, known, holder, hash, raw, detailed, exposures, at>>

\* The site changes, back to an earlier text as well.
SiteChanges(u) ==
    /\ changes < MaxChanges /\ changes' = changes + 1
    /\ \E t \in ShownAt[u] \ {site[u]} : site' = [site EXCEPT ![u] = t]
    /\ UNCHANGED <<faults, known, holder, tables, at>>

Step(w) ==
    \/ Fetch(w) \/ SavePage(w) \/ InsertPage(w) \/ UpsertLeaks(w) \/ EnrichLeak(w)
    \/ MarkExtracted(w) \/ RecordExposures(w) \/ Complete(w) \/ Fail(w) \/ EnqueueLinks(w)

Next ==
    \/ \E w \in Workers : Step(w) \/ HandlerFails(w) \/ Crash(w)
    \/ \E w \in Workers, u \in Urls : Claim(w, u)
    \/ \E u \in Urls : Reap(u) \/ SiteChanges(u)
    \/ \E v \in Victims : StoredElsewhere(v)

Spec == Init /\ [][Next]_vars

\* A worker that is alive goes on, the reaper turns, and no URL that can be claimed
\* again and again is passed over for good: every source is crawled in every cycle.
FairSpec ==
    /\ Spec
    /\ \A w \in Workers : WF_vars(Step(w))
    /\ \A u \in Urls : WF_vars(Reap(u)) /\ SF_vars(\E w \in Workers : Claim(w, u))
-----------------------------------------------------------------------------
(* Properties.                                                             *)

\* Every variable has its shape.
IngestTypeOK ==
    /\ site \in [Urls -> Texts \cup {Blank}] /\ \A u \in Urls : site[u] \in ShownAt[u]
    /\ known \subseteq Urls
    /\ holder \in [Urls -> Workers \cup {None}]
    /\ hash \in [Urls -> Texts \cup {None}]
    /\ raw \in [Texts -> {"absent", "stored", "extracted"}]
    /\ leaks \subseteq Victims /\ foreign \subseteq leaks
    /\ detailed \subseteq leaks \ foreign
    /\ exposures \subseteq UNION {Secrets[t] : t \in Texts}
    /\ at \in [Workers -> Work]
    /\ \A w \in Workers :
          /\ ~On(w, "idle") => at[w].url \in Urls
          /\ at[w].step \in Ingesting => at[w].text \in Texts
    /\ faults \in 0 .. MaxFaults /\ changes \in 0 .. MaxChanges

\* A text that only listings show, and a victim's own page: about one victim, and
\* linked from nothing but listings that name it.
ListedOnly(t) == \A l \in Links : t \notin ShownAt[l]
OwnPage(t) ==
    /\ \A v, w \in Names[t] : v = w
    /\ \A u \in Listings : t \notin ShownAt[u]
    /\ \A l \in Links, s \in Texts :
          t \in ShownAt[l] /\ l \in LinksOn[s] => ListedOnly(s) /\ Names[t] \subseteq Names[s]

\* What has been handled is stored.  A URL whose hash says that its text need not be
\* looked at again has left behind what the text announces: a listing its victims, a
\* victim's own page the details of its leak, unless the leak was reported elsewhere
\* first, and either one, as long as nothing has failed, its exposures, unless a worker
\* is about to write them.
\* Steps that are cut short, claims that are lost and several workers on one text
\* change none of it.
HandledIsStored ==
    \A u \in Urls : hash[u] # None =>
        LET t == hash[u]
        IN  /\ raw[t] = "extracted"
            /\ ListedOnly(t) => Names[t] \subseteq leaks
            /\ OwnPage(t) => Names[t] \subseteq detailed \cup foreign
            /\ \/ faults > 0
               \/ Secrets[t] \subseteq exposures
               \/ \E w \in Workers : On(w, "expose") /\ at[w].text = t

\* What a listing goes on showing is stored in the end, and so is what the own page of a
\* victim goes on showing once the page is queued, whatever fails before; but for leaks
\* that were reported elsewhere first, which the page finds no way to.
ShownIsStored ==
    \A u \in Urls : \A t \in ShownAt[u] \ {Blank} :
        /\ ListedOnly(t) => (<>[](site[u] = t) => <>(Names[t] \subseteq leaks))
        /\ OwnPage(t) => (<>[](site[u] = t /\ u \in known)
                             => <>(Names[t] \subseteq detailed \cup foreign))
=============================================================================
