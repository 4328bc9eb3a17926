---------------------------- MODULE IngestProofs ----------------------------
(***************************************************************************)
(* What Ingest keeps for any site, any number of pages, texts, workers and *)
(* failures.                                                               *)
(***************************************************************************)
EXTENDS Ingest, TLAPS

\* What a worker has in its hands, of any state.
Shaped(r) ==
    /\ r \in Work
    /\ r.step # "idle" => r.url \in Urls
    /\ r.step \in Ingesting => r.text \in Texts

LEMMA WorkShape ==
    ASSUME IngestTypeOK, NEW w \in Workers
    PROVE  /\ Shaped(at[w])
           /\ at[w].step \in Steps /\ at[w].url \in Urls \cup {None}
           /\ at[w].text \in Texts \cup {None} /\ at[w].hash \in Texts \cup {None}
           /\ at[w].links \subseteq Links /\ at[w].ok \in BOOLEAN
<1>1. at[w] \in Work
  BY DEF IngestTypeOK
<1>2. /\ ~On(w, "idle") => at[w].url \in Urls
      /\ at[w].step \in Ingesting => at[w].text \in Texts
  BY DEF IngestTypeOK
<1>3. Shaped(at[w])
  BY <1>1, <1>2 DEF Shaped, On
<1> QED
  BY <1>1, <1>3 DEF Work

\* One worker changes what it does, the others do not.
LEMMA OneWorker ==
    ASSUME IngestTypeOK, NEW w \in Workers, NEW new, at' = [at EXCEPT ![w] = new], Shaped(new)
    PROVE  /\ at' \in [Workers -> Work]
           /\ at'[w] = new /\ \A v \in Workers \ {w} : at'[v] = at[v]
           /\ \A v \in Workers : Shaped(at'[v])
<1>1. at \in [Workers -> Work] /\ new \in Work
  BY DEF IngestTypeOK, Shaped
<1>2. /\ at' \in [Workers -> Work]
      /\ at'[w] = new /\ \A v \in Workers \ {w} : at'[v] = at[v]
  BY <1>1
<1>3. \A v \in Workers : Shaped(at'[v])
  BY <1>2, WorkShape
<1> QED
  BY <1>2, <1>3

\* A worker that goes on keeps all but its step.
LEMMA GotoWork ==
    ASSUME IngestTypeOK, NEW w \in Workers, NEW s \in Steps, Goto(w, s), ~On(w, "idle"),
           s \in Ingesting => at[w].text \in Texts
    PROVE  /\ at' \in [Workers -> Work]
           /\ \A v \in Workers : Shaped(at'[v])
           /\ \A v \in Workers \ {w} : at'[v] = at[v]
           /\ at'[w].step = s /\ at'[w].url = at[w].url /\ at'[w].text = at[w].text
           /\ at'[w].hash = at[w].hash /\ at'[w].links = at[w].links
<1> DEFINE new == [at[w] EXCEPT !.step = s]
<1>1. Shaped(at[w])
  BY WorkShape
<1>2. /\ Shaped(new) /\ new.step = s /\ new.url = at[w].url /\ new.text = at[w].text
      /\ new.hash = at[w].hash /\ new.links = at[w].links
  BY <1>1 DEF Shaped, Work, On
<1>3. at' = [at EXCEPT ![w] = new]
  BY DEF Goto
<1> HIDE DEF new
<1> QED
  BY <1>2, <1>3, OneWorker

\* An outcome comes with its hash and its links.
LEMMA ReportWork ==
    ASSUME IngestTypeOK, NEW w \in Workers, NEW ok \in BOOLEAN,
           NEW h \in Texts \cup {None}, NEW ls \in SUBSET Links, Report(w, ok, h, ls),
           ~On(w, "idle")
    PROVE  /\ at' \in [Workers -> Work]
           /\ \A v \in Workers : Shaped(at'[v])
           /\ \A v \in Workers \ {w} : at'[v] = at[v]
           /\ at'[w].step = "record" /\ at'[w].url = at[w].url
           /\ at'[w].hash = h /\ at'[w].links = ls
<1> DEFINE new == [at[w] EXCEPT !.step = "record", !.ok = ok, !.hash = h, !.links = ls]
<1>1. Shaped(at[w])
  BY WorkShape
<1>2. /\ Shaped(new) /\ new.step = "record" /\ new.url = at[w].url
      /\ new.hash = h /\ new.links = ls
  BY <1>1 DEF Shaped, Work, Steps, Ingesting, On
<1>3. at' = [at EXCEPT ![w] = new]
  BY DEF Report
<1> HIDE DEF new
<1> QED
  BY <1>2, <1>3, OneWorker

\* Between pages a worker has nothing in its hands.
LEMMA RestWork ==
    ASSUME IngestTypeOK, NEW w \in Workers, at' = [at EXCEPT ![w] = NoWork]
    PROVE  /\ at' \in [Workers -> Work]
           /\ \A v \in Workers : Shaped(at'[v])
           /\ \A v \in Workers \ {w} : at'[v] = at[v]
           /\ at'[w] = NoWork
<1>1. Shaped(NoWork)
  BY DEF Shaped, NoWork, Work, Steps, Ingesting
<1> QED
  BY <1>1, OneWorker

\* A claim begins with what the URL's hash says.
LEMMA ClaimWork ==
    ASSUME IngestTypeOK, NEW w \in Workers, NEW u \in Urls, Claim(w, u)
    PROVE  /\ at' \in [Workers -> Work]
           /\ \A v \in Workers : Shaped(at'[v])
           /\ \A v \in Workers \ {w} : at'[v] = at[v]
           /\ at'[w].step = "fetch" /\ at'[w].url = u
           /\ at'[w].hash = None /\ at'[w].links = {}
<1> DEFINE new == [NoWork EXCEPT !.step = "fetch", !.url = u, !.seen = hash[u]]
<1>1. /\ Shaped(new) /\ new.step = "fetch" /\ new.url = u /\ new.hash = None /\ new.links = {}
  BY DEF Shaped, NoWork, Work, Steps, Ingesting, IngestTypeOK
<1>2. at' = [at EXCEPT ![w] = new]
  BY DEF Claim
<1> HIDE DEF new
<1> QED
  BY <1>1, <1>2, OneWorker

\* A fetch ends with nothing to store, or with a text to save that the URL shows now.
LEMMA FetchWork ==
    ASSUME IngestTypeOK, NEW w \in Workers, Fetch(w)
    PROVE  /\ at' \in [Workers -> Work]
           /\ \A v \in Workers : Shaped(at'[v])
           /\ \A v \in Workers \ {w} : at'[v] = at[v]
           /\ at'[w].url = at[w].url
           /\ \/ at'[w].step = "record" /\ at'[w].hash = None /\ at'[w].links = {}
              \/ /\ at'[w].step = "save" /\ at'[w].text = site[at[w].url]
                 /\ at'[w].hash = at[w].hash /\ at'[w].links = at[w].links
<1> DEFINE text == site[at[w].url]
<1>0. Shaped(at[w]) /\ at[w].url \in Urls /\ ~On(w, "idle")
  BY WorkShape DEF Fetch, On, Shaped
<1>1. CASE \E ok \in BOOLEAN : Report(w, ok, None, {})
  <2>1. PICK ok \in BOOLEAN : Report(w, ok, None, {})
    BY <1>1
  <2>2. None \in Texts \cup {None} /\ {} \in SUBSET Links
    OBVIOUS
  <2> QED
    BY <1>0, <2>1, <2>2, ReportWork
<1>2. CASE text \notin {Blank, at[w].seen}
           /\ at' = [at EXCEPT ![w].step = "save", ![w].text = text]
  <2> DEFINE new == [at[w] EXCEPT !.step = "save", !.text = text]
  <2>1. text \in Texts
    BY <1>0, <1>2 DEF IngestTypeOK
  <2>2. /\ Shaped(new) /\ new.step = "save" /\ new.url = at[w].url /\ new.text = text
        /\ new.hash = at[w].hash /\ new.links = at[w].links
    BY <1>0, <2>1 DEF Shaped, Work, Steps, Ingesting
  <2>3. at' = [at EXCEPT ![w] = new]
    BY <1>2 DEF IngestTypeOK
  <2> HIDE DEF new
  <2> QED
    BY <2>2, <2>3, OneWorker
<1> QED
  BY <1>1, <1>2 DEF Fetch
-----------------------------------------------------------------------------
(* Types.                                                                  *)

LEMMA IngestTypeInit == Init => IngestTypeOK
  BY IngestAssumption DEF Init, IngestTypeOK, Work, NoWork, Steps, Ingesting, Urls, Victims, On

LEMMA WorkersTyped ==
    ASSUME at' \in [Workers -> Work], \A v \in Workers : Shaped(at'[v]),
           /\ site' \in [Urls -> Texts \cup {Blank}] /\ \A u \in Urls : site'[u] \in ShownAt[u]
           /\ known' \subseteq Urls
           /\ holder' \in [Urls -> Workers \cup {None}]
           /\ hash' \in [Urls -> Texts \cup {None}]
           /\ raw' \in [Texts -> {"absent", "stored", "extracted"}]
           /\ leaks' \subseteq Victims /\ foreign' \subseteq leaks'
           /\ detailed' \subseteq leaks' \ foreign'
           /\ exposures' \subseteq UNION {Secrets[t] : t \in Texts}
           /\ faults' \in 0 .. MaxFaults /\ changes' \in 0 .. MaxChanges
    PROVE  IngestTypeOK'
  BY DEF IngestTypeOK, Shaped, On

LEMMA IngestTypeStep == IngestTypeOK /\ [Next]_vars => IngestTypeOK'
<1> SUFFICES ASSUME IngestTypeOK, [Next]_vars PROVE IngestTypeOK'
  OBVIOUS
<1> USE DEF bounded, tables
<1>a. /\ site \in [Urls -> Texts \cup {Blank}] /\ \A u \in Urls : site[u] \in ShownAt[u]
      /\ known \subseteq Urls
      /\ holder \in [Urls -> Workers \cup {None}]
      /\ hash \in [Urls -> Texts \cup {None}]
      /\ raw \in [Texts -> {"absent", "stored", "extracted"}]
      /\ leaks \subseteq Victims /\ foreign \subseteq leaks
      /\ detailed \subseteq leaks \ foreign
      /\ exposures \subseteq UNION {Secrets[t] : t \in Texts}
      /\ faults \in 0 .. MaxFaults /\ changes \in 0 .. MaxChanges
      /\ at \in [Workers -> Work] /\ \A v \in Workers : Shaped(at[v])
  BY WorkShape DEF IngestTypeOK
<1>b. {"save", "insert", "store", "mark", "expose", "link"} \subseteq Steps
  BY DEF Steps, Ingesting
<1>c. \A w \in Workers : /\ at[w].step \in Ingesting => at[w].text \in Texts
                         /\ at[w].step # "idle" => at[w].url \in Urls
                         /\ at[w].text \in Texts \cup {None}
                         /\ at[w].hash \in Texts \cup {None}
                         /\ at[w].links \subseteq Links
  BY <1>a, WorkShape DEF Shaped
<1>d. None \in Texts \cup {None} /\ {} \in SUBSET Links /\ TRUE \in BOOLEAN /\ FALSE \in BOOLEAN
  OBVIOUS
<1>1. ASSUME NEW w \in Workers, Fetch(w) PROVE IngestTypeOK'
  BY <1>1, <1>a, FetchWork, WorkersTyped DEF Fetch
<1>2. ASSUME NEW w \in Workers, SavePage(w) PROVE IngestTypeOK'
  <2>1. ~On(w, "idle") /\ at[w].text \in Texts
    BY <1>2, <1>c DEF SavePage, On, Ingesting
  <2>2. at' \in [Workers -> Work] /\ \A v \in Workers : Shaped(at'[v])
    BY <1>2, <1>b, <1>d, <2>1, GotoWork, ReportWork DEF SavePage
  <2> QED
    BY <1>2, <1>a, <2>2, WorkersTyped DEF SavePage
<1>3. ASSUME NEW w \in Workers, InsertPage(w) PROVE IngestTypeOK'
  <2>1. ~On(w, "idle") /\ at[w].text \in Texts
    BY <1>3, <1>c DEF InsertPage, On, Ingesting
  <2>2. at' \in [Workers -> Work] /\ \A v \in Workers : Shaped(at'[v])
    BY <1>3, <1>b, <2>1, GotoWork DEF InsertPage
  <2> QED
    BY <1>3, <1>a, <2>1, <2>2, WorkersTyped DEF InsertPage
<1>4. ASSUME NEW w \in Workers, UpsertLeaks(w) PROVE IngestTypeOK'
  <2>1. ~On(w, "idle") /\ at[w].text \in Texts
    BY <1>4, <1>c DEF UpsertLeaks, On, Ingesting
  <2>2. at' \in [Workers -> Work] /\ \A v \in Workers : Shaped(at'[v])
    BY <1>4, <1>b, <2>1, GotoWork DEF UpsertLeaks
  <2>3. /\ leaks' \subseteq Victims /\ foreign' \subseteq leaks'
        /\ detailed' \subseteq leaks' \ foreign'
    BY <1>4, <1>a, <2>1 DEF UpsertLeaks, Victims
  <2> QED
    BY <1>4, <1>a, <2>2, <2>3, WorkersTyped DEF UpsertLeaks
<1>5. ASSUME NEW w \in Workers, EnrichLeak(w) PROVE IngestTypeOK'
  <2>1. ~On(w, "idle") /\ at[w].text \in Texts
    BY <1>5, <1>c DEF EnrichLeak, On, Ingesting
  <2>2. at' \in [Workers -> Work] /\ \A v \in Workers : Shaped(at'[v])
    BY <1>5, <1>b, <2>1, GotoWork DEF EnrichLeak
  <2> QED
    BY <1>5, <1>a, <2>2, WorkersTyped DEF EnrichLeak
<1>6. ASSUME NEW w \in Workers, MarkExtracted(w) PROVE IngestTypeOK'
  <2>1. ~On(w, "idle") /\ at[w].text \in Texts
    BY <1>6, <1>c DEF MarkExtracted, On, Ingesting
  <2>2. at' \in [Workers -> Work] /\ \A v \in Workers : Shaped(at'[v])
    BY <1>6, <1>b, <2>1, GotoWork DEF MarkExtracted
  <2> QED
    BY <1>6, <1>a, <2>2, WorkersTyped DEF MarkExtracted
<1>7. ASSUME NEW w \in Workers, RecordExposures(w) PROVE IngestTypeOK'
  <2>1. ~On(w, "idle") /\ at[w].text \in Texts
    BY <1>7, <1>c DEF RecordExposures, On, Ingesting
  <2>2. CandidateLinks(w) \in SUBSET Links
    BY <2>1, IngestAssumption DEF CandidateLinks
  <2>3. at' \in [Workers -> Work] /\ \A v \in Workers : Shaped(at'[v])
    BY <1>7, <1>d, <2>1, <2>2, ReportWork DEF RecordExposures
  <2>4. exposures' \subseteq UNION {Secrets[t] : t \in Texts}
    BY <1>7, <1>a, <2>1 DEF RecordExposures
  <2>5. faults' \in 0 .. MaxFaults /\ changes' \in 0 .. MaxChanges
    BY <1>7, <1>a, IngestAssumption DEF RecordExposures
  <2> QED
    BY <1>7, <1>a, <2>3, <2>4, <2>5, WorkersTyped DEF RecordExposures
<1>8. ASSUME NEW w \in Workers, Complete(w) PROVE IngestTypeOK'
  <2>1. ~On(w, "idle") /\ at[w].url \in Urls
    BY <1>8, <1>c DEF Complete, On
  <2>2. at' \in [Workers -> Work] /\ \A v \in Workers : Shaped(at'[v])
    <3>1. CASE holder[at[w].url] = w
      <4>1. Goto(w, "link") /\ "link" \notin Ingesting
        BY <1>8, <3>1 DEF Complete, Ingesting
      <4> QED
        BY <1>b, <2>1, <4>1, GotoWork
    <3>2. CASE holder[at[w].url] # w
      BY <1>8, <3>2, RestWork DEF Complete
    <3> QED
      BY <3>1, <3>2
  <2>3. hash' \in [Urls -> Texts \cup {None}] /\ holder' \in [Urls -> Workers \cup {None}]
    BY <1>8, <1>a, <1>c DEF Complete
  <2> QED
    BY <1>8, <1>a, <2>2, <2>3, WorkersTyped DEF Complete
<1>9. ASSUME NEW w \in Workers, Fail(w) PROVE IngestTypeOK'
  BY <1>9, <1>a, RestWork, WorkersTyped DEF Fail
<1>10. ASSUME NEW w \in Workers, EnqueueLinks(w) PROVE IngestTypeOK'
  <2>1. known' \subseteq Urls
    BY <1>10, <1>a, <1>c DEF EnqueueLinks, Urls
  <2> QED
    BY <1>10, <1>a, <2>1, RestWork, WorkersTyped DEF EnqueueLinks
<1>11. ASSUME NEW w \in Workers, HandlerFails(w) PROVE IngestTypeOK'
  <2>1. ~On(w, "idle")
    BY <1>11 DEF HandlerFails, On, Ingesting
  <2>2. at' \in [Workers -> Work] /\ \A v \in Workers : Shaped(at'[v])
    BY <1>11, <1>d, <2>1, ReportWork DEF HandlerFails
  <2>3. faults' \in 0 .. MaxFaults
    BY <1>11, <1>a, IngestAssumption DEF HandlerFails
  <2> QED
    BY <1>11, <1>a, <2>2, <2>3, WorkersTyped DEF HandlerFails
<1>12. ASSUME NEW w \in Workers, Crash(w) PROVE IngestTypeOK'
  <2>1. faults' \in 0 .. MaxFaults
    BY <1>12, <1>a, IngestAssumption DEF Crash
  <2> QED
    BY <1>12, <1>a, <2>1, RestWork, WorkersTyped DEF Crash
<1>13. ASSUME NEW w \in Workers, NEW u \in Urls, Claim(w, u) PROVE IngestTypeOK'
  BY <1>13, <1>a, ClaimWork, WorkersTyped DEF Claim
<1>14. ASSUME NEW u \in Urls, Reap(u) PROVE IngestTypeOK'
  BY <1>14, <1>a, WorkersTyped DEF Reap
<1>15. ASSUME NEW u \in Urls, SiteChanges(u) PROVE IngestTypeOK'
  <2>1. changes' \in 0 .. MaxChanges
    BY <1>15, <1>a, IngestAssumption DEF SiteChanges
  <2>2. /\ site' \in [Urls -> Texts \cup {Blank}]
        /\ \A v \in Urls : site'[v] \in ShownAt[v]
    BY <1>15, <1>a, IngestAssumption DEF SiteChanges
  <2> QED
    BY <1>15, <1>a, <2>1, <2>2, WorkersTyped DEF SiteChanges
<1>16. ASSUME NEW v \in Victims, StoredElsewhere(v) PROVE IngestTypeOK'
  <2>1. changes' \in 0 .. MaxChanges
    BY <1>16, <1>a, IngestAssumption DEF StoredElsewhere
  <2> QED
    BY <1>16, <1>a, <2>1, WorkersTyped DEF StoredElsewhere
<1>17. CASE UNCHANGED vars
  BY <1>17, <1>a, WorkersTyped DEF vars
<1> QED
  BY <1>1, <1>2, <1>3, <1>4, <1>5, <1>6, <1>7, <1>8, <1>9, <1>10, <1>11, <1>12, <1>13, <1>14,
     <1>15, <1>16, <1>17 DEF Next, Step

\* Every variable has its shape, for any site and any number of workers and failures.
THEOREM IngestTypes == Spec => []IngestTypeOK
  BY IngestTypeInit, IngestTypeStep, PTL DEF Spec
-----------------------------------------------------------------------------
(* What has been handled is stored.                                        *)

\* What a text announces is in the tables.
Kept(t) ==
    /\ ListedOnly(t) => Names[t] \subseteq leaks
    /\ OwnPage(t) => Names[t] \subseteq detailed \cup foreign

Exposed(t) ==
    \/ faults > 0
    \/ Secrets[t] \subseteq exposures
    \/ \E w \in Workers : On(w, "expose") /\ at[w].text = t

\* A link that may be followed: the leak its own page is about is there.
Safe(l) == \A t \in Texts : t \in ShownAt[l] /\ OwnPage(t) => Names[t] \subseteq leaks

ExtractedInv == \A t \in Texts : raw[t] = "extracted" => Kept(t) /\ Exposed(t)

\* What a worker holds is true: its text is one the URL shows, what it is about to call
\* extracted is stored, and the outcome it brings is of an extracted text.
HeldInv(w) ==
    /\ at[w].step # "idle" => at[w].url \in known
    /\ at[w].step \in Ingesting => at[w].text \in ShownAt[at[w].url]
    /\ at[w].step = "mark" => Kept(at[w].text)
    /\ at[w].step = "expose" => raw[at[w].text] = "extracted"
    /\ at[w].hash # None => raw[at[w].hash] = "extracted"
    /\ \A l \in at[w].links : Safe(l)

KnownInv == \A l \in known \cap Links : Safe(l)

HashInv == \A u \in Urls : hash[u] # None => raw[hash[u]] = "extracted"

HandledInv ==
    /\ ExtractedInv /\ KnownInv /\ HashInv
    /\ \A w \in Workers : HeldInv(w)

\* Nothing that was stored is taken back.
Grows ==
    /\ leaks \subseteq leaks' /\ foreign \subseteq foreign'
    /\ detailed \subseteq detailed' /\ exposures \subseteq exposures'
    /\ known \subseteq known' /\ (faults > 0 => faults' > 0)
    /\ \A t \in Texts : raw[t] = "extracted" => raw'[t] = "extracted"

LEMMA StoreGrows == IngestTypeOK /\ [Next]_vars => Grows
<1> SUFFICES ASSUME IngestTypeOK, [Next]_vars PROVE Grows
  OBVIOUS
<1> USE DEF bounded, tables, Grows
<1>a. raw \in [Texts -> {"absent", "stored", "extracted"}] /\ faults \in Nat
  BY IngestAssumption DEF IngestTypeOK
<1>1. ASSUME NEW w \in Workers, Step(w) PROVE Grows
  <2>1. CASE \/ Fetch(w) \/ SavePage(w) \/ UpsertLeaks(w) \/ EnrichLeak(w)
            \/ Complete(w) \/ Fail(w) \/ EnqueueLinks(w)
    BY <2>1 DEF Fetch, SavePage, UpsertLeaks, EnrichLeak, Complete, Fail, EnqueueLinks
  <2>2. CASE InsertPage(w) \/ MarkExtracted(w)
    BY <2>2, <1>a DEF InsertPage, MarkExtracted
  <2>3. CASE RecordExposures(w)
    BY <2>3, <1>a DEF RecordExposures
  <2> QED
    BY <1>1, <2>1, <2>2, <2>3 DEF Step
<1>2. ASSUME NEW w \in Workers, HandlerFails(w) \/ Crash(w) PROVE Grows
  <2>0. faults' = faults + 1
    BY <1>2 DEF HandlerFails, Crash
  <2>1. faults' > 0
    BY <1>a, <2>0
  <2>2. UNCHANGED <<leaks, foreign, detailed, exposures, known, raw>>
    BY <1>2 DEF HandlerFails, Crash
  <2> QED
    BY <2>1, <2>2
<1>3. ASSUME NEW w \in Workers, NEW u \in Urls, Claim(w, u) PROVE Grows
  BY <1>3 DEF Claim
<1>4. ASSUME NEW u \in Urls, Reap(u) \/ SiteChanges(u) PROVE Grows
  BY <1>4 DEF Reap, SiteChanges
<1>5. ASSUME NEW v \in Victims, StoredElsewhere(v) PROVE Grows
  BY <1>5 DEF StoredElsewhere
<1>6. CASE UNCHANGED vars
  BY <1>6 DEF vars
<1> QED
  BY <1>1, <1>2, <1>3, <1>4, <1>5, <1>6 DEF Next

LEMMA KeptGrows == ASSUME Grows, NEW t, Kept(t) PROVE Kept(t)'
  BY DEF Grows, Kept, ListedOnly, OwnPage

LEMMA SafeGrows == ASSUME Grows, NEW l, Safe(l) PROVE Safe(l)'
  BY DEF Grows, Safe

\* A worker whose hands are as they were, but for its step, holds what is true.
LEMMA HeldGrows ==
    ASSUME IngestTypeOK, Grows, NEW w \in Workers, HeldInv(w), at'[w] = at[w]
    PROVE  HeldInv(w)'
<1>1. /\ at[w].step \in Ingesting => at[w].text \in Texts
      /\ at[w].hash \in Texts \cup {None}
  BY WorkShape DEF Shaped
<1>2. "expose" \in Ingesting
  BY DEF Ingesting
<1>3. \A t : Kept(t) => Kept(t)'
  BY KeptGrows
<1>4. \A l : Safe(l) => Safe(l)'
  BY SafeGrows
<1> QED
  BY <1>1, <1>2, <1>3, <1>4 DEF HeldInv, Grows

\* What a step of one worker has to show, the others being as they were.
LEMMA OneHolds ==
    ASSUME IngestTypeOK, HandledInv, Grows, NEW w \in Workers,
           \A v \in Workers \ {w} : at'[v] = at[v],
           HeldInv(w)',
           \A t \in Texts : raw'[t] = "extracted" /\ raw[t] # "extracted"
                              => Kept(t)' /\ at'[w].step = "expose" /\ at'[w].text = t,
           at[w].step = "expose" => \/ faults' > 0
                                    \/ Secrets[at[w].text] \subseteq exposures',
           known' \subseteq known \cup at[w].links,
           \A u \in Urls : hash'[u] # None => raw'[hash'[u]] = "extracted"
    PROVE  HandledInv'
<1>1. \A t : Kept(t) => Kept(t)'
  BY KeptGrows
<1>2. \A l : Safe(l) => Safe(l)'
  BY SafeGrows
<1>3. ASSUME NEW t \in Texts, Exposed(t) PROVE Exposed(t)'
  <2>1. CASE faults > 0 \/ Secrets[t] \subseteq exposures
    BY <2>1 DEF Exposed, Grows
  <2>2. ASSUME NEW v \in Workers, On(v, "expose"), at[v].text = t PROVE Exposed(t)'
    <3>1. CASE v = w
      BY <2>2, <3>1 DEF Exposed, On
    <3>2. CASE v # w
      BY <2>2, <3>2 DEF Exposed, On
    <3> QED
      BY <3>1, <3>2
  <2> QED
    BY <1>3, <2>1, <2>2 DEF Exposed
<1>4. ExtractedInv'
  <2> SUFFICES ASSUME NEW t \in Texts, raw'[t] = "extracted" PROVE Kept(t)' /\ Exposed(t)'
    BY DEF ExtractedInv
  <2>1. CASE raw[t] = "extracted"
    BY <2>1, <1>1, <1>3 DEF HandledInv, ExtractedInv
  <2>2. CASE raw[t] # "extracted"
    BY <2>2 DEF Exposed, On
  <2> QED
    BY <2>1, <2>2
<1>5. KnownInv'
  BY <1>2 DEF KnownInv, HandledInv, HeldInv
<1>6. HashInv'
  BY DEF HashInv
<1>7. \A v \in Workers : HeldInv(v)'
  <2> SUFFICES ASSUME NEW v \in Workers PROVE HeldInv(v)'
    OBVIOUS
  <2>1. CASE v = w
    BY <2>1
  <2>2. CASE v # w
    BY <2>2, HeldGrows DEF HandledInv
  <2> QED
    BY <2>1, <2>2
<1> QED
  BY <1>4, <1>5, <1>6, <1>7 DEF HandledInv

\* A URL's text is one it may show; a link that lists nobody is a victim's own page or
\* of no account.
LEMMA StoreKeeps ==
    ASSUME IngestTypeOK, HandledInv, NEW w \in Workers, UpsertLeaks(w) \/ EnrichLeak(w),
           NEW t, t = at[w].text
    PROVE  Kept(t)'
<1> DEFINE u == at[w].url
<1>1. /\ t \in Texts /\ u \in Urls /\ t \in ShownAt[u] /\ u \in known
  BY WorkShape DEF UpsertLeaks, EnrichLeak, On, Shaped, Ingesting, HandledInv, HeldInv
<1>2. CASE UpsertLeaks(w)
  <2>1. ~OwnPage(t)
    BY <1>1, <1>2 DEF UpsertLeaks, OwnPage
  <2>2. Names[t] \subseteq leaks'
    BY <1>2 DEF UpsertLeaks
  <2> QED
    BY <2>1, <2>2 DEF Kept
<1>3. CASE EnrichLeak(w)
  <2>1. ~ListedOnly(t)
    BY <1>1, <1>3 DEF EnrichLeak, ListedOnly
  <2>2. OwnPage(t) => Names[t] \subseteq leaks
    BY <1>1, <1>3 DEF EnrichLeak, HandledInv, KnownInv, Safe
  <2>3. OwnPage(t) => Names[t] \subseteq detailed' \cup foreign'
    BY <1>3, <2>2 DEF EnrichLeak, OwnPage
  <2> QED
    BY <2>1, <2>3 DEF Kept
<1> QED
  BY <1>2, <1>3

\* The links a listing leads to are safe to follow once it is stored.
LEMMA CandidatesAreSafe ==
    ASSUME IngestTypeOK, NEW w \in Workers, at[w].text \in Texts, Kept(at[w].text),
           NEW l \in CandidateLinks(w)
    PROVE  Safe(l)
<1>1. l \in Links /\ l \in LinksOn[at[w].text]
  BY IngestAssumption DEF CandidateLinks
<1> SUFFICES ASSUME NEW t \in Texts, t \in ShownAt[l], OwnPage(t)
             PROVE  Names[t] \subseteq leaks
  BY DEF Safe
<1>2. ListedOnly(at[w].text) /\ Names[t] \subseteq Names[at[w].text]
  BY <1>1 DEF OwnPage
<1> QED
  BY <1>2 DEF Kept

LEMMA HandledInit == Init => HandledInv
<1> SUFFICES ASSUME Init PROVE HandledInv
  OBVIOUS
<1>1. ExtractedInv
  BY DEF Init, ExtractedInv
<1>2. KnownInv
  BY IngestAssumption DEF Init, KnownInv
<1>3. HashInv
  BY DEF Init, HashInv
<1>4. \A w \in Workers : HeldInv(w)
  BY DEF Init, HeldInv, NoWork, Ingesting
<1> QED
  BY <1>1, <1>2, <1>3, <1>4 DEF HandledInv

LEMMA HandledStep == IngestTypeOK /\ HandledInv /\ [Next]_vars => HandledInv'
<1> SUFFICES ASSUME IngestTypeOK, HandledInv, [Next]_vars PROVE HandledInv'
  OBVIOUS
<1> USE DEF bounded, tables
<1>a. Grows
  BY StoreGrows
<1>b. \A w \in Workers : /\ HeldInv(w) /\ Shaped(at[w])
                         /\ at[w].hash \in Texts \cup {None} /\ at[w].links \subseteq Links
  BY WorkShape DEF HandledInv
<1>c. {"save", "insert", "store", "mark", "expose", "link"} \subseteq Steps
  BY DEF Steps, Ingesting
<1>d. None \in Texts \cup {None} /\ {} \in SUBSET Links /\ TRUE \in BOOLEAN /\ FALSE \in BOOLEAN
  OBVIOUS
<1>e. \A u \in Urls : hash[u] \in Texts \cup {None}
      /\ (hash[u] # None => raw[hash[u]] = "extracted")
  BY DEF IngestTypeOK, HandledInv, HashInv
<1>f. \A u \in Urls : hash[u] # None => raw'[hash[u]] = "extracted"
  BY <1>a, <1>e DEF Grows
<1>g. /\ \A t : Kept(t) => Kept(t)'
      /\ \A l : Safe(l) => Safe(l)'
  BY <1>a, KeptGrows, SafeGrows
<1>1. ASSUME NEW w \in Workers, Fetch(w) PROVE HandledInv'
  <2>1. at[w].step = "fetch" /\ at[w].url \in Urls /\ at[w].url \in known
    BY <1>1, <1>b DEF Fetch, On, HeldInv, Shaped
  <2>2. site[at[w].url] \in ShownAt[at[w].url]
    BY <2>1 DEF IngestTypeOK
  <2>3. HeldInv(w)'
    BY <1>1, <1>b, <1>g, <2>1, <2>2, FetchWork DEF Fetch, HeldInv, Ingesting
  <2> QED
    BY <1>1, <1>a, <1>f, <2>1, <2>3, FetchWork, OneHolds DEF Fetch
<1>2. ASSUME NEW w \in Workers, SavePage(w) PROVE HandledInv'
  <2>1. ~On(w, "idle") /\ at[w].step = "save" /\ at[w].text \in Texts
    BY <1>2, <1>b DEF SavePage, On, Ingesting, Shaped
  <2>2. CASE raw[at[w].text] = "extracted" /\ Report(w, TRUE, at[w].text, {})
    <3>1. HeldInv(w)'
      <4>1. /\ at'[w].step = "record" /\ at'[w].url = at[w].url
            /\ at'[w].hash = at[w].text /\ at'[w].links = {}
        BY <1>d, <2>1, <2>2, ReportWork
      <4> QED
        BY <1>2, <1>b, <2>1, <2>2, <4>1 DEF SavePage, HeldInv, Ingesting
    <3> QED
      BY <1>2, <1>a, <1>d, <1>f, <2>1, <2>2, <3>1, ReportWork, OneHolds DEF SavePage
  <2>3. ASSUME NEW s \in {"store", "insert"}, Goto(w, s) PROVE HandledInv'
    <3>1. HeldInv(w)'
      BY <1>2, <1>b, <1>c, <1>g, <2>1, <2>3, GotoWork DEF SavePage, HeldInv, Ingesting
    <3> QED
      BY <1>2, <1>a, <1>c, <1>f, <2>1, <2>3, <3>1, GotoWork, OneHolds DEF SavePage
  <2> QED
    BY <1>2, <2>2, <2>3 DEF SavePage
<1>3. ASSUME NEW w \in Workers, InsertPage(w) PROVE HandledInv'
  <2>1. ~On(w, "idle") /\ at[w].step = "insert" /\ at[w].text \in Texts
    BY <1>3, <1>b DEF InsertPage, On, Ingesting, Shaped
  <2>2. HeldInv(w)'
    BY <1>3, <1>a, <1>b, <1>c, <1>g, <2>1, GotoWork DEF InsertPage, HeldInv, Ingesting, Grows
  <2>3. \A t \in Texts : raw'[t] = "extracted" => raw[t] = "extracted"
    BY <1>3, <2>1 DEF InsertPage, IngestTypeOK
  <2> QED
    BY <1>3, <1>a, <1>c, <1>f, <2>1, <2>2, <2>3, GotoWork, OneHolds DEF InsertPage
<1>4. ASSUME NEW w \in Workers, UpsertLeaks(w) \/ EnrichLeak(w) PROVE HandledInv'
  <2>1. ~On(w, "idle") /\ at[w].step = "store" /\ at[w].text \in Texts /\ Goto(w, "mark")
    BY <1>4, <1>b DEF UpsertLeaks, EnrichLeak, On, Ingesting, Shaped
  <2>2. UNCHANGED <<raw, hash, known>>
    BY <1>4 DEF UpsertLeaks, EnrichLeak
  <2>3. ASSUME NEW t, t = at[w].text PROVE Kept(t)'
    BY <1>4, <2>3, StoreKeeps
  <2>4. at'[w].text = at[w].text
    BY <1>c, <2>1, GotoWork
  <2>5. HeldInv(w)'
    BY <1>b, <1>c, <1>g, <2>1, <2>2, <2>3, <2>4, GotoWork DEF HeldInv, Ingesting, Kept
  <2> QED
    BY <1>a, <1>c, <1>f, <2>1, <2>2, <2>5, GotoWork, OneHolds
<1>6. ASSUME NEW w \in Workers, MarkExtracted(w) PROVE HandledInv'
  <2>1. ~On(w, "idle") /\ at[w].step = "mark" /\ at[w].text \in Texts /\ Goto(w, "expose")
    BY <1>6, <1>b DEF MarkExtracted, On, Ingesting, Shaped
  <2>2. raw' = [raw EXCEPT ![at[w].text] = "extracted"]
        /\ raw \in [Texts -> {"absent", "stored", "extracted"}]
    BY <1>6 DEF MarkExtracted, IngestTypeOK
  <2>3. Kept(at[w].text)
    BY <1>b, <2>1 DEF HeldInv
  <2>4. HeldInv(w)'
    BY <1>6, <1>a, <1>b, <1>c, <1>g, <2>1, <2>2, GotoWork
       DEF MarkExtracted, HeldInv, Ingesting, Grows
  <2>5. \A t \in Texts : raw'[t] = "extracted" /\ raw[t] # "extracted"
                            => Kept(t)' /\ at'[w].step = "expose" /\ at'[w].text = t
    BY <1>c, <1>g, <2>1, <2>2, <2>3, GotoWork
  <2> QED
    BY <1>6, <1>a, <1>c, <1>f, <2>1, <2>4, <2>5, GotoWork, OneHolds DEF MarkExtracted
<1>7. ASSUME NEW w \in Workers, RecordExposures(w) PROVE HandledInv'
  <2>1. ~On(w, "idle") /\ at[w].step = "expose" /\ at[w].text \in Texts
        /\ raw[at[w].text] = "extracted" /\ UNCHANGED <<raw, hash, known>>
    BY <1>7, <1>b DEF RecordExposures, On, Ingesting, Shaped, HeldInv
  <2>2. CandidateLinks(w) \in SUBSET Links
    BY <2>1, IngestAssumption DEF CandidateLinks
  <2>3. \A l \in CandidateLinks(w) : Safe(l)
    BY <2>1, CandidatesAreSafe DEF HandledInv, ExtractedInv
  <2>4. Report(w, TRUE, at[w].text, CandidateLinks(w))
    BY <1>7 DEF RecordExposures
  <2>5. HeldInv(w)'
    <3>1. /\ at'[w].step = "record" /\ at'[w].url = at[w].url
          /\ at'[w].hash = at[w].text /\ at'[w].links = CandidateLinks(w)
      BY <1>d, <2>1, <2>2, <2>4, ReportWork
    <3>2. \A l \in at'[w].links : Safe(l)'
      BY <1>g, <2>3, <3>1
    <3> QED
      BY <1>b, <2>1, <3>1, <3>2 DEF HeldInv, Ingesting
  <2>6. faults' > 0 \/ Secrets[at[w].text] \subseteq exposures'
    BY <1>7, IngestAssumption DEF RecordExposures, IngestTypeOK
  <2> QED
    BY <1>a, <1>d, <1>f, <2>1, <2>2, <2>4, <2>5, <2>6, ReportWork, OneHolds
<1>8. ASSUME NEW w \in Workers, Complete(w) PROVE HandledInv'
  <2>1. ~On(w, "idle") /\ at[w].step = "record" /\ at[w].url \in Urls
    BY <1>8, <1>b DEF Complete, On, Shaped
  <2>2. UNCHANGED <<raw, known>>
    BY <1>8 DEF Complete
  <2>3. \A u \in Urls : hash'[u] # None => raw'[hash'[u]] = "extracted"
    BY <1>8, <1>b, <1>e, <2>1, <2>2 DEF Complete, HeldInv, IngestTypeOK
  <2>4. \/ Goto(w, "link")
        \/ at' = [at EXCEPT ![w] = NoWork]
    BY <1>8 DEF Complete
  <2>5. /\ HeldInv(w)'
        /\ \A v \in Workers \ {w} : at'[v] = at[v]
    <3>1. CASE Goto(w, "link")
      BY <1>b, <1>c, <1>g, <2>1, <2>2, <3>1, GotoWork DEF HeldInv, Ingesting
    <3>2. CASE at' = [at EXCEPT ![w] = NoWork]
      BY <3>2, RestWork DEF HeldInv, NoWork, Ingesting
    <3> QED
      BY <2>4, <3>1, <3>2
  <2> QED
    BY <1>a, <2>1, <2>2, <2>3, <2>5, OneHolds
<1>9. ASSUME NEW w \in Workers, at' = [at EXCEPT ![w] = NoWork], UNCHANGED <<raw, hash>>,
             known' \subseteq known \cup at[w].links,
             at[w].step = "expose" => faults' > 0
      PROVE  HandledInv'
  <2>1. HeldInv(w)'
    BY <1>9, RestWork DEF HeldInv, NoWork, Ingesting
  <2> QED
    BY <1>9, <1>a, <1>f, <2>1, RestWork, OneHolds
<1>10. ASSUME NEW w \in Workers, Fail(w) \/ EnqueueLinks(w) PROVE HandledInv'
  BY <1>9, <1>10 DEF Fail, EnqueueLinks, On
<1>11. ASSUME NEW w \in Workers, Crash(w) PROVE HandledInv'
  <2>1. faults' > 0
    BY <1>11 DEF Crash, IngestTypeOK
  <2> QED
    BY <1>9, <1>11, <2>1 DEF Crash
<1>12. ASSUME NEW w \in Workers, HandlerFails(w) PROVE HandledInv'
  <2>1. ~On(w, "idle") /\ Report(w, FALSE, None, {}) /\ UNCHANGED <<raw, hash, known>>
    BY <1>12 DEF HandlerFails, On, Ingesting
  <2>2. faults' > 0
    BY <1>12 DEF HandlerFails, IngestTypeOK
  <2>3. HeldInv(w)'
    BY <1>b, <1>d, <2>1, ReportWork DEF HeldInv, Ingesting, On
  <2> QED
    BY <1>a, <1>d, <1>f, <2>1, <2>2, <2>3, ReportWork, OneHolds
<1>13. ASSUME NEW w \in Workers, NEW u \in Urls, Claim(w, u) PROVE HandledInv'
  <2>1. at[w].step = "idle" /\ u \in known /\ UNCHANGED <<raw, hash, known>>
    BY <1>13 DEF Claim, On
  <2>2. HeldInv(w)'
    BY <1>13, <2>1, ClaimWork DEF HeldInv, Ingesting
  <2> QED
    BY <1>13, <1>a, <1>f, <2>1, <2>2, ClaimWork, OneHolds
<1>14. CASE UNCHANGED <<known, hash, raw, leaks, foreign, detailed, exposures, at, faults>>
  BY <1>14 DEF HandledInv, ExtractedInv, KnownInv, HashInv, HeldInv, Kept, Exposed, Safe, On
<1>15. ASSUME NEW u \in Urls, Reap(u) \/ SiteChanges(u) PROVE HandledInv'
  BY <1>14, <1>15 DEF Reap, SiteChanges
<1>16. ASSUME NEW v \in Victims, StoredElsewhere(v) PROVE HandledInv'
  <2>1. UNCHANGED <<known, hash, raw, exposures, at, faults>>
    BY <1>16 DEF StoredElsewhere
  <2>2. ExtractedInv'
    BY <1>g, <2>1 DEF HandledInv, ExtractedInv, Exposed, On
  <2>3. KnownInv' /\ HashInv'
    BY <1>g, <2>1 DEF HandledInv, KnownInv, HashInv
  <2>4. \A w \in Workers : HeldInv(w)'
    BY <1>a, <1>b, <2>1, HeldGrows
  <2> QED
    BY <2>2, <2>3, <2>4 DEF HandledInv
<1>17. CASE UNCHANGED vars
  BY <1>14, <1>17 DEF vars
<1> QED
  BY <1>1, <1>2, <1>3, <1>4, <1>6, <1>7, <1>8, <1>10, <1>11, <1>12, <1>13, <1>15, <1>16, <1>17
     DEF Next, Step

\* A URL whose hash says that its text need not be looked at again has left behind all
\* that the text announces, whatever was cut short and whoever else worked on it.
THEOREM HandledTheorem == Spec => []HandledIsStored
<1>1. IngestTypeOK /\ HandledInv => HandledIsStored
  BY DEF IngestTypeOK, HandledInv, HashInv, ExtractedInv, Kept, Exposed, HandledIsStored
<1>2. Spec => [](IngestTypeOK /\ HandledInv)
  BY IngestTypeInit, IngestTypeStep, HandledInit, HandledStep, PTL DEF Spec
<1> QED
  BY <1>1, <1>2, PTL
=============================================================================
