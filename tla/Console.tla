------------------------------- MODULE Console -------------------------------
(***************************************************************************)
(* One browser tab on the list pages of the dashboard (LeaksPage,          *)
(* IncidentsPage, IocPage, ExposuresPage, MobileNumbersPage), the live      *)
(* stream that invalidates the leak lists (stream.ts, live.ts), and the     *)
(* writes of the collectors it follows.  What TanStack Query does with the  *)
(* results (cache, placeholder of the previous question, joined and         *)
(* cancelled fetches) is modelled from how these pages configure it.        *)
(*                                                                         *)
(* The history of writes is chosen at the start and committed one by one.  *)
(* An answer is a pair of versions of the database: the API reads the rows *)
(* and their number in two statements.                                     *)
(***************************************************************************)
EXTENDS LeakFigures, Integers, FiniteSetsExt

CONSTANTS
    Histories,   \* a sequence of histories
    Visits,      \* bound: history -> sections the tab visits, none for no tab
    OfferedIs,   \* bound: history -> the values of the first filter
    OfferedHas,  \* bound: history -> the values of the second one
    NoQuestion,
    Before,      \* bound: history -> writes committed when the tab opens
    Skew,        \* bound: history -> writes between the two statements
    MaxFaults,   \* bound: failed fetches and dropped streams
    MaxPage,     \* bound: pages asked for
    MaxHeld,     \* bound: answers held at once, with those on screen
    MaxFlights   \* bound: fetches out at once

\* The pages: the sections each shows, those where the second filter is one of
\* its controls, whether that one is a search box that waits, and whether the
\* list is fetched every minute.
LeaksPage == [sections |-> {"leaks"}, offers |-> {"leaks"}, waits |-> TRUE, polls |-> FALSE]

\* One page for three sections; the dark web's shows no incident type.
IncidentsPage == [sections |-> {"general", "ransomware", "darkweb"},
                  offers |-> {"general", "ransomware"}, waits |-> FALSE, polls |-> TRUE]

IocPage == [sections |-> {"iocs"}, offers |-> {"iocs"}, waits |-> FALSE, polls |-> TRUE]

ExposuresPage == [sections |-> {"exposures"}, offers |-> {"exposures"},
                  waits |-> FALSE, polls |-> TRUE]

MobileNumbersPage == [sections |-> {"mobile"}, offers |-> {"mobile"},
                      waits |-> FALSE, polls |-> TRUE]

Pages == {LeaksPage, IncidentsPage, IocPage, ExposuresPage, MobileNumbersPage}
PageOf(section) == CHOOSE p \in Pages : section \in p.sections
Sections == UNION {p.sections : p \in Pages}

ASSUME ConsoleAssumption ==
    /\ \A h \in DOMAIN Histories :
          /\ IsHistory(Histories[h]) /\ Before[h] \in 0 .. Len(Histories[h])
          /\ Visits[h] \subseteq Sections /\ Skew[h] \in Nat
          /\ AnyValue \in OfferedIs[h] /\ AnyValue \in OfferedHas[h]
    /\ MaxFaults \in Nat /\ MaxPage \in Nat \ {0} /\ MaxFlights \in Nat \ {0}
    /\ MaxHeld \in Nat

VARIABLES
    hist, db,    \* the history that happens, and how many of its writes are committed
    ask,         \* the question on screen: section, filters and page
    typed,       \* the search box of the leaks page, ahead of ask.has
    timer,       \* its debounce is running
    last,        \* the question whose answer the observer last had
    failed,      \* the question on screen is in error
    cache,       \* answers held, by key
    flights,     \* fetches out
    stream,      \* the event stream is open
    signals,     \* leak_inserted events on their way, by version
    announced,   \* version of the last one heard by the list on screen, until shown
    faults

tabVars == <<ask, typed, timer, last, failed, cache, flights>>
liveVars == <<stream, signals, announced>>
vars == <<hist, db, tabVars, liveVars, faults>>

Writes == Histories[hist]
Screens == Visits[hist]
Open == Screens # {}
At(n) == SubSeq(Writes, 1, n)
Page == PageOf(ask.section)
Question(s) == [section |-> s, is |-> AnyValue, has |-> AnyValue, page |-> 1]

\* Mutant: ["incidents", filters].
Key_NoSection(q) ==
    IF q.section \in IncidentsPage.sections THEN [q EXCEPT !.section = "general"] ELSE q

\* The query keys: ["leaks", filters], ["incidents", section, filters], ...
Key(q) == q

Held(c, q) == {e \in c : e.key = Key(q)}
HasData(q) == Held(cache, q) # {}
Entry(q) == CHOOSE e \in Held(cache, q) : TRUE
Out(fs, q) == {f \in fs : Key(f.q) = Key(q)}

\* What is on screen: the answer held or, while there is none and no error,
\* the one to the previous question (placeholderData).
Shown ==
    IF HasData(ask) THEN {Entry(ask)}
    ELSE IF ~failed /\ last # NoQuestion THEN Held(cache, last) ELSE {}

\* What the page makes of it; an error hides rows that are held.
Screen ==
    CASE failed -> "error"
      [] ~failed /\ Shown = {} -> "skeleton"
      [] ~failed /\ \E e \in Shown : RowsOnPage(At(e.r), e.of) = 0 -> "empty"
      [] OTHER -> "rows"

ConsoleInit ==
    /\ hist \in DOMAIN Histories /\ db = Before[hist]
    /\ ask \in {Question(s) : s \in IF Open THEN Screens ELSE {"leaks"}}
    /\ typed = AnyValue /\ timer = Page.waits
    /\ last = NoQuestion /\ failed = FALSE
    /\ cache = {} /\ flights = {[q |-> ask, sent |-> db]}
    /\ stream = TRUE /\ signals = {} /\ announced = 0 /\ faults = 0

--------------------------------------------------------------------------------
(* The writes and the stream.                                                 *)

\* The trigger of migration 0005 notifies of inserted leaks, and of no update;
\* only a stream that is open at that moment carries the event.
Commit ==
    /\ db < Len(Writes)
    /\ db' = db + 1
    /\ LET new == Writes[db + 1]
       IN  signals' = IF /\ Open /\ stream
                         /\ new.what = "insert" /\ KindOf[new.of] = "leak"
                      THEN signals \cup {db + 1} ELSE signals
    /\ UNCHANGED <<hist, tabVars, stream, announced, faults>>

DropStream ==
    /\ Open /\ stream /\ faults < MaxFaults
    /\ stream' = FALSE /\ signals' = {} /\ faults' = faults + 1
    /\ UNCHANGED <<hist, db, tabVars, announced>>

\* EventSource reconnects; `connected` invalidates nothing.
Reconnect ==
    /\ ~stream /\ stream' = TRUE
    /\ UNCHANGED <<hist, db, tabVars, signals, announced, faults>>

\* Mutants: invalidation without cancelRefetch, and a fetch that is replaced
\* but not cancelled.
Refetched_Joins(fs, q) ==
    IF Out(fs, q) = {} THEN fs \cup {[q |-> q, sent |-> db]} ELSE fs
Refetched_NotCancelled(fs, q) ==
    IF HasData(q) \/ Out(fs, q) = {} THEN fs \cup {[q |-> q, sent |-> db]} ELSE fs

\* The fetches out once those of the list on screen are sent anew: one that is
\* out is cancelled if the list has data (cancelRefetch), and joined if not.
Refetched(fs, q) ==
    IF HasData(q) \/ Out(fs, q) = {}
    THEN (fs \ Out(fs, q)) \cup {[q |-> q, sent |-> db]}
    ELSE fs

\* leak_inserted invalidates ["leaks"]: all of them are stale, and the one on
\* screen is refetched.
LeakInserted ==
    /\ signals # {}
    /\ LET v == CHOOSE n \in signals : \A m \in signals : n <= m
       IN  /\ signals' = signals \ {v}
           /\ announced' = IF ask.section = "leaks" /\ HasData(ask) THEN v ELSE announced
    /\ cache' = {[e EXCEPT !.stale = @ \/ e.key.section = "leaks"] : e \in cache}
    /\ IF ask.section = "leaks"
       THEN /\ flights' = Refetched(flights, ask)
            /\ failed' = (failed /\ HasData(ask))
       ELSE UNCHANGED <<flights, failed>>
    /\ UNCHANGED <<hist, db, ask, typed, timer, last, stream, faults>>

--------------------------------------------------------------------------------
(* Fetches.                                                                   *)

\* Mutant: an answer is added to what its key holds.
Reply_Adds(f) ==
    /\ f.q.page >= 1
    /\ \E r \in f.sent .. db :
          cache' = cache \cup {[key |-> Key(f.q), of |-> f.q,
                                r |-> r, t |-> r, stale |-> FALSE]}
    /\ IF Key(f.q) = Key(ask) THEN last' = ask /\ failed' = FALSE /\ announced' = 0
                              ELSE UNCHANGED <<last, failed, announced>>
    /\ UNCHANGED faults

\* An answer replaces what its key holds.  Bound: one to a question no longer
\* on screen is forgotten if MaxHeld others are held.
Reply(f) ==
    /\ f.q.page >= 1
    /\ LET others == cache \ Held(cache, f.q)
       IN  \E r, t \in f.sent .. db :
             /\ r - t \in -Skew[hist] .. Skew[hist]
             /\ cache' = IF /\ ~HasData(f.q) /\ Key(f.q) # Key(ask)
                            /\ Cardinality(others) >= MaxHeld
                         THEN others
                         ELSE others \cup {[key |-> Key(f.q), of |-> f.q,
                                           r |-> r, t |-> t, stale |-> FALSE]}
    /\ IF Key(f.q) = Key(ask)
       THEN /\ last' = ask /\ failed' = FALSE
            /\ announced' = IF \E e \in Held(cache', ask) : {e.r, e.t} \subseteq announced .. db
                            THEN 0 ELSE announced
       ELSE UNCHANGED <<last, failed, announced>>
    /\ UNCHANGED faults

\* The last retry failed, or the API refused the question (page 0).
Fail(f) ==
    /\ IF f.q.page < 1 THEN UNCHANGED faults
                       ELSE faults < MaxFaults /\ faults' = faults + 1
    /\ failed' = (failed \/ Key(f.q) = Key(ask))
    /\ UNCHANGED <<cache, last, announced>>

Answer(f) ==
    /\ flights' = flights \ {f}
    /\ Reply(f) \/ Fail(f)
    /\ UNCHANGED <<hist, db, ask, typed, timer, stream, signals>>

\* The interval of 60 s and the window's focus fetch unless a fetch is out.
Refetch ==
    /\ Out(flights, ask) = {}
    /\ flights' = Refetched(flights, ask)
    /\ failed' = (failed /\ HasData(ask))
    /\ UNCHANGED <<hist, db, ask, typed, timer, last, cache, liveVars, faults>>

\* Mutant: the interval stops at an error.
Poll_UnlessFailed == Open /\ Page.polls /\ ~failed /\ Refetch

Poll == Open /\ Page.polls /\ Refetch

Focus == Open /\ Refetch

\* "Try again", on the error screen.
Retry ==
    /\ Open /\ Screen = "error"
    /\ flights' = Refetched(flights, ask)
    /\ failed' = HasData(ask)
    /\ UNCHANGED <<hist, db, ask, typed, timer, last, cache, liveVars, faults>>

--------------------------------------------------------------------------------
(* The controls.                                                              *)

\* The page renders another question.  It is fetched if nothing fresh is held
\* (invalidated, or older than 30 s); `prior` is what the observer last had.
\* Bound: the cache keeps the question left, the new one and the placeholder.
Render(q, prior) ==
    /\ Open /\ q # ask /\ q.page \in 0 .. MaxPage
    /\ ask' = q
    /\ last' = IF HasData(q) THEN q ELSE prior
    /\ cache' = {e \in cache : e.key \in {Key(ask), Key(q)}
                                  \/ (prior # NoQuestion /\ e.key = Key(prior))}
    /\ failed' = FALSE /\ announced' = 0
    /\ \/ HasData(q) /\ ~Entry(q).stale /\ UNCHANGED flights
       \/ Out(flights, q) # {} /\ UNCHANGED flights
       \/ /\ Out(flights, q) = {} /\ Cardinality(flights) < MaxFlights
          /\ flights' = flights \cup {[q |-> q, sent |-> db]}
    /\ UNCHANGED <<hist, db, stream, signals, faults>>

\* The three incident sections are one component without a key: its filters,
\* page and placeholder survive a change of section.  Other pages start anew.
Navigate ==
    \E s \in Screens \ {ask.section} :
        IF s \in Page.sections
        THEN Render([ask EXCEPT !.section = s], last) /\ UNCHANGED <<typed, timer>>
        ELSE /\ Render(Question(s), NoQuestion)
             /\ typed' = AnyValue /\ timer' = PageOf(s).waits

\* A select, or a search box without debounce: back to page 1.
ChooseIs ==
    /\ \E v \in OfferedIs[hist] : Render([ask EXCEPT !.is = v, !.page = 1], last)
    /\ UNCHANGED <<typed, timer>>

ChooseHas ==
    /\ ask.section \in Page.offers /\ ~Page.waits
    /\ \E v \in OfferedHas[hist] : Render([ask EXCEPT !.has = v, !.page = 1], last)
    /\ UNCHANGED <<typed, timer>>

\* "Clear", shown while a filter is set; it empties the leaks page's box too.
ClearFilters ==
    /\ ask.is # AnyValue \/ (IF Page.waits THEN typed ELSE ask.has) # AnyValue
    /\ Render([Question(ask.section) EXCEPT !.has = IF Page.waits THEN ask.has ELSE @], last)
    /\ typed' = AnyValue
    /\ timer' = (timer \/ typed # AnyValue)

\* The search box of the leaks page waits 300 ms, also when the page opens.
Type ==
    /\ Open /\ Page.waits
    /\ \E v \in OfferedHas[hist] \ {typed} : typed' = v
    /\ timer' = TRUE
    /\ UNCHANGED <<hist, db, ask, last, failed, cache, flights, liveVars, faults>>

Debounce ==
    /\ timer /\ timer' = FALSE
    /\ LET q == [ask EXCEPT !.has = typed, !.page = 1]
       IN  IF q = ask THEN UNCHANGED <<hist, db, ask, last, failed, cache, flights,
                                       liveVars, faults>>
                      ELSE Render(q, last)
    /\ UNCHANGED typed

\* The pagers count from the answer on screen, which may be a placeholder, and
\* step from the page asked for, or from the page shown on the incident pages.
\* A pager is the pages its buttons lead to.
TotalShown(e) == Total(At(e.t), e.of)
PagesShown(e) == TotalPages(TotalShown(e))
Steps(e) == (IF e.of.page > 1 THEN {-1} ELSE {})
                \cup (IF e.of.page < PagesShown(e) THEN {1} ELSE {})

LeaksPager(e) ==
    IF Screen = "rows" THEN {Max({1, ask.page + d}) : d \in Steps(e)} ELSE {}

\* The first page, the last one and those around the page shown.
IncidentsPager(e) ==
    IF PagesShown(e) > 1
    THEN {e.of.page + d : d \in Steps(e)} \cup
         {p \in 1 .. PagesShown(e) : p \in {1, PagesShown(e)} \cup e.of.page - 1 .. e.of.page + 1}
    ELSE {}

BulkPager(e) == IF TotalShown(e) > 0 THEN {ask.page + d : d \in Steps(e)} ELSE {}

TurnPage ==
    /\ \E e \in Shown :
          \E p \in CASE Page = LeaksPage -> LeaksPager(e)
                    [] Page = IncidentsPage -> IncidentsPager(e)
                    [] OTHER -> BulkPager(e) :
              Render([ask EXCEPT !.page = p], last)
    /\ UNCHANGED <<typed, timer>>

--------------------------------------------------------------------------------
Next ==
    \/ Commit \/ DropStream \/ Reconnect \/ LeakInserted
    \/ \E f \in flights : Open /\ Answer(f)
    \/ Poll \/ Focus \/ Retry
    \/ Navigate \/ ChooseIs \/ ChooseHas \/ ClearFilters \/ Type \/ Debounce \/ TurnPage

Spec == ConsoleInit /\ [][Next]_vars

\* The server answers or the request fails; the interval fires as long as the
\* page is mounted; writes and users owe nothing.
AnswerCurrent == \E f \in Out(flights, ask) : Open /\ Answer(f)
ConsoleSpec == Spec /\ WF_vars(AnswerCurrent) /\ WF_vars(Poll)

--------------------------------------------------------------------------------
Versions == 0 .. Len(Writes)
Questions == [section : Sections, is : OfferedIs[hist],
              has : OfferedHas[hist], page : 0 .. MaxPage]

\* Types, with what the cache and the network keep: one answer for a
\* question, none from the future, and the placeholder is held.
ConsoleTypeOK ==
    /\ db \in Versions /\ ask \in Questions
    /\ typed \in OfferedHas[hist] /\ timer \in BOOLEAN
    /\ failed \in BOOLEAN /\ stream \in BOOLEAN /\ faults \in 0 .. MaxFaults
    /\ \A e \in cache : /\ e.of \in Questions /\ {e.r, e.t} \subseteq 0 .. db
                       /\ Cardinality(Held(cache, e.of)) = 1
    /\ \A f \in flights : f.q \in Questions /\ f.sent \in 0 .. db
    /\ last = NoQuestion \/ HasData(last)
    /\ signals \subseteq 1 .. db /\ announced \in 0 .. db

\* The rows under the controls, unless they are the previous question's while
\* the next is loading, are rows of the section on screen that its filters
\* let through: an answer that comes late never lands under other filters.
RowsAnswerTheFilters ==
    \A e \in Held(cache, ask) :
        Found(At(e.r), e.of) \subseteq Found(At(e.r), ask) /\ e.of.page = ask.page

\* No list on screen or in the cache goes back to an older state of the table,
\* however its fetches were joined, cancelled and overtaken.
ListNeverGoesBack ==
    [][\A e \in cache, later \in cache' :
           e.key = later.key => later.r >= e.r /\ later.t >= e.t]_vars

\* A leak announced to a list that has its data on screen is on its way there: the
\* fetch that is out was sent after the leak was stored, unless the page reports
\* an error.
AnnouncedIsOnItsWay ==
    announced > 0 => failed \/ \E f \in Out(flights, ask) : f.sent >= announced

SumOf(counts) == MapThenSumSet(LAMBDA x : counts[x], DOMAIN counts)

\* The figures behind the drop-downs are the number of rows the filter gives: a
\* country's in both lists, an incident type's in the general section, where every
\* row found shows the type, a tag's, a kind's and a threat type's in the others.
FacetsCount(w) ==
    LET General == Question("general")
    IN  /\ \A c \in Countries :
              /\ PerCountry(w, c) = Total(w, [Question("leaks") EXCEPT !.is = c])
              /\ PerCountry(w, c) = Total(w, [General EXCEPT !.is = c])
        /\ \A t \in UNION {TypesOf[r] : r \in Records} :
              /\ PerType(w, t) = Total(w, [General EXCEPT !.has = t])
              /\ \A r \in Found(w, [General EXCEPT !.has = t]) : t \in ShownTypes(w, r)
              /\ IocsPerTag(w, t) = Total(w, [Question("iocs") EXCEPT !.has = t])
              /\ NumbersPerThreat(w, t) = Total(w, [Question("mobile") EXCEPT !.has = t])
        /\ \A k \in {LeakTypeOf[r] : r \in Records} :
              ExposuresPerKind(w, k) = Total(w, [Question("exposures") EXCEPT !.is = k])

\* And those of the groups add up to the general section.
FacetsCountTheirFilter ==
    LET w == At(db)
    IN  /\ FacetsCount(w)
        /\ SumOf([g \in TrackedGroups(w) |-> PerGroup(w, g)]) = Total(w, Question("general"))

\* A bar of the chart counts the leaks the tables print with its day.
BarsAreDays(w, zone) ==
    \A d \in 0 .. Today(w, zone) :
        PerDay(w, d, zone) = Cardinality({r \in Leaks(w) : PrintedDay(w, r, zone) = d})

\* The browser's clock has not been changed within a number of days.
Steady(w, zone, days) ==
    \A t \in 0 .. Clock(w) :
        t + days * SlotsPerDay >= Clock(w) => zone[t] + (Clock(w) - t) = zone[Clock(w)]

\* So the chart counts every leak that has arrived, and none is left out of the days
\* shown: the headline count of as many rolling days lies between the chart's and that
\* of one more day, as long as the clocks have not changed.  A day of 23 or 25 hours
\* among them costs a day on each side, and no more.
ChartCountsEveryArrival ==
    LET w == At(db)
        Recent(days) == Cardinality(SinceDays(w, days))
    IN  \A zone \in Zones :
          LET Charted(days) == SumOf([d \in Span(w, days, zone) |-> PerDay(w, d, zone)])
          IN  /\ BarsAreDays(w, zone)
              /\ \A days \in 1 .. Today(w, zone) + 1 :
                    /\ Charted(days) <= Recent(days + 1)
                    /\ Recent(days) <= Charted(days + 2)
                    /\ Steady(w, zone, days + 1) =>
                          Charted(days) <= Recent(days) /\ Recent(days) <= Charted(days + 1)

\* A leak of an actor that had a country when the actors were read, and another one when
\* the points were.
Moved(u, v, period, g, c) ==
    \E r \in MapWindow(u, period) :
        GroupOf[r] = g /\ Country(u, r) = c /\ Country(v, r) # c

\* The map agrees with itself, though its actors, points and incidents are read one after
\* the other, at u, v and w: its points, the incidents of no known country and those
\* that arrived since add up to its incidents; the arcs of an actor are one fewer than
\* its countries and no more than asked for; they join points that name it, and
\* whichever actor is picked, they are drawn between points that are drawn, unless a
\* leak was given another country in between.
MapAgrees(u, v, w, period) ==
    /\ SumOf([c \in Points(v, period) \cup {NoCountry} |-> PointTotal(v, period, c)])
         + Cardinality(MapWindow(w, period) \ MapWindow(v, period))
         = Cardinality(MapWindow(w, period))
    /\ \A g \in MapActors(u, period) :
          LET n == Cardinality(CountriesOf(u, period, g))
          IN  Cardinality({a \in Arcs(u, period) : a.actor = g})
                = Min({MaxArcs, IF n = 0 THEN 0 ELSE n - 1})
    /\ \A a \in Arcs(u, period) : \A c \in {a.from, a.to} :
          \/ c \in Points(v, period) /\ a.actor \in PointActors(v, period, c)
          \/ Moved(u, v, period, a.actor, c)
    /\ \A g \in {AnyValue} \cup {GroupOf[r] : r \in Records} :
          \A a \in DrawnArcs(u, period, g) : \A c \in {a.from, a.to} :
             c \in DrawnPoints(v, period, g) \/ Moved(u, v, period, a.actor, c)

\* For every number of days, and every day up to the one of the request, that the map
\* may be asked for, and whatever is written while it is answered.
MapAgreesWithItself ==
    \A i \in 0 .. db : \A j \in i .. db :
        \A today \in 0 .. Clock(At(i)) \div SlotsPerDay : \A days \in 1 .. today + 1 :
            MapAgrees(At(i), At(j), At(db), {d \in 0 .. today : d + days > today})

--------------------------------------------------------------------------------
\* A leak announced to a list that has its data on screen gets there, whatever
\* fetch was out at the time, unless the user asks something else first or
\* the page reports an error.
AnnouncedIsShown == announced > 0 ~> (announced = 0 \/ failed)

\* A polled list that is left alone ends up showing the table as it is, after
\* every failure that passes.
PolledCatchesUp ==
    <>[][ask' = ask]_vars =>
        <>[](Page.polls /\ ask.page > 0 =>
                \E e \in Held(cache, ask) : e.r = db /\ e.t = db)

================================================================================
