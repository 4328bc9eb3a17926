------------------------------ MODULE LeakFigures ------------------------------
(***************************************************************************)
(* What the API answers about the collected records: the list endpoints   *)
(* with their filters and pages, the facets, the dashboard's counts and    *)
(* the live map (apps/api/src/routes: leaks, incidents, stats, iocs,       *)
(* exposures and mobile).                                                  *)
(*                                                                         *)
(* The database is the sequence of writes committed so far, and an answer  *)
(* is a function of a prefix w of it, so that an answer read earlier can   *)
(* be compared with the table of now.  A write inserts a record, tells an  *)
(* inserted leak's country, or another one, or classifies it; "tick" is    *)
(* the clock.  The rest of what is written is a constant of the record.    *)
(*                                                                         *)
(* The server's clock is never put forward or back (its image runs in      *)
(* UTC), the browser's may be.                                             *)
(***************************************************************************)
EXTENDS Naturals, FiniteSets, Sequences

CONSTANTS
    Records,        \* the rows of the four tables that may be collected
    KindOf,         \* Records -> "leak", "ioc", "exposure" or "number"
    GroupOf,        \* Records -> the actor of a leak
    DomainOf,       \* Records -> the victim's domain, or NoDomain
    NoDomain,
    LeakTypeOf,     \* Records -> leak_type, which the source guarantees
    TypesOf,        \* Records -> the incident types the classifier writes
    Countries,      \* the countries that are extracted
    NoCountry,
    WordsOf,        \* Records -> the words of its name and domain
    Alphabet,       \* the countries, in the database's order
    Places,         \* the countries the map has coordinates for
    SlotsPerDay,    \* clock slots in a day of the server's
    Zones,          \* zones of browsers: what the clock on the wall shows at each instant
    Saving,         \* slots by which a zone's clock is put forward, and back again
    Horizon,        \* bound: instants that pass
    PageSize,       \* rows of a page
    MaxArcs,        \* arcs drawn for one actor
    AnyValue        \* no filter

Instants == 0 .. Horizon

ASSUME FiguresAssumption ==
    /\ SlotsPerDay \in Nat \ {0} /\ PageSize \in Nat \ {0} /\ MaxArcs \in Nat
    /\ Horizon \in Nat
    /\ DOMAIN Alphabet \subseteq Nat /\ NoCountry \notin Countries
    /\ \A c \in Countries : c # AnyValue /\ \E i \in DOMAIN Alphabet : Alphabet[i] = c
    /\ \A r \in Records : AnyValue \notin {LeakTypeOf[r]} \cup TypesOf[r]

\* The day on a zone's calendar.
DayIn(zone, t) == zone[t] \div SlotsPerDay

\* Clocks that are put back repeat hours, though never a midnight (zones that do, as
\* Havana's and the Azores', are left out): no day comes back and a day that begins at
\* midnight begins there.  Two instants are as far apart on the wall as they are, but
\* for the saving.
ASSUME ZoneAssumption ==
    /\ Saving \in 0 .. SlotsPerDay
    /\ \A zone \in Zones :
          /\ zone \in [Instants -> Nat]
          /\ \A t, u \in Instants : t < u =>
                /\ DayIn(zone, t) <= DayIn(zone, u)
                /\ zone[u] % SlotsPerDay = 0 => DayIn(zone, t) < DayIn(zone, u)
                /\ zone[t] + u <= zone[u] + t + Saving
                /\ zone[u] + t <= zone[t] + u + Saving

\* A history: the collectors write records, each inserted once, and the clock ticks.
Write == [what : {"insert", "classify"}, of : Records]
            \cup [what : {"locate"}, of : Records, to : Countries \cup {NoCountry}]
            \cup [what : {"tick"}, of : {"clock"}]
Clock(w) == Cardinality({i \in DOMAIN w : w[i].what = "tick"})
IsHistory(w) ==
    /\ w \in Seq(Write)
    /\ \A i, j \in DOMAIN w : w[i] = w[j] /\ w[i].what = "insert" => i = j
    /\ Clock(w) \in Instants

Happened(w, what) == {w[i].of : i \in {j \in DOMAIN w : w[j].what = what}}

\* The rows of a table, and when each was first seen (set on insert only).
Stored(w, kind) == {r \in Happened(w, "insert") : KindOf[r] = kind}
Leaks(w) == Stored(w, "leak")
Iocs(w) == Stored(w, "ioc")
Exposures(w) == Stored(w, "exposure")
Numbers(w) == Stored(w, "number")
FirstSeenAt(w, r) ==
    Clock(SubSeq(w, 1, CHOOSE i \in DOMAIN w : w[i] = [what |-> "insert", of |-> r]))

\* Columns that a later sighting, which may name another country, or the classifier
\* fills in.
Country(w, r) ==
    LET told == {i \in DOMAIN w : w[i].what = "locate" /\ w[i].of = r}
    IN  IF told = {} THEN NoCountry ELSE w[CHOOSE i \in told : \A j \in told : j <= i].to
IncidentTypes(w, r) == IF r \in Happened(w, "classify") THEN TypesOf[r] ELSE {}

--------------------------------------------------------------------------------
(* The list endpoints. A filter f has one value compared with a column and   *)
(* one looked for in an array or a text.                                      *)

LeaksWhere(w, f) ==
    {r \in Leaks(w) : /\ f.is \in {AnyValue, Country(w, r)}
                      /\ f.has \in {AnyValue} \cup WordsOf[r]}

\* The condition a section adds to the filters.
InSection(section, r) ==
    CASE section = "general" -> TRUE
      [] section = "ransomware" -> LeakTypeOf[r] = "ransomware"
      [] section = "darkweb" -> DomainOf[r] # NoDomain

BuildConditions(w, f, r) ==
    /\ f.is \in {AnyValue, Country(w, r)}
    /\ f.has \in {AnyValue} \cup IncidentTypes(w, r)

IncidentsWhere(w, section, f) ==
    {r \in Leaks(w) : InSection(section, r) /\ BuildConditions(w, f, r)}

\* The types a row is shown with: a row nobody classified has its source's.
ShownTypes(w, r) ==
    IF IncidentTypes(w, r) = {} THEN {LeakTypeOf[r]} ELSE IncidentTypes(w, r)

IocsWhere(w, f) ==
    {r \in Iocs(w) : /\ f.is \in {AnyValue, LeakTypeOf[r]}
                     /\ f.has \in {AnyValue} \cup TypesOf[r]}

ExposuresWhere(w, f) ==
    {r \in Exposures(w) : /\ f.is \in {AnyValue, LeakTypeOf[r]}
                          /\ f.has \in {AnyValue} \cup WordsOf[r]}

NumbersWhere(w, f) ==
    {r \in Numbers(w) : /\ f.is \in {AnyValue, LeakTypeOf[r]}
                        /\ f.has \in {AnyValue} \cup TypesOf[r]}

\* The rows a question is about.
Found(w, q) ==
    CASE q.section = "leaks" -> LeaksWhere(w, q)
      [] q.section \in {"general", "ransomware", "darkweb"} -> IncidentsWhere(w, q.section, q)
      [] q.section = "iocs" -> IocsWhere(w, q)
      [] q.section = "exposures" -> ExposuresWhere(w, q)
      [] q.section = "mobile" -> NumbersWhere(w, q)

Total(w, q) == Cardinality(Found(w, q))
TotalPages(total) == (total + PageSize - 1) \div PageSize

\* limit and offset: how many rows the page asked for has.
RowsOnPage(w, q) ==
    LET skipped == (q.page - 1) * PageSize
        left == IF Total(w, q) > skipped THEN Total(w, q) - skipped ELSE 0
    IN  IF left > PageSize THEN PageSize ELSE left

--------------------------------------------------------------------------------
(* Facets and the dashboard.                                                  *)

\* leaks-per-tag and leaks-per-group: leaks per country, per group, and per
\* incident type, a leak counting once under each type it has.
PerCountry(w, c) == Cardinality({r \in Leaks(w) : Country(w, r) = c})
PerGroup(w, g) == Cardinality({r \in Leaks(w) : GroupOf[r] = g})

\* Mutant: under the types it is shown with.
PerType_AsShown(w, t) == Cardinality({r \in Leaks(w) : t \in ShownTypes(w, r)})

PerType(w, t) == Cardinality({r \in Leaks(w) : t \in IncidentTypes(w, r)})

\* The facets of the other lists: a tag counts the indicators that carry it, a kind
\* the exposures of it, a threat type the reports that name it.
IocsPerTag(w, t) == Cardinality({r \in Iocs(w) : t \in TypesOf[r]})
ExposuresPerKind(w, k) == Cardinality({r \in Exposures(w) : LeakTypeOf[r] = k})
NumbersPerThreat(w, t) == Cardinality({r \in Numbers(w) : t \in TypesOf[r]})

\* leaks-per-day: the days end with today in the zone the browser sent, and a
\* leak is counted between the instants at which its day begins and ends there.
Today(w, zone) == DayIn(zone, Clock(w))
Span(w, days, zone) ==
    {d \in 0..Today(w, zone) : d + days > Today(w, zone)}

\* Is an instant at or after the one PostgreSQL takes for the midnight before day d?  That
\* is the later one if the wall shows midnight twice, and where it shows none, because
\* the clocks are put forward, the instant at which they are.
Begun(zone, d, t) ==
    /\ \E u \in 0 .. t : zone[u] >= d * SlotsPerDay
    /\ \A u \in Instants : u > t => zone[u] # d * SlotsPerDay

\* Mutant: the days of the server.
PerDay_OfTheServer(w, d, zone) ==
    Cardinality({r \in Leaks(w) : FirstSeenAt(w, r) \div SlotsPerDay = d})

PerDay(w, d, zone) ==
    Cardinality({r \in Leaks(w) : /\ Begun(zone, d, FirstSeenAt(w, r))
                                  /\ ~Begun(zone, d + 1, FirstSeenAt(w, r))})

\* The headline counts: all leaks, and those of a rolling number of days of 24 hours.
SinceDays(w, days) ==
    {r \in Leaks(w) : FirstSeenAt(w, r) + days * SlotsPerDay >= Clock(w)}
TrackedGroups(w) == {GroupOf[r] : r \in Leaks(w)}

\* The day a table prints beside a row, in the browser's zone.
PrintedDay(w, r, zone) == DayIn(zone, FirstSeenAt(w, r))

--------------------------------------------------------------------------------
(* The live map: whole days of the server, ending with the day asked for.     *)
(* Three statements make the answer, each of its own version of the table:    *)
(* the actors with their countries, the points, and the number of incidents.  *)

\* The leaks of a period, a set of days.
MapWindow(w, period) == {r \in Leaks(w) : FirstSeenAt(w, r) \div SlotsPerDay \in period}

MapActors(w, period) == {GroupOf[r] : r \in MapWindow(w, period)}

\* An actor's countries, and how many come before one of them in the sorted array
\* that the aggregate returns.
CountriesOf(w, period, g) ==
    {Country(w, r) : r \in {x \in MapWindow(w, period) : GroupOf[x] = g}} \ {NoCountry}

Position(c) == CHOOSE i \in DOMAIN Alphabet : Alphabet[i] = c
IndexIn(C, c) == Cardinality({d \in C : Position(d) < Position(c)})

\* The points: per country, the incidents and the actors.
Points(w, period) == {Country(w, r) : r \in MapWindow(w, period)} \ {NoCountry}

\* Mutant: the window is missing from one of the three queries.
PointTotal_AllTime(w, period, c) == Cardinality({r \in Leaks(w) : Country(w, r) = c})

PointTotal(w, period, c) ==
    Cardinality({r \in MapWindow(w, period) : Country(w, r) = c})

PointActors(w, period, c) ==
    {GroupOf[r] : r \in {x \in MapWindow(w, period) : Country(w, x) = c}}

\* The arcs: an actor's countries chained in order, at most MaxArcs of them.
Arcs(w, period) ==
    UNION {LET C == CountriesOf(w, period, g)
           IN  {a \in [actor : {g}, from : C, to : C] :
                    /\ IndexIn(C, a.from) < MaxArcs
                    /\ IndexIn(C, a.to) = IndexIn(C, a.from) + 1} : g \in MapActors(w, period)}

\* What the page draws of the arcs of one version and the points of another while actor
\* `selected` (or AnyValue) is picked in the rail.
DrawnArcs(w, period, selected) ==
    {a \in Arcs(w, period) : /\ selected \in {AnyValue, a.actor}
                             /\ {a.from, a.to} \subseteq Places}
DrawnPoints(w, period, selected) ==
    {c \in Points(w, period) \cap Places :
        selected = AnyValue \/ selected \in PointActors(w, period, c)}

================================================================================
