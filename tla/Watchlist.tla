----------------------------- MODULE Watchlist -----------------------------
(***************************************************************************)
(* The watchlist: entries and matches, the API that adds, removes, lists   *)
(* and acknowledges (routes/watchlist.ts), and the worker's matcher        *)
(* (Storage.match_watchlist), which is the only one to match.              *)
(*                                                                         *)
(* A record (a leak, an indicator, an exposure) carries a time taken       *)
(* before it was inserted, a leak the worker's own just before its         *)
(* transaction, the others that of the transaction's beginning, and        *)
(* becomes visible at the commit.  A run of the matcher may start between  *)
(* the two: the overlap of the watermark is there for this.  A later       *)
(* upsert may fill in a domain that an entry names, and replaces the name  *)
(* of a victim that is known by its domain; it leaves first_seen_at alone. *)
(***************************************************************************)
EXTENDS Integers

CONSTANTS
    Records,    \* leaks, indicators and exposures
    Values,     \* what an entry may watch for
    Spellings,  \* what somebody may type
    Normal,     \* normalizeWatchValue: the value of a spelling, or Unusable
    Unusable,
    Runs,       \* runs of the matcher that may overlap
    MaxEntries, \* bound: entries ever added
    MaxClock,   \* bound: units of time that pass
    Overlap,    \* overlap_seconds, in units of time
    MaxOpen     \* how long after the time it carries a record commits

Entries == 1 .. MaxEntries
Never == -1    \* matched_through is null

\* What the overlap rests on: no record commits later than that (waiting for a
\* connection and the difference of the two clocks included).
ASSUME WatchAssumption ==
    /\ Normal \in [Spellings -> Values \cup {Unusable}]
    /\ Unusable \notin Values
    /\ Overlap \in Nat /\ MaxOpen \in Nat /\ MaxClock \in Nat /\ MaxEntries \in Nat
    /\ MaxOpen < Overlap

VARIABLES
    clock,   \* starts at Overlap, for watermarks to be times
    record,  \* what is known of each record
    entry,   \* watchlist_entries
    match,   \* watchlist_matches: a state for each entry and record
    run      \* where each run of the matcher is

vars == <<clock, record, entry, match, run>>

Times == Nat
\* lasting: what a record has named ever since it was first seen.
RecordRow == [state : {"absent", "open", "in"}, seen : Times,
              lasting : SUBSET Values, names : SUBSET Values]
EntryRow  == [state : {"absent", "watched", "gone"}, value : Values \cup {Unusable},
              through : Int]
MatchStates == {"none", "unread", "read"}
RunRow    == [busy : BOOLEAN, started : Times, todo : SUBSET Entries,
              through : [Entries -> Int]]

NoRecord == [state |-> "absent", seen |-> 0, lasting |-> {}, names |-> {}]
NoEntry  == [state |-> "absent", value |-> Unusable, through |-> Never]
NoRun    == [busy |-> FALSE, started |-> 0, todo |-> {}, through |-> [e \in Entries |-> Never]]

Init ==
    /\ clock = Overlap
    /\ record = [r \in Records |-> NoRecord]
    /\ entry = [e \in Entries |-> NoEntry]
    /\ match = [e \in Entries |-> [r \in Records |-> "none"]]
    /\ run = [m \in Runs |-> NoRun]

Watched == {e \in Entries : entry[e].state = "watched"}
-----------------------------------------------------------------------------
(* The API.                                                                *)

AddEntry_NoCheck(raw) ==
    LET value == Normal[raw]
    IN  /\ \A e \in Watched : entry[e].value # value
        /\ \E e \in Entries :
             /\ \A f \in Entries : entry[f].state = "absent" <=> f >= e
             /\ entry' = [entry EXCEPT ![e] =
                   [state |-> "watched", value |-> value, through |-> Never]]
        /\ UNCHANGED <<clock, record, match, run>>

\* The unique index is on the stored value: normalised before the insert, so that
\* a URL, an address and a bare host are one entry.  A conflict changes nothing.
AddEntry(raw) ==
    LET value == Normal[raw]
    IN  /\ value # Unusable
        /\ \A e \in Watched : entry[e].value # value
        /\ \E e \in Entries :
             /\ \A f \in Entries : entry[f].state = "absent" <=> f >= e
             /\ entry' = [entry EXCEPT ![e] =
                   [state |-> "watched", value |-> value, through |-> Never]]
        /\ UNCHANGED <<clock, record, match, run>>

\* Its matches go with it.
RemoveEntry(e) ==
    /\ e \in Watched
    /\ entry' = [entry EXCEPT ![e] = [NoEntry EXCEPT !.state = "gone"]]
    /\ match' = [match EXCEPT ![e] = [r \in Records |-> "none"]]
    /\ UNCHANGED <<clock, record, run>>

Acknowledge(e, r) ==
    /\ match[e][r] = "unread"
    /\ match' = [match EXCEPT ![e][r] = "read"]
    /\ UNCHANGED <<clock, record, entry, run>>

\* Every unread match, or those of one entry.
AcknowledgeAll(es) ==
    /\ match' = [e \in Entries |-> [r \in Records |->
          IF e \in es /\ match[e][r] = "unread" THEN "read" ELSE match[e][r]]]
    /\ UNCHANGED <<clock, record, entry, run>>

\* A row of GET /api/watchlist, where "none yet" and "not looked yet" differ.
Listed(e) == [pending |-> entry[e].through = Never,
              matched |-> \E r \in Records : match[e][r] # "none",
              unread  |-> \E r \in Records : match[e][r] = "unread"]
-----------------------------------------------------------------------------
(* Records arrive, and change.                                             *)

\* upsert_leaks takes the time, then a connection; now() is the transaction's beginning.
BeginInsert(r, vs) ==
    /\ record[r].state = "absent"
    /\ record' = [record EXCEPT ![r] =
          [state |-> "open", seen |-> clock, lasting |-> vs, names |-> vs]]
    /\ UNCHANGED <<clock, entry, match, run>>

CommitInsert(r) ==
    /\ record[r].state = "open"
    /\ record' = [record EXCEPT ![r].state = "in"]
    /\ UNCHANGED <<clock, entry, match, run>>

\* A known listing is written again, with what is extracted from it now, or repaired.
Upsert(r, vs) ==
    /\ record[r].state = "in"
    /\ record' = [record EXCEPT ![r].names = vs, ![r].lasting = record[r].lasting \cap vs]
    /\ UNCHANGED <<clock, entry, match, run>>

Tick ==
    /\ clock < MaxClock
    /\ \A r \in Records : record[r].state = "open" => clock < record[r].seen + MaxOpen
    /\ clock' = clock + 1
    /\ UNCHANGED <<record, entry, match, run>>
-----------------------------------------------------------------------------
(* The matcher.                                                            *)

\* Reads the time, then the entries with their watermarks.
StartRun(m) ==
    /\ ~run[m].busy
    /\ run' = [run EXCEPT ![m] = [busy |-> TRUE, started |-> clock, todo |-> Watched,
                                  through |-> [e \in Entries |->
                                     IF e \in Watched THEN entry[e].through ELSE Never]]]
    /\ UNCHANGED <<clock, record, entry, match>>

Select_NoHistory(e, through) ==
    {r \in Records : /\ record[r].state = "in"
                     /\ entry[e].value \in record[r].names
                     /\ through # Never /\ record[r].seen > through}

\* The committed records that name the entry's value, all or those after the watermark.
Select(e, through) ==
    {r \in Records : /\ record[r].state = "in"
                     /\ entry[e].value \in record[r].names
                     /\ through = Never \/ record[r].seen > through}

Watermark_NoOverlap(m) == run[m].started

Watermark(m) == run[m].started - Overlap

Past(m, e) == [run[m] EXCEPT !.todo = run[m].todo \ {e}, !.through[e] = Never]

MatchEntry_Renews(m, e) ==
    /\ e \in run[m].todo /\ e \in Watched
    /\ match' = [match EXCEPT ![e] = [r \in Records |->
          IF r \in Select(e, run[m].through[e]) THEN "unread" ELSE match[e][r]]]
    /\ entry' = [entry EXCEPT ![e].through = Watermark(m)]
    /\ run' = [run EXCEPT ![m] = Past(m, e)]
    /\ UNCHANGED <<clock, record>>

MatchEntry_OnlyIfFound(m, e) ==
    /\ e \in run[m].todo /\ e \in Watched
    /\ LET new == {r \in Select(e, run[m].through[e]) : match[e][r] = "none"}
       IN  /\ match' = [match EXCEPT ![e] = [r \in Records |->
                 IF r \in new THEN "unread" ELSE match[e][r]]]
           /\ entry' = [entry EXCEPT ![e].through = IF new = {} THEN @ ELSE Watermark(m)]
    /\ run' = [run EXCEPT ![m] = Past(m, e)]
    /\ UNCHANGED <<clock, record>>

\* One entry, one transaction: `on conflict do nothing`, then the watermark.
MatchEntry(m, e) ==
    /\ e \in run[m].todo /\ e \in Watched
    /\ match' = [match EXCEPT ![e] = [r \in Records |->
          IF r \in Select(e, run[m].through[e]) /\ match[e][r] = "none"
          THEN "unread" ELSE match[e][r]]]
    /\ entry' = [entry EXCEPT ![e].through = Watermark(m)]
    /\ run' = [run EXCEPT ![m] = Past(m, e)]
    /\ UNCHANGED <<clock, record>>

\* An entry has been removed meanwhile: the update finds no row; or there was a match
\* to insert, which the foreign key refuses, and the run ends with an error.
EntryIsGone(m, e) ==
    /\ e \in run[m].todo /\ e \notin Watched
    /\ \/ run' = [run EXCEPT ![m] = Past(m, e)]
       \/ run' = [run EXCEPT ![m] = NoRun]
    /\ UNCHANGED <<clock, record, entry, match>>

\* Nothing left to do; or a timeout or a crash.
EndRun(m) ==
    /\ run[m].busy
    /\ run' = [run EXCEPT ![m] = NoRun]
    /\ UNCHANGED <<clock, record, entry, match>>

\* `intel watchlist-rematch` forgets every watermark.
ResetWatermarks ==
    /\ entry' = [e \in Entries |-> [entry[e] EXCEPT !.through = Never]]
    /\ UNCHANGED <<clock, record, match, run>>

Next ==
    \/ \E raw \in Spellings : AddEntry(raw)
    \/ \E e \in Entries : RemoveEntry(e) \/ AcknowledgeAll({e})
    \/ AcknowledgeAll(Entries)
    \/ \E e \in Entries, r \in Records : Acknowledge(e, r)
    \/ \E r \in Records, vs \in SUBSET Values : BeginInsert(r, vs) \/ Upsert(r, vs)
    \/ \E r \in Records : CommitInsert(r)
    \/ Tick
    \/ \E m \in Runs : StartRun(m) \/ EndRun(m)
    \/ \E m \in Runs, e \in Entries : MatchEntry(m, e) \/ EntryIsGone(m, e)
    \/ ResetWatermarks

Spec == Init /\ [][Next]_vars

\* The cron fires every minute, a transaction that is open commits, and a run that
\* may come to an entry again and again is not cut short before it every time.
FairSpec ==
    /\ Spec
    /\ \A m \in Runs : WF_vars(StartRun(m)) /\ WF_vars(run[m].todo = {} /\ EndRun(m))
    /\ \A m \in Runs, e \in Entries : SF_vars(MatchEntry(m, e)) /\ WF_vars(EntryIsGone(m, e))
    /\ \A r \in Records : WF_vars(CommitInsert(r))
-----------------------------------------------------------------------------
(* Properties.                                                             *)

\* Every variable has its shape.
WatchTypeOK ==
    /\ clock \in Times
    /\ record \in [Records -> RecordRow]
    /\ entry \in [Entries -> EntryRow]
    /\ \A e \in Watched : entry[e].value \in Values
    /\ match \in [Entries -> [Records -> MatchStates]]
    /\ run \in [Runs -> RunRow]

\* "Rows first seen up to here have been matched" (watchlist_entries.matched_through):
\* whatever commits late, crashes, overlaps or is reset, a record the watermark has
\* passed is in the matches of every entry that it has named ever since it was first seen,
\* and none that is still to commit lies behind it.
WatermarkIsHonest ==
    \A e \in Watched, r \in Records :
        entry[e].value \in record[r].lasting /\ record[r].state # "absent"
        /\ record[r].seen <= entry[e].through
            => record[r].state = "in" /\ match[e][r] # "none"

\* What somebody has marked as read does not come back as news: re-matching, by an
\* overlap, a second run or a reset, adds and never renews.
ReadStaysRead ==
    [][\A e \in Entries, r \in Records :
          match[e][r] = "read" => match'[e][r] = "read" \/ entry'[e].state = "gone"]_vars

\* "matching..." ends, with an answer for all of history.
PendingResolves ==
    \A e \in Entries : e \in Watched /\ Listed(e).pending ~> e \notin Watched \/ ~Listed(e).pending

\* Whatever arrives naming a watched value is reported, unless it is given another name
\* before a run has come to it.
ArrivalsAreReported ==
    \A e \in Entries, r \in Records :
        e \in Watched /\ record[r].state = "in" /\ entry[e].value \in record[r].lasting
           ~> \/ e \notin Watched \/ match[e][r] # "none"
              \/ entry[e].value \notin record[r].lasting
=============================================================================
