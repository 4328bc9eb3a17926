--------------------------- MODULE WatchlistProofs ---------------------------
(***************************************************************************)
(* Theorems about Watchlist, for every value of its constants: any number  *)
(* of records, values, spellings, overlapping runs and entries, and any    *)
(* overlap longer than a transaction that inserts may stay open.           *)
(***************************************************************************)
EXTENDS Watchlist, TLAPS

-----------------------------------------------------------------------------
(* Type correctness.                                                       *)

LEMMA NeverIsInt == Never \in Int
  BY DEF Never

LEMMA PastType ==
    ASSUME WatchTypeOK, NEW m \in Runs, NEW e \in Entries
    PROVE  Past(m, e) \in RunRow
<1>1. run[m] \in RunRow
  BY DEF WatchTypeOK
<1>2. run[m].through \in [Entries -> Int] /\ run[m].todo \ {e} \in SUBSET Entries
  BY <1>1 DEF RunRow
<1>3. [run[m].through EXCEPT ![e] = Never] \in [Entries -> Int]
  BY <1>2, NeverIsInt
<1> QED
  BY <1>1, <1>2, <1>3 DEF Past, RunRow

LEMMA WatchTypeStep ==
    ASSUME WatchTypeOK, [Next]_vars
    PROVE  WatchTypeOK'
<1> USE WatchAssumption DEF Times, RecordRow, EntryRow, MatchStates, RunRow
<1>1. ASSUME NEW raw \in Spellings, AddEntry(raw) PROVE WatchTypeOK'
  <2>1. PICK e \in Entries : entry' = [entry EXCEPT ![e] =
              [state |-> "watched", value |-> Normal[raw], through |-> Never]]
    BY <1>1 DEF AddEntry
  <2>2. Normal[raw] \in Values /\ Never \in Int
    BY <1>1 DEF AddEntry, Never
  <2> QED
    BY <1>1, <2>1, <2>2 DEF AddEntry, WatchTypeOK, Watched
<1>2. ASSUME NEW e \in Entries, RemoveEntry(e) PROVE WatchTypeOK'
  BY <1>2 DEF RemoveEntry, WatchTypeOK, Watched, NoEntry, Never
<1>3. ASSUME NEW es \in SUBSET Entries, AcknowledgeAll(es) PROVE WatchTypeOK'
  BY <1>3 DEF AcknowledgeAll, WatchTypeOK, Watched
<1>4. ASSUME NEW e \in Entries, NEW r \in Records, Acknowledge(e, r) PROVE WatchTypeOK'
  BY <1>4 DEF Acknowledge, WatchTypeOK, Watched
<1>5. ASSUME NEW r \in Records, NEW vs \in SUBSET Values, BeginInsert(r, vs) PROVE WatchTypeOK'
  BY <1>5 DEF BeginInsert, WatchTypeOK, Watched
<1>6. ASSUME NEW r \in Records, NEW vs \in SUBSET Values, Upsert(r, vs) PROVE WatchTypeOK'
  <2>1. record[r] \in RecordRow /\ record[r].lasting \cap vs \in SUBSET Values
    BY DEF WatchTypeOK
  <2> HIDE DEF RecordRow
  <2>2. [record[r] EXCEPT !.names = vs, !.lasting = record[r].lasting \cap vs] \in RecordRow
    BY <2>1 DEF RecordRow
  <2>3. record' \in [Records -> RecordRow] /\ UNCHANGED <<clock, entry, match, run>>
    BY <1>6, <2>2 DEF Upsert, WatchTypeOK
  <2> QED
    BY <2>3 DEF WatchTypeOK, Watched
<1>7. ASSUME NEW r \in Records, CommitInsert(r) PROVE WatchTypeOK'
  <2>1. [record[r] EXCEPT !.state = "in"] \in RecordRow
    BY DEF WatchTypeOK, RecordRow
  <2>2. record' \in [Records -> RecordRow] /\ UNCHANGED <<clock, entry, match, run>>
    BY <1>7, <2>1 DEF CommitInsert, WatchTypeOK
  <2> QED
    BY <2>2 DEF WatchTypeOK, Watched
<1>8. CASE Tick
  BY <1>8 DEF Tick, WatchTypeOK, Watched
<1>9. ASSUME NEW m \in Runs, StartRun(m) PROVE WatchTypeOK'
  BY <1>9 DEF StartRun, WatchTypeOK, Watched, Never
<1>10. ASSUME NEW m \in Runs, EndRun(m) PROVE WatchTypeOK'
  <2>1. NoRun \in RunRow
    BY NeverIsInt DEF NoRun
  <2> QED
    BY <1>10, <2>1 DEF EndRun, WatchTypeOK, Watched
<1>11. ASSUME NEW m \in Runs, NEW e \in Entries, MatchEntry(m, e) PROVE WatchTypeOK'
  <2>1. Watermark(m) \in Int /\ Past(m, e) \in RunRow
    BY PastType DEF WatchTypeOK, Watermark
  <2>2. run' \in [Runs -> RunRow]
    BY <1>11, <2>1 DEF MatchEntry, WatchTypeOK
  <2>3. entry' \in [Entries -> EntryRow] /\ \A f \in Watched' : entry'[f].value \in Values
    <3>1. entry' = [entry EXCEPT ![e].through = Watermark(m)] /\ e \in Watched
      BY <1>11 DEF MatchEntry
    <3> QED
      BY <2>1, <3>1 DEF WatchTypeOK, Watched
  <2>4. match' \in [Entries -> [Records -> MatchStates]]
    BY <1>11 DEF MatchEntry, WatchTypeOK
  <2> QED
    BY <1>11, <2>2, <2>3, <2>4 DEF MatchEntry, WatchTypeOK
<1>12. ASSUME NEW m \in Runs, NEW e \in Entries, EntryIsGone(m, e) PROVE WatchTypeOK'
  <2>1. Past(m, e) \in RunRow
    BY PastType
  <2>2. NoRun \in RunRow
    BY NeverIsInt DEF NoRun
  <2> QED
    <3>1. PICK x \in RunRow : run' = [run EXCEPT ![m] = x]
      BY <1>12, <2>1, <2>2 DEF EntryIsGone
    <3>2. UNCHANGED <<clock, record, entry, match, Watched>>
      BY <1>12 DEF EntryIsGone, Watched
    <3> QED
      BY <3>1, <3>2 DEF WatchTypeOK
<1>13. CASE ResetWatermarks
  <2>1. entry' = [e \in Entries |-> [entry[e] EXCEPT !.through = Never]]
        /\ UNCHANGED <<clock, record, match, run>>
    BY <1>13 DEF ResetWatermarks
  <2>2. \A e \in Entries : entry'[e] = [entry[e] EXCEPT !.through = Never] /\ entry[e] \in EntryRow
    BY <2>1 DEF WatchTypeOK
  <2>3. entry' \in [Entries -> EntryRow]
    BY <2>1, <2>2, NeverIsInt
  <2>4. \A e \in Watched' : entry'[e].value \in Values
    BY <2>2 DEF Watched, WatchTypeOK
  <2> QED
    BY <2>1, <2>3, <2>4 DEF WatchTypeOK
<1>14. CASE UNCHANGED vars
  BY <1>14 DEF vars, WatchTypeOK, Watched
<1> QED
  BY <1>1, <1>2, <1>3, <1>4, <1>5, <1>6, <1>7, <1>8, <1>9, <1>10, <1>11, <1>12, <1>13, <1>14
  DEF Next

LEMMA WatchTypeInit == Init => WatchTypeOK
  BY WatchAssumption DEF Init, WatchTypeOK, Times, RecordRow, EntryRow, MatchStates, RunRow,
     NoRecord, NoEntry, NoRun, Watched, Never

\* Every variable of the watchlist keeps its shape.
THEOREM WatchTypes == Spec => []WatchTypeOK
<1> QED
  BY WatchTypeInit, WatchTypeStep, PTL DEF Spec

-----------------------------------------------------------------------------
(* The watermark.                                                          *)

\* Every record first seen up to time t, that has always named the entry's value, is in
\* and matched.
Honest(e, t) ==
    \A r \in Records :
        entry[e].value \in record[r].lasting /\ record[r].state # "absent"
        /\ record[r].seen <= t
            => record[r].state = "in" /\ match[e][r] # "none"

\* No time of the database lies ahead of the clock, a record's transaction is not
\* open for longer than MaxOpen, and what it has always named it names.
TimesInOrder ==
    /\ clock >= Overlap
    /\ \A r \in Records : record[r].state # "absent" =>
          /\ record[r].seen <= clock
          /\ record[r].lasting \subseteq record[r].names
          /\ record[r].state = "open" => clock <= record[r].seen + MaxOpen
    /\ \A m \in Runs : run[m].busy => Overlap <= run[m].started /\ run[m].started <= clock
    /\ \A m \in Runs : run[m].todo # {} => run[m].busy

\* A watermark lies an overlap behind the clock.
Behind(t) == t = Never \/ t <= clock - Overlap

\* What makes the watermark inductive: those that the runs hold, read before other
\* runs moved on, are as honest as those in the table.
WatermarkInv ==
    /\ \A e \in Watched : Behind(entry[e].through) /\ Honest(e, entry[e].through)
    /\ \A m \in Runs : \A e \in run[m].todo :
          /\ entry[e].state # "absent"
          /\ Behind(run[m].through[e])
          /\ e \in Watched => Honest(e, run[m].through[e])

LEMMA TimesStep ==
    ASSUME WatchTypeOK, TimesInOrder, [Next]_vars
    PROVE  TimesInOrder'
<1> USE WatchAssumption DEF TimesInOrder
<1>0. clock \in Nat /\ (\A r \in Records : record[r].seen \in Nat)
      /\ record \in [Records -> RecordRow] /\ run \in [Runs -> RunRow]
  BY DEF WatchTypeOK, Times, RecordRow
<1>1. CASE UNCHANGED <<clock, record, run>>
  BY <1>1
<1>2. ASSUME NEW r \in Records, NEW vs \in SUBSET Values, BeginInsert(r, vs) PROVE TimesInOrder'
  BY <1>0, <1>2 DEF BeginInsert
<1>3. ASSUME NEW r \in Records, NEW vs \in SUBSET Values, Upsert(r, vs) PROVE TimesInOrder'
  BY <1>0, <1>3 DEF Upsert, RecordRow
<1>4. ASSUME NEW r \in Records, CommitInsert(r) PROVE TimesInOrder'
  BY <1>0, <1>4 DEF CommitInsert, RecordRow
<1>5. CASE Tick
  <2>1. clock' = clock + 1 /\ UNCHANGED <<record, run>>
    BY <1>5 DEF Tick
  <2>2. \A r \in Records : record[r].state = "open" => clock' <= record[r].seen + MaxOpen
    BY <1>0, <1>5 DEF Tick
  <2>3. \A m \in Runs : run[m].started \in Nat
    BY <1>0 DEF RunRow, Times
  <2> QED
    BY <1>0, <2>1, <2>2, <2>3
<1>6. ASSUME NEW m \in Runs, StartRun(m) PROVE TimesInOrder'
  BY <1>0, <1>6 DEF StartRun
<1>7. ASSUME NEW m \in Runs, EndRun(m) PROVE TimesInOrder'
  BY <1>0, <1>7 DEF EndRun, NoRun
<1>8. ASSUME NEW m \in Runs, NEW e \in Entries, MatchEntry(m, e) PROVE TimesInOrder'
  BY <1>0, <1>8 DEF MatchEntry, Past, RunRow
<1>9. ASSUME NEW m \in Runs, NEW e \in Entries, EntryIsGone(m, e) PROVE TimesInOrder'
  <2>1. UNCHANGED <<clock, record>> /\ run[m].todo # {}
        /\ (run' = [run EXCEPT ![m] = Past(m, e)] \/ run' = [run EXCEPT ![m] = NoRun])
    BY <1>9 DEF EntryIsGone
  <2>2. Past(m, e).busy = run[m].busy /\ Past(m, e).started = run[m].started
    BY <1>0 DEF Past, RunRow
  <2> QED
    BY <1>0, <2>1, <2>2 DEF NoRun
<1> QED
  BY <1>1, <1>2, <1>3, <1>4, <1>5, <1>6, <1>7, <1>8, <1>9
  DEF Next, vars, AddEntry, RemoveEntry, Acknowledge, AcknowledgeAll, ResetWatermarks

\* An entry whose matches have only grown, in a table of records that has lost
\* none, keeps an honest watermark.
LEMMA HonestGrows ==
    ASSUME NEW e \in Entries, NEW t, Honest(e, t),
           entry'[e].value = entry[e].value,
           UNCHANGED record,
           \A r \in Records : match[e][r] # "none" => match'[e][r] # "none"
    PROVE  Honest(e, t)'
  BY DEF Honest

LEMMA OverlapCovers == Overlap \in Nat /\ MaxOpen \in Nat /\ MaxOpen < Overlap
  BY WatchAssumption

LEMMA LaterIsFurther ==
    ASSUME NEW t \in Int, NEW c \in Nat, NEW d \in Nat, c <= d, NEW o \in Nat, t <= c - o
    PROVE  t <= d - o
  OBVIOUS

LEMMA BehindStays ==
    ASSUME NEW t \in Int, clock \in Nat, clock' \in Nat, clock <= clock', Behind(t)
    PROVE  Behind(t)'
<1>1. CASE t = Never
  BY <1>1 DEF Behind
<1>2. CASE t <= clock - Overlap
  <2>1. t <= clock' - Overlap
    BY <1>2, OverlapCovers, LaterIsFurther
  <2> QED
    BY <2>1 DEF Behind
<1> QED
  BY <1>1, <1>2 DEF Behind

\* A step that touches neither entries nor runs and only adds to the matches.
LEMMA WatermarkKept ==
    ASSUME WatermarkInv, WatchTypeOK, TimesInOrder, UNCHANGED <<record, entry, run>>,
           clock' \in Nat, clock <= clock',
           \A e \in Watched : \A r \in Records : match[e][r] # "none" => match'[e][r] # "none"
    PROVE  WatermarkInv'
<1> USE WatchAssumption
<1>1. Watched' = Watched /\ Watched \subseteq Entries
  BY DEF Watched
<1>2. ASSUME NEW t \in Int, Behind(t) PROVE Behind(t)'
  BY <1>2, BehindStays DEF WatchTypeOK, Times
<1>3. \A e \in Watched : entry[e].through \in Int
  BY DEF WatchTypeOK, EntryRow, Watched
<1>4. \A m \in Runs : \A e \in run[m].todo : e \in Entries /\ run[m].through[e] \in Int
  BY DEF WatchTypeOK, RunRow
<1>5. ASSUME NEW e \in Watched PROVE (Behind(entry[e].through) /\ Honest(e, entry[e].through))'
  BY <1>1, <1>2, <1>3, HonestGrows DEF WatermarkInv
<1>6. ASSUME NEW m \in Runs, NEW e \in run[m].todo
      PROVE  (/\ entry[e].state # "absent"
              /\ Behind(run[m].through[e])
              /\ e \in Watched => Honest(e, run[m].through[e]))'
  <2>1. e \in Entries /\ run'[m].through[e] = run[m].through[e] /\ run[m].through[e] \in Int
    BY <1>4
  <2>2. Behind(run[m].through[e])'
    BY <1>2, <2>1 DEF WatermarkInv
  <2>3. ASSUME e \in Watched PROVE Honest(e, run[m].through[e])'
    <3>1. Honest(e, run[m].through[e])
      BY <2>3 DEF WatermarkInv
    <3> QED
      BY <1>1, <2>1, <2>3, <3>1 DEF Honest
  <2> QED
    BY <1>1, <2>2, <2>3 DEF WatermarkInv
<1> QED
  BY <1>1, <1>5, <1>6 DEF WatermarkInv

\* A watermark that a run moves up is honest: what it passes is in, for no
\* transaction is open for that long, and was selected, unless an earlier
\* watermark had passed it.
LEMMA MatchedIsHonest ==
    ASSUME WatchTypeOK, TimesInOrder, WatermarkInv,
           NEW m \in Runs, NEW e \in Entries, MatchEntry(m, e)
    PROVE  /\ Behind(Watermark(m))
           /\ Honest(e, entry[e].through)'
<1>1. /\ e \in run[m].todo /\ e \in Watched
      /\ match' = [match EXCEPT ![e] = [r \in Records |->
            IF r \in Select(e, run[m].through[e]) /\ match[e][r] = "none"
            THEN "unread" ELSE match[e][r]]]
      /\ entry' = [entry EXCEPT ![e].through = Watermark(m)]
      /\ record' = record
  BY DEF MatchEntry
<1>2. /\ clock \in Nat /\ run[m].started \in Nat /\ run[m].started <= clock
      /\ run[m].through[e] \in Int
  BY <1>1 DEF TimesInOrder, WatchTypeOK, Times, RunRow
<1>3. /\ Behind(Watermark(m))
  BY <1>2, OverlapCovers DEF Behind, Watermark
<1>4. entry'[e].through = Watermark(m) /\ entry'[e].value = entry[e].value
  BY <1>1 DEF WatchTypeOK, EntryRow
<1>5. ASSUME NEW r \in Records, entry[e].value \in record[r].lasting,
             record[r].state # "absent", record[r].seen <= Watermark(m)
      PROVE  record[r].state = "in" /\ match'[e][r] # "none"
  <2>1. /\ record[r].seen \in Nat /\ record[r].state \in {"absent", "open", "in"}
        /\ record[r].lasting \subseteq record[r].names
        /\ record[r].state = "open" => clock <= record[r].seen + MaxOpen
    BY <1>5 DEF TimesInOrder, WatchTypeOK, RecordRow, Times
  <2>2. record[r].state # "open"
    BY <1>2, <1>5, <2>1, OverlapCovers DEF Watermark
  <2>3. match'[e][r] = IF r \in Select(e, run[m].through[e]) /\ match[e][r] = "none"
                       THEN "unread" ELSE match[e][r]
    BY <1>1 DEF WatchTypeOK
  <2>4. CASE r \in Select(e, run[m].through[e])
    BY <2>1, <2>2, <2>3, <2>4, <1>5
  <2>5. CASE r \notin Select(e, run[m].through[e])
    <3>1. entry[e].value \in record[r].names /\ record[r].state = "in"
      BY <1>5, <2>1, <2>2
    <3>2. ~(record[r].seen > run[m].through[e])
      BY <2>5, <3>1 DEF Select
    <3>3. record[r].seen <= run[m].through[e]
      BY <1>2, <2>1, <3>2
    <3>4. Honest(e, run[m].through[e])
      BY <1>1 DEF WatermarkInv
    <3> QED
      BY <1>5, <2>3, <2>5, <3>3, <3>4 DEF Honest
  <2> QED
    BY <2>4, <2>5
<1>6. Honest(e, entry[e].through)'
  <2> SUFFICES ASSUME NEW r \in Records, entry'[e].value \in record'[r].lasting,
                      record'[r].state # "absent", record'[r].seen <= entry'[e].through
               PROVE  record'[r].state = "in" /\ match'[e][r] # "none"
    BY DEF Honest
  <2> QED
    BY <1>1, <1>4, <1>5
<1> QED
  BY <1>3, <1>6

\* A record that arrives now lies ahead of every watermark.
LEMMA AheadOfWatermarks ==
    ASSUME NEW t \in Int, clock \in Nat, clock >= Overlap, Behind(t)
    PROVE  ~(clock <= t)
<1>1. CASE t = Never
  BY <1>1 DEF Never
<1>2. CASE t <= clock - Overlap
  BY <1>2, OverlapCovers
<1> QED
  BY <1>1, <1>2 DEF Behind

\* A step of the records alone.
LEMMA RecordsKeep ==
    ASSUME WatermarkInv, Watched \subseteq Entries,
           \A e \in Entries : entry[e].through \in Int,
           \A m \in Runs : /\ run[m].todo \subseteq Entries
                           /\ \A e \in Entries : run[m].through[e] \in Int,
           UNCHANGED <<clock, entry, match, run>>,
           \A e \in Entries, t \in Int : Behind(t) /\ Honest(e, t) => Honest(e, t)'
    PROVE  WatermarkInv'
<1>1. Watched' = Watched
  BY DEF Watched
<1>2. ASSUME NEW e \in Watched PROVE (Behind(entry[e].through) /\ Honest(e, entry[e].through))'
  <2>1. e \in Entries /\ entry[e].through \in Int
    OBVIOUS
  <2>2. Behind(entry[e].through) /\ Honest(e, entry[e].through)
    BY DEF WatermarkInv
  <2>3. \A t \in Int : t = entry[e].through => Honest(e, t)'
    BY <2>1, <2>2
  <2> QED
    BY <2>1, <2>2, <2>3 DEF Behind, Honest
<1>3. ASSUME NEW m \in Runs, NEW e \in run[m].todo
      PROVE  (/\ entry[e].state # "absent"
              /\ Behind(run[m].through[e])
              /\ e \in Watched => Honest(e, run[m].through[e]))'
  <2>1. e \in Entries /\ run[m].through[e] \in Int
    OBVIOUS
  <2>2. /\ Behind(run[m].through[e]) /\ entry[e].state # "absent"
        /\ e \in Watched => Honest(e, run[m].through[e])
    BY DEF WatermarkInv
  <2>3. e \in Watched => \A t \in Int : t = run[m].through[e] => Honest(e, t)'
    BY <2>1, <2>2
  <2> QED
    BY <1>1, <2>1, <2>2, <2>3 DEF Behind, Honest
<1> QED
  BY <1>1, <1>2, <1>3 DEF WatermarkInv

LEMMA WatermarkStep ==
    ASSUME WatchTypeOK, TimesInOrder, WatermarkInv, [Next]_vars
    PROVE  WatermarkInv'
<1>0. /\ clock \in Nat /\ Watched \subseteq Entries
      /\ \A e \in Entries : entry[e].through \in Int
      /\ \A m \in Runs : /\ run[m].todo \subseteq Entries
                        /\ \A e \in Entries : run[m].through[e] \in Int
      /\ run \in [Runs -> RunRow]
  BY DEF WatchTypeOK, Times, Watched, EntryRow, RunRow
<1>1. ASSUME NEW raw \in Spellings, AddEntry(raw) PROVE WatermarkInv'
  <2>1. PICK e \in Entries : entry[e].state = "absent"
              /\ entry' = [entry EXCEPT ![e] =
                    [state |-> "watched", value |-> Normal[raw], through |-> Never]]
    <3>1. PICK g \in Entries : (\A f \in Entries : entry[f].state = "absent" <=> f >= g)
              /\ entry' = [entry EXCEPT ![g] =
                    [state |-> "watched", value |-> Normal[raw], through |-> Never]]
      BY <1>1 DEF AddEntry
    <3>2. g \in Int
      BY WatchAssumption DEF Entries
    <3>3. entry[g].state = "absent"
      BY <3>1, <3>2
    <3> QED
      BY <3>1, <3>3
  <2>2. UNCHANGED <<clock, record, match, run>>
    BY <1>1 DEF AddEntry
  <2>3. entry \in [Entries -> EntryRow]
    BY DEF WatchTypeOK
  <2>4. entry'[e].through = Never /\ entry'[e].state = "watched"
        /\ \A f \in Entries \ {e} : entry'[f] = entry[f]
    BY <2>1, <2>3
  <2>5. Watched' = Watched \cup {e} /\ e \notin Watched
    BY <2>1, <2>4 DEF Watched
  <2>6. ASSUME NEW f \in Watched' PROVE (Behind(entry[f].through) /\ Honest(f, entry[f].through))'
    <3>1. CASE f = e
      <4>1. (\A r \in Records : record[r].seen \in Nat)
        BY DEF WatchTypeOK, RecordRow, Times
      <4> QED
        BY <2>2, <2>4, <3>1, <4>1 DEF Behind, Honest, Never
    <3>2. CASE f # e
      <4>1. f \in Watched /\ entry'[f] = entry[f]
        BY <1>0, <2>4, <2>5, <3>2
      <4>2. Behind(entry[f].through) /\ Honest(f, entry[f].through)
        BY <4>1 DEF WatermarkInv
      <4> QED
        BY <2>2, <4>1, <4>2 DEF Behind, Honest
    <3> QED
      BY <3>1, <3>2
  <2>7. ASSUME NEW m \in Runs, NEW f \in run'[m].todo
        PROVE  (/\ entry[f].state # "absent"
                /\ Behind(run[m].through[f])
                /\ f \in Watched => Honest(f, run[m].through[f]))'
    <3>1. f \in run[m].todo /\ f \in Entries /\ entry[f].state # "absent" /\ f # e
      BY <1>0, <2>1, <2>2 DEF WatermarkInv
    <3>2. entry'[f] = entry[f] /\ (f \in Watched' => f \in Watched)
      BY <2>4, <2>5, <3>1
    <3>3. Behind(run[m].through[f]) /\ (f \in Watched => Honest(f, run[m].through[f]))
      BY <3>1 DEF WatermarkInv
    <3> QED
      BY <2>2, <3>1, <3>2, <3>3 DEF Behind, Honest
  <2> QED
    BY <2>6, <2>7 DEF WatermarkInv
<1>2. ASSUME NEW e \in Entries, RemoveEntry(e) PROVE WatermarkInv'
  <2>1. /\ UNCHANGED <<clock, record, run>>
        /\ e \in Watched
        /\ entry'[e].state = "gone"
        /\ \A f \in Entries \ {e} : entry'[f] = entry[f] /\ match'[f] = match[f]
    BY <1>2 DEF RemoveEntry, WatchTypeOK, NoEntry
  <2>2. Watched' = Watched \ {e}
    BY <2>1 DEF Watched
  <2>3. ASSUME NEW f \in Watched' PROVE (Behind(entry[f].through) /\ Honest(f, entry[f].through))'
    <3>1. f \in Watched /\ f \in Entries \ {e}
      BY <1>0, <2>2
    <3>2. Behind(entry[f].through) /\ Honest(f, entry[f].through)
      BY <3>1 DEF WatermarkInv
    <3> QED
      BY <2>1, <3>1, <3>2 DEF Behind, Honest
  <2>4. ASSUME NEW m \in Runs, NEW f \in run'[m].todo
        PROVE  (/\ entry[f].state # "absent"
                /\ Behind(run[m].through[f])
                /\ f \in Watched => Honest(f, run[m].through[f]))'
    <3>1. f \in run[m].todo /\ f \in Entries
      BY <1>0, <2>1
    <3>2. /\ Behind(run[m].through[f]) /\ entry[f].state # "absent"
          /\ f \in Watched => Honest(f, run[m].through[f])
      BY <3>1 DEF WatermarkInv
    <3>3. entry'[f].state # "absent"
      BY <2>1, <3>1, <3>2
    <3> QED
      BY <2>1, <2>2, <3>1, <3>2, <3>3 DEF Behind, Honest
  <2> QED
    BY <2>3, <2>4 DEF WatermarkInv
<1>3. ASSUME NEW es \in SUBSET Entries, AcknowledgeAll(es) PROVE WatermarkInv'
  <2>1. \A e \in Entries, r \in Records :
            match'[e][r] = IF e \in es /\ match[e][r] = "unread" THEN "read" ELSE match[e][r]
    BY <1>3 DEF AcknowledgeAll
  <2> QED
    BY <1>0, <1>3, <2>1, WatermarkKept DEF AcknowledgeAll
<1>4. ASSUME NEW e \in Entries, NEW r \in Records, Acknowledge(e, r) PROVE WatermarkInv'
  <2>1. \A f \in Entries, s \in Records : match[f][s] # "none" => match'[f][s] # "none"
    BY <1>4 DEF Acknowledge, WatchTypeOK
  <2> QED
    BY <1>0, <1>4, <2>1, WatermarkKept DEF Acknowledge
<1>8. CASE Tick
  BY <1>0, <1>8, WatermarkKept DEF Tick
<1>10. ASSUME NEW m \in Runs, EndRun(m) PROVE WatermarkInv'
  <2>1. UNCHANGED <<clock, record, entry, match>> /\ run'[m].todo = {}
        /\ \A k \in Runs \ {m} : run'[k] = run[k]
    BY <1>0, <1>10 DEF EndRun, NoRun
  <2>2. Watched' = Watched
    BY <2>1 DEF Watched
  <2> QED
    BY <2>1, <2>2 DEF WatermarkInv, Behind, Honest
<1>14. CASE UNCHANGED vars
  BY <1>14 DEF vars, WatermarkInv, Behind, Honest, Watched

<1>5. ASSUME NEW r \in Records, NEW vs \in SUBSET Values, BeginInsert(r, vs) PROVE WatermarkInv'
  <2>1. /\ record'[r].seen = clock
        /\ \A q \in Records \ {r} : record'[q] = record[q]
        /\ UNCHANGED <<clock, entry, match, run>>
    BY <1>5 DEF BeginInsert, WatchTypeOK
  <2>2. ASSUME NEW e \in Entries, NEW t \in Int, Behind(t), Honest(e, t) PROVE Honest(e, t)'
    <3>1. ~(record'[r].seen <= t)
      BY <1>0, <2>1, <2>2, AheadOfWatermarks DEF TimesInOrder
    <3> QED
      BY <2>1, <2>2, <3>1 DEF Honest
  <2> QED
    BY <1>0, <2>1, <2>2, RecordsKeep
<1>6. ASSUME NEW r \in Records, NEW vs \in SUBSET Values, Upsert(r, vs) PROVE WatermarkInv'
  <2>1. /\ record'[r].seen = record[r].seen /\ record'[r].state = record[r].state
        /\ record'[r].lasting \subseteq record[r].lasting
        /\ \A q \in Records \ {r} : record'[q] = record[q]
        /\ UNCHANGED <<clock, entry, match, run>>
    BY <1>6 DEF Upsert, WatchTypeOK, RecordRow
  <2>2. ASSUME NEW e \in Entries, NEW t \in Int, Behind(t), Honest(e, t) PROVE Honest(e, t)'
    BY <2>1, <2>2 DEF Honest
  <2> QED
    BY <1>0, <2>1, <2>2, RecordsKeep
<1>7. ASSUME NEW r \in Records, CommitInsert(r) PROVE WatermarkInv'
  <2>1. /\ record'[r].seen = record[r].seen /\ record[r].state = "open"
        /\ record'[r].lasting = record[r].lasting
        /\ \A q \in Records \ {r} : record'[q] = record[q]
        /\ UNCHANGED <<clock, entry, match, run>>
    BY <1>7 DEF CommitInsert, WatchTypeOK, RecordRow
  <2>2. ASSUME NEW e \in Entries, NEW t \in Int, Behind(t), Honest(e, t) PROVE Honest(e, t)'
    BY <2>1, <2>2 DEF Honest
  <2> QED
    BY <1>0, <2>1, <2>2, RecordsKeep
<1>9. ASSUME NEW m \in Runs, StartRun(m) PROVE WatermarkInv'
  <2>1. /\ UNCHANGED <<clock, record, entry, match>>
        /\ run'[m].todo = Watched
        /\ \A e \in Watched : run'[m].through[e] = entry[e].through
        /\ \A k \in Runs \ {m} : run'[k] = run[k]
    BY <1>0, <1>9 DEF StartRun
  <2>2. Watched' = Watched /\ \A e \in Watched : entry[e].state # "absent"
    BY <2>1 DEF Watched
  <2>3. \A e \in Watched : (Behind(entry[e].through) /\ Honest(e, entry[e].through))'
    BY <2>1 DEF WatermarkInv, Behind, Honest
  <2>4. ASSUME NEW k \in Runs, NEW e \in run'[k].todo
        PROVE  (/\ entry[e].state # "absent"
                /\ Behind(run[k].through[e])
                /\ e \in Watched => Honest(e, run[k].through[e]))'
    <3>1. CASE k = m
      <4>1. e \in Watched /\ run'[k].through[e] = entry[e].through
        BY <2>1, <3>1
      <4>2. Behind(entry[e].through) /\ Honest(e, entry[e].through)
        BY <4>1 DEF WatermarkInv
      <4> QED
        BY <2>1, <2>2, <4>1, <4>2 DEF Behind, Honest
    <3>2. CASE k # m
      BY <2>1, <2>2, <3>2 DEF WatermarkInv, Behind, Honest
    <3> QED
      BY <3>1, <3>2
  <2> QED
    BY <2>2, <2>3, <2>4 DEF WatermarkInv
<1>11. ASSUME NEW m \in Runs, NEW e \in Entries, MatchEntry(m, e) PROVE WatermarkInv'
  <2>1. /\ UNCHANGED <<clock, record>> /\ e \in Watched
        /\ entry' = [entry EXCEPT ![e].through = Watermark(m)]
        /\ run' = [run EXCEPT ![m] = Past(m, e)]
    BY <1>11 DEF MatchEntry
  <2>2. /\ entry'[e].through = Watermark(m)
        /\ \A f \in Entries : entry'[f].state = entry[f].state /\ entry'[f].value = entry[f].value
        /\ \A f \in Entries \ {e} : entry'[f] = entry[f]
    BY <2>1 DEF WatchTypeOK, EntryRow
  <2>3. Watched' = Watched
    BY <2>2 DEF Watched
  <2>4. \A f \in Entries, r \in Records : match[f][r] # "none" => match'[f][r] # "none"
    BY <1>11 DEF MatchEntry, WatchTypeOK
  <2>5. \A k \in Runs : /\ run'[k].todo \subseteq run[k].todo
                        /\ \A f \in run'[k].todo : run'[k].through[f] = run[k].through[f]
    <3>1. Past(m, e).todo = run[m].todo \ {e}
          /\ \A f \in Entries \ {e} : Past(m, e).through[f] = run[m].through[f]
      BY <1>0 DEF Past, RunRow
    <3>2. run'[m] = Past(m, e) /\ \A k \in Runs \ {m} : run'[k] = run[k]
      BY <1>0, <2>1
    <3> QED
      BY <1>0, <3>1, <3>2
  <2>6. Behind(Watermark(m)) /\ Honest(e, entry[e].through)'
    BY <1>11, MatchedIsHonest
  <2>7. ASSUME NEW f \in Watched' PROVE (Behind(entry[f].through) /\ Honest(f, entry[f].through))'
    <3>1. CASE f = e
      BY <2>1, <2>2, <2>6, <3>1 DEF Behind
    <3>2. CASE f # e
      <4>1. f \in Watched /\ f \in Entries /\ entry'[f] = entry[f]
        BY <1>0, <2>2, <2>3, <3>2
      <4>2. Behind(entry[f].through) /\ Honest(f, entry[f].through)
        BY <4>1 DEF WatermarkInv
      <4> QED
        BY <2>1, <2>4, <4>1, <4>2 DEF Behind, Honest
    <3> QED
      BY <3>1, <3>2
  <2>8. ASSUME NEW k \in Runs, NEW f \in run'[k].todo
        PROVE  (/\ entry[f].state # "absent"
                /\ Behind(run[k].through[f])
                /\ f \in Watched => Honest(f, run[k].through[f]))'
    <3>1. f \in run[k].todo /\ f \in Entries /\ run'[k].through[f] = run[k].through[f]
      BY <1>0, <2>5
    <3>2. /\ Behind(run[k].through[f]) /\ entry[f].state # "absent"
          /\ f \in Watched => Honest(f, run[k].through[f])
      BY <3>1 DEF WatermarkInv
    <3> QED
      BY <2>1, <2>2, <2>3, <2>4, <3>1, <3>2 DEF Behind, Honest
  <2> QED
    BY <2>7, <2>8 DEF WatermarkInv
<1>12. ASSUME NEW m \in Runs, NEW e \in Entries, EntryIsGone(m, e) PROVE WatermarkInv'
  <2>1. /\ UNCHANGED <<clock, record, entry, match>>
        /\ run' = [run EXCEPT ![m] = Past(m, e)] \/ run' = [run EXCEPT ![m] = NoRun]
    BY <1>12 DEF EntryIsGone
  <2>2. Watched' = Watched
    BY <2>1 DEF Watched
  <2>3. \A k \in Runs : /\ run'[k].todo \subseteq run[k].todo
                        /\ \A f \in run'[k].todo : run'[k].through[f] = run[k].through[f]
    <3>1. Past(m, e).todo = run[m].todo \ {e}
          /\ \A f \in Entries \ {e} : Past(m, e).through[f] = run[m].through[f]
      BY <1>0 DEF Past, RunRow
    <3>2. run'[m] \in {Past(m, e), NoRun} /\ \A k \in Runs \ {m} : run'[k] = run[k]
      BY <1>0, <2>1
    <3> QED
      BY <1>0, <3>1, <3>2 DEF NoRun
  <2>4. ASSUME NEW k \in Runs, NEW f \in run'[k].todo
        PROVE  (/\ entry[f].state # "absent"
                /\ Behind(run[k].through[f])
                /\ f \in Watched => Honest(f, run[k].through[f]))'
    <3>1. f \in run[k].todo /\ run'[k].through[f] = run[k].through[f]
      BY <2>3
    <3> QED
      BY <2>1, <2>2, <3>1 DEF WatermarkInv, Behind, Honest
  <2>5. \A f \in Watched : (Behind(entry[f].through) /\ Honest(f, entry[f].through))'
    BY <2>1 DEF WatermarkInv, Behind, Honest
  <2> QED
    BY <2>2, <2>4, <2>5 DEF WatermarkInv
<1>13. CASE ResetWatermarks
  <2>1. /\ UNCHANGED <<clock, record, match, run>>
        /\ \A e \in Entries : /\ entry'[e].through = Never
                            /\ entry'[e].state = entry[e].state
                            /\ entry'[e].value = entry[e].value
    BY <1>13 DEF ResetWatermarks, WatchTypeOK, EntryRow
  <2>2. Watched' = Watched
    BY <2>1 DEF Watched
  <2>3. \A r \in Records : record[r].seen \in Nat
    BY DEF WatchTypeOK, RecordRow, Times
  <2>4. \A e \in Watched : (Behind(entry[e].through) /\ Honest(e, entry[e].through))'
    BY <1>0, <2>1, <2>3 DEF Behind, Honest, Never
  <2>5. ASSUME NEW k \in Runs, NEW f \in run'[k].todo
        PROVE  (/\ entry[f].state # "absent"
                /\ Behind(run[k].through[f])
                /\ f \in Watched => Honest(f, run[k].through[f]))'
    <3>1. f \in run[k].todo /\ f \in Entries
      BY <1>0, <2>1
    <3>2. /\ Behind(run[k].through[f]) /\ entry[f].state # "absent"
          /\ f \in Watched => Honest(f, run[k].through[f])
      BY <3>1 DEF WatermarkInv
    <3> QED
      BY <2>1, <2>2, <3>1, <3>2 DEF Behind, Honest
  <2> QED
    BY <2>2, <2>4, <2>5 DEF WatermarkInv
<1> QED
  BY <1>1, <1>2, <1>3, <1>4, <1>5, <1>6, <1>7, <1>8, <1>9, <1>10, <1>11, <1>12, <1>13, <1>14
  DEF Next

LEMMA WatermarkInit == Init => TimesInOrder /\ WatermarkInv
  BY OverlapCovers DEF Init, TimesInOrder, WatermarkInv, NoRecord, NoEntry, NoRun, Watched

\* Whatever runs overlap, crash or are reset, and however late a record commits,
\* a record that an entry's watermark has passed is among its matches.
THEOREM WatermarkTheorem == Spec => []WatermarkIsHonest
<1>1. WatermarkInv => WatermarkIsHonest
  BY DEF WatermarkInv, WatermarkIsHonest, Honest
<1> QED
  BY <1>1, WatchTypeInit, WatchTypeStep, WatermarkInit, TimesStep, WatermarkStep, PTL DEF Spec

-----------------------------------------------------------------------------
(* What has been read.                                                     *)

LEMMA ReadStep ==
    ASSUME WatchTypeOK, [Next]_vars, NEW e \in Entries, NEW r \in Records, match[e][r] = "read"
    PROVE  match'[e][r] = "read" \/ entry'[e].state = "gone"
<1>1. ASSUME NEW f \in Entries, RemoveEntry(f)
      PROVE  match'[e][r] = "read" \/ entry'[e].state = "gone"
  BY <1>1 DEF RemoveEntry, WatchTypeOK, NoEntry
<1>2. ASSUME NEW es \in SUBSET Entries, AcknowledgeAll(es) PROVE match'[e][r] = "read"
  BY <1>2 DEF AcknowledgeAll
<1>3. ASSUME NEW f \in Entries, NEW q \in Records, Acknowledge(f, q) PROVE match'[e][r] = "read"
  BY <1>3 DEF Acknowledge, WatchTypeOK
<1>4. ASSUME NEW m \in Runs, NEW f \in Entries, MatchEntry(m, f) PROVE match'[e][r] = "read"
  BY <1>4 DEF MatchEntry, WatchTypeOK
<1>5. CASE UNCHANGED match
  BY <1>5
<1> QED
  BY <1>1, <1>2, <1>3, <1>4, <1>5
  DEF Next, vars, AddEntry, BeginInsert, Upsert, CommitInsert, Tick, StartRun, EndRun,
      EntryIsGone, ResetWatermarks

\* No run of the matcher, and no reset, makes news of what has been read.
THEOREM ReadTheorem == Spec => ReadStaysRead
<1>1. WatchTypeOK /\ [Next]_vars =>
        [\A e \in Entries, r \in Records :
            match[e][r] = "read" => match'[e][r] = "read" \/ entry'[e].state = "gone"]_vars
  BY ReadStep
<1> QED
  BY <1>1, WatchTypeInit, WatchTypeStep, PTL DEF Spec, ReadStaysRead

=============================================================================
