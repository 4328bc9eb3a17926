--------------------------- MODULE ConsoleProofs ---------------------------
(***************************************************************************)
(* What Console keeps for any histories of writes and any bounds: the      *)
(* types; that rows are those the filters on screen ask for; that no list  *)
(* goes back to an older state of the table; and that a leak announced to  *)
(* a list is on its way there.  Then of the figures, for any history: the  *)
(* numbers in the drop-downs are those of the rows their filters give, the *)
(* bars of the chart count the leaks printed with their days, and the      *)
(* points and arcs of the map add up to what it says of itself.            *)
(***************************************************************************)
EXTENDS Console, FiniteSetTheorems, WellFoundedInduction, TLAPS

Answers == [key : Questions, of : Questions, r : 0 .. db, t : 0 .. db, stale : BOOLEAN]
Fetches == [q : Questions, sent : 0 .. db]

\* What is held under a key is the one answer to that question.
CacheOK ==
    /\ cache \subseteq Answers
    /\ \A e \in cache : e.key = e.of
    /\ \A d, e \in cache : d.key = e.key => d = e

\* One fetch is out for a question, and it was sent when the answer held had been
\* read: what it brings is no older.
FlightsOK ==
    /\ flights \subseteq Fetches
    /\ \A f, g \in flights : f.q = g.q => f = g
    /\ \A e \in cache, f \in flights : e.key = f.q => e.r <= f.sent /\ e.t <= f.sent

TabOK ==
    /\ hist \in DOMAIN Histories /\ db \in Versions /\ ask \in Questions
    /\ typed \in OfferedHas[hist] /\ timer \in BOOLEAN
    /\ failed \in BOOLEAN /\ stream \in BOOLEAN /\ faults \in 0 .. MaxFaults
    /\ last = NoQuestion \/ HasData(last)
    /\ signals \subseteq 1 .. db /\ announced \in 0 .. db

\* A list waits for what was announced to it only while it has its data on screen,
\* and every fetch it waits for has been sent since.
AnnouncedInv ==
    announced > 0 =>
        /\ HasData(ask)
        /\ \A f \in Out(flights, ask) : f.sent >= announced
        /\ failed \/ Out(flights, ask) # {}

ConsoleInv == TabOK /\ CacheOK /\ FlightsOK /\ AnnouncedInv

-----------------------------------------------------------------------------
(* The helpers.                                                            *)

\* The bounds, as the history that happens has them.
LEMMA Bounds ==
    ASSUME hist \in DOMAIN Histories
    PROVE  /\ Len(Writes) \in Nat /\ Before[hist] \in 0 .. Len(Writes)
           /\ Screens \subseteq Sections /\ Skew[hist] \in Nat
           /\ AnyValue \in OfferedIs[hist] /\ AnyValue \in OfferedHas[hist]
           /\ MaxFaults \in Nat /\ MaxPage \in Nat \ {0}
  BY ConsoleAssumption DEF Writes, Screens, IsHistory

\* The event heard is one that is on its way.
LEMMA LatestSignal ==
    ASSUME db \in Nat, signals \subseteq 1 .. db, signals # {}
    PROVE  (CHOOSE n \in signals : \A m \in signals : n <= m) \in signals
  <1> DEFINE Less == {p \in Nat \X Nat : p[1] < p[2]}
  <1>1. IsWellFoundedOn(Less, Nat)
    BY NatLessThanWellFounded DEF OpToRel
  <1> HIDE DEF Less
  <1>2. PICK n \in signals : \A m \in signals : ~(<<m, n>> \in Less)
    <2>1. signals \subseteq Nat
      OBVIOUS
    <2> QED BY <1>1, <2>1, WFMin
  <1>3. \A m \in signals : n <= m
    <2>1. SUFFICES ASSUME NEW m \in signals PROVE n <= m
      OBVIOUS
    <2>2. m \in Nat /\ n \in Nat
      OBVIOUS
    <2>3. m < n => <<m, n>> \in Less
      BY <2>2 DEF Less
    <2> QED BY <1>2, <2>2, <2>3
  <1> QED BY <1>3

\* What the page starts with is one of the questions.
LEMMA QuestionOK ==
    ASSUME hist \in DOMAIN Histories, NEW s \in Sections
    PROVE  Question(s) \in Questions
  BY Bounds DEF Question, Questions

\* Every section is shown by a page, whose search box waits or does not.
LEMMA WaitsType ==
    ASSUME NEW s \in Sections
    PROVE  PageOf(s).waits \in BOOLEAN
  <1>1. PageOf(s) \in Pages
    BY DEF PageOf, Sections
  <1>2. /\ LeaksPage.waits \in BOOLEAN /\ IncidentsPage.waits \in BOOLEAN
        /\ IocPage.waits \in BOOLEAN /\ ExposuresPage.waits \in BOOLEAN
        /\ MobileNumbersPage.waits \in BOOLEAN
    BY DEF LeaksPage, IncidentsPage, IocPage, ExposuresPage, MobileNumbersPage
  <1> QED BY <1>1, <1>2 DEF Pages

\* Sending a list's fetches anew leaves one out for it, which was sent just now if
\* the list has its data.
LEMMA RefetchedOK ==
    ASSUME ConsoleInv, NEW q \in Questions, NEW fs, fs = Refetched(flights, q)
    PROVE  /\ fs \subseteq Fetches
           /\ \A f, g \in fs : f.q = g.q => f = g
           /\ \A e \in cache, f \in fs : e.key = f.q => e.r <= f.sent /\ e.t <= f.sent
           /\ Out(fs, q) # {}
           /\ HasData(q) => \A f \in Out(fs, q) : f.sent = db
  <1> DEFINE new == [q |-> q, sent |-> db]
  <1>1. db \in Nat
    BY Bounds DEF ConsoleInv, TabOK, Versions
  <1>2. new \in Fetches /\ new.q = q /\ new.sent = db
    BY <1>1 DEF Fetches
  <1>3. \A e \in cache : e.r <= db /\ e.t <= db
    BY <1>1 DEF ConsoleInv, CacheOK, Answers
  <1> HIDE DEF new
  <1>4. CASE HasData(q) \/ Out(flights, q) = {}
    <2>1. fs = (flights \ Out(flights, q)) \cup {new}
      BY <1>4 DEF Refetched, new
    <2>2. \A f \in flights : f \notin Out(flights, q) => f.q # q
      BY DEF Out, Key
    <2>3. Out(fs, q) = {new}
      BY <1>2, <2>1, <2>2 DEF Out, Key
    <2> QED BY <1>2, <1>3, <2>1, <2>2, <2>3 DEF ConsoleInv, FlightsOK
  <1>5. CASE ~(HasData(q) \/ Out(flights, q) = {})
    <2>1. fs = flights
      BY <1>5 DEF Refetched
    <2> QED BY <1>5, <2>1 DEF ConsoleInv, FlightsOK
  <1> QED BY <1>4, <1>5

\* Another question on screen: what is held and out is kept for questions that
\* are asked, and nothing is waited for yet.
LEMMA RenderOK ==
    ASSUME ConsoleInv, NEW q \in Questions, NEW prior, prior \in {NoQuestion, last},
           Render(q, prior), typed' \in OfferedHas[hist], timer' \in BOOLEAN
    PROVE  ConsoleInv'
  <1>1. /\ hist' = hist /\ db' = db /\ ask' = q /\ failed' = FALSE /\ announced' = 0
        /\ UNCHANGED <<stream, signals, faults>>
        /\ cache' \subseteq cache
        /\ \A e \in cache : e.key = q \/ (prior # NoQuestion /\ e.key = prior) => e \in cache'
    BY DEF Render, Key
  <1>2. Questions' = Questions /\ Answers' = Answers /\ Fetches' = Fetches /\ Versions' = Versions
    BY <1>1 DEF Questions, Answers, Fetches, Versions, Writes
  <1>3. db \in Nat
    BY Bounds DEF ConsoleInv, TabOK, Versions
  <1>4. (last = NoQuestion \/ HasData(last))'
    <2>1. CASE HasData(q)
      BY <1>1, <2>1 DEF Render, HasData, Held, Key
    <2>2. CASE ~HasData(q)
      <3>1. last' = prior
        BY <2>2 DEF Render
      <3> QED BY <1>1, <3>1 DEF ConsoleInv, TabOK, HasData, Held, Key
    <2> QED BY <2>1, <2>2
  <1>5. TabOK'
    <2>1. /\ hist' \in DOMAIN Histories /\ db' \in Versions' /\ ask' \in Questions'
          /\ typed' \in OfferedHas[hist'] /\ timer' \in BOOLEAN
          /\ failed' \in BOOLEAN /\ stream' \in BOOLEAN /\ faults' \in 0 .. MaxFaults
      BY <1>1, <1>2 DEF ConsoleInv, TabOK
    <2>2. signals' \subseteq 1 .. db' /\ announced' \in 0 .. db'
      BY <1>1, <1>3 DEF ConsoleInv, TabOK
    <2> QED BY <1>4, <2>1, <2>2 DEF TabOK
  <1>6. CacheOK'
    BY <1>1, <1>2 DEF ConsoleInv, CacheOK
  <1>7. FlightsOK'
    <2> DEFINE new == [q |-> q, sent |-> db]
    <2>1. new \in Fetches /\ new.q = q /\ new.sent = db
      BY <1>3 DEF Fetches
    <2>2. \A e \in cache : e.r <= db /\ e.t <= db
      BY <1>3 DEF ConsoleInv, CacheOK, Answers
    <2>3. flights' = flights \/ (Out(flights, q) = {} /\ flights' = flights \cup {new})
      BY DEF Render
    <2> HIDE DEF new
    <2>4. CASE flights' = flights
      BY <1>1, <1>2, <2>4 DEF ConsoleInv, FlightsOK
    <2>5. CASE Out(flights, q) = {} /\ flights' = flights \cup {new}
      <3>1. \A f \in flights : f.q # q
        BY <2>5 DEF Out, Key
      <3> QED BY <1>1, <1>2, <2>1, <2>2, <2>5, <3>1 DEF ConsoleInv, FlightsOK
    <2> QED BY <2>3, <2>4, <2>5
  <1>8. AnnouncedInv'
    BY <1>1 DEF AnnouncedInv
  <1> QED BY <1>5, <1>6, <1>7, <1>8 DEF ConsoleInv

-----------------------------------------------------------------------------
(* The invariant, action by action.                                        *)

LEMMA ConsoleInvInit == ConsoleInit => ConsoleInv
  <1> SUFFICES ASSUME ConsoleInit PROVE ConsoleInv
    OBVIOUS
  <1>1. hist \in DOMAIN Histories
    BY DEF ConsoleInit
  <1>2. PICK s \in Sections : ask = Question(s)
    <2>1. "leaks" \in Sections
      BY DEF Sections, Pages, LeaksPage
    <2> QED BY <1>1, <2>1, Bounds DEF ConsoleInit
  <1>3. ask \in Questions
    BY <1>1, <1>2, QuestionOK
  <1>4. Page.waits \in BOOLEAN
    BY <1>3, WaitsType DEF Questions, Page
  <1>5. db \in Nat /\ db \in Versions
    BY <1>1, Bounds DEF ConsoleInit, Versions
  <1>6. TabOK
    <2>1. /\ typed \in OfferedHas[hist] /\ timer \in BOOLEAN /\ last = NoQuestion
          /\ failed \in BOOLEAN /\ stream \in BOOLEAN
      BY <1>1, <1>4, Bounds DEF ConsoleInit
    <2>2. faults \in 0 .. MaxFaults /\ signals \subseteq 1 .. db /\ announced \in 0 .. db
      BY <1>1, <1>5, Bounds DEF ConsoleInit
    <2> QED BY <1>1, <1>3, <1>5, <2>1, <2>2 DEF TabOK
  <1>7. CacheOK
    BY DEF ConsoleInit, CacheOK
  <1>8. FlightsOK
    BY <1>3, <1>5 DEF ConsoleInit, FlightsOK, Fetches
  <1>9. AnnouncedInv
    BY DEF ConsoleInit, AnnouncedInv
  <1> QED BY <1>6, <1>7, <1>8, <1>9 DEF ConsoleInv

\* A write that is committed, and the stream: answers and fetches are as they were.
LEMMA WritesAndStreamOK ==
    ASSUME ConsoleInv, Commit \/ DropStream \/ Reconnect
    PROVE  ConsoleInv'
  <1>1. /\ UNCHANGED <<hist, tabVars, announced>>
        /\ db' \in {db, db + 1} /\ (db' # db => db < Len(Writes) /\ UNCHANGED <<faults, stream>>)
        /\ signals' \in {signals, {}, signals \cup {db'}}
        /\ signals' = signals \/ signals' = {} \/ db' = db + 1
        /\ stream' \in {stream, TRUE, FALSE}
        /\ faults' = faults \/ (faults < MaxFaults /\ faults' = faults + 1)
    BY DEF Commit, DropStream, Reconnect
  <1>2. db \in Nat /\ Len(Writes) \in Nat /\ MaxFaults \in Nat
    BY Bounds DEF ConsoleInv, TabOK, Versions
  <1>3. Questions' = Questions /\ Versions' = Versions /\ db' \in Versions
    BY <1>1, <1>2 DEF Questions, Versions, Writes, ConsoleInv, TabOK
  <1>4. Answers \subseteq Answers' /\ Fetches \subseteq Fetches'
    BY <1>1, <1>2, <1>3 DEF Answers, Fetches
  <1>5. signals' \subseteq 1 .. db' /\ announced' \in 0 .. db'
    BY <1>1, <1>2 DEF ConsoleInv, TabOK
  <1>6. /\ hist' \in DOMAIN Histories /\ ask' \in Questions' /\ typed' \in OfferedHas[hist']
        /\ timer' \in BOOLEAN /\ failed' \in BOOLEAN
        /\ (last = NoQuestion \/ HasData(last))'
    BY <1>1, <1>3 DEF ConsoleInv, TabOK, tabVars, HasData, Held, Key
  <1>7. stream' \in BOOLEAN /\ faults' \in 0 .. MaxFaults
    <2>1. stream \in BOOLEAN /\ faults \in 0 .. MaxFaults
      BY DEF ConsoleInv, TabOK
    <2>2. stream' \in BOOLEAN
      BY <1>1, <2>1
    <2> QED BY <1>1, <1>2, <2>1, <2>2
  <1>8. TabOK'
    BY <1>3, <1>5, <1>6, <1>7 DEF TabOK
  <1>9. CacheOK' /\ FlightsOK'
    BY <1>1, <1>4 DEF ConsoleInv, CacheOK, FlightsOK, tabVars
  <1>10. AnnouncedInv'
    BY <1>1 DEF ConsoleInv, AnnouncedInv, tabVars, HasData, Held, Out, Key
  <1> QED BY <1>8, <1>9, <1>10 DEF ConsoleInv

\* A list that is fetched anew, and what was announced to it.
LEMMA RefetchStepOK ==
    ASSUME ConsoleInv, flights' = Refetched(flights, ask), failed' \in BOOLEAN,
           cache' = cache, announced' = announced,
           announced > 0 /\ HasData(ask) => failed' = failed,
           UNCHANGED <<hist, db, ask, typed, timer, last, stream, signals, faults>>
    PROVE  ConsoleInv'
  <1>1. ask \in Questions /\ db \in Nat /\ announced \in 0 .. db
    BY Bounds DEF ConsoleInv, TabOK, Versions
  <1>2. /\ flights' \subseteq Fetches
        /\ \A f, g \in flights' : f.q = g.q => f = g
        /\ \A e \in cache, f \in flights' : e.key = f.q => e.r <= f.sent /\ e.t <= f.sent
        /\ Out(flights', ask) # {}
        /\ HasData(ask) => \A f \in Out(flights', ask) : f.sent = db
    BY <1>1, RefetchedOK
  <1>3. Questions' = Questions /\ Answers' = Answers /\ Fetches' = Fetches /\ Versions' = Versions
    BY DEF Questions, Answers, Fetches, Versions, Writes
  <1>4. TabOK'
    BY <1>3 DEF ConsoleInv, TabOK, HasData, Held, Key
  <1>5. CacheOK' /\ FlightsOK'
    BY <1>2, <1>3 DEF ConsoleInv, CacheOK, FlightsOK
  <1>6. AnnouncedInv'
    BY <1>1, <1>2 DEF ConsoleInv, AnnouncedInv, HasData, Held, Out, Key
  <1> QED BY <1>4, <1>5, <1>6 DEF ConsoleInv

LEMMA PollFocusRetryOK ==
    ASSUME ConsoleInv, Poll \/ Focus \/ Retry
    PROVE  ConsoleInv'
  <1>1. failed \in BOOLEAN /\ HasData(ask) \in BOOLEAN
    BY DEF ConsoleInv, TabOK, HasData
  <1>2. CASE Refetch
    BY <1>1, <1>2, RefetchStepOK DEF Refetch, liveVars
  <1>3. CASE Retry
    <2>1. failed
      BY <1>1, <1>3 DEF Retry, Screen
    <2> QED BY <1>1, <1>3, <2>1, RefetchStepOK DEF Retry, liveVars
  <1> QED BY <1>2, <1>3 DEF Poll, Focus

\* An event of the stream: the leak lists are stale, and the one on screen waits.
LEMMA LeakInsertedOK ==
    ASSUME ConsoleInv, LeakInserted
    PROVE  ConsoleInv'
  <1> DEFINE v == CHOOSE n \in signals : \A m \in signals : n <= m
             Staled(e) == [e EXCEPT !.stale = @ \/ e.key.section = "leaks"]
  <1>1. /\ ask \in Questions /\ db \in Nat /\ announced \in 0 .. db /\ signals \subseteq 1 .. db
        /\ failed \in BOOLEAN /\ signals # {}
    BY Bounds DEF ConsoleInv, TabOK, Versions, LeakInserted
  <1>2. v \in 1 .. db
    BY <1>1, LatestSignal
  <1> HIDE DEF v
  <1>3. /\ signals' \subseteq signals
        /\ announced' = IF ask.section = "leaks" /\ HasData(ask) THEN v ELSE announced
        /\ cache' = {Staled(e) : e \in cache}
        /\ UNCHANGED <<hist, db, ask, typed, timer, last, stream, faults>>
    BY DEF LeakInserted, v
  <1>4. Questions' = Questions /\ Answers' = Answers /\ Fetches' = Fetches /\ Versions' = Versions
    BY <1>3 DEF Questions, Answers, Fetches, Versions, Writes
  <1>5. \A e \in cache : /\ Staled(e) \in Answers /\ Staled(e).key = e.key /\ Staled(e).of = e.of
                         /\ Staled(e).r = e.r /\ Staled(e).t = e.t
    BY DEF ConsoleInv, CacheOK, Answers
  <1> HIDE DEF Staled
  <1>6. CacheOK'
    BY <1>3, <1>4, <1>5 DEF ConsoleInv, CacheOK
  <1>7. \A q : HasData(q)' <=> HasData(q)
    BY <1>3, <1>5 DEF HasData, Held, Key
  <1>8. /\ flights' \subseteq Fetches
        /\ \A f, g \in flights' : f.q = g.q => f = g
        /\ \A e \in cache, f \in flights' : e.key = f.q => e.r <= f.sent /\ e.t <= f.sent
    <2>1. CASE ask.section = "leaks"
      BY <1>1, <2>1, RefetchedOK DEF LeakInserted
    <2>2. CASE ask.section # "leaks"
      BY <2>2 DEF LeakInserted, ConsoleInv, FlightsOK
    <2> QED BY <2>1, <2>2
  <1>9. FlightsOK'
    BY <1>3, <1>4, <1>5, <1>8 DEF FlightsOK
  <1>10. TabOK'
    <2>1. failed' \in BOOLEAN
      BY <1>1 DEF LeakInserted, HasData
    <2>2. announced' \in 0 .. db' /\ signals' \subseteq 1 .. db'
      BY <1>1, <1>2, <1>3
    <2>3. (last = NoQuestion \/ HasData(last))'
      BY <1>3, <1>7 DEF ConsoleInv, TabOK, HasData, Held, Key
    <2> QED BY <1>3, <1>4, <2>1, <2>2, <2>3 DEF ConsoleInv, TabOK
  <1>11. AnnouncedInv'
    <2>1. CASE ask.section = "leaks" /\ HasData(ask)
      <3>1. Out(flights', ask) # {} /\ \A f \in Out(flights', ask) : f.sent = db
        BY <1>1, <2>1, RefetchedOK DEF LeakInserted
      <3>2. HasData(ask)'
        BY <1>3, <1>5, <2>1 DEF HasData, Held, Key
      <3> QED BY <1>1, <1>2, <1>3, <2>1, <3>1, <3>2 DEF AnnouncedInv, Out, Key
    <2>2. CASE ~HasData(ask)
      BY <1>1, <1>3, <2>2 DEF AnnouncedInv, ConsoleInv
    <2>3. CASE ask.section # "leaks"
      <3>1. UNCHANGED <<flights, failed, ask, announced>>
        BY <1>3, <2>3 DEF LeakInserted
      <3>2. HasData(ask)' <=> HasData(ask)
        BY <1>3, <1>5 DEF HasData, Held, Key
      <3> QED BY <3>1, <3>2 DEF AnnouncedInv, ConsoleInv, Out, Key
    <2> QED BY <2>1, <2>2, <2>3
  <1> QED BY <1>6, <1>9, <1>10, <1>11 DEF ConsoleInv

\* What an answer leaves in the cache: itself in the place of what its key held,
\* unless nobody looks at it and there is no room.
LEMMA ReplyHeld ==
    ASSUME ConsoleInv, NEW f \in flights, Reply(f)
    PROVE  \E new \in Answers :
              /\ new.key = f.q /\ new.of = f.q
              /\ new.r \in f.sent .. db /\ new.t \in f.sent .. db
              /\ LET others == {e \in cache : e.key # f.q}
                 IN  \/ cache' = others \cup {new}
                     \/ cache' = cache /\ ~HasData(f.q) /\ f.q # ask
  <1> DEFINE others == {e \in cache : e.key # f.q}
  <1>1. f.q \in Questions /\ f.sent \in Nat /\ db \in Nat
    BY Bounds DEF ConsoleInv, TabOK, FlightsOK, Fetches, Versions
  <1>2. cache \ Held(cache, f.q) = others
    BY DEF Held, Key
  <1>3. PICK r \in f.sent .. db, t \in f.sent .. db :
           cache' = IF /\ ~HasData(f.q) /\ Key(f.q) # Key(ask)
                       /\ Cardinality(others) >= MaxHeld
                    THEN others
                    ELSE others \cup {[key |-> Key(f.q), of |-> f.q,
                                      r |-> r, t |-> t, stale |-> FALSE]}
    BY <1>2 DEF Reply
  <1> DEFINE new == [key |-> f.q, of |-> f.q, r |-> r, t |-> t, stale |-> FALSE]
  <1>4. new \in Answers
    BY <1>1 DEF Answers
  <1>5. ~HasData(f.q) => others = cache
    BY DEF HasData, Held, Key
  <1>6. \/ cache' = others \cup {new}
        \/ cache' = cache /\ ~HasData(f.q) /\ f.q # ask
    BY <1>3, <1>5 DEF Key
  <1> QED BY <1>4, <1>6

\* The last question answered is held, and none is held twice.
LEMMA ReplyOK ==
    ASSUME ConsoleInv, NEW f \in flights, Reply(f), flights' = flights \ {f},
           UNCHANGED <<hist, db, ask, typed, timer, stream, signals>>
    PROVE  ConsoleInv'
  <1> DEFINE others == {e \in cache : e.key # f.q}
  <1>1. PICK new \in Answers :
           /\ new.key = f.q /\ new.of = f.q
           /\ new.r \in f.sent .. db /\ new.t \in f.sent .. db
           /\ \/ cache' = others \cup {new}
              \/ cache' = cache /\ ~HasData(f.q) /\ f.q # ask
    BY ReplyHeld
  <1>2. Questions' = Questions /\ Answers' = Answers /\ Fetches' = Fetches /\ Versions' = Versions
    BY DEF Questions, Answers, Fetches, Versions, Writes
  <1>3. f.sent \in Nat /\ db \in Nat /\ announced \in 0 .. db
    BY Bounds DEF ConsoleInv, TabOK, FlightsOK, Fetches, Versions
  <1>4. /\ UNCHANGED faults
        /\ IF f.q = ask
           THEN /\ last' = ask /\ failed' = FALSE
                /\ announced' = IF \E e \in Held(cache', ask) :
                                      {e.r, e.t} \subseteq announced .. db
                                THEN 0 ELSE announced
           ELSE UNCHANGED <<last, failed, announced>>
    BY DEF Reply, Key
  <1>5. \A q : q # f.q /\ HasData(q) => HasData(q)'
    BY <1>1 DEF HasData, Held, Key
  <1>6. f.q = ask \/ HasData(f.q) => HasData(f.q)'
    BY <1>1 DEF HasData, Held, Key
  <1>7. CacheOK'
    BY <1>1, <1>2 DEF ConsoleInv, CacheOK
  <1>8. FlightsOK'
    BY <1>1, <1>2 DEF ConsoleInv, FlightsOK
  <1>9. (last = NoQuestion \/ HasData(last))'
    <2>1. CASE f.q = ask
      BY <1>4, <1>6, <2>1 DEF HasData, Held, Key
    <2>2. CASE f.q # ask /\ last = NoQuestion
      BY <1>4, <2>2
    <2>3. CASE f.q # ask /\ HasData(last)
      <3>1. last' = last
        BY <1>4, <2>3
      <3>2. \E e \in cache' : e.key = last
        BY <1>5, <1>6, <2>3 DEF HasData, Held, Key
      <3> QED BY <3>1, <3>2 DEF HasData, Held, Key
    <2> QED BY <2>1, <2>2, <2>3 DEF ConsoleInv, TabOK
  <1>10. TabOK'
    <2>1. failed' \in BOOLEAN
      <3>1. failed' \in {FALSE, failed} /\ failed \in BOOLEAN
        BY <1>4 DEF ConsoleInv, TabOK
      <3> QED BY <3>1
    <2>2. announced' \in 0 .. db'
      BY <1>3, <1>4
    <2> QED BY <1>2, <1>4, <1>9, <2>1, <2>2 DEF ConsoleInv, TabOK
  <1>11. AnnouncedInv'
    <2>1. CASE f.q = ask
      <3>1. announced > 0 => f.sent >= announced
        BY <2>1 DEF ConsoleInv, AnnouncedInv, Out, Key
      <3>2. announced > 0 => {new.r, new.t} \subseteq announced .. db
        BY <1>1, <1>3, <3>1
      <3>3. new \in Held(cache', ask)
        BY <1>1, <2>1 DEF Held, Key
      <3>4. announced' = 0
        BY <1>3, <1>4, <2>1, <3>2, <3>3
      <3> QED BY <3>4 DEF AnnouncedInv
    <2>2. CASE f.q # ask
      <3>1. UNCHANGED <<failed, announced, ask>> /\ (HasData(ask) => HasData(ask)')
        BY <1>4, <1>5, <2>2 DEF HasData, Held, Key
      <3>2. Out(flights', ask) = Out(flights, ask)
        BY <2>2 DEF Out, Key
      <3> QED BY <3>1, <3>2 DEF ConsoleInv, AnnouncedInv, Out, Key
    <2> QED BY <2>1, <2>2
  <1> QED BY <1>7, <1>8, <1>10, <1>11 DEF ConsoleInv

\* A question that fails is in error; what is held for it stays.
LEMMA FailOK ==
    ASSUME ConsoleInv, NEW f \in flights, Fail(f), flights' = flights \ {f},
           UNCHANGED <<hist, db, ask, typed, timer, stream, signals>>
    PROVE  ConsoleInv'
  <1>1. /\ UNCHANGED <<cache, last, announced>> /\ failed' = (failed \/ f.q = ask)
        /\ faults' = faults \/ (faults < MaxFaults /\ faults' = faults + 1)
    BY DEF Fail, Key
  <1>2. Questions' = Questions /\ Answers' = Answers /\ Fetches' = Fetches /\ Versions' = Versions
    BY DEF Questions, Answers, Fetches, Versions, Writes
  <1>3. faults' \in 0 .. MaxFaults
    BY <1>1, Bounds DEF ConsoleInv, TabOK
  <1>4. TabOK'
    BY <1>1, <1>2, <1>3 DEF ConsoleInv, TabOK, HasData, Held, Key
  <1>5. CacheOK' /\ FlightsOK'
    BY <1>1, <1>2 DEF ConsoleInv, CacheOK, FlightsOK
  <1>6. AnnouncedInv'
    <2>1. f.q = ask \/ Out(flights', ask) = Out(flights, ask)
      BY DEF Out, Key
    <2>2. Out(flights', ask) \subseteq Out(flights, ask)
      BY DEF Out
    <2> QED BY <1>1, <2>1, <2>2 DEF ConsoleInv, AnnouncedInv, HasData, Held, Out, Key
  <1> QED BY <1>4, <1>5, <1>6 DEF ConsoleInv

LEMMA AnswerOK ==
    ASSUME ConsoleInv, NEW f \in flights, Answer(f)
    PROVE  ConsoleInv'
  BY ReplyOK, FailOK DEF Answer

\* The search box, while the question stays.
LEMMA BoxOK ==
    ASSUME ConsoleInv, typed' \in OfferedHas[hist], timer' \in BOOLEAN,
           UNCHANGED <<hist, db, ask, last, failed, cache, flights, liveVars, faults>>
    PROVE  ConsoleInv'
  <1>1. Questions' = Questions /\ Answers' = Answers /\ Fetches' = Fetches /\ Versions' = Versions
    BY DEF Questions, Answers, Fetches, Versions, Writes
  <1>2. TabOK'
    BY <1>1 DEF ConsoleInv, TabOK, HasData, Held, Key, liveVars
  <1>3. CacheOK' /\ FlightsOK'
    BY <1>1 DEF ConsoleInv, CacheOK, FlightsOK
  <1>4. AnnouncedInv'
    BY DEF ConsoleInv, AnnouncedInv, HasData, Held, Out, Key, liveVars
  <1> QED BY <1>2, <1>3, <1>4 DEF ConsoleInv

\* Whatever the controls ask for is one of the questions.
LEMMA ControlsOK ==
    ASSUME ConsoleInv,
           Navigate \/ ChooseIs \/ ChooseHas \/ ClearFilters \/ Type \/ Debounce \/ TurnPage
    PROVE  ConsoleInv'
  <1>1. /\ hist \in DOMAIN Histories /\ ask \in Questions
        /\ typed \in OfferedHas[hist] /\ timer \in BOOLEAN
    BY DEF ConsoleInv, TabOK
  <1>2. 1 \in 0 .. MaxPage /\ AnyValue \in OfferedIs[hist] /\ AnyValue \in OfferedHas[hist]
    BY <1>1, Bounds
  <1>3. CASE Navigate
    <2>1. PICK s \in Screens \ {ask.section} :
             IF s \in Page.sections
             THEN Render([ask EXCEPT !.section = s], last) /\ UNCHANGED <<typed, timer>>
             ELSE /\ Render(Question(s), NoQuestion)
                  /\ typed' = AnyValue /\ timer' = PageOf(s).waits
      BY <1>3 DEF Navigate
    <2>2. s \in Sections
      BY <1>1, Bounds
    <2>3. [ask EXCEPT !.section = s] \in Questions /\ Question(s) \in Questions
      BY <1>1, <2>2, QuestionOK DEF Questions
    <2>4. CASE s \in Page.sections
      BY <1>1, <2>1, <2>3, <2>4, RenderOK
    <2>5. CASE s \notin Page.sections
      BY <1>2, <2>1, <2>2, <2>3, <2>5, RenderOK, WaitsType
    <2> QED BY <2>4, <2>5
  <1>4. CASE ChooseIs
    <2>1. PICK v \in OfferedIs[hist] : Render([ask EXCEPT !.is = v, !.page = 1], last)
      BY <1>4 DEF ChooseIs
    <2>2. [ask EXCEPT !.is = v, !.page = 1] \in Questions
      BY <1>1, <1>2 DEF Questions
    <2> QED BY <1>1, <1>4, <2>1, <2>2, RenderOK DEF ChooseIs
  <1>5. CASE ChooseHas
    <2>1. PICK v \in OfferedHas[hist] : Render([ask EXCEPT !.has = v, !.page = 1], last)
      BY <1>5 DEF ChooseHas
    <2>2. [ask EXCEPT !.has = v, !.page = 1] \in Questions
      BY <1>1, <1>2 DEF Questions
    <2> QED BY <1>1, <1>5, <2>1, <2>2, RenderOK DEF ChooseHas
  <1>6. CASE ClearFilters
    <2> DEFINE q == [Question(ask.section) EXCEPT !.has = IF Page.waits THEN ask.has ELSE @]
    <2>1. ask.section \in Sections /\ ask.has \in OfferedHas[hist]
      BY <1>1 DEF Questions
    <2>2. q \in Questions
      BY <1>1, <2>1, QuestionOK DEF Questions
    <2>3. Render(q, last) /\ typed' = AnyValue /\ timer' \in BOOLEAN
      BY <1>1, <1>6 DEF ClearFilters
    <2> QED BY <1>2, <2>2, <2>3, RenderOK
  <1>7. CASE Type
    BY <1>7, BoxOK DEF Type
  <1>8. CASE Debounce
    <2> DEFINE q == [ask EXCEPT !.has = typed, !.page = 1]
    <2>1. q \in Questions
      BY <1>1, <1>2 DEF Questions
    <2>2. typed' \in OfferedHas[hist] /\ timer' \in BOOLEAN
      BY <1>1, <1>8 DEF Debounce
    <2>3. CASE q = ask
      BY <1>8, <2>2, <2>3, BoxOK DEF Debounce
    <2>4. CASE q # ask
      BY <1>8, <2>1, <2>2, <2>4, RenderOK DEF Debounce
    <2> QED BY <2>3, <2>4
  <1>9. CASE TurnPage
    <2>1. PICK p : Render([ask EXCEPT !.page = p], last)
      BY <1>9 DEF TurnPage
    <2>2. p \in 0 .. MaxPage
      BY <1>1, <2>1 DEF Render, Questions
    <2>3. [ask EXCEPT !.page = p] \in Questions
      BY <1>1, <2>2 DEF Questions
    <2> QED BY <1>1, <1>9, <2>1, <2>3, RenderOK DEF TurnPage
  <1> QED BY <1>3, <1>4, <1>5, <1>6, <1>7, <1>8, <1>9

LEMMA ConsoleInvStep ==
    ASSUME ConsoleInv, [Next]_vars
    PROVE  ConsoleInv'
  <1>1. CASE UNCHANGED vars
    <2>1. /\ typed' \in OfferedHas[hist] /\ timer' \in BOOLEAN
          /\ UNCHANGED <<hist, db, ask, last, failed, cache, flights, liveVars, faults>>
      BY <1>1 DEF vars, tabVars, liveVars, ConsoleInv, TabOK
    <2> QED BY <2>1, BoxOK
  <1>2. CASE Next
    BY <1>2, WritesAndStreamOK, LeakInsertedOK, AnswerOK, PollFocusRetryOK, ControlsOK DEF Next
  <1> QED BY <1>1, <1>2

LEMMA ConsoleInvHolds == Spec => []ConsoleInv
  BY ConsoleInvInit, ConsoleInvStep, PTL DEF Spec

-----------------------------------------------------------------------------
(* What the tab keeps.                                                     *)

\* Every variable keeps its shape, one answer is held for a question, and the
\* placeholder is held.
THEOREM ConsoleTypes == Spec => []ConsoleTypeOK
  <1>1. ASSUME ConsoleInv
        PROVE  ConsoleTypeOK
    <2>1. ASSUME NEW e \in cache
          PROVE  /\ e.of \in Questions /\ {e.r, e.t} \subseteq 0 .. db
                 /\ Cardinality(Held(cache, e.of)) = 1
      <3>1. Held(cache, e.of) = {e}
        BY <1>1 DEF ConsoleInv, CacheOK, Held, Key
      <3> QED BY <1>1, <3>1, FS_Singleton DEF ConsoleInv, CacheOK, Answers
    <2>2. \A f \in flights : f.q \in Questions /\ f.sent \in 0 .. db
      BY <1>1 DEF ConsoleInv, FlightsOK, Fetches
    <2> QED BY <1>1, <2>1, <2>2 DEF ConsoleInv, TabOK, ConsoleTypeOK
  <1> QED BY <1>1, ConsoleInvHolds, PTL

\* Rows that are not the placeholder's are rows of the section, the filters and
\* the page on screen, however late their answer came.
THEOREM RowsAnswerTheFiltersHolds == Spec => []RowsAnswerTheFilters
  <1>1. ASSUME ConsoleInv
        PROVE  RowsAnswerTheFilters
    <2>1. \A e \in Held(cache, ask) : e.of = ask
      BY <1>1 DEF ConsoleInv, CacheOK, Held, Key
    <2> QED BY <2>1 DEF RowsAnswerTheFilters
  <1> QED BY <1>1, ConsoleInvHolds, PTL

\* A leak announced to a list that has its data on screen is brought by a fetch
\* sent after it was stored, or the page reports an error.
THEOREM AnnouncedIsOnItsWayHolds == Spec => []AnnouncedIsOnItsWay
  <1>1. ASSUME ConsoleInv
        PROVE  AnnouncedIsOnItsWay
    BY <1>1 DEF ConsoleInv, AnnouncedInv, AnnouncedIsOnItsWay
  <1> QED BY <1>1, ConsoleInvHolds, PTL

\* What the cache holds after a step is what it held, or an answer that replaces it.
LEMMA CacheMoves ==
    ASSUME ConsoleInv, [Next]_vars
    PROVE  \/ cache' \subseteq cache
           \/ LeakInserted
           \/ \E f \in flights : Reply(f)
  <1>1. ASSUME NEW f \in flights, Answer(f), ~Reply(f)
        PROVE  cache' = cache
    BY <1>1 DEF Answer, Fail
  <1>2. ASSUME NEW q, NEW prior, Render(q, prior)
        PROVE  cache' \subseteq cache
    BY <1>2 DEF Render
  <1>3. CASE Navigate \/ ChooseIs \/ ChooseHas \/ ClearFilters \/ TurnPage
    BY <1>2, <1>3 DEF Navigate, ChooseIs, ChooseHas, ClearFilters, TurnPage
  <1>4. CASE Debounce \/ Type
    BY <1>2, <1>4 DEF Debounce, Type
  <1>5. CASE Commit \/ DropStream \/ Reconnect \/ Poll \/ Focus \/ Retry \/ UNCHANGED vars
    BY <1>5 DEF Commit, DropStream, Reconnect, Poll, Focus, Refetch, Retry, vars, tabVars
  <1> QED BY <1>1, <1>3, <1>4, <1>5 DEF Next

\* No list goes back to an older state of the table: an answer was asked for when
\* the one it replaces had been read.
THEOREM ListNeverGoesBackHolds == Spec => ListNeverGoesBack
  <1> DEFINE Forward == \A e \in cache, later \in cache' :
                           e.key = later.key => later.r >= e.r /\ later.t >= e.t
  <1>1. ASSUME ConsoleInv, [Next]_vars
        PROVE  Forward
    <2>1. SUFFICES ASSUME NEW e \in cache, NEW later \in cache', e.key = later.key
                   PROVE  later.r >= e.r /\ later.t >= e.t
      OBVIOUS
    <2>2. e.r \in Nat /\ e.t \in Nat
      BY <1>1 DEF ConsoleInv, CacheOK, Answers
    <2>3. CASE later \in cache
      BY <1>1, <2>1, <2>2, <2>3 DEF ConsoleInv, CacheOK
    <2>4. CASE LeakInserted
      <3>1. PICK d \in cache : later = [d EXCEPT !.stale = @ \/ d.key.section = "leaks"]
        BY <2>1, <2>4 DEF LeakInserted
      <3>2. later.key = d.key /\ later.r = d.r /\ later.t = d.t
        BY <1>1, <3>1 DEF ConsoleInv, CacheOK, Answers
      <3> QED BY <1>1, <2>1, <2>2, <3>2 DEF ConsoleInv, CacheOK
    <2>5. ASSUME NEW f \in flights, Reply(f), later \notin cache
          PROVE  later.r >= e.r /\ later.t >= e.t
      <3>1. later.key = f.q /\ later.r \in f.sent .. db /\ later.t \in f.sent .. db
        BY <1>1, <2>1, <2>5, ReplyHeld
      <3>2. e.r <= f.sent /\ e.t <= f.sent /\ f.sent \in Nat /\ db \in Nat
        BY <1>1, <2>1, <3>1, Bounds DEF ConsoleInv, FlightsOK, Fetches, TabOK, Versions
      <3> QED BY <2>2, <3>1, <3>2
    <2> QED BY <1>1, <2>1, <2>3, <2>4, <2>5, CacheMoves
  <1>2. ConsoleInv /\ [Next]_vars => [Forward]_vars
    BY <1>1
  <1> QED BY <1>2, ConsoleInvHolds, PTL DEF Spec, ListNeverGoesBack

-----------------------------------------------------------------------------
(* The figures, for any history of writes.                                 *)

\* Each section is about its own table.
LEMMA FoundIn ==
    ASSUME NEW w, NEW q
    PROVE  /\ q.section = "leaks" => Found(w, q) = LeaksWhere(w, q)
           /\ q.section = "general" => Found(w, q) = IncidentsWhere(w, "general", q)
           /\ q.section = "iocs" => Found(w, q) = IocsWhere(w, q)
           /\ q.section = "exposures" => Found(w, q) = ExposuresWhere(w, q)
           /\ q.section = "mobile" => Found(w, q) = NumbersWhere(w, q)
  <1>1. CASE q.section = "leaks"
    BY <1>1 DEF Found
  <1>2. CASE q.section = "general"
    BY <1>2 DEF Found
  <1>3. CASE q.section = "iocs"
    BY <1>3 DEF Found
  <1>4. CASE q.section = "exposures"
    BY <1>4 DEF Found
  <1>5. CASE q.section = "mobile"
    BY <1>5 DEF Found
  <1> QED BY <1>1, <1>2, <1>3, <1>4, <1>5

\* A filter that is set compares; one that is not lets every row through.
LEMMA FilterSet ==
    ASSUME NEW w, NEW q
    PROVE  /\ q.is # AnyValue /\ q.has = AnyValue =>
                 /\ LeaksWhere(w, q) = {r \in Leaks(w) : Country(w, r) = q.is}
                 /\ IncidentsWhere(w, "general", q) = {r \in Leaks(w) : Country(w, r) = q.is}
                 /\ ExposuresWhere(w, q) = {r \in Exposures(w) : LeakTypeOf[r] = q.is}
           /\ q.is = AnyValue /\ q.has # AnyValue =>
                 /\ IncidentsWhere(w, "general", q)
                      = {r \in Leaks(w) : q.has \in IncidentTypes(w, r)}
                 /\ IocsWhere(w, q) = {r \in Iocs(w) : q.has \in TypesOf[r]}
                 /\ NumbersWhere(w, q) = {r \in Numbers(w) : q.has \in TypesOf[r]}
  <1>1. \A r : InSection("general", r)
    BY DEF InSection
  <1>2. ASSUME q.is # AnyValue, q.has = AnyValue
        PROVE  /\ LeaksWhere(w, q) = {r \in Leaks(w) : Country(w, r) = q.is}
               /\ IncidentsWhere(w, "general", q) = {r \in Leaks(w) : Country(w, r) = q.is}
               /\ ExposuresWhere(w, q) = {r \in Exposures(w) : LeakTypeOf[r] = q.is}
    BY <1>1, <1>2 DEF LeaksWhere, IncidentsWhere, BuildConditions, ExposuresWhere
  <1>3. ASSUME q.is = AnyValue, q.has # AnyValue
        PROVE  /\ IncidentsWhere(w, "general", q) = {r \in Leaks(w) : q.has \in IncidentTypes(w, r)}
               /\ IocsWhere(w, q) = {r \in Iocs(w) : q.has \in TypesOf[r]}
               /\ NumbersWhere(w, q) = {r \in Numbers(w) : q.has \in TypesOf[r]}
    BY <1>1, <1>3 DEF IncidentsWhere, BuildConditions, IocsWhere, NumbersWhere
  <1> QED BY <1>2, <1>3

\* The question of a section with one filter set.
LEMMA OneFilter ==
    ASSUME NEW s, NEW v
    PROVE  /\ [Question(s) EXCEPT !.is = v].section = s
           /\ [Question(s) EXCEPT !.is = v].is = v
           /\ [Question(s) EXCEPT !.is = v].has = AnyValue
           /\ [Question(s) EXCEPT !.has = v].section = s
           /\ [Question(s) EXCEPT !.has = v].is = AnyValue
           /\ [Question(s) EXCEPT !.has = v].has = v
  BY DEF Question

\* The number beside each choice of a drop-down is the number of rows the list
\* has when it is chosen, whatever has been inserted, located and classified.
THEOREM FacetsCountEveryHistory ==
    ASSUME NEW w
    PROVE  FacetsCount(w)
  <1>1. ASSUME NEW c \in Countries
        PROVE  /\ PerCountry(w, c) = Total(w, [Question("leaks") EXCEPT !.is = c])
               /\ PerCountry(w, c) = Total(w, [Question("general") EXCEPT !.is = c])
    <2>1. c # AnyValue
      BY FiguresAssumption
    <2>2. Found(w, [Question("leaks") EXCEPT !.is = c]) = {r \in Leaks(w) : Country(w, r) = c}
      <3> DEFINE q == [Question("leaks") EXCEPT !.is = c]
      <3>1. q.section = "leaks" /\ q.is = c /\ q.has = AnyValue
        BY OneFilter
      <3> HIDE DEF q
      <3>2. Found(w, q) = {r \in Leaks(w) : Country(w, r) = c}
        BY <2>1, <3>1, FoundIn, FilterSet
      <3> QED BY <3>2 DEF q
    <2>3. Found(w, [Question("general") EXCEPT !.is = c]) = {r \in Leaks(w) : Country(w, r) = c}
      <3> DEFINE q == [Question("general") EXCEPT !.is = c]
      <3>1. q.section = "general" /\ q.is = c /\ q.has = AnyValue
        BY OneFilter
      <3> HIDE DEF q
      <3>2. Found(w, q) = {r \in Leaks(w) : Country(w, r) = c}
        BY <2>1, <3>1, FoundIn, FilterSet
      <3> QED BY <3>2 DEF q
    <2> QED BY <2>2, <2>3 DEF PerCountry, Total
  <1>2. ASSUME NEW t \in UNION {TypesOf[r] : r \in Records}
        PROVE  /\ PerType(w, t) = Total(w, [Question("general") EXCEPT !.has = t])
               /\ \A r \in Found(w, [Question("general") EXCEPT !.has = t]) : t \in ShownTypes(w, r)
               /\ IocsPerTag(w, t) = Total(w, [Question("iocs") EXCEPT !.has = t])
               /\ NumbersPerThreat(w, t) = Total(w, [Question("mobile") EXCEPT !.has = t])
    <2>1. t # AnyValue
      BY FiguresAssumption
    <2>2. Found(w, [Question("general") EXCEPT !.has = t])
          = {r \in Leaks(w) : t \in IncidentTypes(w, r)}
      <3> DEFINE q == [Question("general") EXCEPT !.has = t]
      <3>1. q.section = "general" /\ q.has = t /\ q.is = AnyValue
        BY OneFilter
      <3> HIDE DEF q
      <3>2. Found(w, q) = {r \in Leaks(w) : t \in IncidentTypes(w, r)}
        BY <2>1, <3>1, FoundIn, FilterSet
      <3> QED BY <3>2 DEF q
    <2>3. Found(w, [Question("iocs") EXCEPT !.has = t]) = {r \in Iocs(w) : t \in TypesOf[r]}
      <3> DEFINE q == [Question("iocs") EXCEPT !.has = t]
      <3>1. q.section = "iocs" /\ q.has = t /\ q.is = AnyValue
        BY OneFilter
      <3> HIDE DEF q
      <3>2. Found(w, q) = {r \in Iocs(w) : t \in TypesOf[r]}
        BY <2>1, <3>1, FoundIn, FilterSet
      <3> QED BY <3>2 DEF q
    <2>4. Found(w, [Question("mobile") EXCEPT !.has = t]) = {r \in Numbers(w) : t \in TypesOf[r]}
      <3> DEFINE q == [Question("mobile") EXCEPT !.has = t]
      <3>1. q.section = "mobile" /\ q.has = t /\ q.is = AnyValue
        BY OneFilter
      <3> HIDE DEF q
      <3>2. Found(w, q) = {r \in Numbers(w) : t \in TypesOf[r]}
        BY <2>1, <3>1, FoundIn, FilterSet
      <3> QED BY <3>2 DEF q
    <2>5. \A r \in Found(w, [Question("general") EXCEPT !.has = t]) : t \in ShownTypes(w, r)
      BY <2>2 DEF ShownTypes
    <2> QED BY <2>2, <2>3, <2>4, <2>5 DEF PerType, IocsPerTag, NumbersPerThreat, Total
  <1>3. ASSUME NEW k \in {LeakTypeOf[r] : r \in Records}
        PROVE  ExposuresPerKind(w, k) = Total(w, [Question("exposures") EXCEPT !.is = k])
    <2>1. k # AnyValue
      BY FiguresAssumption
    <2>2. Found(w, [Question("exposures") EXCEPT !.is = k])
          = {r \in Exposures(w) : LeakTypeOf[r] = k}
      <3> DEFINE q == [Question("exposures") EXCEPT !.is = k]
      <3>1. q.section = "exposures" /\ q.is = k /\ q.has = AnyValue
        BY OneFilter
      <3> HIDE DEF q
      <3>2. Found(w, q) = {r \in Exposures(w) : LeakTypeOf[r] = k}
        BY <2>1, <3>1, FoundIn, FilterSet
      <3> QED BY <3>2 DEF q
    <2> QED BY <2>2 DEF ExposuresPerKind, Total
  <1> QED BY <1>1, <1>2, <1>3 DEF FacetsCount

\* The day of an instant.
LEMMA DayOf ==
    ASSUME NEW S \in Nat \ {0}, NEW x \in Nat, NEW d \in Nat
    PROVE  x >= d * S /\ x < (d + 1) * S <=> x \div S = d
  <1>1. x \div S \in Nat /\ x = S * (x \div S) + (x % S)
        /\ (x % S) \in 0 .. S - 1
    OBVIOUS
  <1> QED BY <1>1

\* What is written to a history.
LEMMA WriteOf ==
    ASSUME NEW w, IsHistory(w)
    PROVE  /\ Len(w) \in Nat /\ DOMAIN w = 1 .. Len(w)
           /\ \A i \in DOMAIN w :
                 /\ w[i].what # "tick" => w[i].of \in Records
                 /\ w[i].what = "insert" => w[i] = [what |-> "insert", of |-> w[i].of]
                 /\ w[i].what = "locate" => w[i].to \in Countries \cup {NoCountry}
  <1>1. w \in Seq(Write)
    BY DEF IsHistory
  <1>2. ASSUME NEW x \in Write
        PROVE  /\ x.what # "tick" => x.of \in Records
               /\ x.what = "insert" => x = [what |-> "insert", of |-> x.of]
               /\ x.what = "locate" => x.to \in Countries \cup {NoCountry}
    <2>1. CASE x \in [what : {"insert", "classify"}, of : Records]
      BY <2>1
    <2>2. CASE x \in [what : {"locate"}, of : Records, to : Countries \cup {NoCountry}]
      BY <2>2
    <2>3. CASE x \in [what : {"tick"}, of : {"clock"}]
      BY <2>3
    <2> QED BY <1>2, <2>1, <2>2, <2>3 DEF Write
  <1> QED BY <1>1, <1>2

\* The clock has ticked a finite number of times.
LEMMA Ticks ==
    ASSUME NEW w, IsHistory(w)
    PROVE  /\ IsFiniteSet({i \in DOMAIN w : w[i].what = "tick"})
           /\ Clock(w) \in Instants /\ Clock(w) \in Nat
  <1>1. IsFiniteSet({i \in DOMAIN w : w[i].what = "tick"})
    BY WriteOf, FS_Interval, FS_Subset
  <1> QED BY <1>1, FS_CardinalityType DEF Clock, IsHistory

\* A history up to some write is a history.
LEMMA PrefixIsHistory ==
    ASSUME NEW w, IsHistory(w), NEW n \in 0 .. Len(w)
    PROVE  LET v == SubSeq(w, 1, n)
           IN  /\ IsHistory(v) /\ Len(v) = n /\ \A i \in 1 .. n : v[i] = w[i]
               /\ Clock(v) <= Clock(w)
  <1> DEFINE v == SubSeq(w, 1, n)
             Ticked(x) == {i \in DOMAIN x : x[i].what = "tick"}
  <1>1. w \in Seq(Write) /\ Len(w) \in Nat /\ DOMAIN w = 1 .. Len(w)
    BY WriteOf DEF IsHistory
  <1>2. v \in Seq(Write) /\ Len(v) = n /\ DOMAIN v = 1 .. n /\ \A i \in 1 .. n : v[i] = w[i]
    BY <1>1
  <1> HIDE DEF v
  <1>3. Ticked(v) \subseteq Ticked(w)
    BY <1>1, <1>2
  <1>4. IsFiniteSet(Ticked(w)) /\ Clock(w) = Cardinality(Ticked(w)) /\ Clock(w) \in Instants
    BY Ticks DEF Clock
  <1>5. Clock(v) = Cardinality(Ticked(v))
    BY DEF Clock
  <1> HIDE DEF Ticked
  <1>6. Clock(v) <= Clock(w) /\ Clock(v) \in Nat
    BY <1>3, <1>4, <1>5, FS_Subset, FS_CardinalityType
  <1>7. Clock(v) \in Instants
    BY <1>4, <1>6, FiguresAssumption DEF Instants
  <1>8. \A i, j \in DOMAIN v : v[i] = v[j] /\ v[i].what = "insert" => i = j
    BY <1>1, <1>2 DEF IsHistory
  <1>9. IsHistory(v)
    BY <1>2, <1>7, <1>8 DEF IsHistory
  <1> QED BY <1>2, <1>6, <1>9 DEF v

\* Finitely many records are stored, and each is one of those that may be.
LEMMA LeaksAreFinite ==
    ASSUME NEW w, IsHistory(w)
    PROVE  IsFiniteSet(Leaks(w)) /\ Leaks(w) \subseteq Records
  <1> DEFINE I == {j \in DOMAIN w : w[j].what = "insert"}
             f == [i \in I |-> w[i].of]
  <1>1. IsFiniteSet(I)
    BY WriteOf, FS_Interval, FS_Subset
  <1>2. Happened(w, "insert") = {f[i] : i \in I}
    BY DEF Happened
  <1>3. f \in Surjection(I, {f[i] : i \in I})
    BY DEF Surjection
  <1>4. Happened(w, "insert") \subseteq Records
    BY WriteOf DEF Happened
  <1> HIDE DEF f, I
  <1>5. IsFiniteSet(Happened(w, "insert"))
    BY <1>1, <1>2, <1>3, FS_Surjection
  <1> QED BY <1>4, <1>5, FS_Subset DEF Leaks, Stored

\* A leak that is stored was inserted by one write, and first seen at an instant that
\* has passed.
LEMMA FirstSeenPassed ==
    ASSUME NEW w, IsHistory(w), NEW r \in Leaks(w)
    PROVE  /\ \E i \in DOMAIN w : /\ w[i] = [what |-> "insert", of |-> r]
                                 /\ FirstSeenAt(w, r) = Clock(SubSeq(w, 1, i))
           /\ FirstSeenAt(w, r) \in Instants /\ FirstSeenAt(w, r) <= Clock(w)
  <1> DEFINE i == CHOOSE j \in DOMAIN w : w[j] = [what |-> "insert", of |-> r]
  <1>1. \E j \in DOMAIN w : w[j] = [what |-> "insert", of |-> r]
    BY WriteOf DEF Leaks, Stored, Happened
  <1>2. i \in DOMAIN w /\ w[i] = [what |-> "insert", of |-> r] /\ i \in 0 .. Len(w)
    BY <1>1, WriteOf
  <1>3. FirstSeenAt(w, r) = Clock(SubSeq(w, 1, i))
    BY DEF FirstSeenAt
  <1> HIDE DEF i
  <1>4. Clock(SubSeq(w, 1, i)) <= Clock(w) /\ Clock(SubSeq(w, 1, i)) \in Instants
    BY <1>2, PrefixIsHistory, Ticks
  <1> QED BY <1>2, <1>3, <1>4

\* A leak stays as it was inserted.
LEMMA FirstSeenStays ==
    ASSUME NEW w, IsHistory(w), NEW n \in 0 .. Len(w), NEW r \in Leaks(SubSeq(w, 1, n))
    PROVE  r \in Leaks(w) /\ FirstSeenAt(SubSeq(w, 1, n), r) = FirstSeenAt(w, r)
  <1> DEFINE v == SubSeq(w, 1, n)
  <1>1. /\ IsHistory(v) /\ DOMAIN v = 1 .. n /\ DOMAIN w = 1 .. Len(w) /\ Len(w) \in Nat
        /\ \A i \in 1 .. n : v[i] = w[i]
    BY PrefixIsHistory, WriteOf
  <1>2. PICK i \in DOMAIN v : /\ v[i] = [what |-> "insert", of |-> r]
                             /\ FirstSeenAt(v, r) = Clock(SubSeq(v, 1, i))
    BY <1>1, FirstSeenPassed
  <1>3. w[i] = [what |-> "insert", of |-> r] /\ i \in DOMAIN w /\ KindOf[r] = "leak"
    BY <1>1, <1>2 DEF Leaks, Stored
  <1>4. r \in Leaks(w)
    <2>1. w[i].what = "insert" /\ w[i].of = r
      BY <1>3
    <2> QED BY <1>3, <2>1 DEF Leaks, Stored, Happened
  <1>5. PICK j \in DOMAIN w : /\ w[j] = [what |-> "insert", of |-> r]
                             /\ FirstSeenAt(w, r) = Clock(SubSeq(w, 1, j))
    BY <1>4, FirstSeenPassed
  <1>6. i = j
    <2>1. w[i].what = "insert" /\ w[i] = w[j]
      BY <1>3, <1>5
    <2> QED BY <1>3, <2>1 DEF IsHistory
  <1>7. SubSeq(v, 1, i) = SubSeq(w, 1, i)
    <2>1. w \in Seq(Write) /\ i \in 1 .. n
      BY <1>1, <1>2 DEF IsHistory
    <2> QED BY <2>1
  <1> QED BY <1>2, <1>4, <1>5, <1>6, <1>7

\* The bounds of the figures.
LEMMA FigureBounds ==
    /\ SlotsPerDay \in Nat \ {0} /\ MaxArcs \in Nat
    /\ Saving \in Nat /\ Saving <= SlotsPerDay
    /\ Instants \subseteq Nat
    /\ \A zone \in Zones : \A t \in Instants : zone[t] \in Nat
  <1>1. \A zone \in Zones : zone \in [Instants -> Nat]
    BY ZoneAssumption
  <1>2. \A zone \in Zones : \A t \in Instants : zone[t] \in Nat
    BY <1>1
  <1> QED BY <1>2, FiguresAssumption, ZoneAssumption DEF Instants

\* A longer span of slots has no fewer of them.
LEMMA Scaled ==
    ASSUME NEW S \in Nat \ {0}, NEW m \in Nat, NEW n \in Nat
    PROVE  /\ m <= n => S * m <= S * n
           /\ S * m < S * n => m < n
  <1>1. m <= n => S * m <= S * n
    <2>1. SUFFICES ASSUME m <= n PROVE S * m <= S * n
      OBVIOUS
    <2>2. PICK k \in Nat : n = m + k
      <3>1. n - m \in Nat /\ n = m + (n - m)
        BY <2>1
      <3> QED BY <3>1
    <2>3. S * k \in Nat /\ S * n = S * m + S * k
      BY <2>2
    <2> QED BY <2>3
  <1>2. n <= m => S * n <= S * m
    <2>1. SUFFICES ASSUME n <= m PROVE S * n <= S * m
      OBVIOUS
    <2>2. PICK k \in Nat : m = n + k
      <3>1. m - n \in Nat /\ m = n + (m - n)
        BY <2>1
      <3> QED BY <3>1
    <2>3. S * k \in Nat /\ S * m = S * n + S * k
      BY <2>2
    <2> QED BY <2>3
  <1> QED BY <1>1, <1>2

\* An instant and its day.
LEMMA InDays ==
    ASSUME NEW S \in Nat \ {0}
    PROVE  /\ \A a \in Nat : /\ a \div S \in Nat
                             /\ S * (a \div S) <= a /\ a < S * (a \div S) + S
           /\ \A a, b \in Nat : a <= b => a \div S <= b \div S
  <1>1. ASSUME NEW a \in Nat
        PROVE  /\ a \div S \in Nat /\ S * (a \div S) <= a /\ a < S * (a \div S) + S
    <2>1. a \div S \in Nat /\ a = S * (a \div S) + (a % S) /\ (a % S) \in 0 .. S - 1
      OBVIOUS
    <2> QED BY <2>1
  <1>2. ASSUME NEW a \in Nat, NEW b \in Nat, a <= b
        PROVE  a \div S <= b \div S
    <2> DEFINE p == a \div S
               q == b \div S
    <2>1. p \in Nat /\ q \in Nat /\ S * p <= a /\ b < S * q + S
      BY <1>1
    <2> HIDE DEF p, q
    <2>2. S * p < S * (q + 1)
      BY <1>2, <2>1
    <2>3. p < q + 1
      BY <2>1, <2>2, Scaled
    <2> QED BY <2>1, <2>3 DEF p, q
  <1> QED BY <1>1, <1>2

\* The days of a zone's calendar begin where PostgreSQL looks for their midnights, and
\* none comes back.
LEMMA DayBegins ==
    ASSUME NEW zone \in Zones, NEW t \in Instants
    PROVE  /\ DayIn(zone, t) \in Nat
           /\ \A u \in Instants : t <= u => DayIn(zone, t) <= DayIn(zone, u)
           /\ \A d \in Nat : Begun(zone, d, t) <=> d <= DayIn(zone, t)
  <1> DEFINE S == SlotsPerDay
  <1>1. S \in Nat \ {0} /\ Instants \subseteq Nat /\ \A u \in Instants : zone[u] \in Nat
    BY FigureBounds
  <1>2. \A u \in Instants : /\ DayIn(zone, u) \in Nat /\ zone[u] < S * DayIn(zone, u) + S
                            /\ S * DayIn(zone, u) <= zone[u]
    BY <1>1, InDays DEF DayIn
  <1>3. \A u, v \in Instants : u <= v => DayIn(zone, u) <= DayIn(zone, v)
    <2>1. SUFFICES ASSUME NEW u \in Instants, NEW v \in Instants, u <= v
                   PROVE  DayIn(zone, u) <= DayIn(zone, v)
      OBVIOUS
    <2>2. CASE u = v
      BY <1>2, <2>2
    <2>3. CASE u < v
      BY <2>3, ZoneAssumption
    <2> QED BY <1>1, <2>1, <2>2, <2>3
  <1>4. ASSUME NEW d \in Nat, d <= DayIn(zone, t)
        PROVE  Begun(zone, d, t)
    <2>1. S * d <= zone[t] /\ S * d = d * S /\ t \in 0 .. t
      <3>1. S * d <= S * DayIn(zone, t)
        BY <1>1, <1>2, <1>4, Scaled
      <3>2. S * d \in Nat /\ S * DayIn(zone, t) \in Nat
        BY <1>1, <1>2
      <3> QED BY <1>1, <1>2, <3>1, <3>2
    <2>2. ASSUME NEW u \in Instants, t < u, zone[u] = d * S
          PROVE  FALSE
      <3>1. zone[u] \div S = d
        <4>1. zone[u] < (d + 1) * S
          BY <1>1, <2>2
        <4> QED BY <1>1, <2>2, <4>1, DayOf
      <3>2. zone[u] = S * (zone[u] \div S) + (zone[u] % S) /\ zone[u] % S \in Nat
        BY <1>1
      <3>3. zone[u] % S = 0
        BY <1>1, <2>1, <2>2, <3>1, <3>2
      <3>4. DayIn(zone, t) < DayIn(zone, u)
        BY <2>2, <3>3, ZoneAssumption
      <3> QED BY <1>2, <1>4, <3>1, <3>4 DEF DayIn
    <2> QED BY <1>1, <2>1, <2>2 DEF Begun
  <1>5. ASSUME NEW d \in Nat, Begun(zone, d, t)
        PROVE  d <= DayIn(zone, t)
    <2>1. PICK u \in 0 .. t : zone[u] >= d * S
      BY <1>5 DEF Begun
    <2>2. u \in Instants /\ u <= t
      BY FiguresAssumption DEF Instants
    <2>3. S * d < S * (DayIn(zone, u) + 1)
      <3>1. S * (DayIn(zone, u) + 1) = S * DayIn(zone, u) + S /\ S * d = d * S /\ S * d \in Nat
        BY <1>1, <1>2, <2>2
      <3> QED BY <1>1, <1>2, <2>1, <2>2, <3>1
    <2>4. d < DayIn(zone, u) + 1
      BY <1>1, <1>2, <2>2, <2>3, Scaled
    <2> QED BY <1>2, <1>3, <2>2, <2>4
  <1> QED BY <1>2, <1>3, <1>4, <1>5

\* The clock and the days are numbers.
LEMMA DaysAreNat ==
    ASSUME NEW w, IsHistory(w), NEW zone \in Zones
    PROVE  /\ Today(w, zone) \in Nat
           /\ \A r \in Leaks(w) : PrintedDay(w, r, zone) \in 0 .. Today(w, zone)
  <1>1. Clock(w) \in Instants
    BY Ticks
  <1>2. \A r \in Leaks(w) : FirstSeenAt(w, r) \in Instants /\ FirstSeenAt(w, r) <= Clock(w)
    BY FirstSeenPassed
  <1> QED BY <1>1, <1>2, DayBegins DEF Today, PrintedDay

\* The bar of a day counts the leaks that the tables print that day beside, for
\* every order of arrivals and ticks and every zone.
THEOREM BarsAreDaysOfEveryHistory ==
    ASSUME NEW w, IsHistory(w), NEW zone \in Zones
    PROVE  BarsAreDays(w, zone)
  <1>1. SUFFICES ASSUME NEW d \in 0 .. Today(w, zone)
                 PROVE  PerDay(w, d, zone)
                          = Cardinality({r \in Leaks(w) : PrintedDay(w, r, zone) = d})
    BY DEF BarsAreDays
  <1>2. d \in Nat
    OBVIOUS
  <1>3. ASSUME NEW r \in Leaks(w)
        PROVE  /\ Begun(zone, d, FirstSeenAt(w, r))
               /\ ~Begun(zone, d + 1, FirstSeenAt(w, r))
               <=> PrintedDay(w, r, zone) = d
    <2>1. FirstSeenAt(w, r) \in Instants
      BY FirstSeenPassed
    <2>2. DayIn(zone, FirstSeenAt(w, r)) \in Nat
      BY <2>1, DayBegins
    <2>3. Begun(zone, d, FirstSeenAt(w, r)) <=> d <= DayIn(zone, FirstSeenAt(w, r))
      BY <1>2, <2>1, DayBegins
    <2>4. Begun(zone, d + 1, FirstSeenAt(w, r)) <=> d + 1 <= DayIn(zone, FirstSeenAt(w, r))
      BY <1>2, <2>1, DayBegins
    <2> QED BY <1>2, <2>2, <2>3, <2>4 DEF PrintedDay
  <1>4. {r \in Leaks(w) : /\ Begun(zone, d, FirstSeenAt(w, r))
                          /\ ~Begun(zone, d + 1, FirstSeenAt(w, r))}
          = {r \in Leaks(w) : PrintedDay(w, r, zone) = d}
    BY <1>3
  <1> QED BY <1>4 DEF PerDay

-----------------------------------------------------------------------------
(* The figures that add up, for any history of writes.                     *)

\* What the fold of a sum amounts to: the numbers of the members of S with each
\* key add up to the members.
LEMMA SumByKey ==
    ASSUME NEW S, IsFiniteSet(S), NEW key, NEW counts, IsFiniteSet(DOMAIN counts),
           \A r \in S : key[r] \in DOMAIN counts,
           \A k \in DOMAIN counts : counts[k] = Cardinality({r \in S : key[r] = k})
    PROVE  SumOf(counts) = Cardinality(S)
  <1> DEFINE D == DOMAIN counts
             Of(s) == {r \in S : key[r] \in s}
             One(s) == CHOOSE x \in s : TRUE
             Fold(h) == [s \in SUBSET D |->
                           IF s = {} THEN 0 ELSE counts[One(s)] + h[s \ {One(s)}]]
             g == CHOOSE h : h = Fold(h)
             all == [s \in SUBSET D |-> Cardinality(Of(s))]
  <1>1. SumOf(counts) = g[D]
    BY DEF SumOf, MapThenSumSet, MapThenFoldSet
  <1>2. \A s \in SUBSET D : IsFiniteSet(Of(s)) /\ Cardinality(Of(s)) \in Nat
    BY FS_Subset, FS_CardinalityType
  <1>3. ASSUME NEW s \in SUBSET D, s # {}
        PROVE  /\ One(s) \in s /\ s \ {One(s)} \in SUBSET D
               /\ Cardinality(Of(s)) = counts[One(s)] + Cardinality(Of(s \ {One(s)}))
    <2>1. One(s) \in s
      BY <1>3
    <2> DEFINE x == One(s)
               A == {r \in S : key[r] = x}
               B == Of(s \ {x})
    <2>2. Of(s) = A \cup B /\ A \cap B = {} /\ x \in D
      BY <2>1
    <2>3. IsFiniteSet(A) /\ IsFiniteSet(B)
      BY FS_Subset
    <2>4. counts[x] = Cardinality(A)
      BY <2>2
    <2> HIDE DEF A, B, x
    <2>5. Cardinality(A \cup B) = Cardinality(A) + Cardinality(B)
      <3>1. Cardinality(A \cap B) = 0
        BY <2>2, FS_EmptySet
      <3>2. Cardinality(A \cup B) = Cardinality(A) + Cardinality(B) - Cardinality(A \cap B)
        BY <2>3, FS_Union
      <3>3. Cardinality(A) \in Nat /\ Cardinality(B) \in Nat
        BY <2>3, FS_CardinalityType
      <3> QED BY <3>1, <3>2, <3>3
    <2> QED BY <2>1, <2>2, <2>4, <2>5 DEF B, x
  <1>4. Of({}) = {}
    OBVIOUS
  <1> HIDE DEF One, Of
  <1>5. all = Fold(all)
    BY <1>3, <1>4, FS_EmptySet
  <1>6. g = Fold(g)
    <2> HIDE DEF Fold
    <2> QED BY <1>5
  <1> HIDE DEF g, all
  <1>7. \A s \in SUBSET D : g[s] = Cardinality(Of(s))
    <2> DEFINE Bad == {s \in SUBSET D : g[s] # Cardinality(Of(s))}
    <2>1. SUFFICES ASSUME Bad # {} PROVE FALSE
      OBVIOUS
    <2>2. PICK s \in Bad : \A t \in Bad : ~(<<t, s>> \in StrictSubsetOrdering(D))
      <3>1. IsWellFoundedOn(StrictSubsetOrdering(D), SUBSET D)
        BY FS_StrictSubsetOrderingWellFounded, FS_FiniteSubsetsOfFinite
      <3>2. Bad \subseteq SUBSET D
        OBVIOUS
      <3> HIDE DEF Bad, D
      <3> QED BY <2>1, <3>1, <3>2, WFMin
    <2>3. s # {}
      BY <1>4, <1>6, FS_EmptySet
    <2>4. One(s) \in s /\ s \ {One(s)} \in SUBSET D
      BY <1>3, <2>3
    <2>5. s \ {One(s)} \notin Bad
      <3> DEFINE t == s \ {One(s)}
      <3>1. t \in SUBSET D /\ s \in SUBSET D
        BY <2>4
      <3>2. t \subseteq s /\ t # s
        BY <2>4
      <3> HIDE DEF t, D, Fold, Bad
      <3>3. <<t, s>> \in StrictSubsetOrdering(D)
        BY <3>1, <3>2 DEF StrictSubsetOrdering
      <3>4. t \notin Bad
        BY <2>2, <3>3
      <3> QED BY <3>4 DEF t
    <2>6. g[s \ {One(s)}] = Cardinality(Of(s \ {One(s)}))
      BY <2>4, <2>5
    <2>7. g[s] = counts[One(s)] + g[s \ {One(s)}]
      BY <1>6, <2>3
    <2> QED BY <1>3, <2>3, <2>6, <2>7
  <1>8. Of(D) = S
    BY DEF Of
  <1> QED BY <1>1, <1>7, <1>8

\* The groups of the drop-down add up to the leaks.
LEMMA GroupsAddUp ==
    ASSUME NEW w, IsHistory(w)
    PROVE  SumOf([g \in TrackedGroups(w) |-> PerGroup(w, g)]) = Total(w, Question("general"))
  <1> DEFINE key == [r \in Leaks(w) |-> GroupOf[r]]
             counts == [g \in TrackedGroups(w) |-> PerGroup(w, g)]
  <1>1. IsFiniteSet(Leaks(w))
    BY LeaksAreFinite
  <1>2. IsFiniteSet(DOMAIN counts)
    <2>1. key \in Surjection(Leaks(w), TrackedGroups(w))
      BY DEF Surjection, TrackedGroups
    <2> QED BY <1>1, <2>1, FS_Surjection
  <1>3. \A r \in Leaks(w) : key[r] \in DOMAIN counts
    BY DEF TrackedGroups
  <1>4. \A g \in DOMAIN counts : counts[g] = Cardinality({r \in Leaks(w) : key[r] = g})
    <2>1. \A g : {r \in Leaks(w) : key[r] = g} = {r \in Leaks(w) : GroupOf[r] = g}
      OBVIOUS
    <2> QED BY <2>1 DEF PerGroup
  <1>5. Found(w, Question("general")) = Leaks(w)
    <2> DEFINE q == Question("general")
    <2>1. q.section = "general" /\ q.is = AnyValue /\ q.has = AnyValue
      BY DEF Question
    <2> HIDE DEF q
    <2>2. Found(w, q) = IncidentsWhere(w, "general", q)
      BY <2>1, FoundIn
    <2>3. \A r : InSection("general", r)
      BY DEF InSection
    <2>4. IncidentsWhere(w, "general", q) = Leaks(w)
      BY <2>1, <2>3 DEF IncidentsWhere, BuildConditions
    <2> QED BY <2>2, <2>4 DEF q
  <1> HIDE DEF key, counts
  <1>6. SumOf(counts) = Cardinality(Leaks(w))
    BY <1>1, <1>2, <1>3, <1>4, SumByKey
  <1> QED BY <1>5, <1>6 DEF counts, Total

\* The bars of the last days add up to the leaks printed with one of those days.
LEMMA BarsAddUp ==
    ASSUME NEW w, IsHistory(w), NEW zone \in Zones, NEW days \in Nat
    PROVE  SumOf([d \in Span(w, days, zone) |-> PerDay(w, d, zone)])
             = Cardinality({r \in Leaks(w) : PrintedDay(w, r, zone) + days > Today(w, zone)})
  <1> DEFINE S == {r \in Leaks(w) : PrintedDay(w, r, zone) + days > Today(w, zone)}
             key == [r \in S |-> PrintedDay(w, r, zone)]
             counts == [d \in Span(w, days, zone) |-> PerDay(w, d, zone)]
  <1>1. IsFiniteSet(S)
    BY LeaksAreFinite, FS_Subset
  <1>2. Today(w, zone) \in Nat
    BY DaysAreNat
  <1>3. IsFiniteSet(DOMAIN counts)
    <2>1. IsFiniteSet(0 .. Today(w, zone))
      BY <1>2, FS_Interval
    <2>2. DOMAIN counts \subseteq 0 .. Today(w, zone)
      BY DEF Span
    <2> HIDE DEF counts
    <2> QED BY <2>1, <2>2, FS_Subset
  <1>4. \A r \in Leaks(w) : PrintedDay(w, r, zone) \in 0 .. Today(w, zone)
    BY DaysAreNat
  <1>5. \A r \in S : key[r] \in DOMAIN counts
    BY <1>4 DEF Span
  <1>6. ASSUME NEW d \in DOMAIN counts
        PROVE  counts[d] = Cardinality({r \in S : key[r] = d})
    <2>1. d \in 0 .. Today(w, zone) /\ d + days > Today(w, zone)
      BY DEF Span
    <2>2. {r \in S : key[r] = d} = {r \in Leaks(w) : PrintedDay(w, r, zone) = d}
      BY <2>1
    <2>3. PerDay(w, d, zone) = Cardinality({r \in Leaks(w) : PrintedDay(w, r, zone) = d})
      BY <2>1, BarsAreDaysOfEveryHistory DEF BarsAreDays
    <2> QED BY <2>2, <2>3
  <1> HIDE DEF S, key, counts
  <1>7. SumOf(counts) = Cardinality(S)
    BY <1>1, <1>3, <1>5, <1>6, SumByKey
  <1> QED BY <1>7 DEF counts, S

\* Days between two instants on the wall, and the time between them.
LEMMA RollingDays ==
    ASSUME NEW S \in Nat \ {0}, NEW a \in Nat, NEW b \in Nat, NEW days \in Nat
    PROVE  /\ (a \div S) + days > b \div S => b < a + days * S
           /\ b <= a + days * S => (a \div S) + days + 1 > b \div S
  <1> DEFINE p == a \div S
             q == b \div S
  <1>1. /\ p \in Nat /\ q \in Nat /\ S * p <= a /\ a < S * p + S
        /\ S * q <= b /\ b < S * q + S
    BY InDays
  <1> HIDE DEF p, q
  <1>2. ASSUME p + days > q
        PROVE  b < a + days * S
    <2>1. S * (q + 1) <= S * (p + days)
      BY <1>1, <1>2, Scaled
    <2> QED BY <1>1, <2>1
  <1>3. ASSUME b <= a + days * S
        PROVE  p + days + 1 > q
    <2>1. S * q < S * (p + days + 1)
      BY <1>1, <1>3
    <2> QED BY <1>1, <2>1, Scaled
  <1> QED BY <1>2, <1>3 DEF p, q

\* A zone's days against rolling days of 24 hours: a day of another length costs one of
\* them, and none does while the clocks stand.
LEMMA ChartAndHeadline ==
    ASSUME NEW w, IsHistory(w), NEW zone \in Zones, NEW days \in Nat, NEW r \in Leaks(w)
    PROVE  /\ PrintedDay(w, r, zone) + days > Today(w, zone) => r \in SinceDays(w, days + 1)
           /\ r \in SinceDays(w, days) => PrintedDay(w, r, zone) + (days + 2) > Today(w, zone)
           /\ Steady(w, zone, days + 1) =>
                 /\ PrintedDay(w, r, zone) + days > Today(w, zone) => r \in SinceDays(w, days)
                 /\ r \in SinceDays(w, days) =>
                       PrintedDay(w, r, zone) + (days + 1) > Today(w, zone)
  <1> DEFINE S == SlotsPerDay
             s == FirstSeenAt(w, r)
             t == Clock(w)
             a == zone[s]
             b == zone[t]
             span == days * S
  <1>1. /\ S \in Nat \ {0} /\ Saving \in Nat /\ Saving <= S
        /\ s \in Instants /\ t \in Instants /\ s <= t /\ Instants \subseteq Nat
        /\ a \in Nat /\ b \in Nat /\ s \in Nat /\ t \in Nat
    BY FirstSeenPassed, Ticks, FigureBounds
  <1>2. span \in Nat /\ (days + 1) * S = span + S
    BY <1>1
  <1>3. /\ PrintedDay(w, r, zone) = a \div S /\ Today(w, zone) = b \div S
        /\ a \div S \in Nat /\ b \div S \in Nat
    BY <1>1, InDays DEF PrintedDay, Today, DayIn
  <1>4. \A n \in Nat : r \in SinceDays(w, n) <=> s + n * S >= t
    BY DEF SinceDays
  <1>5. a + t <= b + s + Saving /\ b + s <= a + t + Saving
    <2>1. CASE s = t
      BY <1>1, <2>1
    <2>2. CASE s < t
      BY <1>1, <2>2, ZoneAssumption
    <2> QED BY <1>1, <2>1, <2>2
  <1> HIDE DEF s, t, a, b, span, S
  <1>6. ASSUME (a \div S) + days > b \div S
        PROVE  s + (days + 1) * S >= t
    <2>1. b < a + span
      BY <1>1, <1>6, RollingDays DEF span
    <2> QED BY <1>1, <1>2, <1>5, <2>1
  <1>7. ASSUME s + span >= t
        PROVE  (a \div S) + (days + 2) > b \div S
    <2>1. b <= a + (days + 1) * S
      BY <1>1, <1>2, <1>5, <1>7
    <2>2. (a \div S) + (days + 1) + 1 > b \div S
      <3>1. days + 1 \in Nat
        OBVIOUS
      <3> QED BY <1>1, <2>1, <3>1, RollingDays
    <2> QED BY <1>3, <2>2
  <1>8. ASSUME Steady(w, zone, days + 1), (a \div S) + days > b \div S, s + span < t
        PROVE  FALSE
    <2> DEFINE u == t - span - 1
    <2>1. u \in 0 .. t /\ s <= u /\ u \in Instants
      BY <1>1, <1>2, <1>8, FiguresAssumption DEF Instants
    <2>2. u + (days + 1) * S >= t /\ t - u = span + 1
      BY <1>1, <1>2
    <2> HIDE DEF u
    <2>3. zone[u] + (t - u) = b
      BY <1>8, <2>1, <2>2 DEF Steady, t, b, S
    <2>4. zone[u] \in Nat /\ zone[u] + span + 1 = b
      <3>1. zone[u] \in Nat
        BY <2>1, FigureBounds
      <3> QED BY <1>1, <1>2, <2>1, <2>2, <2>3, <3>1
    <2>5. a \div S <= zone[u] \div S /\ zone[u] \div S \in Nat
      <3>1. DayIn(zone, s) <= DayIn(zone, u) /\ DayIn(zone, u) \in Nat
        BY <1>1, <2>1, DayBegins
      <3> QED BY <3>1 DEF DayIn, a, S
    <2>6. (zone[u] \div S) + days > b \div S
      BY <1>3, <1>8, <2>5
    <2>7. b < zone[u] + span
      BY <1>1, <2>4, <2>6, RollingDays DEF span
    <2> QED BY <1>1, <1>2, <2>4, <2>7
  <1>9. ASSUME Steady(w, zone, days + 1), s + span >= t
        PROVE  (a \div S) + (days + 1) > b \div S
    <2>1. s \in 0 .. t /\ s + (days + 1) * S >= t
      BY <1>1, <1>2, <1>9
    <2>2. a + (t - s) = b
      BY <1>9, <2>1 DEF Steady, t, b, S, a
    <2>3. b <= a + span
      BY <1>1, <1>2, <1>9, <2>2
    <2>4. (a \div S) + days + 1 > b \div S
      BY <1>1, <2>3, RollingDays DEF span
    <2> QED BY <1>3, <2>4
  <1>10. /\ r \in SinceDays(w, days) <=> s + span >= t
         /\ r \in SinceDays(w, days + 1) <=> s + (days + 1) * S >= t
    BY <1>4 DEF span
  <1>11. s + span >= t \/ s + span < t
    BY <1>1, <1>2
  <1> QED BY <1>3, <1>6, <1>7, <1>8, <1>9, <1>10, <1>11

\* The chart and the headline counts agree.
LEMMA ChartCounts ==
    ASSUME NEW w, IsHistory(w), NEW zone \in Zones, NEW days \in Nat
    PROVE  LET Charted(n) == SumOf([d \in Span(w, n, zone) |-> PerDay(w, d, zone)])
               Recent(n) == Cardinality(SinceDays(w, n))
           IN  /\ Charted(days) <= Recent(days + 1)
               /\ Recent(days) <= Charted(days + 2)
               /\ Steady(w, zone, days + 1) =>
                     Charted(days) <= Recent(days) /\ Recent(days) <= Charted(days + 1)
  <1> DEFINE Printed(n) == {r \in Leaks(w) : PrintedDay(w, r, zone) + n > Today(w, zone)}
  <1>1. \A n : SinceDays(w, n) \subseteq Leaks(w)
    BY DEF SinceDays
  <1>2. Printed(days) \subseteq SinceDays(w, days + 1)
    BY ChartAndHeadline
  <1>3. SinceDays(w, days) \subseteq Printed(days + 2)
    BY <1>1, ChartAndHeadline
  <1>4. Steady(w, zone, days + 1) => /\ Printed(days) \subseteq SinceDays(w, days)
                                    /\ SinceDays(w, days) \subseteq Printed(days + 1)
    BY <1>1, ChartAndHeadline
  <1>5. \A n \in Nat : SumOf([d \in Span(w, n, zone) |-> PerDay(w, d, zone)])
                        = Cardinality(Printed(n))
    BY BarsAddUp
  <1>6. \A n : IsFiniteSet(SinceDays(w, n)) /\ IsFiniteSet(Printed(n))
    BY <1>1, LeaksAreFinite, FS_Subset
  <1>7. days + 1 \in Nat /\ days + 2 \in Nat
    OBVIOUS
  <1> HIDE DEF Printed
  <1>8. /\ Cardinality(Printed(days)) <= Cardinality(SinceDays(w, days + 1))
        /\ Cardinality(SinceDays(w, days)) <= Cardinality(Printed(days + 2))
    BY <1>2, <1>3, <1>6, FS_Subset
  <1>9. Steady(w, zone, days + 1) =>
           /\ Cardinality(Printed(days)) <= Cardinality(SinceDays(w, days))
           /\ Cardinality(SinceDays(w, days)) <= Cardinality(Printed(days + 1))
    BY <1>4, <1>6, FS_Subset
  <1> QED BY <1>5, <1>7, <1>8, <1>9

\* A leak of the map's window has its actor and its country.
LEMMA OnTheMap ==
    ASSUME NEW w, NEW period, NEW g, NEW c
    PROVE  c \in CountriesOf(w, period, g)
              <=> c \in Points(w, period) /\ g \in PointActors(w, period, c)
  BY DEF CountriesOf, Points, PointActors

\* The map has finitely many points.
LEMMA PointsAreFinite ==
    ASSUME NEW w, IsHistory(w), NEW period
    PROVE  IsFiniteSet(Points(w, period)) /\ IsFiniteSet(Points(w, period) \cup {NoCountry})
  <1> DEFINE S == MapWindow(w, period)
             f == [r \in S |-> Country(w, r)]
             T == {Country(w, r) : r \in S}
  <1>1. IsFiniteSet(S)
    BY LeaksAreFinite, FS_Subset DEF MapWindow
  <1>2. f \in Surjection(S, T)
    BY DEF Surjection
  <1> HIDE DEF S, f
  <1>3. IsFiniteSet(T)
    BY <1>1, <1>2, FS_Surjection
  <1>4. Points(w, period) \subseteq T
    BY DEF Points, S
  <1> QED BY <1>3, <1>4, FS_Subset, FS_AddElement

\* The points and the incidents of no known country add up to the map's incidents.
LEMMA PointsAddUp ==
    ASSUME NEW w, IsHistory(w), NEW period
    PROVE  SumOf([c \in Points(w, period) \cup {NoCountry} |-> PointTotal(w, period, c)])
             = Cardinality(MapWindow(w, period))
  <1> DEFINE S == MapWindow(w, period)
             key == [r \in S |-> Country(w, r)]
             counts == [c \in Points(w, period) \cup {NoCountry} |-> PointTotal(w, period, c)]
  <1>1. IsFiniteSet(S)
    BY LeaksAreFinite, FS_Subset DEF MapWindow
  <1>2. IsFiniteSet(DOMAIN counts)
    BY PointsAreFinite
  <1>3. \A r \in S : key[r] \in DOMAIN counts
    BY DEF Points
  <1>4. \A c \in DOMAIN counts : counts[c] = Cardinality({r \in S : key[r] = c})
    <2>1. \A c : {r \in S : key[r] = c} = {r \in S : Country(w, r) = c}
      OBVIOUS
    <2> QED BY <2>1 DEF PointTotal
  <1> HIDE DEF S, key, counts
  <1>5. SumOf(counts) = Cardinality(S)
    BY <1>1, <1>2, <1>3, <1>4, SumByKey
  <1> QED BY <1>5 DEF counts, S

\* Members of a finite set with different positions: the number of those before one is
\* its rank, and each rank is one member's.
LEMMA Ranks ==
    ASSUME NEW C, IsFiniteSet(C), \A c \in C : Position(c) \in Nat,
           \A c, d \in C : Position(c) = Position(d) => c = d
    PROVE  [c \in C |-> IndexIn(C, c)] \in Bijection(C, 0 .. Cardinality(C) - 1)
  <1> DEFINE Earlier(c) == {d \in C : Position(d) < Position(c)}
             n == Cardinality(C)
             rank == [c \in C |-> IndexIn(C, c)]
  <1>1. n \in Nat
    BY FS_CardinalityType
  <1>2. \A c \in C : IsFiniteSet(Earlier(c)) /\ IndexIn(C, c) = Cardinality(Earlier(c))
                     /\ Cardinality(Earlier(c)) \in Nat /\ c \notin Earlier(c)
    BY FS_Subset, FS_CardinalityType DEF IndexIn
  <1>3. ASSUME NEW c \in C, NEW S \in SUBSET C, Earlier(c) \subseteq S, c \in S
        PROVE  IndexIn(C, c) < Cardinality(S)
    <2>1. Earlier(c) \cup {c} \subseteq S /\ IsFiniteSet(S)
      BY <1>3, FS_Subset
    <2>2. Cardinality(Earlier(c) \cup {c}) = Cardinality(Earlier(c)) + 1
      BY <1>2, FS_AddElement
    <2> HIDE DEF Earlier
    <2>3. Cardinality(Earlier(c) \cup {c}) <= Cardinality(S) /\ Cardinality(S) \in Nat
      BY <2>1, FS_Subset, FS_CardinalityType
    <2> QED BY <1>2, <2>2, <2>3
  <1>4. \A c \in C : IndexIn(C, c) \in 0 .. n - 1
    <2>1. SUFFICES ASSUME NEW c \in C PROVE IndexIn(C, c) \in 0 .. n - 1
      OBVIOUS
    <2>2. Earlier(c) \subseteq C /\ IndexIn(C, c) \in Nat
      BY <1>2
    <2> HIDE DEF Earlier
    <2>3. IndexIn(C, c) < n
      BY <1>3, <2>2
    <2> QED BY <1>1, <2>2, <2>3
  <1>5. ASSUME NEW c \in C, NEW d \in C, Position(c) < Position(d)
        PROVE  IndexIn(C, c) < IndexIn(C, d)
    <2>1. /\ Earlier(d) \in SUBSET C /\ Earlier(c) \subseteq Earlier(d) /\ c \in Earlier(d)
          /\ IndexIn(C, d) = Cardinality(Earlier(d))
      BY <1>2, <1>5
    <2> HIDE DEF Earlier
    <2> QED BY <1>3, <2>1
  <1>6. rank \in Injection(C, 0 .. n - 1)
    <2>1. ASSUME NEW c \in C, NEW d \in C, IndexIn(C, c) = IndexIn(C, d)
          PROVE  c = d
      <3>1. Position(c) \in Nat /\ Position(d) \in Nat
        OBVIOUS
      <3>2. IndexIn(C, c) \in Nat
        BY <1>2
      <3>3. ~(Position(c) < Position(d)) /\ ~(Position(d) < Position(c))
        BY <1>5, <2>1, <3>2
      <3> QED BY <3>1, <3>3
    <2> QED BY <1>4, <2>1 DEF Injection, IsInjective
  <1>7. IsFiniteSet(0 .. n - 1) /\ Cardinality(0 .. n - 1) = n
    BY <1>1, FS_Interval
  <1> HIDE DEF rank
  <1>8. rank \in Surjection(C, 0 .. n - 1)
    BY <1>6, <1>7, FS_Injection
  <1> QED BY <1>6, <1>8 DEF rank, Bijection

\* A leak's country is one that is extracted, or none.
LEMMA CountryOfLeak ==
    ASSUME NEW w, IsHistory(w), NEW r
    PROVE  Country(w, r) \in Countries \cup {NoCountry}
  <1> DEFINE told == {i \in DOMAIN w : w[i].what = "locate" /\ w[i].of = r}
             n == Len(w)
  <1>1. /\ n \in Nat /\ told \subseteq 1 .. n
        /\ \A i \in told : w[i].to \in Countries \cup {NoCountry}
    BY WriteOf
  <1>2. SUFFICES ASSUME told # {}
                 PROVE  \E i \in told : \A j \in told : j <= i
    BY <1>1 DEF Country
  <1> HIDE DEF told, n
  <1>3. PICK i \in told : \A j \in told : ~(<<j .. n, i .. n>> \in StrictSubsetOrdering(1 .. n))
    <2> DEFINE Rests == {j .. n : j \in told}
    <2>1. Rests \subseteq SUBSET (1 .. n) /\ Rests # {}
      BY <1>1, <1>2
    <2>2. IsWellFoundedOn(StrictSubsetOrdering(1 .. n), SUBSET (1 .. n))
      <3>1. IsFiniteSet(1 .. n)
        BY <1>1, FS_Interval
      <3> QED BY <3>1, FS_StrictSubsetOrderingWellFounded, FS_FiniteSubsetsOfFinite
    <2> HIDE DEF Rests
    <2>3. PICK R \in Rests : \A Q \in Rests : ~(<<Q, R>> \in StrictSubsetOrdering(1 .. n))
      BY <2>1, <2>2, WFMin
    <2> QED BY <2>3 DEF Rests
  <1>4. ASSUME NEW j \in told, i < j
        PROVE  FALSE
    <2>1. /\ j .. n \subseteq i .. n /\ i \in i .. n /\ i \notin j .. n
          /\ i .. n \subseteq 1 .. n
      BY <1>1, <1>4
    <2>2. <<j .. n, i .. n>> \in StrictSubsetOrdering(1 .. n)
      BY <2>1 DEF StrictSubsetOrdering
    <2> QED BY <1>3, <2>2
  <1> QED BY <1>1, <1>4

\* The countries of the map have their places in the alphabet.
LEMMA Positions ==
    ASSUME NEW w, IsHistory(w), NEW period, NEW g
    PROVE  LET C == CountriesOf(w, period, g)
           IN  /\ IsFiniteSet(C) /\ \A c \in C : Position(c) \in Nat
               /\ \A c, d \in C : Position(c) = Position(d) => c = d
  <1> DEFINE C == CountriesOf(w, period, g)
  <1>1. C \subseteq Points(w, period)
    BY OnTheMap
  <1>2. IsFiniteSet(C)
    BY <1>1, PointsAreFinite, FS_Subset
  <1>3. ASSUME NEW c \in C
        PROVE  Position(c) \in DOMAIN Alphabet /\ Alphabet[Position(c)] = c
    <2>1. PICK r \in MapWindow(w, period) : c = Country(w, r) /\ c # NoCountry
      BY DEF CountriesOf
    <2>2. c \in Countries
      BY <2>1, CountryOfLeak
    <2>3. \E i \in DOMAIN Alphabet : Alphabet[i] = c
      BY <2>2, FiguresAssumption
    <2> QED BY <2>3 DEF Position
  <1>4. DOMAIN Alphabet \subseteq Nat
    BY FiguresAssumption
  <1> HIDE DEF C
  <1>5. \A c \in C : Position(c) \in Nat
    BY <1>3, <1>4
  <1>6. \A c, d \in C : Position(c) = Position(d) => c = d
    BY <1>3
  <1> QED BY <1>2, <1>5, <1>6 DEF C

\* The arcs of an actor join neighbours of its sorted countries.
LEMMA ArcsOf ==
    ASSUME NEW w, NEW period, NEW g
    PROVE  LET C == CountriesOf(w, period, g)
               mine == {a \in Arcs(w, period) : a.actor = g}
           IN  /\ \A a \in mine : /\ a = [actor |-> g, from |-> a.from, to |-> a.to]
                                  /\ a.from \in C /\ a.to \in C
                                  /\ IndexIn(C, a.from) < MaxArcs
                                  /\ IndexIn(C, a.to) = IndexIn(C, a.from) + 1
               /\ g \in MapActors(w, period) =>
                    \A c, d \in C :
                       IndexIn(C, c) < MaxArcs /\ IndexIn(C, d) = IndexIn(C, c) + 1 =>
                          [actor |-> g, from |-> c, to |-> d] \in mine
  <1> DEFINE C == CountriesOf(w, period, g)
             mine == {a \in Arcs(w, period) : a.actor = g}
  <1>1. ASSUME NEW a \in mine
        PROVE  /\ a = [actor |-> g, from |-> a.from, to |-> a.to]
               /\ a.from \in C /\ a.to \in C
               /\ IndexIn(C, a.from) < MaxArcs
               /\ IndexIn(C, a.to) = IndexIn(C, a.from) + 1
    <2>1. PICK h \in MapActors(w, period) :
              /\ a \in [actor : {h},
                        from : CountriesOf(w, period, h), to : CountriesOf(w, period, h)]
              /\ IndexIn(CountriesOf(w, period, h), a.from) < MaxArcs
              /\ IndexIn(CountriesOf(w, period, h), a.to)
                   = IndexIn(CountriesOf(w, period, h), a.from) + 1
      BY DEF Arcs
    <2>2. h = g
      BY <2>1
    <2> QED BY <2>1, <2>2
  <1>2. ASSUME g \in MapActors(w, period), NEW c \in C, NEW d \in C,
               IndexIn(C, c) < MaxArcs, IndexIn(C, d) = IndexIn(C, c) + 1
        PROVE  [actor |-> g, from |-> c, to |-> d] \in mine
    <2> DEFINE a == [actor |-> g, from |-> c, to |-> d]
    <2>1. a \in [actor : {g}, from : C, to : C] /\ a.actor = g /\ a.from = c /\ a.to = d
      OBVIOUS
    <2> HIDE DEF a
    <2>2. a \in Arcs(w, period)
      BY <1>2, <2>1 DEF Arcs
    <2> QED BY <2>1, <2>2 DEF a
  <1> QED BY <1>1, <1>2

\* What the community modules' Min chooses of two numbers.
LEMMA LesserOfTwo ==
    ASSUME NEW a \in Nat, NEW b \in Nat
    PROVE  Min({a, b}) = IF a <= b THEN a ELSE b
  <1> DEFINE Least(x) == \A y \in {a, b} : x <= y
             x == CHOOSE z \in {a, b} : Least(z)
  <1>1. \E z \in {a, b} : Least(z)
    OBVIOUS
  <1>2. x \in {a, b} /\ Least(x)
    <2> HIDE DEF Least
    <2> QED BY <1>1
  <1>3. x = Min({a, b})
    BY DEF Min
  <1> HIDE DEF x
  <1> QED BY <1>2, <1>3

\* An actor has an arc fewer than it has countries, and no more than are asked for.
LEMMA ArcsAreCounted ==
    ASSUME NEW w, IsHistory(w), NEW period, NEW g \in MapActors(w, period)
    PROVE  LET n == Cardinality(CountriesOf(w, period, g))
           IN  Cardinality({a \in Arcs(w, period) : a.actor = g})
                 = Min({MaxArcs, IF n = 0 THEN 0 ELSE n - 1})
  <1> DEFINE C == CountriesOf(w, period, g)
             n == Cardinality(C)
             mine == {a \in Arcs(w, period) : a.actor = g}
             last1 == IF n = 0 THEN 0 ELSE n - 1
             m == IF MaxArcs <= last1 THEN MaxArcs ELSE last1
             rank == [c \in C |-> IndexIn(C, c)]
             number == [a \in mine |-> rank[a.from]]
  <1>1. IsFiniteSet(C) /\ n \in Nat /\ MaxArcs \in Nat
    BY Positions, FS_CardinalityType, FigureBounds
  <1>2. m = Min({MaxArcs, last1}) /\ m \in Nat
    <2>1. last1 \in Nat
      BY <1>1
    <2> HIDE DEF last1, n
    <2> QED BY <1>1, <2>1, LesserOfTwo
  <1>3. rank \in Bijection(C, 0 .. n - 1)
    BY Positions, Ranks
  <1>4. /\ \A c \in C : rank[c] \in 0 .. n - 1 /\ rank[c] = IndexIn(C, c)
        /\ \A c, d \in C : rank[c] = rank[d] => c = d
        /\ \A k \in 0 .. n - 1 : \E c \in C : rank[c] = k
    BY <1>3 DEF Bijection, Injection, Surjection, IsInjective
  <1>5. /\ \A a \in mine : /\ a = [actor |-> g, from |-> a.from, to |-> a.to]
                           /\ a.from \in C /\ a.to \in C
                           /\ rank[a.from] < MaxArcs /\ rank[a.to] = rank[a.from] + 1
        /\ \A c, d \in C : rank[c] < MaxArcs /\ rank[d] = rank[c] + 1 =>
              [actor |-> g, from |-> c, to |-> d] \in mine
    BY <1>4, ArcsOf
  <1> HIDE DEF C, n, rank, mine
  <1>6. \A a \in mine : number[a] \in 0 .. m - 1
    BY <1>1, <1>4, <1>5
  <1>7. \A a, b \in mine : number[a] = number[b] => a = b
    <2>1. SUFFICES ASSUME NEW a \in mine, NEW b \in mine, number[a] = number[b] PROVE a = b
      OBVIOUS
    <2>2. a.from = b.from
      BY <1>4, <1>5, <2>1
    <2>3. a.to = b.to
      BY <1>4, <1>5, <2>2
    <2> QED BY <1>5, <2>2, <2>3
  <1>8. ASSUME NEW k \in 0 .. m - 1
        PROVE  \E a \in mine : number[a] = k
    <2>1. k \in 0 .. n - 1 /\ k + 1 \in 0 .. n - 1 /\ k < MaxArcs
      BY <1>1, <1>2
    <2>2. PICK c \in C : rank[c] = k
      BY <1>4, <2>1
    <2>3. PICK d \in C : rank[d] = k + 1
      BY <1>4, <2>1
    <2>4. [actor |-> g, from |-> c, to |-> d] \in mine
      BY <1>5, <2>1, <2>2, <2>3
    <2> QED BY <2>2, <2>4
  <1>9. number \in Bijection(mine, 0 .. m - 1)
    BY <1>6, <1>7, <1>8 DEF Bijection, Injection, Surjection, IsInjective
  <1> HIDE DEF number, m
  <1>10. IsFiniteSet(0 .. m - 1) /\ Cardinality(0 .. m - 1) = m
    <2>1. m \in Nat
      BY <1>2
    <2> QED BY <2>1, FS_Interval
  <1>11. Cardinality(mine) = m
    BY <1>9, <1>10, FS_Injection DEF Bijection
  <1> QED BY <1>2, <1>11 DEF mine, n, C

\* The leaks of a window are only joined by others.
LEMMA WindowGrows ==
    ASSUME NEW w, IsHistory(w), NEW n \in 0 .. Len(w), NEW period
    PROVE  MapWindow(SubSeq(w, 1, n), period) \subseteq MapWindow(w, period)
  BY FirstSeenStays DEF MapWindow

\* The map agrees with itself, whatever is written between its statements.
LEMMA MapOfEveryHistory ==
    ASSUME NEW u, NEW v, NEW w, NEW period, IsHistory(u), IsHistory(v), IsHistory(w),
           MapWindow(u, period) \subseteq MapWindow(v, period),
           MapWindow(v, period) \subseteq MapWindow(w, period)
    PROVE  MapAgrees(u, v, w, period)
  <1>1. SumOf([c \in Points(v, period) \cup {NoCountry} |-> PointTotal(v, period, c)])
          + Cardinality(MapWindow(w, period) \ MapWindow(v, period))
          = Cardinality(MapWindow(w, period))
    <2> DEFINE V == MapWindow(v, period)
               W == MapWindow(w, period)
    <2>1. IsFiniteSet(W) /\ IsFiniteSet(V) /\ IsFiniteSet(W \ V)
      <3>1. IsFiniteSet(W)
        BY LeaksAreFinite, FS_Subset DEF MapWindow
      <3> QED BY <3>1, FS_Subset
    <2>2. SumOf([c \in Points(v, period) \cup {NoCountry} |-> PointTotal(v, period, c)])
            = Cardinality(V)
      BY PointsAddUp
    <2> DEFINE D == W \ V
    <2>3. W = V \cup D /\ V \cap D = {} /\ IsFiniteSet(D)
      BY <2>1
    <2> HIDE DEF V, W, D
    <2>4. Cardinality(W) = Cardinality(V) + Cardinality(D) - Cardinality({})
      BY <2>1, <2>3, FS_Union
    <2>5. Cardinality(V) + Cardinality(D) = Cardinality(W)
      BY <2>1, <2>3, <2>4, FS_CardinalityType, FS_EmptySet
    <2> QED BY <2>2, <2>5 DEF V, W, D
  <1>2. \A g \in MapActors(u, period) :
           LET n == Cardinality(CountriesOf(u, period, g))
           IN  Cardinality({a \in Arcs(u, period) : a.actor = g})
                 = Min({MaxArcs, IF n = 0 THEN 0 ELSE n - 1})
    BY ArcsAreCounted
  <1>3. ASSUME NEW a \in Arcs(u, period), NEW c \in {a.from, a.to}
        PROVE  \/ c \in Points(v, period) /\ a.actor \in PointActors(v, period, c)
               \/ Moved(u, v, period, a.actor, c)
    <2>1. c \in CountriesOf(u, period, a.actor)
      BY ArcsOf
    <2>2. PICK r \in MapWindow(u, period) :
              GroupOf[r] = a.actor /\ Country(u, r) = c /\ c # NoCountry
      BY <2>1 DEF CountriesOf
    <2>3. CASE Country(v, r) = c
      BY <2>2, <2>3 DEF Points, PointActors
    <2>4. CASE Country(v, r) # c
      BY <2>2, <2>4 DEF Moved
    <2> QED BY <2>3, <2>4
  <1>4. ASSUME NEW g, NEW a \in DrawnArcs(u, period, g), NEW c \in {a.from, a.to}
        PROVE  c \in DrawnPoints(v, period, g) \/ Moved(u, v, period, a.actor, c)
    <2>1. a \in Arcs(u, period) /\ g \in {AnyValue, a.actor} /\ c \in Places
      BY DEF DrawnArcs
    <2>2. CASE c \in Points(v, period) /\ a.actor \in PointActors(v, period, c)
      BY <2>1, <2>2 DEF DrawnPoints
    <2> QED BY <1>3, <2>1, <2>2
  <1> QED BY <1>1, <1>2, <1>3, <1>4 DEF MapAgrees

\* The writes committed up to any moment that has passed are a history.
LEMMA PastIsHistory ==
    ASSUME ConsoleInv
    PROVE  /\ db \in Nat
           /\ \A i \in 0 .. db :
                 /\ IsHistory(At(i)) /\ Len(At(i)) = i
                 /\ \A n \in 0 .. i : At(n) = SubSeq(At(i), 1, n)
  <1>1. IsHistory(Writes) /\ Len(Writes) \in Nat
    BY ConsoleAssumption, Bounds DEF ConsoleInv, TabOK, Writes
  <1>2. db \in 0 .. Len(Writes)
    BY DEF ConsoleInv, TabOK, Versions
  <1>3. \A i \in 0 .. db : IsHistory(At(i)) /\ Len(At(i)) = i
    BY <1>1, <1>2, PrefixIsHistory DEF At
  <1>4. ASSUME NEW i \in 0 .. db, NEW n \in 0 .. i
        PROVE  At(n) = SubSeq(At(i), 1, n)
    <2>1. Writes \in Seq(Write)
      BY <1>1 DEF IsHistory
    <2> QED BY <1>1, <1>2, <2>1 DEF At
  <1> QED BY <1>2, <1>3, <1>4

\* At every moment each number in a drop-down is that of the rows its filter gives, and
\* the numbers of the groups add up to the general section.
THEOREM FacetsCountTheirFilterHolds == Spec => []FacetsCountTheirFilter
  <1>1. ASSUME ConsoleInv
        PROVE  FacetsCountTheirFilter
    <2>1. IsHistory(At(db))
      BY <1>1, PastIsHistory
    <2>2. FacetsCount(At(db))
      BY FacetsCountEveryHistory
    <2> QED BY <2>1, <2>2, GroupsAddUp DEF FacetsCountTheirFilter
  <1> QED BY <1>1, ConsoleInvHolds, PTL

\* At every moment and in every zone the bars of the last days add up to a number between
\* the headline counts of as many rolling days and of one more, while the clocks have
\* stood, and within a day of them on each side when they have been changed: no leak is
\* left out of the chart.
THEOREM ChartCountsEveryArrivalHolds == Spec => []ChartCountsEveryArrival
  <1>1. ASSUME ConsoleInv
        PROVE  ChartCountsEveryArrival
    <2>1. IsHistory(At(db))
      BY <1>1, PastIsHistory
    <2>2. \A zone \in Zones : \A days \in 1 .. Today(At(db), zone) + 1 : days \in Nat
      BY <2>1, DaysAreNat
    <2> QED BY <2>1, <2>2, BarsAreDaysOfEveryHistory, ChartCounts DEF ChartCountsEveryArrival
  <1> QED BY <1>1, ConsoleInvHolds, PTL

\* At every moment, for every window and whatever is written between the three statements
\* of the answer, the map's points, the incidents of no known country and those that
\* have arrived since add up to its incidents, and the arcs of an actor chain its countries
\* and end at points that are drawn, but for countries that were replaced meanwhile.
THEOREM MapAgreesWithItselfHolds == Spec => []MapAgreesWithItself
  <1>1. ASSUME ConsoleInv
        PROVE  MapAgreesWithItself
    <2>1. ASSUME NEW i \in 0 .. db, NEW j \in i .. db, NEW period
          PROVE  MapAgrees(At(i), At(j), At(db), period)
      <3>1. db \in Nat /\ j \in 0 .. db /\ i \in 0 .. j /\ db \in 0 .. db
        BY <1>1, PastIsHistory
      <3>2. IsHistory(At(i)) /\ IsHistory(At(j)) /\ IsHistory(At(db))
        BY <1>1, <3>1, PastIsHistory
      <3>3. MapWindow(At(i), period) \subseteq MapWindow(At(j), period)
        <4>1. At(i) = SubSeq(At(j), 1, i) /\ i \in 0 .. Len(At(j))
          BY <1>1, <3>1, PastIsHistory
        <4> QED BY <3>2, <4>1, WindowGrows
      <3>4. MapWindow(At(j), period) \subseteq MapWindow(At(db), period)
        <4>1. At(j) = SubSeq(At(db), 1, j) /\ j \in 0 .. Len(At(db))
          BY <1>1, <3>1, PastIsHistory
        <4> QED BY <3>2, <4>1, WindowGrows
      <3> QED BY <3>2, <3>3, <3>4, MapOfEveryHistory
    <2> QED BY <2>1 DEF MapAgreesWithItself
  <1> QED BY <1>1, ConsoleInvHolds, PTL
=============================================================================
