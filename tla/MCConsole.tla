------------------------------ MODULE MCConsole ------------------------------
(* Instances of Console. A tab follows short histories; the others are there   *)
(* for the figures: the arrival of three leaks at any time among four ticks    *)
(* of the clock (the two of one group in order, for they differ in nothing     *)
(* the chart counts), then what the later passes fill in.                      *)
EXTENDS Console, TLC

MCRecords == {"l1", "l2", "l3", "l4", "i1", "i2", "e1", "n1"}
MCKindOf == "i1" :> "ioc" @@ "i2" :> "ioc" @@ "e1" :> "exposure" @@ "n1" :> "number"
    @@ [r \in MCRecords |-> "leak"]
MCGroupOf == "l1" :> "lockbit" @@ "l2" :> "lockbit" @@ "l3" :> "lockbit" @@ "l4" :> "akira"
             @@ [r \in MCRecords |-> "none"]
MCDomainOf == "l1" :> "d1" @@ "l2" :> "none" @@ "l3" :> "d3" @@ [r \in MCRecords |-> "none"]
MCLeakTypeOf == "l1" :> "ransomware" @@ "l2" :> "ransomware" @@ "l3" :> "breach"
             @@ [r \in MCRecords |-> "ip"]
MCTypesOf == "l1" :> {"sale", "breach"} @@ "l2" :> {"sale"} @@ "i1" :> {"sale"}
             @@ "n1" :> {"sale"} @@ [r \in MCRecords |-> {}]
MCWordsOf == [r \in MCRecords |-> IF r = "l1" THEN {"acme"} ELSE {}]
MCAlphabet == <<"DE", "FR", "IN">>
MCPlaces == {"DE", "IN"}
MCCountries == {"DE", "FR", "IN"}

\* The server's own zone and one ahead of it; clocks that are put back and repeat two slots
\* of a day; clocks that are put forward, over midnight.
MCZones == {[t \in 0 .. 4 |-> t], [t \in 0 .. 4 |-> t + 1],
            [t \in 0 .. 4 |-> IF t < 3 THEN t ELSE t - 2],
            [t \in 0 .. 4 |-> IF t < 1 THEN t + 2 ELSE t + 4]}

W(what, of) == [what |-> what, of |-> of]
Locate(r, c) == [what |-> "locate", of |-> r, to |-> c]
Later == <<Locate("l1", "IN"), W("classify", "l1"), Locate("l2", "DE"), W("classify", "l2"),
           W("insert", "l4"), Locate("l3", "FR"), Locate("l2", "IN")>>
Arrivals == {W("insert", "l1"), W("insert", "l2"), W("insert", "l3")}

\* Tabs are open on the first histories, each for one group of pages: how many
\* of the writes come before the tab, which may come between the two statements
\* of an answer, and what the two filters offer.
Rows(s) == [i \in DOMAIN s |-> W("insert", s[i])]
Plain == [before |-> 0, skew |-> 0, is |-> {"any"}, has |-> {"any"}]
Tab(writes, visits) == [writes |-> writes, visits |-> visits] @@ Plain
Tabs == <<Tab(Rows(<<"l1", "l2">>), {"leaks"}),
          [Tab(Rows(<<"l2", "l1">>), {"general", "darkweb"}) EXCEPT !.before = 1],
          [Tab(Rows(<<"i1", "i2">>), {"iocs"}) EXCEPT !.skew = 2],
          [Tab(Rows(<<"e1", "n1">>), {"mobile", "exposures"}) EXCEPT !.is = {"any", "ip"}],
          [Tab(Rows(<<"l2">>), {"ransomware", "leaks"}) EXCEPT !.has = {"any", "acme"}],
          [Tab(<<W("insert", "l1"), W("classify", "l1")>>, {"general", "ransomware"})
             EXCEPT !.before = 1, !.has = {"any", "sale"}]>>
OnceEach(s) == \A a \in Arrivals : Cardinality({i \in DOMAIN s : s[i] = a}) = 1
InOrder(s) == \E i, j \in DOMAIN s : i < j /\ s[i] = W("insert", "l1") /\ s[j] = W("insert", "l2")
Arriving == {s \o Later : s \in {p \in [1 .. 7 -> Arrivals \cup {W("tick", "clock")}] :
                                    OnceEach(p) /\ InOrder(p)}}
Listed(S) == FoldSet(LAMBDA h, hs : Append(hs, h), <<>>, S)
Written == [i \in DOMAIN Tabs |-> Tabs[i].writes]
              \o Listed({s \in Arriving : s[1] \in Arrivals})
              \o Listed({s \in Arriving : s[1] \notin Arrivals})

Others(x) == [h \in DOMAIN Written |-> x]
Visited == [h \in DOMAIN Tabs |-> Tabs[h].visits] @@ Others({})
There == [h \in DOMAIN Tabs |-> Tabs[h].before] @@ Others(0)
Skewed == [h \in DOMAIN Tabs |-> Tabs[h].skew] @@ Others(0)
Is == [h \in DOMAIN Tabs |-> Tabs[h].is] @@ Others({"any"})
Has == [h \in DOMAIN Tabs |-> Tabs[h].has] @@ Others({"any"})

\* TLC keeps the value of a definition, and none of what a constant is made of.
MCHistories == Written
MCVisits == Visited
MCBefore == There
MCSkew == Skewed
MCOfferedIs == Is
MCOfferedHas == Has
================================================================================
