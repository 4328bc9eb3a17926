---------------------------- MODULE MCCrawlCycle ----------------------------
(***************************************************************************)
(* Small instances of CrawlCycle for TLC.  Sites: s1 with listing pages a1 *)
(* and a2 and links k1, k2 found on a1; b1, page 1 of the browser source   *)
(* s2.  Loops h* are of the http lane, w1 of the browser lane.             *)
(***************************************************************************)
EXTENDS CrawlCycle, TLC

CONSTANTS s1, s2, a1, a2, b1, k1, k2, cron, cron2, sync, h1, h2, h3, w1, p1, p2, x1, x2, y1

\* One page.
PageSource == a1 :> s1
PageNumber == a1 :> 1
PageFound  == a1 :> {}

\* One page of an http source and one of a browser source.
TwoSourcesSource == a1 :> s1 @@ b1 :> s2
TwoSourcesNo     == a1 :> 1 @@ b1 :> 1
TwoSourcesFound  == a1 :> {} @@ b1 :> {}

\* One page and one link on it.
PageAndLinkSource == a1 :> s1 @@ k1 :> s1
PageAndLinkNo     == a1 :> 1 @@ k1 :> 0
PageAndLinkFound  == a1 :> {k1} @@ k1 :> {}

\* A listing of two pages, each of which shows one of the two links.
TwoPagesSource == a1 :> s1 @@ a2 :> s1 @@ k1 :> s1 @@ k2 :> s1
TwoPagesNo     == a1 :> 1 @@ a2 :> 2 @@ k1 :> 0 @@ k2 :> 0
TwoPagesFound  == a1 :> {k1} @@ a2 :> {k2} @@ k1 :> {} @@ k2 :> {}

\* One page of an http source, which has a link, and one of a browser source.
TwoLanesSource == a1 :> s1 @@ k1 :> s1 @@ b1 :> s2
TwoLanesNo     == a1 :> 1 @@ k1 :> 0 @@ b1 :> 1
TwoLanesFound  == a1 :> {k1} @@ k1 :> {} @@ b1 :> {}

AllInP1   == [t \in Seeders |-> p1]
CronInP1  == [t \in Seeders |-> IF t = cron THEN p1 ELSE p2]

\* A crew for each of the two lanes of one process.
LanesProc  == x1 :> p1 @@ x2 :> p1
LanesLane  == x1 :> "http" @@ x2 :> "browser"
LanesCrew  == h1 :> x1 @@ w1 :> x2

\* A crew of two loops in one process.
PairProc   == x1 :> p1
PairLane   == x1 :> "http"
PairCrew   == h1 :> x1 @@ h2 :> x1

\* A crew of one loop in each of two processes.
EachProc   == x1 :> p1 @@ y1 :> p2
EachLane   == x1 :> "http" @@ y1 :> "http"
EachCrew   == h1 :> x1 @@ h2 :> y1

\* Two crews in p1, of two loops and of one that has the name of the first of
\* those, and a crew of one loop in p2.
AgainProc  == x1 :> p1 @@ x2 :> p1 @@ y1 :> p2
AgainLane  == x1 :> "http" @@ x2 :> "http" @@ y1 :> "http"
AgainCrew  == h1 :> x1 @@ h2 :> x1 @@ h3 :> x2 @@ w1 :> y1
AgainName  == h1 :> h1 @@ h2 :> h2 @@ h3 :> h1 @@ w1 :> w1

OwnName    == [l \in Loops |-> l]

\* CRAWL_WORKERS and CRAWL_BROWSER_WORKERS.
OneEach     == "http" :> 1 @@ "browser" :> 1
TwoHttp     == "http" :> 2 @@ "browser" :> 0
OneHttp     == "http" :> 1 @@ "browser" :> 0
=============================================================================
