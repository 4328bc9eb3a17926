------------------------------ MODULE HuntLife ------------------------------
(***************************************************************************)
(* What hunt_jobs and hunt_findings promise a page that polls them: a hunt *)
(* is queued for a company, runs once, in the order of asking, gains       *)
(* findings only while it runs, and ends for good.  HuntJobs.tla is shown  *)
(* to implement this, SearchPage.tla to work with it.                      *)
(***************************************************************************)
EXTENDS Naturals

CONSTANTS
    Queries,   \* normalized queries: companies
    MaxHunts,  \* bound: hunts ever queued
    Nothing    \* no query, no answer

VARIABLES
    query,   \* of each hunt
    status,  \* of each hunt; "absent" before it is asked for
    rows     \* how many findings each has

lifeVars == <<query, status, rows>>

Hunts    == 1 .. MaxHunts
Open     == {"queued", "running"}
Finished == {"succeeded", "failed"}

LifeInit ==
    /\ query = [h \in Hunts |-> Nothing]
    /\ status = [h \in Hunts |-> "absent"]
    /\ rows = [h \in Hunts |-> 0]

Ask(h, q) ==
    /\ status[h] = "absent"
    /\ query' = [query EXCEPT ![h] = q]
    /\ status' = [status EXCEPT ![h] = "queued"]
    /\ UNCHANGED rows

Begin(h) ==
    /\ \A g \in Hunts : status[g] = "queued" => h <= g
    /\ status[h] = "queued"
    /\ status' = [status EXCEPT ![h] = "running"]
    /\ UNCHANGED <<query, rows>>

Learn(h, n) ==
    /\ status[h] = "running"
    /\ rows' = [rows EXCEPT ![h] = n]
    /\ n > rows[h]
    /\ UNCHANGED <<query, status>>

Succeed(h) ==
    /\ status[h] = "running"
    /\ status' = [status EXCEPT ![h] = "succeeded"]
    /\ UNCHANGED <<query, rows>>

\* Hunts fail one by one, or together when their worker is found dead.
Fail(hs) ==
    /\ \A h \in hs : status[h] = "running"
    /\ status' = [h \in Hunts |-> IF h \in hs THEN "failed" ELSE status[h]]
    /\ UNCHANGED <<query, rows>>

LifeNext ==
    \/ \E h \in Hunts, q \in Queries : Ask(h, q)
    \/ \E h \in Hunts : Begin(h) \/ Succeed(h) \/ Learn(h, rows'[h])
    \/ \E hs \in SUBSET Hunts : Fail(hs)

LifeSpec == LifeInit /\ [][LifeNext]_lifeVars
=============================================================================
