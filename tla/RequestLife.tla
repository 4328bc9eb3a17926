---------------------------- MODULE RequestLife ----------------------------
(***************************************************************************)
(* What the table crawl_requests promises whoever polls it: a request is   *)
(* queued, taken by a worker in the order of asking, perhaps put back, and *)
(* answered once.  An answer is final.  SyncRequests.tla is shown to       *)
(* implement this.                                                         *)
(***************************************************************************)
EXTENDS Naturals

CONSTANT MaxRequests  \* bound: requests ever made

VARIABLE status       \* crawl_requests.status; "absent" before the insert

Requests == 1 .. MaxRequests
Answers  == {"answered", "failed"}
Open     == {"queued", "running"}

Init == status = [r \in Requests |-> "absent"]

Ask(r) ==
    /\ \A q \in Requests : status[q] = "absent" <=> q >= r
    /\ status' = [status EXCEPT ![r] = "queued"]

Take(r) ==
    /\ \A q \in Requests : status[q] = "queued" => q >= r
    /\ status[r] = "queued"
    /\ status' = [status EXCEPT ![r] = "running"]

PutBack(r) ==
    /\ status[r] = "running"
    /\ status' = [status EXCEPT ![r] = "queued"]

Answer(r, answer) ==
    /\ status[r] = "running"
    /\ status' = [status EXCEPT ![r] = answer]

\* Requests whose worker has died are failed, however many there are.
GiveUp(rs) ==
    /\ \A r \in rs : status[r] = "running"
    /\ status' = [r \in Requests |-> IF r \in rs THEN "failed" ELSE status[r]]

Next ==
    \/ \E r \in Requests : Ask(r) \/ Take(r) \/ PutBack(r)
    \/ \E r \in Requests, answer \in Answers : Answer(r, answer)
    \/ \E rs \in SUBSET Requests : GiveUp(rs)

Life == Init /\ [][Next]_status
=============================================================================
