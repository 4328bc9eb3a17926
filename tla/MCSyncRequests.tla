--------------------------- MODULE MCSyncRequests ---------------------------
(***************************************************************************)
(* Small instances of SyncRequests for TLC: the drains d1, of the queue    *)
(* engine, and d2, which the legacy engine may run, the sweep, the client. *)
(***************************************************************************)
EXTENDS SyncRequests

CONSTANTS c1, d1, d2, sweep
=============================================================================
