----------------------------- MODULE MCHuntJobs -----------------------------
(***************************************************************************)
(* Small instances of HuntJobs for TLC: the tab c1, the ticks t1 and t2,  *)
(* the companies acme and bolt.                                            *)
(***************************************************************************)
EXTENDS HuntJobs

CONSTANTS c1, acme, bolt, t1, t2
=============================================================================
