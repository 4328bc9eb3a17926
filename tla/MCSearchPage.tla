---------------------------- MODULE MCSearchPage ----------------------------
(***************************************************************************)
(* Small instances of SearchPage for TLC: companies acme and bolt.         *)
(***************************************************************************)
EXTENDS SearchPage

CONSTANTS acme, bolt
=============================================================================
