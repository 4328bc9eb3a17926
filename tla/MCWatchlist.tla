---------------------------- MODULE MCWatchlist ----------------------------
(***************************************************************************)
(* Small instances of Watchlist for TLC.  Somebody types acme's domain as  *)
(* it is stored or as a URL, or something that is no domain at all.        *)
(***************************************************************************)
EXTENDS Watchlist

CONSTANTS acme, acmeUrl, junk, r1, r2, m1, m2

MCNormal == [s \in {acme, acmeUrl, junk} |-> IF s = junk THEN Unusable ELSE acme]
=============================================================================
