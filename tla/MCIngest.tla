------------------------------ MODULE MCIngest ------------------------------
(***************************************************************************)
(* A small instance of Ingest for TLC: a listing that names one victim and *)
(* links to its page; a text that both pages may show, a gap in the site;  *)
(* the victim's own text, with a secret in it.                             *)
(***************************************************************************)
EXTENDS Ingest, TLC

CONSTANTS list, link, listed, both, own, acme, bolt, key, w1, w2

MCShownAt == list :> {listed, both} @@ link :> {own, both, Blank}
MCNames   == listed :> {acme} @@ own :> {acme} @@ both :> {bolt}
MCSecrets == listed :> {} @@ own :> {key} @@ both :> {}
MCLinksOn == listed :> {link} @@ own :> {} @@ both :> {}
=============================================================================
