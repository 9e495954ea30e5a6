----------------------------- MODULE MCRouting -----------------------------
(* Routing on small graphs. *)
EXTENDS Routing, SmallGraphs
=============================================================================
