---------------------------- MODULE MCCollector ----------------------------
(***************************************************************************)
(* Collector on small instances: two specifications, and catalogues with   *)
(* and without an entry besides the unified one.                           *)
(***************************************************************************)
EXTENDS Collector

CONSTANT Extra

JustUnified    == {{Unified}, {Unified, Extra}}
SometimesMoved == JustUnified \cup {{Extra}}

=============================================================================
