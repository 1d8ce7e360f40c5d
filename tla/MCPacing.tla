------------------------------ MODULE MCPacing ------------------------------
(***************************************************************************)
(* Pacing on small instances. Workers are interchangeable.                 *)
(***************************************************************************)
EXTENDS Pacing, TLC

WorkerSymmetry == Permutations(Workers)

=============================================================================
