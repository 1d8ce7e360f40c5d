---------------------------- MODULE MCTransport ----------------------------
(***************************************************************************)
(* Transport with three callers on two slots. Some of its properties are   *)
(* liveness properties, so the callers' symmetry is not used.              *)
(***************************************************************************)
EXTENDS Transport

=============================================================================
