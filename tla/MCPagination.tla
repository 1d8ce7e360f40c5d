---------------------------- MODULE MCPagination ----------------------------
(***************************************************************************)
(* Pagination on every chain of a few pages: those that end, those that    *)
(* turn back to an earlier page, and those that point at themselves.       *)
(***************************************************************************)
EXTENDS Pagination

=============================================================================
