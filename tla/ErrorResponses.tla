--------------------------- MODULE ErrorResponses ---------------------------
(***************************************************************************)
(* ParseErrorResponse of thousandeyes/client/errors.go as functions: the   *)
(* error that is made of the body of a failure.                            *)
(*                                                                         *)
(* The bodies may be of three shapes, and be of several at once. Of each   *)
(* is kept how much of it there is; of the error, which shape each of its  *)
(* fields was taken from.                                                  *)
(***************************************************************************)

(* "mistyped": a member of the problem does not decode, the others do.       *)
Bodies == [problem : {"no", "untitled", "titled", "mistyped"},
           oauth   : {"no", "error", "described"},
           legacy  : {"no", "message"}]

(* An error: of the API or the client's own, and where its fields are from.  *)
Origins == {"none", "problem", "oauth", "legacy", "text"}

Errors == [kind : {"none", "api", "argument", "context", "transport"},
           fields : [code : Origins, message : Origins, detail : Origins]]

Nowhere == [code |-> "none", message |-> "none", detail |-> "none"]

(* What the fields of a problem are put into.                               *)
Problem == [code |-> "problem", message |-> "problem", detail |-> "problem"]

IsProblem(body) == body.problem = "titled"
IsOAuth(body)   == body.oauth # "no"
IsLegacy(body)  == body.legacy # "no"

\* Mutant of BeforeOAuth: the problem is decoded into the error itself.
BeforeOAuthFilled(body) ==
  IF body.problem = "no" THEN Nowhere ELSE [Problem EXCEPT !.message = "none"]

(* The error as parseOAuth gets it: parseProblem decodes into a variable of its
   own and copies nothing unless there is a title.                          *)
BeforeOAuth(body) == Nowhere

(* The first shape that is there; the text of the body or of the status else.  *)
Parsed(body) ==
  IF IsProblem(body) THEN Problem
  ELSE IF IsOAuth(body)
    THEN [BeforeOAuth(body) EXCEPT !.code = "oauth", !.message = "oauth"]
  ELSE IF IsLegacy(body) THEN [BeforeOAuth(body) EXCEPT !.message = "legacy"]
  ELSE [BeforeOAuth(body) EXCEPT !.message = "text"]

ParseErrorResponse(body) == [kind |-> "api", fields |-> Parsed(body)]

(* The errors the client makes itself.                                      *)
OwnError(kind) == [kind |-> kind, fields |-> Nowhere]

=============================================================================
