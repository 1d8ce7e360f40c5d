-------------------------- MODULE OperationBuilder --------------------------
(***************************************************************************)
(* What internal/codegen/generate.go makes of one operation of the         *)
(* specification: buildOperation, as functions.                            *)
(*                                                                         *)
(* Of the specification is kept what decides how the generated method      *)
(* calls the API: the verb, the placeholders of the path, the parameters   *)
(* of the path item ("shared") and of the operation ("own"), the request   *)
(* body and the success responses. A $ref that resolves stands for what it *)
(* refers to; one that does not has no name and no media.                  *)
(***************************************************************************)
EXTENDS Integers, Sequences

Verbs == {"GET", "POST", "PUT", "PATCH", "DELETE"}

(* contentSchema reads the schema of two media types.                       *)
HasSchema(media) == media \cap {"application/hal+json", "application/json"} # {}

-----------------------------------------------------------------------------
\* Mutant of Declared: only the operation's own parameters.
DeclaredByOperation(raw) == raw.own

(* Path-item parameters come first, for the operation's own to win.         *)
Declared(raw) == raw.shared \o raw.own

(* dedupeParamsByName: of each name the last declaration is kept, wherever the
   parameter goes. A parameter without a name is of no use to anybody.       *)
Kept(params) ==
  {params[i] : i \in {i \in DOMAIN params :
     params[i].name # "" /\ \A j \in DOMAIN params : j > i => params[j].name # params[i].name}}

(* parameters; the Go name of a parameter is its name. The account group is the
   client's business.                                                       *)
PathParams(raw)  == {p.name : p \in {p \in Kept(Declared(raw)) : p.in = "path"}}
QueryParams(raw) == {p.name : p \in {p \in Kept(Declared(raw)) : p.in = "query"}} \ {"aid"}

(* requestBody: a body may be a reference to a shared one.                   *)
HasBody(raw) == raw.body.form \in {"inline", "ref"} /\ HasSchema(raw.body.media)

(* responseType: any success response with a schema that has a Go type.      *)
HasResult(raw) ==
  \E code \in DOMAIN raw.responses :
    HasSchema(raw.responses[code].media) /\ raw.responses[code].typed

(* applyPagination and collectionOf: what takes a cursor and answers 200 with
   exactly one array.                                                       *)
IsPaginated(raw) ==
  /\ HasResult(raw)
  /\ raw.verb \in {"GET", "POST"}
  /\ "cursor" \in QueryParams(raw)
  /\ 200 \in DOMAIN raw.responses
  /\ HasSchema(raw.responses[200].media) /\ raw.responses[200].arrays = 1

(* endpointExpression: a method without arguments uses the path as it is written,
   placeholders and all; in another each placeholder names an argument.      *)
Endpoint(raw) == IF PathParams(raw) = {} THEN {} ELSE raw.slots

(* buildOperation: the verb and the path, the positional arguments, what the path is
   filled with, and whether the method has a body, a result and pages.      *)
BuildOperation(raw) ==
  [verb      |-> raw.verb,
   path      |-> raw.path,
   slots     |-> raw.slots,
   args      |-> PathParams(raw),
   filled    |-> Endpoint(raw),
   body      |-> HasBody(raw),
   result    |-> HasResult(raw),
   paginated |-> IsPaginated(raw)]

(* What is generated compiles when what fills the path is an argument.       *)
Compiles(op) == op.filled \subseteq op.args

(* A parameter of the specification, as what is kept of one.                 *)
Parameters == [name : STRING, in : STRING]

(* A specification in order: each placeholder has a name, is a path parameter of the
   path item or of the operation, and is not the name of another parameter too. A
   request body that is a reference resolves, and JSON is among its media: all that
   openapi-specs/7.0.99 has are of this kind, and what is sent is JSON.       *)
InOrder(raw) ==
  LET declared == {(raw.shared \o raw.own)[i] : i \in DOMAIN (raw.shared \o raw.own)} IN
  /\ raw.shared \in Seq(Parameters) /\ raw.own \in Seq(Parameters)
  /\ "" \notin raw.slots
  /\ raw.slots = {p.name : p \in {p \in declared : p.in = "path"}}
  /\ \A p \in declared : p.name \in raw.slots => p.in = "path"
  /\ raw.body.form \in {"none", "inline", "ref"}
  /\ raw.body.form # "none" => HasSchema(raw.body.media)

=============================================================================
