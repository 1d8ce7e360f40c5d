---------------------------- MODULE MCOperations ----------------------------
(***************************************************************************)
(* Operations with the whole generated client, and with methods built from *)
(* a small specification.                                                  *)
(***************************************************************************)
EXTENDS Operations, Catalogue, FiniteSets

Parameter(name, in) == [name |-> name, in |-> in]

(* A reference that resolves to nothing.                                    *)
DanglingParameter == Parameter("", "")

(* The placeholder is declared with the path, with the operation, or with both,
   beside a reference that dangles and parameters of the query.             *)
Declarations ==
  {[slots |-> {}, shared |-> << >>, own |-> <<Parameter("aid", "query")>>],
   [slots |-> {}, shared |-> <<Parameter("cursor", "query")>>, own |-> << >>],
   [slots |-> {"id"}, shared |-> <<Parameter("id", "path")>>, own |-> << >>],
   [slots |-> {"id"}, shared |-> <<DanglingParameter, Parameter("id", "path")>>,
    own |-> <<Parameter("cursor", "query"), Parameter("id", "path")>>],
   [slots |-> {"id", "test"}, shared |-> <<Parameter("id", "path")>>,
    own |-> <<Parameter("test", "path"), Parameter("accept", "header")>>]}

Hal == {"application/hal+json"}

SomeBodies ==
  {[form |-> "none", media |-> {}], [form |-> "inline", media |-> {"application/json"}],
   [form |-> "ref", media |-> Hal],
   [form |-> "ref", media |-> {"application/json", "text/csv"}]}

Answer(media, typed, arrays) == [media |-> media, typed |-> typed, arrays |-> arrays]

SomeResponses ==
  {[code \in {200} |-> Answer(Hal, TRUE, 1)], [code \in {200} |-> Answer(Hal, TRUE, 2)],
   [code \in {201, 204} |-> IF code = 201 THEN Answer(Hal, TRUE, 1) ELSE Answer({}, FALSE, 0)],
   [code \in {204} |-> Answer({}, FALSE, 0)]}

SomeRaws ==
  {[verb |-> verb, path |-> "path", slots |-> declared.slots, shared |-> declared.shared,
    own |-> declared.own, body |-> body, responses |-> responses] :
     verb \in {"GET", "POST"}, declared \in Declarations,
     body \in SomeBodies, responses \in SomeResponses}

Option(sets, to) == [sets |-> sets, to |-> to]

SomeOptions ==
  {Option("aid", "other"), Option("aid", ""), Option("accept", "own"),
   Option("pages", 0), Option("pages", 1), Option("noRetry", TRUE)}

SomeOptionLists ==
  {<< >>, <<Option("aid", "other"), Option("aid", "")>>,
   <<Option("noRetry", TRUE), Option("pages", 0), Option("pages", 1)>>,
   <<Option("accept", "own"), Option("noRetry", TRUE)>>}

(* Bodies of failures that are of two shapes at once, of one, and of none.   *)
SomeErrors ==
  {[problem |-> "untitled", oauth |-> "error", legacy |-> "message"],
   [problem |-> "titled", oauth |-> "error", legacy |-> "no"],
   [problem |-> "mistyped", oauth |-> "no", legacy |-> "message"],
   [problem |-> "no", oauth |-> "no", legacy |-> "no"]}

ASSUME ServicesComplete == Cardinality(Services) = 323

=============================================================================
