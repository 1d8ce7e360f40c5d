----------------------------- MODULE Operations -----------------------------
(***************************************************************************)
(* A call of a generated method: internal/templates/service.go.tmpl, with  *)
(* the builder of thousandeyes/client/request_builder.go and the options   *)
(* of options.go and no_retry.go, and the loop over pages of pagination.go *)
(* as far as it carries the request from page to page. What one request    *)
(* goes through is Transport.tla, and which pages are merged is            *)
(* Pagination.tla.                                                         *)
(*                                                                         *)
(* The method is one of the generated client, or one that is built here    *)
(* from a specification.                                                   *)
(***************************************************************************)
EXTENDS OperationBuilder, ErrorResponses

CONSTANTS
  Raws,          \* operations of a specification
  Generated,     \* operations of the generated client
  Options,       \* the options there are: the field of the builder each one sets
  OptionLists,   \* the lists of them a caller may pass
  AccountGroup,  \* the client's account group, or ""
  Deadlines,     \* the time a caller's context may have left
  Forever,       \* a context without a deadline
  Budget,        \* TotalRetryDuration; 0 for none
  ErrorBodies,   \* the bodies of failures
  MaxRequests,   \* bound: the pages of a collection
  Nil            \* no operation, no builder

ASSUME OperationsAssumption ==
  /\ Nil \notin Raws /\ \A raw \in Raws : InOrder(raw)
  /\ \A method \in Generated : method.result \in BOOLEAN /\ (method.paginated => method.result)
  /\ \A option \in Options : option.sets \in {"aid", "accept", "type", "pages", "noRetry"}
  /\ OptionLists \subseteq Seq(Options)
  /\ Budget \in Nat /\ Forever \notin Nat /\ Deadlines \subseteq Nat \cup {Forever}
  /\ ErrorBodies \subseteq Bodies
  /\ MaxRequests \in Nat

VARIABLES
  raw,      \* what the method was built from, or Nil
  op,       \* the method
  given,    \* the arguments that are not empty, whether the body is not nil, and
            \* the time the context has
  pc,       \* "called", "options", "ready", "sent" or "returned"
  todo,     \* the options not applied yet
  builder,  \* the request being built
  context,  \* the time left in the context that requests are made from
  wire,     \* the requests sent; history
  outcome   \* the result, what is merged in it, and the error

vars == <<raw, op, given, pc, todo, builder, context, wire, outcome>>

NoError == OwnError("none")

NoOutcome == [result |-> FALSE, merged |-> 0, error |-> NoError]

Init ==
  /\ \/ raw \in Raws /\ op = BuildOperation(raw) /\ Compiles(op)
     \/ raw = Nil /\ op \in Generated
  /\ \E missing \in SUBSET op.args, body \in BOOLEAN, deadline \in Deadlines :
       given = [args |-> op.args \ missing, body |-> body, deadline |-> deadline]
  /\ pc = "called"
  /\ todo \in OptionLists
  /\ builder = Nil
  /\ context = given.deadline
  /\ wire = << >>
  /\ outcome = NoOutcome

(* Every error of a method comes without a result.                          *)
Return(error) ==
  /\ pc' = "returned"
  /\ outcome' = [result |-> FALSE, merged |-> 0, error |-> error]

-----------------------------------------------------------------------------
Missing == given.args # op.args \/ (op.body /\ ~given.body)

(* "... is required": nothing is sent.                                       *)
Refuse ==
  /\ pc = "called" /\ Missing
  /\ Return(OwnError("argument"))
  /\ UNCHANGED <<raw, op, given, todo, builder, context, wire>>

(* The builder as the generated code sets it up, before the options.        *)
Prepare ==
  /\ pc = "called" /\ ~Missing
  /\ builder' = [accept  |-> "default",
                 type    |-> IF op.body THEN "json" ELSE "",
                 body    |-> op.body,
                 aid     |-> AccountGroup,
                 pages   |-> 0,
                 noRetry |-> FALSE]
  /\ pc' = "options"
  /\ UNCHANGED <<raw, op, given, todo, context, wire, outcome>>

(* SetHeader and SetQueryParam ignore what is empty, SetMaxPages what is not
   positive.                                                                *)
Ignored(option) ==
  \/ option.sets \in {"aid", "accept", "type"} /\ option.to = ""
  \/ option.sets = "pages" /\ option.to <= 0

Apply(option) ==
  IF Ignored(option) THEN builder ELSE [builder EXCEPT ![option.sets] = option.to]

ApplyOption ==
  /\ pc = "options" /\ todo # << >>
  /\ builder' = Apply(Head(todo))
  /\ todo' = Tail(todo)
  /\ UNCHANGED <<raw, op, given, pc, context, wire, outcome>>

Execute ==
  /\ pc = "options" /\ todo = << >>
  /\ pc' = "ready"
  /\ UNCHANGED <<raw, op, given, todo, builder, context, wire, outcome>>

-----------------------------------------------------------------------------
(* executeRequest gives a context without a deadline the budget.            *)
Allowed == IF context = Forever /\ Budget > 0 THEN Budget ELSE context

\* Mutant of Page: the verb is left to what fetches a link.
PageByGet ==
  [verb |-> IF wire = << >> THEN op.verb ELSE "GET",
   to |-> IF wire = << >> THEN "path" ELSE "link", filled |-> op.filled, values |-> given.args,
   body |-> builder.body, accept |-> builder.accept, type |-> builder.type,
   aid |-> IF wire = << >> THEN builder.aid ELSE "",
   noRetry |-> builder.noRetry, allowed |-> Allowed]

(* The first request goes to the path with the query parameters; the others to the
   next link, with all the rest as it was.                                  *)
Page ==
  [verb |-> op.verb,
   to |-> IF wire = << >> THEN "path" ELSE "link", filled |-> op.filled, values |-> given.args,
   body |-> builder.body, accept |-> builder.accept, type |-> builder.type,
   aid |-> IF wire = << >> THEN builder.aid ELSE "",
   noRetry |-> builder.noRetry, allowed |-> Allowed]

Send ==
  /\ pc = "ready" /\ Allowed # 0 /\ Len(wire) < MaxRequests
  /\ wire' = Append(wire, Page)
  /\ pc' = "sent"
  /\ UNCHANGED <<raw, op, given, todo, builder, context, outcome>>

(* The context is done before the request is.                               *)
Expire ==
  /\ pc = "ready" /\ Allowed = 0
  /\ Return(OwnError("context"))
  /\ UNCHANGED <<raw, op, given, todo, builder, context, wire>>

\* Mutant of Pass: a page is made from the context of the page before, which is done
\* when that has been answered.
PassWrapped(elapsed) == context' = IF Allowed = Forever THEN Forever ELSE 0

(* Time passes for the caller's context; the budget was the request's own.   *)
Pass(elapsed) == context' = IF context = Forever THEN Forever ELSE context - elapsed

(* The API answers with a failure.                                           *)
Fail ==
  /\ pc = "sent"
  /\ \E body \in ErrorBodies : Return(ParseErrorResponse(body))
  /\ UNCHANGED <<raw, op, given, todo, builder, context, wire>>

\* Mutant of Break: what has been merged so far is returned with the error.
BreakPartially ==
  /\ pc = "sent"
  /\ pc' = "returned"
  /\ outcome' = [result |-> outcome.merged > 0, merged |-> outcome.merged, error |-> OwnError("transport")]
  /\ UNCHANGED <<raw, op, given, todo, builder, context, wire>>

(* There is no answer, or none that decodes.                                 *)
Break ==
  /\ pc = "sent"
  /\ Return(OwnError("transport"))
  /\ UNCHANGED <<raw, op, given, todo, builder, context, wire>>

(* The answer is the result, or nothing where the method has none.           *)
Succeed ==
  /\ pc = "sent" /\ ~op.paginated
  /\ pc' = "returned"
  /\ outcome' = [result |-> op.result, merged |-> 0, error |-> NoError]
  /\ UNCHANGED <<raw, op, given, todo, builder, context, wire>>

(* A page is merged; it is the last one, or the last one asked for.           *)
LastPage ==
  /\ pc = "sent" /\ op.paginated
  /\ pc' = "returned"
  /\ outcome' = [result |-> TRUE, merged |-> outcome.merged + 1, error |-> NoError]
  /\ UNCHANGED <<raw, op, given, todo, builder, context, wire>>

NextPage ==
  /\ pc = "sent" /\ op.paginated
  /\ builder.pages = 0 \/ Len(wire) < builder.pages
  /\ outcome' = [outcome EXCEPT !.merged = @ + 1]
  /\ \E elapsed \in 0 .. 1 : (Allowed = Forever \/ elapsed <= Allowed) /\ Pass(elapsed)
  /\ pc' = "ready"
  /\ UNCHANGED <<raw, op, given, todo, builder, wire>>

(* The method has returned, or the bound on the model's pages is reached.    *)
Done ==
  /\ pc = "returned" \/ (pc = "ready" /\ Len(wire) >= MaxRequests)
  /\ UNCHANGED vars

Next ==
  \/ Refuse \/ Prepare \/ ApplyOption \/ Execute
  \/ Send \/ Expire \/ Fail \/ Break \/ Succeed \/ LastPage \/ NextPage
  \/ Done

Spec == Init /\ [][Next]_vars

-----------------------------------------------------------------------------
(* Every variable that steps change has its type.                            *)
TypeOK ==
  /\ pc \in {"called", "options", "ready", "sent", "returned"}
  /\ context \in Nat \cup {Forever}
  /\ \A i \in DOMAIN wire : wire[i].allowed \in Nat \cup {Forever}
  /\ outcome \in [result : BOOLEAN, merged : Nat, error : Errors]

(* Each placeholder of the path is filled with an argument that is not empty: "three
   generated methods came to send a literal {id}" (spec.go). What is built from a
   specification sends the verb it names, to its path, and a body whenever it
   describes one: "the body was silently dropped" (generate.go).            *)
PathFilled(request, slots) == slots \subseteq request.filled \cap request.values

AsDescribed(request, described) ==
  /\ request.verb = described.verb
  /\ PathFilled(request, described.slots)
  /\ request.body = (described.body.form # "none")
  /\ request.body => given.body /\ request.type # ""

RequestAsSpecified ==
  \A i \in DOMAIN wire :
    IF raw = Nil THEN PathFilled(wire[i], op.slots) ELSE AsDescribed(wire[i], raw)

(* Later pages repeat the first request but for its query (pagination.go).   *)
PagesCarry ==
  \A i \in DOMAIN wire \ {1} :
    /\ wire[i].to = "link" /\ wire[i].aid = ""
    /\ \A part \in DOMAIN wire[1] \ {"to", "aid", "allowed"} : wire[i][part] = wire[1][part]

(* As long as the caller sets no deadline each page has the whole budget, and none
   is made from the context of the page before, which is done (pagination.go,
   executeRequest).                                                         *)
WholeBudgetEach ==
  given.deadline = Forever =>
    /\ \A i \in DOMAIN wire : wire[i].allowed = IF Budget > 0 THEN Budget ELSE Forever
    /\ outcome.error.kind # "context"

(* A method that returns has a result, with every page in it, or an error.    *)
ResultIffSuccess ==
  pc = "returned" =>
    IF outcome.error = NoError
      THEN /\ outcome.result = op.result
           /\ op.paginated => outcome.merged = Len(wire)
      ELSE ~outcome.result

(* What an error says comes from one shape of body alone (errors.go).         *)
ErrorFromOneShape ==
  LET fields == outcome.error.fields IN
  {fields.code, fields.detail} \subseteq {fields.message, "none"}

=============================================================================
