-------------------------- MODULE OperationsProofs --------------------------
(***************************************************************************)
(* Proofs about Operations, for any specification, any generated methods   *)
(* and any options.                                                        *)
(***************************************************************************)
EXTENDS Operations, SequenceTheorems, WellFoundedInduction, TLAPS

(* Requests are made of a builder that is not changed any more.              *)
FirstRequest(allowed) ==
  [verb |-> op.verb, to |-> "path", filled |-> op.filled, values |-> given.args,
   body |-> builder.body, accept |-> builder.accept, type |-> builder.type,
   aid |-> builder.aid, noRetry |-> builder.noRetry, allowed |-> allowed]

LaterRequest(allowed) ==
  [verb |-> op.verb, to |-> "link", filled |-> op.filled, values |-> given.args,
   body |-> builder.body, accept |-> builder.accept, type |-> builder.type,
   aid |-> "", noRetry |-> builder.noRetry, allowed |-> allowed]

RequestAt(i) == IF i = 1 THEN FirstRequest(wire[i].allowed) ELSE LaterRequest(wire[i].allowed)

SequenceOf(requests) == requests \in Seq({requests[i] : i \in DOMAIN requests})

IsSequence == SequenceOf(wire)

OfBuilder ==
  /\ \A i \in DOMAIN wire : wire[i] = RequestAt(i)
  /\ pc \in {"called", "options"} => wire = << >>

(* The caller's context keeps what it had.                                   *)
NoDeadlineKept == given.deadline = Forever => context = Forever

(* While the call runs each page but the one under way is merged.            *)
MergedSoFar ==
  /\ pc \in {"called", "options", "ready"} => outcome.merged = Len(wire)
  /\ pc = "sent" => outcome.merged = Len(wire) - 1
  /\ pc # "returned" => outcome.error = NoError

PaginatedHasResult == op.result \in BOOLEAN /\ (op.paginated => op.result)

(* The method is one that is generated, or built from the specification.      *)
OfSpecification ==
  \/ raw = Nil /\ op \in Generated
  \/ raw # Nil /\ raw \in Raws /\ op = BuildOperation(raw)

(* From the call on each option sets a field of its own, so that once the arguments
   are checked the builder keeps the body, and a type for it.                *)
BuiltOf(request) ==
  /\ given.args = op.args /\ (op.body => given.body)
  /\ request.body = op.body /\ (op.body => request.type # "")

Prepared ==
  /\ todo \in Seq(Options)
  /\ pc \in {"options", "ready", "sent"} =>
       /\ BuiltOf(builder)
       /\ DOMAIN builder = {"accept", "type", "body", "aid", "pages", "noRetry"}
  /\ wire # << >> => BuiltOf(builder)

IInv ==
  /\ OfSpecification /\ Prepared
  /\ IsSequence /\ OfBuilder /\ NoDeadlineKept /\ MergedSoFar /\ PaginatedHasResult
  /\ WholeBudgetEach /\ ResultIffSuccess /\ ErrorFromOneShape

-----------------------------------------------------------------------------
(* Of the places with a property there is a last one.                        *)
LEMMA LastPlace ==
  ASSUME NEW n \in Nat, NEW S, S \subseteq 1 .. n, S # {}
  PROVE  \E i \in S : \A j \in S : j <= i
<1> DEFINE T == {n - i : i \in S}
<1>1. T \subseteq Nat /\ T # {}
  <2>1. PICK i \in S : TRUE  OBVIOUS
  <2>2. n - i \in T  BY <2>1
  <2> QED  BY <2>2
<1>2. PICK d \in T : \A e \in T : ~ (<<e, d>> \in OpToRel(<, Nat))
  BY <1>1, WFMin, NatLessThanWellFounded
<1>3. PICK i \in S : d = n - i  OBVIOUS
<1>4. ASSUME NEW j \in S PROVE j <= i
  <2>1. n - j \in T /\ n - j \in Nat /\ d \in Nat  BY <1>1
  <2>2. ~ (n - j < d)  BY <1>2, <2>1 DEF OpToRel
  <2> QED  BY <1>3, <2>1, <2>2
<1> QED  BY <1>4

(* Whatever is declared twice, of a placeholder a declaration in the path is kept:
   each of them is one.                                                      *)
LEMMA PlaceholdersAreArguments ==
  ASSUME NEW built, InOrder(built)
  PROVE  built.slots \subseteq PathParams(built)
<1> DEFINE params == built.shared \o built.own
<1>1. params \in Seq(Parameters)
  BY ConcatProperties DEF InOrder
<1>2. /\ built.slots = {p.name : p \in {p \in {params[i] : i \in DOMAIN params} : p.in = "path"}}
      /\ \A p \in {params[i] : i \in DOMAIN params} : p.name \in built.slots => p.in = "path"
      /\ "" \notin built.slots
  BY DEF InOrder
<1>3. Declared(built) = params  BY DEF Declared
<1> HIDE DEF params
<1> SUFFICES ASSUME NEW slot \in built.slots PROVE slot \in PathParams(built)
  OBVIOUS
<1> DEFINE Places == {i \in DOMAIN params : params[i].name = slot}
<1>4. Len(params) \in Nat /\ Places \subseteq 1 .. Len(params) /\ Places # {}
  <2>1. PICK p \in {params[i] : i \in DOMAIN params} : p.name = slot
    <3> DEFINE InPath == {p \in {params[i] : i \in DOMAIN params} : p.in = "path"}
    <3>1. slot \in {p.name : p \in InPath}  BY <1>2
    <3>2. PICK p \in InPath : slot = p.name  BY <3>1
    <3> QED  BY <3>2
  <2>2. PICK i \in DOMAIN params : p = params[i]  BY <2>1
  <2>3. i \in Places  BY <2>1, <2>2
  <2> QED  BY <1>1, <2>3
<1>5. PICK last \in Places : \A j \in Places : j <= last
  <2> HIDE DEF Places
  <2> QED  BY <1>4, LastPlace
<1>6. \A j \in DOMAIN params : j > last => params[j].name # params[last].name
  BY <1>1, <1>4, <1>5
<1>7. params[last] \in Kept(params)
  BY <1>2, <1>5, <1>6 DEF Kept
<1>8. params[last].name = slot /\ params[last].in = "path"
  BY <1>2, <1>5
<1> QED  BY <1>3, <1>7, <1>8 DEF PathParams

LEMMA AppendToWire ==
  ASSUME IsSequence, NEW request, wire' = Append(wire, request)
  PROVE  /\ IsSequence'
         /\ Len(wire) \in Nat /\ Len(wire') = Len(wire) + 1
         /\ DOMAIN wire = 1 .. Len(wire) /\ DOMAIN wire' = 1 .. Len(wire) + 1
         /\ \A i \in DOMAIN wire : wire'[i] = wire[i]
         /\ wire'[Len(wire) + 1] = request
<1> DEFINE S == {wire[i] : i \in DOMAIN wire}
<1>1. wire \in Seq(S)  BY DEF IsSequence, SequenceOf
<1>2. wire \in Seq(S \cup {request}) /\ request \in S \cup {request}
  <2>1. \A i \in 1 .. Len(wire) : wire[i] \in S \cup {request}  BY <1>1
  <2> QED  BY <1>1, <2>1
<1> HIDE DEF S
<1>3. /\ wire' \in Seq(S \cup {request})
      /\ Len(wire) \in Nat /\ Len(wire') = Len(wire) + 1
      /\ DOMAIN wire = 1 .. Len(wire) /\ DOMAIN wire' = 1 .. Len(wire) + 1
      /\ \A i \in DOMAIN wire : wire'[i] = wire[i]
      /\ wire'[Len(wire) + 1] = request
  BY <1>2
<1>4. IsSequence'
  <2> DEFINE T == {wire'[i] : i \in DOMAIN wire'}
  <2>1. \A i \in 1 .. Len(wire') : wire'[i] \in T  BY <1>3
  <2> HIDE DEF T
  <2>2. wire' \in Seq(T)  BY <1>3, <2>1
  <2> QED  BY <2>2 DEF IsSequence, SequenceOf, T
<1> QED  BY <1>3, <1>4

(* An error of the client's own, or one made of a body, is an error.         *)
LEMMA ErrorsAreErrors ==
  /\ \A kind : kind # "none" => OwnError(kind) # NoError
  /\ \A body : ParseErrorResponse(body) # NoError
BY DEF OwnError, NoError, ParseErrorResponse

LEMMA OneShape ==
  /\ \A kind : {OwnError(kind).fields.code, OwnError(kind).fields.detail}
                 \subseteq {OwnError(kind).fields.message, "none"}
  /\ \A body :
       LET fields == ParseErrorResponse(body).fields IN
       {fields.code, fields.detail} \subseteq {fields.message, "none"}
BY DEF OwnError, Nowhere, ParseErrorResponse, Parsed, Problem, BeforeOAuth

(* The requests are still those of the builder when neither changes.           *)
LEMMA RequestsKept ==
  ASSUME OfBuilder, pc' \notin {"called", "options"}, UNCHANGED <<op, given, builder, wire>>
  PROVE  OfBuilder'
<1>1. SUFFICES ASSUME NEW i \in DOMAIN wire PROVE wire[i] = RequestAt(i)'
  BY DEF OfBuilder
<1>2. wire[i] = RequestAt(i)  BY DEF OfBuilder
<1> QED  BY <1>2 DEF RequestAt, FirstRequest, LaterRequest

LEMMA SpecificationKept ==
  ASSUME OfSpecification, UNCHANGED <<raw, op>>
  PROVE  OfSpecification'
BY DEF OfSpecification

LEMMA PreparedKept ==
  ASSUME Prepared, UNCHANGED <<op, given, todo, builder, wire>>,
         pc' = pc \/ pc' = "returned" \/ {pc, pc'} \subseteq {"options", "ready", "sent"}
  PROVE  Prepared'
<1>1. BuiltOf(builder)' = BuiltOf(builder)  BY DEF BuiltOf
<1> QED  BY <1>1 DEF Prepared

(* A method that returns an error leaves the rest as it was.                  *)
LEMMA ReturnKeeps ==
  ASSUME IInv, NEW error, Return(error), error # NoError,
         {error.fields.code, error.fields.detail} \subseteq {error.fields.message, "none"},
         error.kind = "context" => given.deadline # Forever,
         UNCHANGED <<raw, op, given, todo, builder, context, wire>>
  PROVE  IInv'
<1>0. OfSpecification' /\ Prepared'
  BY SpecificationKept, PreparedKept DEF IInv, Return
<1>1. IsSequence' /\ NoDeadlineKept' /\ PaginatedHasResult'
  BY DEF IInv, IsSequence, NoDeadlineKept, PaginatedHasResult
<1>2. OfBuilder'  BY RequestsKept DEF IInv, Return
<1>3. pc' = "returned" /\ outcome'.error = error /\ outcome'.result = FALSE
  BY DEF Return
<1>4. MergedSoFar'  BY <1>3 DEF MergedSoFar
<1>5. WholeBudgetEach'
  BY <1>3 DEF IInv, WholeBudgetEach
<1>6. ResultIffSuccess'  BY <1>3 DEF ResultIffSuccess
<1>7. ErrorFromOneShape'  BY <1>3 DEF ErrorFromOneShape
<1> QED  BY <1>0, <1>1, <1>2, <1>4, <1>5, <1>6, <1>7 DEF IInv

-----------------------------------------------------------------------------
LEMMA InitIInv == Init => IInv
<1> SUFFICES ASSUME Init PROVE IInv  OBVIOUS
<1>1. wire = << >> /\ outcome = NoOutcome /\ pc = "called" /\ context = given.deadline
  BY DEF Init
<1>2. PaginatedHasResult
  <2>1. CASE raw \in Raws /\ op = BuildOperation(raw)
    <3>1. op.result = HasResult(raw) /\ op.paginated = IsPaginated(raw)
      BY <2>1 DEF BuildOperation
    <3>2. HasResult(raw) \in BOOLEAN  BY DEF HasResult
    <3>3. IsPaginated(raw) => HasResult(raw)  BY DEF IsPaginated
    <3> QED  BY <3>1, <3>2, <3>3 DEF PaginatedHasResult
  <2>2. CASE op \in Generated  BY <2>2, OperationsAssumption DEF PaginatedHasResult
  <2> QED  BY <2>1, <2>2 DEF Init
<1>3. IsSequence  BY <1>1 DEF IsSequence, SequenceOf
<1>4. OfBuilder /\ NoDeadlineKept /\ MergedSoFar
  BY <1>1 DEF OfBuilder, NoDeadlineKept, MergedSoFar, NoOutcome
<1>5. WholeBudgetEach /\ ResultIffSuccess /\ ErrorFromOneShape
  BY <1>1 DEF WholeBudgetEach, ResultIffSuccess, ErrorFromOneShape, NoOutcome, NoError,
              OwnError, Nowhere
<1>6. OfSpecification  BY OperationsAssumption DEF Init, OfSpecification
<1>7. Prepared
  <2>1. todo \in Seq(Options)  BY OperationsAssumption DEF Init
  <2> QED  BY <1>1, <2>1 DEF Prepared
<1> QED  BY <1>2, <1>3, <1>4, <1>5, <1>6, <1>7 DEF IInv

LEMMA BuildingKeeps ==
  ASSUME IInv, pc \in {"called", "options"}, pc' \in {"options", "ready"},
         UNCHANGED <<op, given, context, wire, outcome>>,
         pc' = "ready" => UNCHANGED builder,
         UNCHANGED raw, Prepared'
  PROVE  IInv'
<1>0. OfSpecification'  BY SpecificationKept DEF IInv
<1>1. wire = << >>  BY DEF IInv, OfBuilder
<1> QED
  BY <1>0, <1>1 DEF IInv, IsSequence, OfBuilder, NoDeadlineKept, MergedSoFar, PaginatedHasResult,
              WholeBudgetEach, ResultIffSuccess, ErrorFromOneShape

(* The builder starts with the body, once the arguments are there.           *)
LEMMA PrepareKeeps == ASSUME IInv, Prepare PROVE IInv'
<1>1. given.args = op.args /\ (op.body => given.body)  BY DEF Prepare, Missing
<1>2. /\ pc' = "options" /\ UNCHANGED <<op, given, todo, wire>>
      /\ builder'.body = op.body /\ (op.body => builder'.type = "json")
      /\ DOMAIN builder' = {"accept", "type", "body", "aid", "pages", "noRetry"}
  BY DEF Prepare
<1>3. BuiltOf(builder)'  BY <1>1, <1>2 DEF BuiltOf
<1>4. Prepared'  BY <1>2, <1>3 DEF IInv, Prepared
<1> QED  BY <1>4, BuildingKeeps DEF Prepare

(* No option takes the body, or the type of one, away.                        *)
LEMMA ApplyOptionKeeps == ASSUME IInv, ApplyOption PROVE IInv'
<1> DEFINE option == Head(todo)
<1>1. /\ pc = "options" /\ pc' = "options" /\ builder' = Apply(option)
      /\ todo' \in Seq(Options) /\ option \in Options
      /\ UNCHANGED <<op, given, wire>>
  BY HeadTailProperties DEF ApplyOption, IInv, Prepared
<1>2. /\ BuiltOf(builder)
      /\ DOMAIN builder = {"accept", "type", "body", "aid", "pages", "noRetry"}
  BY <1>1 DEF IInv, Prepared
<1>3. option.sets \in {"aid", "accept", "type", "pages", "noRetry"}
  BY <1>1, OperationsAssumption
<1>4. option.sets = "type" => Ignored(option) \/ option.to # ""
  BY DEF Ignored
<1> HIDE DEF option
<1>5. /\ DOMAIN builder' = DOMAIN builder
      /\ builder'.body = builder.body
      /\ builder.type # "" => builder'.type # ""
  BY <1>1, <1>2, <1>3, <1>4 DEF Apply
<1>6. BuiltOf(builder)'  BY <1>1, <1>2, <1>5 DEF BuiltOf
<1>7. Prepared'  BY <1>1, <1>2, <1>5, <1>6 DEF Prepared
<1> QED  BY <1>7, BuildingKeeps DEF ApplyOption

LEMMA SendKeeps == ASSUME IInv, Send PROVE IInv'
<1>1. /\ pc = "ready" /\ pc' = "sent" /\ Allowed # 0 /\ wire' = Append(wire, Page)
      /\ UNCHANGED <<raw, op, given, todo, builder, context, outcome>>
  BY DEF Send
<1>2. /\ IsSequence'
      /\ Len(wire) \in Nat /\ Len(wire') = Len(wire) + 1
      /\ DOMAIN wire = 1 .. Len(wire) /\ DOMAIN wire' = 1 .. Len(wire) + 1
      /\ \A i \in DOMAIN wire : wire'[i] = wire[i]
      /\ wire'[Len(wire) + 1] = Page
  BY <1>1, AppendToWire DEF IInv
<1>3. wire = << >> <=> Len(wire) + 1 = 1
  BY <1>2 DEF IInv, IsSequence, SequenceOf
<1>4. Page = IF Len(wire) + 1 = 1 THEN FirstRequest(Allowed) ELSE LaterRequest(Allowed)
  BY <1>3 DEF Page, FirstRequest, LaterRequest
<1>5. Page.allowed = Allowed  BY DEF Page
<1>6. OfBuilder'
  <2> SUFFICES ASSUME NEW i \in DOMAIN wire' PROVE wire'[i] = RequestAt(i)'
    BY <1>1 DEF OfBuilder
  <2>1. CASE i \in DOMAIN wire
    <3>1. wire[i] = RequestAt(i)  BY <2>1 DEF IInv, OfBuilder
    <3> QED  BY <1>1, <1>2, <2>1, <3>1 DEF RequestAt, FirstRequest, LaterRequest
  <2>2. CASE i = Len(wire) + 1
    BY <1>1, <1>2, <1>4, <1>5, <2>2 DEF RequestAt, FirstRequest, LaterRequest
  <2> QED  BY <1>2, <2>1, <2>2
<1>7. WholeBudgetEach'
  <2> SUFFICES ASSUME given.deadline = Forever
               PROVE  /\ \A i \in DOMAIN wire' :
                           wire'[i].allowed = IF Budget > 0 THEN Budget ELSE Forever
                      /\ outcome.error.kind # "context"
    BY <1>1 DEF WholeBudgetEach
  <2>1. /\ \A i \in DOMAIN wire : wire[i].allowed = IF Budget > 0 THEN Budget ELSE Forever
        /\ outcome.error.kind # "context"
    BY DEF IInv, WholeBudgetEach
  <2>2. Allowed = IF Budget > 0 THEN Budget ELSE Forever
    BY DEF IInv, NoDeadlineKept, Allowed
  <2> QED  BY <1>2, <1>5, <2>1, <2>2
<1>8. MergedSoFar'  BY <1>1, <1>2 DEF IInv, MergedSoFar
<1>9. OfSpecification'  BY <1>1, SpecificationKept DEF IInv
<1>10. Prepared'
  <2>1. Prepared /\ BuiltOf(builder)' = BuiltOf(builder)  BY <1>1 DEF IInv, BuiltOf
  <2> QED  BY <1>1, <2>1 DEF Prepared
<1> QED
  BY <1>1, <1>2, <1>6, <1>7, <1>8, <1>9, <1>10
  DEF IInv, NoDeadlineKept, PaginatedHasResult, ResultIffSuccess, ErrorFromOneShape

LEMMA ExpireKeeps == ASSUME IInv, Expire PROVE IInv'
<1>1. given.deadline # Forever
  BY OperationsAssumption DEF Expire, Allowed, IInv, NoDeadlineKept
<1>2. OwnError("context") # NoError  BY ErrorsAreErrors
<1> QED  BY <1>1, <1>2, OneShape, ReturnKeeps DEF Expire

LEMMA RefuseKeeps == ASSUME IInv, Refuse PROVE IInv'
<1>1. OwnError("argument") # NoError /\ OwnError("argument").kind # "context"
  BY ErrorsAreErrors DEF OwnError
<1> QED  BY <1>1, OneShape, ReturnKeeps DEF Refuse

LEMMA BreakKeeps == ASSUME IInv, Break PROVE IInv'
<1>1. OwnError("transport") # NoError /\ OwnError("transport").kind # "context"
  BY ErrorsAreErrors DEF OwnError
<1> QED  BY <1>1, OneShape, ReturnKeeps DEF Break

LEMMA FailKeeps == ASSUME IInv, Fail PROVE IInv'
<1>1. PICK body \in ErrorBodies : Return(ParseErrorResponse(body))  BY DEF Fail
<1>2. ParseErrorResponse(body) # NoError /\ ParseErrorResponse(body).kind # "context"
  BY ErrorsAreErrors DEF ParseErrorResponse
<1> QED  BY <1>1, <1>2, OneShape, ReturnKeeps DEF Fail

LEMMA AnswerKeeps == ASSUME IInv, Succeed \/ LastPage \/ NextPage PROVE IInv'
<1>1. /\ UNCHANGED <<raw, op, given, todo, builder, wire>>
      /\ pc = "sent" /\ pc' \in {"ready", "returned"}
      /\ outcome'.error = NoError
  <2>1. CASE Succeed \/ LastPage  BY <2>1 DEF Succeed, LastPage
  <2>2. CASE NextPage
    <3>1. outcome.error = NoError  BY <2>2 DEF NextPage, IInv, MergedSoFar
    <3>2. outcome' = [outcome EXCEPT !.merged = @ + 1]  BY <2>2 DEF NextPage
    <3> QED  BY <2>2, <3>1, <3>2 DEF NextPage
  <2> QED  BY <2>1, <2>2
<1>2. IsSequence' /\ OfBuilder' /\ PaginatedHasResult'
  BY <1>1, RequestsKept DEF IInv, IsSequence, PaginatedHasResult
<1>3. NoDeadlineKept'
  BY <1>1 DEF IInv, NoDeadlineKept, Succeed, LastPage, NextPage, Pass
<1>4. WholeBudgetEach' /\ ErrorFromOneShape'
  BY <1>1 DEF IInv, WholeBudgetEach, ErrorFromOneShape, NoError, OwnError, Nowhere
<1>5. Len(wire) \in Nat
  BY DEF IInv, IsSequence, SequenceOf
<1>6. outcome.merged = Len(wire) - 1  BY <1>1 DEF IInv, MergedSoFar
<1>7. MergedSoFar' /\ ResultIffSuccess'
  <2>1. CASE Succeed
    <3>1. pc' = "returned" /\ outcome'.result = op.result /\ ~op.paginated
      BY <2>1 DEF Succeed
    <3> QED  BY <1>1, <3>1 DEF MergedSoFar, ResultIffSuccess
  <2>2. CASE LastPage
    <3>1. /\ op.paginated /\ pc' = "returned"
          /\ outcome'.result = TRUE /\ outcome'.merged = outcome.merged + 1
      BY <2>2 DEF LastPage
    <3>2. op.result = TRUE  BY <3>1 DEF IInv, PaginatedHasResult
    <3>3. outcome'.merged = Len(wire)  BY <1>5, <1>6, <3>1
    <3>4. MergedSoFar'  BY <1>1, <3>1 DEF MergedSoFar
    <3>5. ResultIffSuccess'  BY <1>1, <3>1, <3>2, <3>3 DEF ResultIffSuccess
    <3> QED  BY <3>4, <3>5
  <2>3. CASE NextPage
    <3>1. outcome'.merged = outcome.merged + 1 /\ pc' = "ready"
      BY <2>3 DEF NextPage
    <3> QED  BY <1>1, <1>5, <1>6, <3>1 DEF MergedSoFar, ResultIffSuccess
  <2> QED  BY <2>1, <2>2, <2>3
<1>8. OfSpecification' /\ Prepared'
  BY <1>1, SpecificationKept, PreparedKept DEF IInv
<1> QED  BY <1>2, <1>3, <1>4, <1>7, <1>8 DEF IInv

LEMMA NextIInv == IInv /\ [Next]_vars => IInv'
<1> SUFFICES ASSUME IInv, [Next]_vars PROVE IInv'  OBVIOUS
<1>1. CASE UNCHANGED vars
  <2>1. UNCHANGED <<raw, op, given, pc, todo, builder, context, wire, outcome>>  BY <1>1 DEF vars
  <2>5. OfSpecification' /\ Prepared'
    BY <2>1, SpecificationKept, PreparedKept DEF IInv
  <2>2. IsSequence' /\ NoDeadlineKept' /\ MergedSoFar' /\ PaginatedHasResult'
    BY <2>1 DEF IInv, IsSequence, NoDeadlineKept, MergedSoFar, PaginatedHasResult
  <2>3. OfBuilder'
    <3>1. CASE pc \in {"called", "options"}
      BY <2>1, <3>1 DEF IInv, OfBuilder
    <3>2. CASE pc \notin {"called", "options"}
      BY <2>1, <3>2, RequestsKept DEF IInv
    <3> QED  BY <3>1, <3>2
  <2>4. WholeBudgetEach' /\ ResultIffSuccess' /\ ErrorFromOneShape'
    BY <2>1 DEF IInv, WholeBudgetEach, ResultIffSuccess, ErrorFromOneShape
  <2> QED  BY <2>2, <2>3, <2>4, <2>5 DEF IInv
<1>2. CASE Refuse       BY <1>2, RefuseKeeps
<1>3. CASE Prepare      BY <1>3, PrepareKeeps
<1>4. CASE ApplyOption  BY <1>4, ApplyOptionKeeps
<1>5. CASE Execute      BY <1>5, PreparedKept, BuildingKeeps DEF Execute, IInv
<1>6. CASE Send         BY <1>6, SendKeeps
<1>7. CASE Expire       BY <1>7, ExpireKeeps
<1>8. CASE Fail         BY <1>8, FailKeeps
<1>9. CASE Break        BY <1>9, BreakKeeps
<1>10. CASE Succeed \/ LastPage \/ NextPage  BY <1>10, AnswerKeeps
<1> QED  BY <1>1, <1>2, <1>3, <1>4, <1>5, <1>6, <1>7, <1>8, <1>9, <1>10 DEF Next, Done

THEOREM AlwaysCarried == Spec => []IInv
BY InitIInv, NextIInv, PTL DEF Spec

-----------------------------------------------------------------------------
LEMMA ErrorsTyped ==
  /\ \A kind \in {"none", "argument", "context", "transport"} : OwnError(kind) \in Errors
  /\ \A body : ParseErrorResponse(body) \in Errors
<1>1. Nowhere \in [code : Origins, message : Origins, detail : Origins]
  BY DEF Nowhere, Origins
<1>2. ASSUME NEW body PROVE ParseErrorResponse(body) \in Errors
  <2>1. Parsed(body) \in [code : Origins, message : Origins, detail : Origins]
    BY DEF Parsed, BeforeOAuth, Nowhere, Problem, Origins
  <2> QED  BY <2>1 DEF ParseErrorResponse, Errors
<1> QED  BY <1>1, <1>2 DEF OwnError, Errors

LEMMA ReturnTyped ==
  ASSUME TypeOK, NEW error \in Errors, Return(error), UNCHANGED <<context, wire>>
  PROVE  TypeOK'
BY DEF TypeOK, Return

LEMMA NextTyped == IInv /\ TypeOK /\ [Next]_vars => TypeOK'
<1> SUFFICES ASSUME IInv, TypeOK, [Next]_vars PROVE TypeOK'  OBVIOUS
<1>1. CASE UNCHANGED vars \/ Done  BY <1>1 DEF vars, Done, TypeOK
<1>2. CASE Refuse \/ Expire \/ Break
  BY <1>2, ErrorsTyped, ReturnTyped DEF Refuse, Expire, Break
<1>3. CASE Fail  BY <1>3, ErrorsTyped, ReturnTyped DEF Fail
<1>4. CASE Prepare \/ ApplyOption \/ Execute
  BY <1>4 DEF Prepare, ApplyOption, Execute, TypeOK
<1>5. CASE Send
  <2>1. wire' = Append(wire, Page) /\ pc' = "sent" /\ UNCHANGED <<context, outcome>>
    BY <1>5 DEF Send
  <2>2. Page.allowed \in Nat \cup {Forever}
    BY OperationsAssumption DEF Page, Allowed, TypeOK
  <2>3. \A i \in DOMAIN wire' : wire'[i].allowed \in Nat \cup {Forever}
    <3>1. /\ DOMAIN wire' = 1 .. Len(wire) + 1
          /\ DOMAIN wire = 1 .. Len(wire) /\ Len(wire) \in Nat
          /\ \A i \in DOMAIN wire : wire'[i] = wire[i]
          /\ wire'[Len(wire) + 1] = Page
      BY <2>1, AppendToWire DEF IInv
    <3>2. \A i \in DOMAIN wire' : i \in DOMAIN wire \/ i = Len(wire) + 1
      BY <3>1
    <3> QED  BY <2>2, <3>1, <3>2 DEF TypeOK
  <2> QED  BY <2>1, <2>3 DEF TypeOK
<1>6. CASE Succeed \/ LastPage
  <2>1. NoError \in Errors  BY ErrorsTyped DEF NoError
  <2>2. op.result \in BOOLEAN  BY DEF IInv, PaginatedHasResult
  <2>3. outcome.merged + 1 \in Nat  BY DEF TypeOK
  <2>4. CASE Succeed
    <3>1. outcome' \in [result : BOOLEAN, merged : Nat, error : Errors]
      BY <2>1, <2>2, <2>4 DEF Succeed
    <3> QED  BY <2>4, <3>1 DEF Succeed, TypeOK
  <2>5. CASE LastPage
    <3>1. outcome' \in [result : BOOLEAN, merged : Nat, error : Errors]
      BY <2>1, <2>3, <2>5 DEF LastPage
    <3> QED  BY <2>5, <3>1 DEF LastPage, TypeOK
  <2> QED  BY <1>6, <2>4, <2>5
<1>7. CASE NextPage
  <2>1. context' \in Nat \cup {Forever}
    <3>1. PICK elapsed \in 0 .. 1 : (Allowed = Forever \/ elapsed <= Allowed) /\ Pass(elapsed)
      BY <1>7 DEF NextPage
    <3>2. CASE context = Forever  BY <3>1, <3>2 DEF Pass
    <3>3. CASE context # Forever
      <4>1. context \in Nat /\ Allowed = context  BY <3>3 DEF TypeOK, Allowed
      <4>2. context' = context - elapsed /\ elapsed <= context
        BY <3>1, <3>3, <4>1 DEF Pass
      <4> QED  BY <4>1, <4>2
    <3> QED  BY <3>2, <3>3
  <2> QED  BY <1>7, <2>1 DEF NextPage, TypeOK
<1> QED  BY <1>1, <1>2, <1>3, <1>4, <1>5, <1>6, <1>7 DEF Next

(* Every variable that steps change has its type.                            *)
THEOREM TypeCorrect == Spec => []TypeOK
<1>1. Init => TypeOK
  <2>1. NoError \in Errors  BY ErrorsTyped DEF NoError
  <2> SUFFICES ASSUME Init PROVE TypeOK  OBVIOUS
  <2>2. given.deadline \in Deadlines
    <3>1. PICK missing \in SUBSET op.args, body \in BOOLEAN, deadline \in Deadlines :
            given = [args |-> op.args \ missing, body |-> body, deadline |-> deadline]
      BY DEF Init
    <3> QED  BY <3>1
  <2>3. pc = "called" /\ context = given.deadline /\ wire = << >> /\ outcome = NoOutcome
    BY DEF Init
  <2>4. outcome \in [result : BOOLEAN, merged : Nat, error : Errors]
    BY <2>1, <2>3 DEF NoOutcome
  <2>5. DOMAIN wire = {}  BY <2>3
  <2>6. context \in Nat \cup {Forever}  BY <2>2, <2>3, OperationsAssumption
  <2> QED  BY <2>3, <2>4, <2>5, <2>6 DEF TypeOK
<1> QED  BY <1>1, NextTyped, AlwaysCarried, PTL DEF Spec

(* If every generated method fills the placeholders of its path, which the catalogue
   is checked for, then so does every request, with arguments that are not empty.
   What is built from a specification in order needs no such assumption, and sends
   the verb and the body that it describes: no option takes the body away.    *)
THEOREM RequestsAsSpecified ==
  ASSUME \A method \in Generated : method.slots \subseteq method.filled \cap method.args
  PROVE  Spec => []RequestAsSpecified
<1>1. IInv => RequestAsSpecified
  <2> SUFFICES ASSUME IInv, NEW i \in DOMAIN wire
               PROVE  IF raw = Nil THEN PathFilled(wire[i], op.slots) ELSE AsDescribed(wire[i], raw)
    BY DEF RequestAsSpecified
  <2>1. wire[i] = RequestAt(i) /\ wire # << >>  BY DEF IInv, OfBuilder
  <2>2. /\ wire[i].verb = op.verb /\ wire[i].filled = op.filled
        /\ wire[i].values = given.args
        /\ wire[i].body = builder.body /\ wire[i].type = builder.type
    <3> DEFINE time == wire[i].allowed
    <3>1. wire[i] \in {FirstRequest(time), LaterRequest(time)}
      BY <2>1 DEF RequestAt
    <3> HIDE DEF time
    <3> DEFINE Parts(request) ==
          /\ request.verb = op.verb /\ request.filled = op.filled
          /\ request.values = given.args
          /\ request.body = builder.body /\ request.type = builder.type
    <3>2. Parts(FirstRequest(time))  BY DEF FirstRequest
    <3>3. Parts(LaterRequest(time))  BY DEF LaterRequest
    <3>4. \A request \in {FirstRequest(time), LaterRequest(time)} : Parts(request)
      <4> HIDE DEF Parts
      <4> QED  BY <3>2, <3>3
    <3> QED  BY <3>1, <3>4
  <2>3. BuiltOf(builder)  BY <2>1 DEF IInv, Prepared
  <2>4. CASE raw = Nil
    <3>1. op \in Generated  BY <2>4 DEF IInv, OfSpecification
    <3>2. op.slots \subseteq op.filled \cap op.args  BY <3>1
    <3> QED  BY <2>2, <2>3, <2>4, <3>2 DEF BuiltOf, PathFilled
  <2>5. CASE raw # Nil
    <3>1. op = BuildOperation(raw) /\ InOrder(raw)
      BY <2>5, OperationsAssumption DEF IInv, OfSpecification
    <3>2. /\ op.verb = raw.verb /\ op.slots = raw.slots /\ op.args = PathParams(raw)
          /\ op.filled = Endpoint(raw) /\ op.body = HasBody(raw)
      BY <3>1 DEF BuildOperation
    <3>3. raw.slots \subseteq op.args  BY <3>1, <3>2, PlaceholdersAreArguments
    <3>4. raw.slots \subseteq op.filled  BY <3>2, <3>3 DEF Endpoint
    <3>5. op.body = (raw.body.form # "none")  BY <3>1, <3>2 DEF HasBody, InOrder
    <3> QED  BY <2>2, <2>3, <2>5, <3>2, <3>3, <3>4, <3>5 DEF BuiltOf, PathFilled, AsDescribed
  <2> QED  BY <2>4, <2>5
<1> QED  BY AlwaysCarried, <1>1, PTL

(* Later pages repeat the first request but for its query.                   *)
THEOREM PagesCarryAll == Spec => []PagesCarry
<1>1. IInv => PagesCarry
  <2> SUFFICES ASSUME IInv, NEW i \in DOMAIN wire \ {1}
               PROVE  /\ wire[i].to = "link" /\ wire[i].aid = ""
                      /\ \A part \in DOMAIN wire[1] \ {"to", "aid", "allowed"} :
                           wire[i][part] = wire[1][part]
    BY DEF PagesCarry
  <2>1. 1 \in DOMAIN wire  BY DEF IInv, IsSequence, SequenceOf
  <2>2. wire[1] = FirstRequest(wire[1].allowed) /\ wire[i] = LaterRequest(wire[i].allowed)
    BY <2>1 DEF IInv, OfBuilder, RequestAt
  <2> DEFINE first == wire[1].allowed
             later == wire[i].allowed
  <2> HIDE DEF first, later
  <2>3. /\ LaterRequest(later).to = "link" /\ LaterRequest(later).aid = ""
        /\ \A part \in DOMAIN FirstRequest(first) \ {"to", "aid", "allowed"} :
             LaterRequest(later)[part] = FirstRequest(first)[part]
    <3>1. DOMAIN FirstRequest(first) \ {"to", "aid", "allowed"}
            = {"verb", "filled", "values", "body", "accept", "type", "noRetry"}
      BY DEF FirstRequest
    <3>2. LaterRequest(later).to = "link" /\ LaterRequest(later).aid = ""
      BY DEF LaterRequest
    <3>3. \A part \in {"verb", "filled", "values", "body", "accept", "type", "noRetry"} :
            LaterRequest(later)[part] = FirstRequest(first)[part]
      <4> USE DEF FirstRequest, LaterRequest
      <4>1. LaterRequest(later).verb = FirstRequest(first).verb  OBVIOUS
      <4>2. LaterRequest(later).filled = FirstRequest(first).filled  OBVIOUS
      <4>3. LaterRequest(later).values = FirstRequest(first).values  OBVIOUS
      <4>4. LaterRequest(later).body = FirstRequest(first).body  OBVIOUS
      <4>5. LaterRequest(later).accept = FirstRequest(first).accept  OBVIOUS
      <4>6. LaterRequest(later).type = FirstRequest(first).type  OBVIOUS
      <4>7. LaterRequest(later).noRetry = FirstRequest(first).noRetry  OBVIOUS
      <4> HIDE DEF FirstRequest, LaterRequest
      <4> QED  BY <4>1, <4>2, <4>3, <4>4, <4>5, <4>6, <4>7
    <3> HIDE DEF FirstRequest, LaterRequest
    <3> QED  BY <3>1, <3>2, <3>3
  <2>4. wire[1] = FirstRequest(first) /\ wire[i] = LaterRequest(later)
    BY <2>2 DEF first, later
  <2> HIDE DEF FirstRequest, LaterRequest
  <2> QED  BY <2>3, <2>4
<1> QED  BY AlwaysCarried, <1>1, PTL

(* Without a deadline of the caller's each page has the whole budget.        *)
THEOREM PagesHaveWholeBudget == Spec => []WholeBudgetEach
<1>1. IInv => WholeBudgetEach  BY DEF IInv
<1> QED  BY AlwaysCarried, <1>1, PTL

(* A method returns its whole result, or an error and no result.              *)
THEOREM WholeResultOrError == Spec => []ResultIffSuccess
<1>1. IInv => ResultIffSuccess  BY DEF IInv
<1> QED  BY AlwaysCarried, <1>1, PTL

(* An error is made from one shape of body.                                   *)
THEOREM ErrorsFromOneShape == Spec => []ErrorFromOneShape
<1>1. IInv => ErrorFromOneShape  BY DEF IInv
<1> QED  BY AlwaysCarried, <1>1, PTL

=============================================================================
