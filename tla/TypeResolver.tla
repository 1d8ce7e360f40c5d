---------------------------- MODULE TypeResolver ----------------------------
(***************************************************************************)
(* How internal/codegen turns the schemas that one tag's operations refer  *)
(* to into the named types of one package. TypeResolver follows references *)
(* depth first; the calls of namedType that are under way are frames on a  *)
(* stack, below them the operations that Build goes through. When all of   *)
(* them have their types, resolveNameCollisions gives way to the service   *)
(* type.                                                                   *)
(*                                                                         *)
(* Kept of a Go type expression: what it is built from, whether it is that *)
(* type, a slice or a template of it, and whether it is a pointer. Inline  *)
(* objects, which have no name to reserve, are left out. Properties and    *)
(* mapping keys are taken in any order, since any order may be that of     *)
(* their names.                                                            *)
(***************************************************************************)
EXTENDS SequencesExt

CONSTANTS
  Schemas,           \* the component names under components/schemas
  Names,             \* Go type names
  Service,           \* the name of the tag's service type, one of Names
  Spare,             \* names for a model that gives way to it, in order
  TagType,           \* the name of the enum of a union's discriminator values
  CompositionDepth,  \* maxCompositionDepth
  SchemaMaps,        \* the schemas of the documents, as functions of Schemas
  Identifiers,       \* what goIdentifier may make of their names
  Requests,          \* what a tag's operations may refer to
  Untyped, Scalar    \* the type "any", and a built-in scalar

Wraps == {"plain", "slice", "template"}

(* What a property, an array or an operation says about its type: it refers
   to a schema, is a built-in scalar, or is nothing Go can express.         *)
Uses == [to : Schemas \cup {Untyped, Scalar}, wrap : Wraps]

(* A Go type expression.                                                    *)
Types == [base : Names \cup {Untyped, Scalar}, wrap : Wraps, pointer : BOOLEAN, optional : BOOLEAN]

Documents == [schema : SchemaMaps, identifier : Identifiers, operations : Requests]

ASSUME ResolverAssumption ==
  /\ Untyped \notin Names /\ Scalar \notin Names /\ Untyped \notin Schemas /\ Scalar \notin Schemas
  /\ Service \in Names
  /\ TagType \in [Names -> Names]
  /\ CompositionDepth \in Nat
  /\ Identifiers \subseteq [Schemas -> Names]
  /\ IsFiniteSet(Schemas)
  /\ \A schema \in SchemaMaps : \A s \in Schemas :
       schema[s].kind = "allOf" => schema[s].members \in Seq(Schemas)
  /\ Spare \in Seq(Names)
  /\ \A identifier \in Identifiers : \E i \in DOMAIN Spare :
       \A s \in Schemas : identifier[s] # Spare[i]

VARIABLES
  document,   \* schemas, the identifier of each, what the operations refer to
  models,     \* the models map: the definition of each named type
  enums,      \* the keys of the enums map
  unions,     \* the unions map: the variants of each
  resolving,  \* the resolving map
  stack,      \* the calls under way, the innermost last
  operations  \* the types of the operations, once they are all resolved

vars == <<document, models, enums, unions, resolving, stack, operations>>

(* A map with one entry, and one in which an entry is set.                  *)
Only(key, value) == [k \in {key} |-> value]
With(map, key, value) == [k \in DOMAIN map \cup {key} |-> IF k = key THEN value ELSE map[k]]

Empty == <<>>
AnyDefinition == [form |-> "any", body |-> Empty]

(***************************************************************************)
(* Reading the document.                                                   *)
(***************************************************************************)
Kind(s) == document.schema[s].kind
Identifier(s) == document.identifier[s]

(* collectAllOf: the properties of the members, each followed to the bottom
   or to the depth bound; a later declaration replaces an earlier one, and
   what any member requires is required.                                    *)
NoProperties == [props |-> Empty, required |-> {}]

Merged(objects) ==
  [props    |-> [p \in UNION {DOMAIN objects[i].props : i \in DOMAIN objects} |->
                   objects[Max({i \in DOMAIN objects : p \in DOMAIN objects[i].props})].props[p]],
   required |-> UNION {objects[i].required : i \in DOMAIN objects}]

Compositions == {s \in Schemas : Kind(s) = "allOf"}

Members(s) == document.schema[s].members

OwnProperties(s) == IF Kind(s) = "object" THEN document.schema[s] ELSE NoProperties

(* What the compositions come to when what is below them is known.          *)
Level(below) ==
  [c \in Compositions |->
     Merged([i \in DOMAIN Members(c) |->
               IF Members(c)[i] \in Compositions THEN below[Members(c)[i]]
               ELSE OwnProperties(Members(c)[i])])]

Collect[depth \in 0 .. CompositionDepth + 1] ==
  IF depth > CompositionDepth THEN [c \in Compositions |-> NoProperties]
  ELSE Level(Collect[depth + 1])

(* Mutant of Collected: only the immediate members are merged.              *)
CollectedImmediately(s) ==
  Merged([i \in DOMAIN Members(s) |-> OwnProperties(Members(s)[i])])

Collected(s) == Collect[0][s]

(* definitionFor: the form of a schema's definition, and the uses of other
   types that are to be resolved for it.                                    *)
Body(form, parts, required) == [form |-> form, parts |-> parts, required |-> required]

StructBody(object) ==
  IF object.props = Empty THEN Body("map", Empty, {})
  ELSE Body("struct", object.props, object.required)

AllOfBody(s) ==
  IF Len(Members(s)) = 1 \/ Collected(s).props = Empty
    THEN Body("alias", Only("of", [to |-> Members(s)[1], wrap |-> "plain"]), {"of"})
    ELSE StructBody(Collected(s))

DefinitionFor(s) ==
  CASE Kind(s) = "object" -> StructBody(document.schema[s])
    [] Kind(s) = "allOf"  -> AllOfBody(s)
    [] Kind(s) = "array"  -> Body("slice", Only("items", document.schema[s].items), {"items"})
    [] Kind(s) = "anyOf"  -> Body("alias", Only("of", document.schema[s].items), {"of"})
    [] Kind(s) = "scalar" -> Body("scalar", Empty, {})
    [] OTHER              -> Body("any", Empty, {})

Frame(name, body) ==
  [of |-> name, form |-> body.form, parts |-> body.parts, required |-> body.required,
   todo |-> DOMAIN body.parts, body |-> Empty]

Init ==
  /\ document \in Documents
  /\ models = Empty /\ enums = {} /\ unions = Empty /\ resolving = {}
  /\ stack = <<Frame(Service, Body("operations", document.operations,
                                   DOMAIN document.operations))>>
  /\ operations = Empty

(***************************************************************************)
(* namedType. A reference is answered at once when its name is in a map    *)
(* already, or is that of an enumeration; otherwise the name is reserved   *)
(* and a frame is pushed. The frame below asks again when it is done, and  *)
(* finds the name.                                                         *)
(***************************************************************************)
(* Mutant of Known: only a name under way counts, not one that is done.     *)
KnownInProgress(s) == Identifier(s) \in resolving

Known(s) == Identifier(s) \in DOMAIN models \cup resolving

IsEnum(s)   == s \in Schemas /\ ~Known(s) /\ Kind(s) = "enum"
IsUnion(s)  == Kind(s) = "oneOf" /\ document.schema[s].mapping # Empty

(* Mutant of Answered: a union that is there already is entered again.      *)
AnsweredUnlessUnion(s) == s \in Schemas => Known(s) \/ Kind(s) = "enum"

Answered(s) ==
  s \in Schemas =>
    \/ Known(s)
    \/ Kind(s) = "enum"
    \/ IsUnion(s) /\ Identifier(s) \in DOMAIN unions

NamedType(s) ==
  IF s \notin Schemas THEN [base |-> IF s = Scalar THEN Scalar ELSE Untyped, pointer |-> FALSE]
  ELSE [base |-> Identifier(s),
        pointer |-> Identifier(s) \notin DOMAIN models /\ Identifier(s) \in resolving]

(* isStructType, of a type with a name.                                     *)
IsStruct(name) == name \in DOMAIN models /\ models[name].form = "struct"

(* GoType of a use, and what inlineStruct does to an optional property.     *)
GoType(use, optional) ==
  LET t == NamedType(use.to)
      wrap == IF use.wrap = "slice" THEN "slice"
              ELSE IF use.wrap = "template" /\ t.base # Untyped THEN "template" ELSE "plain"
  IN  [base |-> t.base, wrap |-> wrap, optional |-> optional,
       pointer |-> \/ t.pointer /\ wrap # "template"
                   \/ optional /\ wrap = "plain" /\ (t.base = Scalar \/ IsStruct(t.base))]

Top == stack[Len(stack)]

(* One property, element, variant or operation of the innermost call gets its
   type. A mapping entry that does not resolve is no variant.               *)
Resolve(p) ==
  LET use == Top.parts[p]
      type == GoType(use, Top.form = "struct" /\ p \notin Top.required)
      body == IF Top.form = "union" /\ type.base = Untyped THEN Top.body
              ELSE With(Top.body, p, type)
  IN  /\ Answered(use.to)
      /\ enums' = IF IsEnum(use.to) THEN enums \cup {Identifier(use.to)} ELSE enums
      /\ stack' = [stack EXCEPT ![Len(stack)] =
                     [Top EXCEPT !.todo = @ \ {p}, !.body = body]]
      /\ UNCHANGED <<document, models, unions, resolving, operations>>

Descend(p) ==
  LET s == Top.parts[p].to IN
  /\ ~Answered(s)
  /\ IF IsUnion(s)
       THEN /\ unions' = With(unions, Identifier(s), Empty)
            /\ stack' = Append(stack, Frame(Identifier(s),
                          Body("union", document.schema[s].mapping, {})))
            /\ UNCHANGED <<models, resolving>>
       ELSE /\ models' = With(models, Identifier(s), AnyDefinition)
            /\ resolving' = resolving \cup {Identifier(s)}
            /\ stack' = Append(stack, Frame(Identifier(s), DefinitionFor(s)))
            /\ UNCHANGED unions
  /\ UNCHANGED <<document, enums, operations>>

(* The body of a model is complete.                                         *)
DefineModel ==
  /\ Top.form \notin {"union", "operations"}
  /\ models' = [models EXCEPT ![Top.of] = [form |-> Top.form, body |-> Top.body]]
  /\ resolving' = resolving \ {Top.of}
  /\ stack' = Front(stack)
  /\ UNCHANGED <<document, enums, unions, operations>>

(* registerUnion keeps a union that has variants, with an enum for its tag. *)
DefineUnion ==
  /\ Top.form = "union"
  /\ Top.body # Empty
  /\ unions' = [unions EXCEPT ![Top.of] = Top.body]
  /\ enums' = enums \cup {TagType[Top.of]}
  /\ stack' = Front(stack)
  /\ UNCHANGED <<document, models, resolving, operations>>

(* Mutant of WithdrawUnion: the union stays among the unions.               *)
WithdrawUnionKept ==
  /\ Top.form = "union"
  /\ Top.body = Empty
  /\ models' = With(models, Top.of, AnyDefinition)
  /\ stack' = Front(stack)
  /\ UNCHANGED <<document, enums, unions, resolving, operations>>

(* It withdraws one that has none, which namedType defines as "any".        *)
WithdrawUnion ==
  /\ Top.form = "union"
  /\ Top.body = Empty
  /\ unions' = [n \in DOMAIN unions \ {Top.of} |-> unions[n]]
  /\ models' = With(models, Top.of, AnyDefinition)
  /\ stack' = Front(stack)
  /\ UNCHANGED <<document, enums, resolving, operations>>

(***************************************************************************)
(* resolveNameCollisions: a model with the name of the service is renamed, *)
(* and so is the name in model bodies and operations. In a body the name   *)
(* is looked for behind a space, a bracket or a star, which a definition   *)
(* that is the bare name does not have; variants of unions are not passed. *)
(***************************************************************************)
Replacement ==
  Spare[CHOOSE i \in 1 .. Len(Spare) :
          /\ Spare[i] \notin DOMAIN models
          /\ \A j \in 1 .. i - 1 : Spare[j] \in DOMAIN models]

Rewritten(body, new) ==
  [p \in DOMAIN body |-> [body[p] EXCEPT !.base = IF @ = Service THEN new ELSE @]]

IsBareName(definition) ==
  /\ definition.form = "alias"
  /\ definition.body["of"].wrap = "plain" /\ ~definition.body["of"].pointer

RewrittenDefinition(definition, new) ==
  IF IsBareName(definition) THEN definition
  ELSE [form |-> definition.form, body |-> Rewritten(definition.body, new)]

(* Mutant of GiveWay: the operations keep the name.                         *)
GiveWayInModels ==
  /\ models' = [n \in (DOMAIN models \ {Service}) \cup {Replacement} |->
                  RewrittenDefinition(models[IF n = Replacement THEN Service ELSE n],
                                      Replacement)]
  /\ operations' = Top.body

GiveWay ==
  /\ models' = [n \in (DOMAIN models \ {Service}) \cup {Replacement} |->
                  RewrittenDefinition(models[IF n = Replacement THEN Service ELSE n],
                                      Replacement)]
  /\ operations' = Rewritten(Top.body, Replacement)

Finish ==
  /\ Top.form = "operations"
  /\ IF Service \in DOMAIN models THEN GiveWay
     ELSE operations' = Top.body /\ UNCHANGED models
  /\ stack' = <<>>
  /\ UNCHANGED <<document, enums, unions, resolving>>

Advance ==
  /\ stack # <<>>
  /\ IF Top.todo # {} THEN \E p \in Top.todo : Resolve(p) \/ Descend(p)
     ELSE DefineModel \/ DefineUnion \/ WithdrawUnion \/ Finish

(* The package is resolved; the templates render it.                        *)
Finished == stack = <<>> /\ UNCHANGED vars

Next == Advance \/ Finished

Spec == Init /\ [][Next]_vars

FairSpec == Spec /\ WF_vars(Advance)

-----------------------------------------------------------------------------
Forms == {"any", "scalar", "map", "slice", "alias", "struct"}

AllTyped(body) == \A p \in DOMAIN body : body[p] \in Types

(* Every variable has its type.                                             *)
TypeOK ==
  /\ document \in Documents
  /\ DOMAIN models \subseteq Names
  /\ \A n \in DOMAIN models : models[n].form \in Forms /\ AllTyped(models[n].body)
  /\ enums \subseteq Names
  /\ DOMAIN unions \subseteq Names /\ \A n \in DOMAIN unions : AllTyped(unions[n])
  /\ resolving \subseteq Names
  /\ \A i \in DOMAIN stack :
       /\ stack[i].of \in Names
       /\ stack[i].form \in Forms \cup {"union", "operations"}
       /\ stack[i].todo \subseteq DOMAIN stack[i].parts
       /\ AllTyped(stack[i].body)
  /\ AllTyped(operations)

Mentioned(body) == {body[p].base : p \in DOMAIN body} \ {Untyped, Scalar}

Mentions ==
  UNION ({Mentioned(models[n].body) : n \in DOMAIN models}
         \cup {Mentioned(unions[n]) : n \in DOMAIN unions}
         \cup {Mentioned(stack[i].body) : i \in DOMAIN stack}
         \cup {Mentioned(operations)})

RewrittenMentions ==
  Mentioned(operations) \cup
  UNION {Mentioned(models[n].body) : n \in {m \in DOMAIN models : ~IsBareName(models[m])}}

Declared == DOMAIN models \cup enums \cup DOMAIN unions

(* Names that reduce to the service's, of which one has to give way.        *)
ServiceClash == \E s \in Schemas : Identifier(s) = Service

(* A name is handed out when it is reserved, long before it is defined, and a
   model may lose its name to the service when all is done: still no type
   expression names a type that the package does not declare. Schemas may share
   an identifier. Once names have given way, definitions that are a bare name,
   and variants of unions, are not covered: the code does not rewrite them. *)
NamesDeclared ==
  /\ stack # <<>> \/ ~ServiceClash => Mentions \subseteq Declared
  /\ stack = <<>> => RewrittenMentions \subseteq Declared

(* Identifiers that are the schemas' own, and no one else's.                *)
Unambiguous ==
  /\ \A r, s \in Schemas : Identifier(r) = Identifier(s) => r = s
  /\ \A r, s \in Schemas : Kind(s) = "oneOf" => TagType[Identifier(s)] # Identifier(r)
  /\ ~ServiceClash

(* Three maps hold the types of a package, and which of them a name is in is
   decided while others that refer to it are being decided. Where schemas do
   not share identifiers, no name is declared twice, which would not compile.*)
DeclaredOnce ==
  Unambiguous =>
    /\ DOMAIN models \cap enums = {}
    /\ DOMAIN unions \cap enums = {}
    /\ DOMAIN models \cap DOMAIN unions = {}

(* What some number of steps lead to.                                       *)
Reached(start, next(_), steps) ==
  LET reached[k \in 0 .. steps] ==
        IF k = 0 THEN {start}
        ELSE LET before == reached[k - 1] IN before \cup UNION {next(x) : x \in before}
  IN  reached[steps]

(* types.go, namedType: "A pointer breaks the recursion for self-referential
   schemas." A struct that contains itself by value does not compile. The code
   finds the name among the models before it asks whether it is under way.  *)
ByValue(n) ==
  IF n \in DOMAIN models /\ models[n].form = "struct"
    THEN LET fields == {models[n].body[p] : p \in DOMAIN models[n].body}
         IN  {t.base : t \in {f \in fields : f.wrap = "plain" /\ ~f.pointer}}
    ELSE {}

RecursionBroken ==
  stack = <<>> =>
    \A n \in DOMAIN models : \A m \in ByValue(n) : n \notin Reached(m, ByValue, Cardinality(Names))

(* Compositions of which each is a member of the one before, none twice; and that
   no such chain is longer than the depth bound follows.                    *)
IsChain(f) ==
  /\ \A i, j \in DOMAIN f : f[i] = f[j] => i = j
  /\ \A i \in DOMAIN f : i + 1 \in DOMAIN f => f[i + 1] \in ToSet(Members(f[i]))

ShortChains == \A f \in [1 .. CompositionDepth + 2 -> Compositions] : ~IsChain(f)

(* A schema composed of several has every property of every object among them
   and below them, however deep and whether or not the composition runs in a
   circle, as long as no chain of members is longer than the depth bound, and
   requires what any of them requires.                                      *)
ComposedOf(s) ==
  LET Closed(C) == \A c \in C \cap Compositions : ToSet(Members(c)) \subseteq C
  IN  {o \in Schemas : /\ Kind(o) = "object"
                       /\ \A C \in SUBSET Schemas : s \in C /\ Closed(C) => o \in C}

ComposedComplete ==
  Unambiguous /\ ShortChains =>
    \A s \in {c \in Compositions : Len(Members(c)) > 1} :
      LET objects  == ComposedOf(s)
          props    == UNION {DOMAIN document.schema[o].props : o \in objects}
          required == UNION {document.schema[o].required : o \in objects}
          model    == models[Identifier(s)]
      IN  Identifier(s) \in DOMAIN models \ resolving /\ props # {} =>
            /\ model.form = "struct"
            /\ DOMAIN model.body = props
            /\ \A p \in props : model.body[p].optional <=> p \notin required

(* A definition that is complete is not entered again, whatever refers to it
   later: it stays as it is until names give way to the service's.          *)
DefinedOnce ==
  [][stack' # <<>> =>
       /\ \A n \in DOMAIN models \ resolving :
            n \in DOMAIN models' \ resolving' /\ models'[n] = models[n]
       /\ \A n \in DOMAIN unions : unions[n] # Empty =>
            n \in DOMAIN unions' /\ unions'[n] = unions[n]]_vars

(* Whatever circles the schemas run in, all operations get their types.     *)
ResolutionEnds == <>(stack = <<>>)

=============================================================================
