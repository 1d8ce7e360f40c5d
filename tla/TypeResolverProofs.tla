------------------------- MODULE TypeResolverProofs -------------------------
(***************************************************************************)
(* TypeResolver for every document and any number of schemas: its types    *)
(* are right, no type expression names a type that is not declared, no     *)
(* definition that is complete is entered again, every step brings the     *)
(* resolution closer to its end, and compositions are complete. What       *)
(* Collected returns matters to the last alone.                            *)
(***************************************************************************)
EXTENDS TypeResolver, SequenceTheorems, FiniteSetTheorems, WellFoundedInduction, TLAPS

(* What goIdentifier makes of the schemas of the document.                  *)
Claimed == {Identifier(s) : s \in Schemas}

(* The calls under way form a sequence of frames, and each but that of the
   operations is for the name of a schema.                                  *)
StackOK ==
  /\ stack \in Seq(ToSet(stack))
  /\ \A i \in DOMAIN stack :
       /\ {"of", "form", "parts", "todo", "body"} \subseteq DOMAIN stack[i]
       /\ stack[i].form # "operations" => stack[i].of \in Claimed

(* Every mention, wherever it is, is one of the names of a set.             *)
DeclaredIn(body, names) ==
  \A p \in DOMAIN body : body[p].base \in names \cup {Untyped, Scalar}

AllDeclared(names) ==
  /\ \A n \in DOMAIN models : DeclaredIn(models[n].body, names)
  /\ \A n \in DOMAIN unions : DeclaredIn(unions[n], names)
  /\ \A i \in DOMAIN stack : DeclaredIn(stack[i].body, names)
  /\ DeclaredIn(operations, names)

(* While names are resolved: a name under way is reserved among the models,
   models have names of schemas, and every mention is declared.             *)
Resolving ==
  /\ StackOK
  /\ resolving \subseteq DOMAIN models
  /\ DOMAIN models \subseteq Claimed
  /\ AllDeclared(Declared)

IInv == TypeOK /\ NamesDeclared /\ (stack # <<>> => Resolving)

-----------------------------------------------------------------------------
(* A sequence is one over its own elements.                                 *)
LEMMA SeqOverItself ==
  ASSUME NEW S, NEW seq \in Seq(S)
  PROVE  seq \in Seq(ToSet(seq))
<1>1. /\ Len(seq) \in Nat
      /\ DOMAIN seq = 1 .. Len(seq)
  BY LenProperties
<1>2. \A i \in 1 .. Len(seq) : seq[i] \in ToSet(seq)
  BY <1>1 DEF ToSet
<1>3. SubSeq(seq, 1, Len(seq)) \in Seq(ToSet(seq))
  BY <1>1, <1>2, SubSeqProperties
<1> QED
  BY <1>3, SubSeqFull

(* The innermost frame.                                                     *)
LEMMA TopFrame ==
  ASSUME StackOK, stack # <<>>
  PROVE  /\ Len(stack) \in Nat \ {0}
         /\ DOMAIN stack = 1 .. Len(stack)
         /\ Len(stack) \in DOMAIN stack
         /\ Top = stack[Len(stack)]
BY EmptySeq, LenProperties DEF StackOK, Top

(* The frames below the innermost.                                          *)
LEMMA FrontFrames ==
  ASSUME StackOK, stack # <<>>
  PROVE  /\ Front(stack) \in Seq(ToSet(Front(stack)))
         /\ \A i \in DOMAIN Front(stack) : i \in DOMAIN stack /\ Front(stack)[i] = stack[i]
<1>1. /\ Len(stack) \in Nat \ {0}
      /\ DOMAIN stack = 1 .. Len(stack)
  BY TopFrame
<1>2. \A i \in 1 .. Len(stack) - 1 : stack[i] \in ToSet(stack)
  BY <1>1 DEF ToSet
<1>3. /\ SubSeq(stack, 1, Len(stack) - 1) \in Seq(ToSet(stack))
      /\ Len(SubSeq(stack, 1, Len(stack) - 1)) = Len(stack) - 1
      /\ \A i \in 1 .. Len(stack) - 1 : SubSeq(stack, 1, Len(stack) - 1)[i] = stack[i]
  <2>1. Len(stack) - 1 \in Int
    BY <1>1
  <2> QED
    BY <1>1, <1>2, <2>1, SubSeqProperties
<1>4. Front(stack) = SubSeq(stack, 1, Len(stack) - 1)
  BY DEF Front
<1>5. DOMAIN Front(stack) = 1 .. Len(stack) - 1
  BY <1>1, <1>3, <1>4, LenProperties
<1>6. Front(stack) \in Seq(ToSet(Front(stack)))
  BY <1>3, <1>4, SeqOverItself
<1>7. \A i \in 1 .. Len(stack) - 1 : i \in DOMAIN stack /\ Front(stack)[i] = stack[i]
  BY <1>1, <1>3, <1>4
<1> QED
  BY <1>5, <1>6, <1>7

(* A frame pushed on the stack.                                             *)
LEMMA PushedFrame ==
  ASSUME StackOK, NEW frame
  PROVE  /\ Append(stack, frame) \in Seq(ToSet(Append(stack, frame)))
         /\ Append(stack, frame) # <<>>
         /\ \A i \in DOMAIN Append(stack, frame) :
              \/ i \in DOMAIN stack /\ Append(stack, frame)[i] = stack[i]
              \/ Append(stack, frame)[i] = frame
<1> DEFINE S == ToSet(stack) \cup {frame}
<1>1. stack \in Seq(S)
  BY SeqMonotonic DEF StackOK
<1>2. /\ Append(stack, frame) \in Seq(S)
      /\ Append(stack, frame) # <<>>
      /\ Len(Append(stack, frame)) = Len(stack) + 1
      /\ \A i \in 1 .. Len(stack) : Append(stack, frame)[i] = stack[i]
      /\ Append(stack, frame)[Len(stack) + 1] = frame
  BY <1>1, AppendProperties
<1>3. /\ Len(stack) \in Nat
      /\ DOMAIN stack = 1 .. Len(stack)
      /\ DOMAIN Append(stack, frame) = 1 .. Len(stack) + 1
  BY <1>1, <1>2, LenProperties
<1>4. Append(stack, frame) \in Seq(ToSet(Append(stack, frame)))
  BY <1>2, SeqOverItself
<1>5. \A i \in 1 .. Len(stack) + 1 : i \in 1 .. Len(stack) \/ i = Len(stack) + 1
  BY <1>3
<1> QED
  BY <1>2, <1>3, <1>4, <1>5

(* The innermost frame replaced.                                            *)
LEMMA ReplacedFrame ==
  ASSUME StackOK, stack # <<>>, NEW frame
  PROVE  /\ [stack EXCEPT ![Len(stack)] = frame]
              \in Seq(ToSet([stack EXCEPT ![Len(stack)] = frame]))
         /\ [stack EXCEPT ![Len(stack)] = frame] # <<>>
         /\ DOMAIN [stack EXCEPT ![Len(stack)] = frame] = DOMAIN stack
         /\ \A i \in DOMAIN stack :
              [stack EXCEPT ![Len(stack)] = frame][i]
                = IF i = Len(stack) THEN frame ELSE stack[i]
<1> DEFINE S == ToSet(stack) \cup {frame}
           new == [stack EXCEPT ![Len(stack)] = frame]
<1>1. /\ Len(stack) \in Nat \ {0}
      /\ DOMAIN stack = 1 .. Len(stack)
  BY TopFrame
<1>2. stack \in Seq(S)
  BY SeqMonotonic DEF StackOK
<1>3. /\ new \in Seq(S)
      /\ Len(new) = Len(stack)
      /\ \A j \in 1 .. Len(stack) : new[j] = IF j = Len(stack) THEN frame ELSE stack[j]
  BY <1>1, <1>2, ExceptSeq
<1>4. new # <<>>
  BY <1>1, <1>3, EmptySeq
<1> QED
  BY <1>1, <1>3, <1>4, SeqOverItself

(* Mentions that are all declared satisfy the property, at the end as well. *)
LEMMA DeclaredSuffices == AllDeclared(Declared) => NamesDeclared
<1> SUFFICES ASSUME AllDeclared(Declared) PROVE NamesDeclared
  OBVIOUS
<1>1. /\ \A n \in DOMAIN models : Mentioned(models[n].body) \subseteq Declared
      /\ \A n \in DOMAIN unions : Mentioned(unions[n]) \subseteq Declared
      /\ \A i \in DOMAIN stack : Mentioned(stack[i].body) \subseteq Declared
      /\ Mentioned(operations) \subseteq Declared
  BY DEF AllDeclared, DeclaredIn, Mentioned
<1>2. Mentions \subseteq Declared
  BY <1>1 DEF Mentions
<1>3. RewrittenMentions \subseteq Declared
  BY <1>1 DEF RewrittenMentions
<1> QED
  BY <1>2, <1>3 DEF NamesDeclared

LEMMA DeclaredPrimed == AllDeclared(Declared)' => NamesDeclared'
BY DeclaredSuffices, PTL

(* A use that is answered gets a type, whose name is declared or that of an
   enumeration that is about to be.                                         *)
LEMMA AnswerNamed ==
  ASSUME TypeOK, Resolving, NEW use, NEW optional \in BOOLEAN, Answered(use.to)
  PROVE  /\ GoType(use, optional) \in Types
         /\ \/ GoType(use, optional).base \in Declared \cup {Untyped, Scalar}
            \/ /\ IsEnum(use.to)
               /\ GoType(use, optional).base = Identifier(use.to)
<1>1. CASE use.to \in Schemas
  <2>1. Identifier(use.to) \in Names
    BY <1>1, ResolverAssumption DEF TypeOK, Documents, Identifier
  <2>2. \/ Identifier(use.to) \in Declared
        \/ IsEnum(use.to)
    BY <1>1 DEF Answered, Known, IsEnum, Resolving, Declared
  <2>3. NamedType(use.to).base = Identifier(use.to)
    BY <1>1 DEF NamedType
  <2> QED
    BY <2>1, <2>2, <2>3 DEF GoType, Types, Wraps
<1>2. CASE use.to \notin Schemas
  <2>1. NamedType(use.to).base \in {Untyped, Scalar}
    BY <1>2 DEF NamedType
  <2> QED
    BY <2>1 DEF GoType, Types, Wraps
<1> QED
  BY <1>1, <1>2

-----------------------------------------------------------------------------
(* A property, element or variant gets its type.                            *)
LEMMA ResolveStep ==
  ASSUME TypeOK, Resolving, stack # <<>>, NEW p \in Top.todo, Resolve(p)
  PROVE  TypeOK' /\ Resolving'
<1> DEFINE use   == Top.parts[p]
           type  == GoType(use, Top.form = "struct" /\ p \notin Top.required)
           body  == IF Top.form = "union" /\ type.base = Untyped THEN Top.body
                    ELSE With(Top.body, p, type)
           frame == [Top EXCEPT !.todo = @ \ {p}, !.body = body]
<1>1. /\ Answered(use.to)
      /\ enums' = IF IsEnum(use.to) THEN enums \cup {Identifier(use.to)} ELSE enums
      /\ stack' = [stack EXCEPT ![Len(stack)] = frame]
      /\ UNCHANGED <<document, models, unions, resolving, operations>>
  BY DEF Resolve
<1>2. /\ type \in Types
      /\ \/ type.base \in Declared \cup {Untyped, Scalar}
         \/ IsEnum(use.to) /\ type.base = Identifier(use.to)
  BY <1>1, AnswerNamed
<1>3. /\ Len(stack) \in DOMAIN stack
      /\ Top = stack[Len(stack)]
      /\ {"of", "form", "parts", "todo", "body"} \subseteq DOMAIN Top
      /\ Top.form # "operations" => Top.of \in Claimed
  BY TopFrame DEF Resolving, StackOK
<1>4. /\ AllTyped(Top.body)
      /\ DeclaredIn(Top.body, Declared)
      /\ Top.of \in Names
      /\ Top.form \in Forms \cup {"union", "operations"}
      /\ Top.todo \subseteq DOMAIN Top.parts
  BY <1>3 DEF TypeOK, Resolving, AllDeclared
<1>5. /\ frame.of = Top.of /\ frame.form = Top.form /\ frame.parts = Top.parts
      /\ frame.todo = Top.todo \ {p} /\ frame.body = body
      /\ {"of", "form", "parts", "todo", "body"} \subseteq DOMAIN frame
  BY <1>3
<1>6. /\ stack' \in Seq(ToSet(stack'))
      /\ DOMAIN stack' = DOMAIN stack
      /\ \A i \in DOMAIN stack : stack'[i] = IF i = Len(stack) THEN frame ELSE stack[i]
  <2> HIDE DEF frame
  <2> QED  BY <1>1, ReplacedFrame DEF Resolving
<1>7. /\ Declared \subseteq Declared'
      /\ type.base \in Declared' \cup {Untyped, Scalar}
  BY <1>1, <1>2 DEF Declared
<1>8. AllTyped(body) /\ DeclaredIn(body, Declared')
  <2> HIDE DEF type
  <2> QED  BY <1>2, <1>4, <1>7 DEF AllTyped, DeclaredIn, With
<1> HIDE DEF frame, body, type, use
<1>9. TypeOK'
  <2>1. enums' \subseteq Names
    BY <1>1, ResolverAssumption DEF TypeOK, IsEnum, Identifier, Documents
  <2>2. \A i \in DOMAIN stack' :
          /\ stack'[i].of \in Names
          /\ stack'[i].form \in Forms \cup {"union", "operations"}
          /\ stack'[i].todo \subseteq DOMAIN stack'[i].parts
          /\ AllTyped(stack'[i].body)
    BY <1>4, <1>5, <1>6, <1>8 DEF TypeOK
  <2> QED
    BY <1>1, <2>1, <2>2 DEF TypeOK, AllTyped
<1>10. StackOK'
  <2>1. Claimed' = Claimed
    BY <1>1 DEF Claimed, Identifier
  <2>2. \A i \in DOMAIN stack' :
          /\ {"of", "form", "parts", "todo", "body"} \subseteq DOMAIN stack'[i]
          /\ stack'[i].form # "operations" => stack'[i].of \in Claimed
    BY <1>3, <1>5, <1>6 DEF Resolving, StackOK
  <2> QED
    BY <1>6, <2>1, <2>2 DEF StackOK
<1>11. AllDeclared(Declared)'
  <2>1. \A i \in DOMAIN stack' : DeclaredIn(stack'[i].body, Declared')
    BY <1>5, <1>6, <1>7, <1>8 DEF Resolving, AllDeclared, DeclaredIn
  <2>2. /\ \A n \in DOMAIN models : DeclaredIn(models[n].body, Declared')
        /\ \A n \in DOMAIN unions : DeclaredIn(unions[n], Declared')
        /\ DeclaredIn(operations, Declared')
    BY <1>7 DEF Resolving, AllDeclared, DeclaredIn
  <2> QED
    BY <1>1, <2>1, <2>2 DEF AllDeclared, DeclaredIn
<1> QED
  BY <1>1, <1>9, <1>10, <1>11 DEF Resolving, Claimed, Identifier

(* Every definition starts as a frame of a known form without a body.       *)
LEMMA FrameFields ==
  ASSUME NEW name, NEW body
  PROVE  /\ {"of", "form", "parts", "todo", "body"} \subseteq DOMAIN Frame(name, body)
         /\ Frame(name, body).of = name
         /\ Frame(name, body).form = body.form
         /\ Frame(name, body).todo = DOMAIN Frame(name, body).parts
         /\ AllTyped(Frame(name, body).body)
         /\ \A names : DeclaredIn(Frame(name, body).body, names)
BY DEF Frame, AllTyped, DeclaredIn, Empty

LEMMA DefinitionForm == \A s : DefinitionFor(s).form \in Forms
<1>1. \A s : StructBody(s).form \in Forms
  BY DEF StructBody, Body, Forms
<1>2. \A s : AllOfBody(s).form \in Forms
  BY <1>1 DEF AllOfBody, Body, Forms
<1> QED
  BY <1>1, <1>2 DEF DefinitionFor, Body, Forms

(* A name is reserved and its schema entered.                               *)
LEMMA DescendStep ==
  ASSUME TypeOK, Resolving, stack # <<>>, NEW p \in Top.todo, Descend(p)
  PROVE  TypeOK' /\ Resolving'
<1> DEFINE s == Top.parts[p].to
<1>1. s \in Schemas /\ ~Answered(s)
  BY DEF Descend, Answered
<1>2. Identifier(s) \in Names /\ Identifier(s) \in Claimed
  BY <1>1, ResolverAssumption DEF TypeOK, Documents, Identifier, Claimed
<1>3. UNCHANGED <<document, enums, operations>>
  BY DEF Descend
<1>4. PICK frame :
        /\ stack' = Append(stack, frame)
        /\ {"of", "form", "parts", "todo", "body"} \subseteq DOMAIN frame
        /\ frame.of = Identifier(s)
        /\ frame.form \in Forms \cup {"union", "operations"}
        /\ frame.todo \subseteq DOMAIN frame.parts
        /\ AllTyped(frame.body)
        /\ \A names : DeclaredIn(frame.body, names)
  <2>1. CASE IsUnion(s)
    <3> DEFINE union == Frame(Identifier(s), Body("union", document.schema[s].mapping, {}))
    <3>1. stack' = Append(stack, union)
      BY <2>1 DEF Descend
    <3>2. Body("union", document.schema[s].mapping, {}).form = "union"
      BY DEF Body
    <3> QED
      BY <3>1, <3>2, FrameFields
  <2>2. CASE ~IsUnion(s)
    <3>1. stack' = Append(stack, Frame(Identifier(s), DefinitionFor(s)))
      BY <2>2 DEF Descend
    <3> QED
      BY <3>1, FrameFields, DefinitionForm
  <2> QED
    BY <2>1, <2>2
<1>5. /\ stack' \in Seq(ToSet(stack'))
      /\ \A i \in DOMAIN stack' :
           \/ i \in DOMAIN stack /\ stack'[i] = stack[i]
           \/ stack'[i] = frame
  BY <1>4, PushedFrame DEF Resolving
<1>6. \/ /\ unions' = With(unions, Identifier(s), Empty)
         /\ UNCHANGED <<models, resolving>>
      \/ /\ models' = With(models, Identifier(s), AnyDefinition)
         /\ resolving' = resolving \cup {Identifier(s)}
         /\ UNCHANGED unions
  BY DEF Descend
<1> HIDE DEF s
<1>7. /\ Declared \subseteq Declared'
      /\ resolving' \subseteq DOMAIN models'
      /\ DOMAIN models' \subseteq Claimed'
  BY <1>2, <1>3, <1>6 DEF Resolving, Declared, With, Claimed, Identifier
<1>8. TypeOK'
  <2>1. /\ DOMAIN models' \subseteq Names
        /\ \A n \in DOMAIN models' : models'[n].form \in Forms /\ AllTyped(models'[n].body)
    BY <1>2, <1>6 DEF TypeOK, With, AnyDefinition, Empty, Forms, AllTyped
  <2>2. DOMAIN unions' \subseteq Names /\ \A n \in DOMAIN unions' : AllTyped(unions'[n])
    BY <1>2, <1>6 DEF TypeOK, With, Empty, AllTyped
  <2>3. resolving' \subseteq Names
    BY <1>2, <1>6 DEF TypeOK
  <2>4. \A i \in DOMAIN stack' :
          /\ stack'[i].of \in Names
          /\ stack'[i].form \in Forms \cup {"union", "operations"}
          /\ stack'[i].todo \subseteq DOMAIN stack'[i].parts
          /\ AllTyped(stack'[i].body)
    BY <1>2, <1>4, <1>5 DEF TypeOK
  <2> QED
    BY <1>3, <2>1, <2>2, <2>3, <2>4 DEF TypeOK, AllTyped
<1>9. StackOK'
  <2>1. \A i \in DOMAIN stack' :
          /\ {"of", "form", "parts", "todo", "body"} \subseteq DOMAIN stack'[i]
          /\ stack'[i].form # "operations" => stack'[i].of \in Claimed
    BY <1>2, <1>4, <1>5 DEF Resolving, StackOK
  <2> QED
    BY <1>3, <1>5, <2>1 DEF StackOK, Claimed, Identifier
<1>10. AllDeclared(Declared)'
  <2>1. /\ \A n \in DOMAIN models' : DeclaredIn(models'[n].body, Declared')
        /\ \A n \in DOMAIN unions' : DeclaredIn(unions'[n], Declared')
    BY <1>6, <1>7 DEF Resolving, AllDeclared, DeclaredIn, With, AnyDefinition, Empty
  <2>2. \A i \in DOMAIN stack' : DeclaredIn(stack'[i].body, Declared')
    BY <1>4, <1>5, <1>7 DEF Resolving, AllDeclared, DeclaredIn
  <2>3. DeclaredIn(operations, Declared')
    BY <1>7 DEF Resolving, AllDeclared, DeclaredIn
  <2> QED
    BY <1>3, <2>1, <2>2, <2>3 DEF AllDeclared, DeclaredIn
<1> QED
  BY <1>7, <1>8, <1>9, <1>10 DEF Resolving

(* What the calls below the innermost keep when it returns.                 *)
LEMMA PoppedFrame ==
  ASSUME TypeOK, Resolving, stack # <<>>, stack' = Front(stack), UNCHANGED document,
         Declared \subseteq Declared'
  PROVE  /\ StackOK'
         /\ \A i \in DOMAIN stack' :
              /\ stack'[i].of \in Names
              /\ stack'[i].form \in Forms \cup {"union", "operations"}
              /\ stack'[i].todo \subseteq DOMAIN stack'[i].parts
              /\ AllTyped(stack'[i].body)
              /\ DeclaredIn(stack'[i].body, Declared')
<1>1. /\ stack' \in Seq(ToSet(stack'))
      /\ \A i \in DOMAIN stack' : i \in DOMAIN stack /\ stack'[i] = stack[i]
  BY FrontFrames DEF Resolving
<1>2. StackOK'
  <2>1. \A i \in DOMAIN stack' :
          /\ {"of", "form", "parts", "todo", "body"} \subseteq DOMAIN stack'[i]
          /\ stack'[i].form # "operations" => stack'[i].of \in Claimed
    BY <1>1 DEF Resolving, StackOK
  <2> QED
    BY <1>1, <2>1 DEF StackOK, Claimed, Identifier
<1> QED
  BY <1>1, <1>2 DEF TypeOK, Resolving, AllDeclared, DeclaredIn

(* What is known of the innermost frame.                                    *)
LEMMA TopKnown ==
  ASSUME TypeOK, Resolving, stack # <<>>
  PROVE  /\ Top.of \in Names
         /\ Top.form # "operations" => Top.of \in Claimed
         /\ Top.form \in Forms \cup {"union", "operations"}
         /\ AllTyped(Top.body)
         /\ DeclaredIn(Top.body, Declared)
<1>1. Len(stack) \in DOMAIN stack /\ Top = stack[Len(stack)]
  BY TopFrame DEF Resolving
<1> QED
  BY <1>1 DEF TypeOK, Resolving, StackOK, AllDeclared

(* A definition is complete.                                                *)
LEMMA DefineModelStep ==
  ASSUME TypeOK, Resolving, stack # <<>>, DefineModel
  PROVE  TypeOK' /\ Resolving'
<1> DEFINE definition == [form |-> Top.form, body |-> Top.body]
<1>1. /\ Top.form \in Forms
      /\ models' = [models EXCEPT ![Top.of] = definition]
      /\ resolving' = resolving \ {Top.of}
      /\ stack' = Front(stack)
      /\ UNCHANGED <<document, enums, unions, operations>>
  BY TopKnown DEF DefineModel
<1>2. /\ DOMAIN models' = DOMAIN models
      /\ \A n \in DOMAIN models : models'[n] = models[n] \/ models'[n] = definition
      /\ Declared' = Declared
  BY <1>1 DEF Declared
<1>3. /\ definition.form \in Forms
      /\ AllTyped(definition.body)
      /\ DeclaredIn(definition.body, Declared)
  BY <1>1, TopKnown
<1> HIDE DEF definition
<1>4. /\ StackOK'
      /\ \A i \in DOMAIN stack' :
           /\ stack'[i].of \in Names
           /\ stack'[i].form \in Forms \cup {"union", "operations"}
           /\ stack'[i].todo \subseteq DOMAIN stack'[i].parts
           /\ AllTyped(stack'[i].body)
           /\ DeclaredIn(stack'[i].body, Declared')
  BY <1>1, <1>2, PoppedFrame
<1>5. TypeOK'
  BY <1>1, <1>2, <1>3, <1>4 DEF TypeOK, AllTyped
<1>6. AllDeclared(Declared)'
  BY <1>1, <1>2, <1>3, <1>4 DEF Resolving, AllDeclared, DeclaredIn
<1> QED
  BY <1>1, <1>2, <1>4, <1>5, <1>6 DEF Resolving, Claimed, Identifier

(* A union has variants.                                                    *)
LEMMA DefineUnionStep ==
  ASSUME TypeOK, Resolving, stack # <<>>, DefineUnion
  PROVE  TypeOK' /\ Resolving'
<1>1. /\ unions' = [unions EXCEPT ![Top.of] = Top.body]
      /\ enums' = enums \cup {TagType[Top.of]}
      /\ stack' = Front(stack)
      /\ UNCHANGED <<document, models, resolving, operations>>
  BY DEF DefineUnion
<1>2. /\ DOMAIN unions' = DOMAIN unions
      /\ \A n \in DOMAIN unions : unions'[n] = unions[n] \/ unions'[n] = Top.body
      /\ Declared \subseteq Declared'
  BY <1>1 DEF Declared
<1>3. AllTyped(Top.body) /\ DeclaredIn(Top.body, Declared) /\ TagType[Top.of] \in Names
  BY TopKnown, ResolverAssumption
<1>4. /\ StackOK'
      /\ \A i \in DOMAIN stack' :
           /\ stack'[i].of \in Names
           /\ stack'[i].form \in Forms \cup {"union", "operations"}
           /\ stack'[i].todo \subseteq DOMAIN stack'[i].parts
           /\ AllTyped(stack'[i].body)
           /\ DeclaredIn(stack'[i].body, Declared')
  BY <1>1, <1>2, PoppedFrame
<1>5. TypeOK'
  BY <1>1, <1>2, <1>3, <1>4 DEF TypeOK, AllTyped
<1>6. AllDeclared(Declared)'
  BY <1>1, <1>2, <1>3, <1>4 DEF Resolving, AllDeclared, DeclaredIn
<1> QED
  BY <1>1, <1>4, <1>5, <1>6 DEF Resolving, Claimed, Identifier

(* A union has none and becomes a model: its name stays declared.           *)
LEMMA WithdrawUnionStep ==
  ASSUME TypeOK, Resolving, stack # <<>>, WithdrawUnion
  PROVE  TypeOK' /\ Resolving'
<1>1. /\ unions' = [n \in DOMAIN unions \ {Top.of} |-> unions[n]]
      /\ models' = With(models, Top.of, AnyDefinition)
      /\ stack' = Front(stack)
      /\ UNCHANGED <<document, enums, resolving, operations>>
      /\ Top.form # "operations"
  BY DEF WithdrawUnion
<1>2. Top.of \in Names /\ Top.of \in Claimed
  BY <1>1, TopKnown
<1>3. /\ Declared \subseteq Declared'
      /\ resolving' \subseteq DOMAIN models'
      /\ DOMAIN models' \subseteq Claimed'
  BY <1>1, <1>2 DEF Resolving, Declared, With, Claimed, Identifier
<1>4. /\ StackOK'
      /\ \A i \in DOMAIN stack' :
           /\ stack'[i].of \in Names
           /\ stack'[i].form \in Forms \cup {"union", "operations"}
           /\ stack'[i].todo \subseteq DOMAIN stack'[i].parts
           /\ AllTyped(stack'[i].body)
           /\ DeclaredIn(stack'[i].body, Declared')
  BY <1>1, <1>3, PoppedFrame
<1>5. TypeOK'
  <2>1. /\ DOMAIN models' \subseteq Names
        /\ \A n \in DOMAIN models' : models'[n].form \in Forms /\ AllTyped(models'[n].body)
    BY <1>1, <1>2 DEF TypeOK, With, AnyDefinition, Empty, Forms, AllTyped
  <2> QED
    BY <1>1, <1>4, <2>1 DEF TypeOK, AllTyped
<1>6. AllDeclared(Declared)'
  <2>1. \A n \in DOMAIN models' : DeclaredIn(models'[n].body, Declared')
    BY <1>1, <1>3 DEF Resolving, AllDeclared, DeclaredIn, With, AnyDefinition, Empty
  <2> QED
    BY <1>1, <1>3, <1>4, <2>1 DEF Resolving, AllDeclared, DeclaredIn
<1> QED
  BY <1>3, <1>4, <1>5, <1>6 DEF Resolving

(* There is a name to give way to, and no model has it.                     *)
LEMMA ReplacementFree ==
  ASSUME TypeOK, Resolving
  PROVE  Replacement \in Names /\ Replacement \notin DOMAIN models
<1> DEFINE free == {i \in 1 .. Len(Spare) : Spare[i] \notin DOMAIN models}
<1>1. Len(Spare) \in Nat /\ DOMAIN Spare = 1 .. Len(Spare)
  BY LenProperties, ResolverAssumption
<1>2. free # {}
  BY <1>1, ResolverAssumption DEF TypeOK, Documents, Resolving, Claimed, Identifier
<1>3. PICK i \in free : \A j \in free : ~(<<j, i>> \in OpToRel(<, Nat))
  <2>1. free \subseteq Nat
    BY <1>1
  <2> HIDE DEF free
  <2> QED
    BY <1>2, <2>1, WFMin, NatLessThanWellFounded
<1>4. \A j \in 1 .. i - 1 : Spare[j] \in DOMAIN models
  <2> SUFFICES ASSUME NEW j \in 1 .. i - 1, Spare[j] \notin DOMAIN models
               PROVE  FALSE
    OBVIOUS
  <2>1. j \in free /\ j < i /\ i \in Nat /\ j \in Nat
    BY <1>1
  <2> QED
    BY <1>3, <2>1 DEF OpToRel
<1>5. \E k \in 1 .. Len(Spare) :
        /\ Replacement = Spare[k]
        /\ Spare[k] \notin DOMAIN models
  BY <1>4 DEF Replacement
<1>6. \A k \in 1 .. Len(Spare) : Spare[k] \in Names
  BY ElementOfSeq, ResolverAssumption
<1> QED
  BY <1>5, <1>6

(* A body in which the service's name is rewritten mentions only names that are
   declared under the new one.                                              *)
LEMMA RewrittenBody ==
  ASSUME NEW body, AllTyped(body), NEW new \in Names, NEW before, DeclaredIn(body, before)
  PROVE  /\ AllTyped(Rewritten(body, new))
         /\ DeclaredIn(Rewritten(body, new), (before \ {Service}) \cup {new})
BY DEF AllTyped, DeclaredIn, Rewritten, Types

(* All operations have their types, and no model has the service's name.    *)
LEMMA FinishAsIs ==
  ASSUME TypeOK, Resolving, stack # <<>>, Finish, Service \notin DOMAIN models
  PROVE  TypeOK' /\ AllDeclared(Declared)' /\ stack' = <<>>
<1>1. /\ operations' = Top.body
      /\ stack' = <<>>
      /\ UNCHANGED <<document, models, enums, unions, resolving>>
  BY DEF Finish
<1>2. AllTyped(Top.body) /\ DeclaredIn(Top.body, Declared)
  BY TopKnown
<1>3. DOMAIN stack' = {} /\ Declared' = Declared
  BY <1>1 DEF Declared
<1>4. TypeOK'
  BY <1>1, <1>2, <1>3 DEF TypeOK, AllTyped
<1>5. AllDeclared(Declared)'
  BY <1>1, <1>2, <1>3 DEF Resolving, AllDeclared, DeclaredIn
<1> QED
  BY <1>1, <1>4, <1>5

(* A model gives way to the service.                                        *)
LEMMA FinishGivingWay ==
  ASSUME TypeOK, Resolving, stack # <<>>, Finish, Service \in DOMAIN models
  PROVE  TypeOK' /\ NamesDeclared' /\ stack' = <<>>
<1> DEFINE new == Replacement
           names == (Declared \ {Service}) \cup {new}
           definition(n) == models[IF n = new THEN Service ELSE n]
<1>1. /\ models' = [n \in (DOMAIN models \ {Service}) \cup {new} |->
                       RewrittenDefinition(definition(n), new)]
      /\ operations' = Rewritten(Top.body, new)
      /\ stack' = <<>>
      /\ UNCHANGED <<document, enums, unions, resolving>>
  BY DEF Finish, GiveWay
<1>2. new \in Names /\ new \notin DOMAIN models
  BY ReplacementFree
<1>3. /\ AllTyped(Rewritten(Top.body, new))
      /\ DeclaredIn(Rewritten(Top.body, new), names)
  BY <1>2, TopKnown, RewrittenBody
<1>4. names \subseteq Declared'
  BY <1>1 DEF Declared
<1> HIDE DEF new, names
<1>5. ASSUME NEW n \in DOMAIN models'
      PROVE  /\ models'[n].form \in Forms
             /\ AllTyped(models'[n].body)
             /\ ~IsBareName(models'[n]) => DeclaredIn(models'[n].body, names)
  <2>1. /\ definition(n).form \in Forms
        /\ AllTyped(definition(n).body)
        /\ DeclaredIn(definition(n).body, Declared)
    BY <1>1 DEF TypeOK, Resolving, AllDeclared
  <2>2. /\ AllTyped(Rewritten(definition(n).body, new))
        /\ DeclaredIn(Rewritten(definition(n).body, new), names)
    BY <1>2, <2>1, RewrittenBody DEF names
  <2>3. models'[n] = RewrittenDefinition(definition(n), new)
    BY <1>1
  <2> HIDE DEF definition
  <2>4. CASE IsBareName(definition(n))
    BY <2>1, <2>3, <2>4 DEF RewrittenDefinition
  <2>5. CASE ~IsBareName(definition(n))
    BY <2>1, <2>2, <2>3, <2>5 DEF RewrittenDefinition
  <2> QED
    BY <2>4, <2>5
<1>6. TypeOK'
  <2>1. DOMAIN models' \subseteq Names
    BY <1>1, <1>2 DEF TypeOK
  <2>2. DOMAIN stack' = {}
    BY <1>1
  <2> QED
    BY <1>1, <1>3, <1>5, <2>1, <2>2 DEF TypeOK, AllTyped
<1>7. RewrittenMentions' \subseteq Declared'
  <2>1. Mentioned(operations') \subseteq Declared'
    BY <1>1, <1>3, <1>4 DEF DeclaredIn, Mentioned
  <2>2. \A n \in DOMAIN models' :
          ~IsBareName(models'[n]) => Mentioned(models'[n].body) \subseteq Declared'
    BY <1>4, <1>5 DEF DeclaredIn, Mentioned
  <2> QED
    BY <2>1, <2>2 DEF RewrittenMentions, IsBareName, Mentioned
<1>8. ServiceClash'
  BY <1>1 DEF Resolving, Claimed, ServiceClash, Identifier
<1> QED
  BY <1>1, <1>6, <1>7, <1>8 DEF NamesDeclared

-----------------------------------------------------------------------------
LEMMA InitInvariant == Init => IInv
<1> SUFFICES ASSUME Init PROVE IInv
  OBVIOUS
<1> DEFINE frame == Frame(Service, Body("operations", document.operations,
                                        DOMAIN document.operations))
<1>1. /\ document \in Documents
      /\ models = Empty /\ enums = {} /\ unions = Empty /\ resolving = {}
      /\ stack = <<frame>>
      /\ operations = Empty
  BY DEF Init
<1>2. /\ {"of", "form", "parts", "todo", "body"} \subseteq DOMAIN frame
      /\ frame.of = Service
      /\ frame.form = "operations"
      /\ frame.todo = DOMAIN frame.parts
      /\ AllTyped(frame.body)
      /\ \A names : DeclaredIn(frame.body, names)
  BY FrameFields DEF Body
<1> HIDE DEF frame
<1>3. /\ stack \in Seq(ToSet(stack))
      /\ \A i \in DOMAIN stack : stack[i] = frame
  <2>1. stack \in Seq({frame})
    BY <1>1
  <2>2. \A i \in DOMAIN stack : stack[i] = frame
    BY <2>1, LenProperties, ElementOfSeq
  <2> QED
    BY <2>1, <2>2, SeqOverItself
<1>4. DOMAIN models = {} /\ DOMAIN unions = {} /\ DOMAIN operations = {}
  BY <1>1 DEF Empty
<1>5. TypeOK
  BY <1>1, <1>2, <1>3, <1>4, ResolverAssumption DEF TypeOK, AllTyped
<1>6. Resolving
  BY <1>1, <1>2, <1>3, <1>4 DEF Resolving, StackOK, AllDeclared, DeclaredIn
<1> QED
  BY <1>5, <1>6, DeclaredSuffices DEF IInv, Resolving

LEMMA StepInvariant == IInv /\ [Next]_vars => IInv'
<1> SUFFICES ASSUME IInv, [Next]_vars PROVE IInv'
  OBVIOUS
<1>1. /\ AllDeclared(Declared)' => NamesDeclared'
      /\ Resolving' => NamesDeclared'
  BY DeclaredPrimed DEF Resolving
<1>2. CASE Advance
  <2>1. TypeOK /\ Resolving /\ stack # <<>>
    BY <1>2 DEF IInv, Advance
  <2>2. CASE \E p \in Top.todo : Resolve(p)
    BY <1>1, <2>1, <2>2, ResolveStep DEF IInv
  <2>3. CASE \E p \in Top.todo : Descend(p)
    BY <1>1, <2>1, <2>3, DescendStep DEF IInv
  <2>4. CASE DefineModel
    BY <1>1, <2>1, <2>4, DefineModelStep DEF IInv
  <2>5. CASE DefineUnion
    BY <1>1, <2>1, <2>5, DefineUnionStep DEF IInv
  <2>6. CASE WithdrawUnion
    BY <1>1, <2>1, <2>6, WithdrawUnionStep DEF IInv
  <2>7. CASE Finish /\ Service \notin DOMAIN models
    BY <1>1, <2>1, <2>7, FinishAsIs DEF IInv
  <2>8. CASE Finish /\ Service \in DOMAIN models
    BY <2>1, <2>8, FinishGivingWay DEF IInv
  <2> QED
    BY <1>2, <2>2, <2>3, <2>4, <2>5, <2>6, <2>7, <2>8 DEF Advance
<1>3. CASE UNCHANGED vars
  BY <1>3 DEF IInv, vars, TypeOK, AllTyped, NamesDeclared, Resolving, StackOK, Claimed,
              Identifier, AllDeclared, DeclaredIn, Declared, Mentions, RewrittenMentions,
              Mentioned, IsBareName, ServiceClash
<1> QED
  BY <1>2, <1>3 DEF Next, Finished

(* The inductive invariant.                                                 *)
THEOREM AlwaysConsistent == Spec => []IInv
BY InitInvariant, StepInvariant, PTL DEF Spec

(* Every variable keeps its type.                                           *)
THEOREM TypeCorrect == Spec => []TypeOK
<1>1. IInv => TypeOK
  BY DEF IInv
<1> QED
  BY <1>1, AlwaysConsistent, PTL

(* Whatever circles the schemas of a document run in and whichever of them share
   identifiers, no type expression names a type that the package does not declare,
   until a model gives way to the service, and none that resolveNameCollisions
   rewrites does then. Definitions that are a bare name, and variants of unions,
   are not rewritten (generate.go:564-577): of those nothing is claimed then. *)
THEOREM NamesAlwaysDeclared == Spec => []NamesDeclared
<1>1. IInv => NamesDeclared
  BY DEF IInv
<1> QED
  BY <1>1, AlwaysConsistent, PTL

-----------------------------------------------------------------------------
(* Which map a name may be in follows from the schema it is the name of.    *)
IsEnumName(name)  == \E s \in Schemas : Kind(s) = "enum" /\ name = Identifier(s)
IsUnionName(name) == \E s \in Schemas : IsUnion(s) /\ name = Identifier(s)

Sorted ==
  /\ \A n \in DOMAIN models : /\ n \in Claimed
                             /\ ~IsEnumName(n)
                             /\ n \notin DOMAIN unions
  /\ \A n \in enums : \/ IsEnumName(n)
                      \/ \E u : IsUnionName(u) /\ n = TagType[u]
  /\ \A n \in DOMAIN unions : IsUnionName(n)
  /\ \A i \in DOMAIN stack : stack[i].form = "union" => IsUnionName(stack[i].of)

OnceInv == IInv /\ (Unambiguous => Sorted)

(* Where names are the schemas' own, one map holds each.                    *)
LEMMA SortedSuffices == OnceInv => DeclaredOnce
<1> SUFFICES ASSUME Unambiguous, Sorted
             PROVE  /\ DOMAIN models \cap enums = {}
                    /\ DOMAIN unions \cap enums = {}
                    /\ DOMAIN models \cap DOMAIN unions = {}
  BY DEF OnceInv, DeclaredOnce
<1>1. ASSUME NEW u, NEW n, IsUnionName(u), n \in Claimed
      PROVE  n # TagType[u]
  BY <1>1 DEF Unambiguous, IsEnumName, IsUnionName, IsUnion, Claimed
<1>2. ASSUME NEW n, IsUnionName(n)
      PROVE  ~IsEnumName(n) /\ n \in Claimed
  BY <1>2 DEF Unambiguous, IsEnumName, IsUnionName, IsUnion, Claimed
<1> QED
  BY <1>1, <1>2 DEF Sorted

(* Every step keeps the names sorted.                                       *)
LEMMA SortedStep ==
  ASSUME IInv, Unambiguous, Sorted, Advance
  PROVE  Sorted'
<1> USE DEF Advance
<1>1. TypeOK /\ Resolving /\ stack # <<>> /\ StackOK
  BY DEF IInv, Resolving
<1>2. /\ Len(stack) \in DOMAIN stack
      /\ Top = stack[Len(stack)]
      /\ {"of", "form", "parts", "todo", "body"} \subseteq DOMAIN Top
      /\ Top.form = "union" => IsUnionName(Top.of)
  BY <1>1, TopFrame DEF StackOK, Sorted
<1>3. UNCHANGED document => /\ Claimed' = Claimed
                            /\ \A n : IsEnumName(n)' <=> IsEnumName(n)
                            /\ \A n : IsUnionName(n)' <=> IsUnionName(n)
  BY DEF Claimed, IsEnumName, IsUnionName, IsUnion, Kind, Identifier
<1>4. stack' = Front(stack) =>
        \A i \in DOMAIN stack' : i \in DOMAIN stack /\ stack'[i] = stack[i]
  BY <1>1, FrontFrames
<1>5. CASE \E p \in Top.todo : Resolve(p)
  <2> PICK p \in Top.todo : Resolve(p)
    BY <1>5
  <2>1. PICK body :
          /\ stack' = [stack EXCEPT ![Len(stack)] = [Top EXCEPT !.todo = @ \ {p}, !.body = body]]
          /\ UNCHANGED <<document, models, unions>>
          /\ \/ enums' = enums
             \/ /\ IsEnum(Top.parts[p].to)
                /\ enums' = enums \cup {Identifier(Top.parts[p].to)}
    BY DEF Resolve
  <2> DEFINE frame == [Top EXCEPT !.todo = @ \ {p}, !.body = body]
  <2>2. frame.of = Top.of /\ frame.form = Top.form
    BY <1>2
  <2>3. /\ DOMAIN stack' = DOMAIN stack
        /\ \A i \in DOMAIN stack : stack'[i] = IF i = Len(stack) THEN frame ELSE stack[i]
    <3> HIDE DEF frame
    <3>1. stack' = [stack EXCEPT ![Len(stack)] = frame]
      BY <2>1 DEF frame
    <3> QED
      BY <1>1, <3>1, ReplacedFrame
  <2> HIDE DEF frame
  <2>4. \A i \in DOMAIN stack' : stack'[i].form = "union" => IsUnionName(stack'[i].of)
    BY <1>2, <2>2, <2>3 DEF Sorted
  <2>5. \A n \in enums' : n \in enums \/ IsEnumName(n)
    BY <2>1 DEF IsEnum, IsEnumName
  <2> QED
    BY <1>3, <2>1, <2>4, <2>5 DEF Sorted
<1>6. CASE \E p \in Top.todo : Descend(p)
  <2> PICK p \in Top.todo : Descend(p)
    BY <1>6
  <2> DEFINE s == Top.parts[p].to
  <2>1. /\ s \in Schemas
        /\ Identifier(s) \notin DOMAIN models
        /\ Kind(s) # "enum"
        /\ Identifier(s) \in Claimed
    BY DEF Descend, Answered, Known, Claimed
  <2>2. UNCHANGED <<document, enums>>
    BY DEF Descend
  <2>3. CASE IsUnion(s)
    <3> DEFINE frame == Frame(Identifier(s), Body("union", document.schema[s].mapping, {}))
    <3>1. /\ unions' = With(unions, Identifier(s), Empty)
          /\ stack' = Append(stack, frame)
          /\ UNCHANGED models
      BY <2>3 DEF Descend
    <3>2. frame.of = Identifier(s)
      BY FrameFields
    <3> HIDE DEF frame
    <3>3. \A i \in DOMAIN stack' :
            (i \in DOMAIN stack /\ stack'[i] = stack[i]) \/ stack'[i] = frame
      BY <1>1, <3>1, PushedFrame
    <3>4. IsUnionName(Identifier(s))
      BY <2>1, <2>3 DEF IsUnionName
    <3> HIDE DEF s
    <3>5. \A i \in DOMAIN stack' : stack'[i].form = "union" => IsUnionName(stack'[i].of)
      BY <3>2, <3>3, <3>4 DEF Sorted
    <3>6. DOMAIN unions' = DOMAIN unions \cup {Identifier(s)}
      BY <3>1 DEF With
    <3> QED
      BY <1>3, <2>1, <2>2, <3>1, <3>4, <3>5, <3>6 DEF Sorted
  <2>4. CASE ~IsUnion(s)
    <3> DEFINE frame == Frame(Identifier(s), DefinitionFor(s))
    <3>1. /\ models' = With(models, Identifier(s), AnyDefinition)
          /\ stack' = Append(stack, frame)
          /\ UNCHANGED unions
      BY <2>4 DEF Descend
    <3>2. frame.form # "union"
      BY FrameFields, DefinitionForm DEF Forms
    <3> HIDE DEF frame
    <3>3. \A i \in DOMAIN stack' :
            (i \in DOMAIN stack /\ stack'[i] = stack[i]) \/ stack'[i] = frame
      BY <1>1, <3>1, PushedFrame
    <3>4. ~IsEnumName(Identifier(s))
      BY <2>1 DEF IsEnumName, Unambiguous
    <3>5. Identifier(s) \notin DOMAIN unions
      BY <2>1, <2>4 DEF Sorted, IsUnionName, Unambiguous
    <3> HIDE DEF s
    <3>6. DOMAIN models' = DOMAIN models \cup {Identifier(s)}
      BY <3>1 DEF With
    <3> QED
      BY <1>3, <2>1, <2>2, <3>1, <3>2, <3>3, <3>4, <3>5, <3>6 DEF Sorted
  <2> QED
    BY <2>3, <2>4
<1>7. CASE DefineModel
  <2>1. /\ DOMAIN models' = DOMAIN models
        /\ UNCHANGED <<document, enums, unions>>
        /\ stack' = Front(stack)
    BY <1>7 DEF DefineModel
  <2> QED
    BY <1>3, <1>4, <2>1 DEF Sorted
<1>8. CASE DefineUnion
  <2>1. /\ DOMAIN unions' = DOMAIN unions
        /\ enums' = enums \cup {TagType[Top.of]}
        /\ UNCHANGED <<document, models>>
        /\ stack' = Front(stack)
        /\ IsUnionName(Top.of)
    BY <1>2, <1>8 DEF DefineUnion
  <2> QED
    BY <1>3, <1>4, <2>1 DEF Sorted
<1>9. CASE WithdrawUnion
  <2>1. /\ DOMAIN unions' = DOMAIN unions \ {Top.of}
        /\ DOMAIN models' = DOMAIN models \cup {Top.of}
        /\ UNCHANGED <<document, enums>>
        /\ stack' = Front(stack)
        /\ IsUnionName(Top.of)
    BY <1>2, <1>9 DEF WithdrawUnion, With
  <2>2. Top.of \in Claimed /\ ~IsEnumName(Top.of)
    BY <2>1 DEF IsEnumName, IsUnionName, IsUnion, Claimed, Unambiguous
  <2> QED
    BY <1>3, <1>4, <2>1, <2>2 DEF Sorted
<1>10. CASE Finish
  <2>1. Service \notin DOMAIN models
    BY DEF Sorted, Claimed, Unambiguous, ServiceClash
  <2>2. UNCHANGED <<document, models, enums, unions>> /\ stack' = <<>>
    BY <1>10, <2>1 DEF Finish
  <2>3. DOMAIN stack' = {}
    BY <2>2
  <2> QED
    BY <1>3, <2>2, <2>3 DEF Sorted
<1> QED
  BY <1>5, <1>6, <1>7, <1>8, <1>9, <1>10

(* Every step keeps the document.                                           *)
LEMMA DocumentFixed == Advance => UNCHANGED document
BY DEF Advance, Resolve, Descend, DefineModel, DefineUnion, WithdrawUnion, Finish

LEMMA OnceInitially == Init => OnceInv
<1> SUFFICES ASSUME Init PROVE OnceInv
  OBVIOUS
<1>1. DOMAIN models = {} /\ DOMAIN unions = {} /\ enums = {}
  BY DEF Init, Empty
<1>2. \A i \in DOMAIN stack : stack[i].form # "union"
  <2> DEFINE frame == Frame(Service, Body("operations", document.operations,
                                          DOMAIN document.operations))
  <2>1. frame.form # "union"
    BY FrameFields DEF Body
  <2>2. stack = <<frame>>
    BY DEF Init
  <2> HIDE DEF frame
  <2>3. stack \in Seq({frame})
    BY <2>2
  <2> QED
    BY <2>1, <2>3, LenProperties, ElementOfSeq
<1> QED
  BY <1>1, <1>2, InitInvariant DEF OnceInv, Sorted

LEMMA OnceStep == OnceInv /\ [Next]_vars => OnceInv'
<1> SUFFICES ASSUME OnceInv, [Next]_vars PROVE OnceInv'
  OBVIOUS
<1>1. IInv'
  BY StepInvariant DEF OnceInv
<1>2. CASE Advance
  <2>1. Unambiguous' => Unambiguous
    BY <1>2, DocumentFixed DEF Unambiguous, ServiceClash, Kind, Identifier
  <2> QED
    BY <1>1, <1>2, <2>1, SortedStep DEF OnceInv
<1>3. CASE UNCHANGED vars
  BY <1>1, <1>3 DEF OnceInv, vars, Sorted, Unambiguous, ServiceClash, IsEnumName, IsUnionName,
                    IsUnion, Claimed, Kind, Identifier
<1> QED
  BY <1>2, <1>3 DEF Next, Finished

(* Where schemas have identifiers of their own, no type is declared twice.  *)
THEOREM NamesDeclaredOnce == Spec => []DeclaredOnce
BY OnceInitially, OnceStep, SortedSuffices, PTL DEF Spec

-----------------------------------------------------------------------------
(* What a call owns while it is under way, and gives up when it returns: the name
   it has reserved, under which nothing complete is stored yet. No two calls of
   a kind own the same name. A call below the innermost waits for a part that
   refers to a schema, so that a union whose name another model takes meanwhile
   gets a variant and is not withdrawn.                                     *)
(* A call under way has a part left to resolve that refers to a schema.     *)
Pending(frame) == \E p \in frame.todo : frame.parts[p].to \in Schemas

(* What a call owns until it returns: the name it has reserved. A union may have
   lost it to a model with the same name, but then it has a variant.        *)
OwnsModel(frame) == frame.form \in Forms => frame.of \in resolving

OwnsUnion(frame) ==
  frame.form = "union" =>
    /\ frame.of \in DOMAIN unions /\ unions[frame.of] = Empty
    /\ frame.body # Empty \/ Pending(frame) \/ frame.of \notin DOMAIN models

SameKind(f, g) == (f.form \in Forms /\ g.form \in Forms) \/ (f.form = "union" /\ g.form = "union")

OwnersApart ==
  \A i, j \in DOMAIN stack : i # j /\ SameKind(stack[i], stack[j]) => stack[i].of # stack[j].of

Owned ==
  /\ OwnersApart
  /\ \A i \in DOMAIN stack :
       /\ OwnsModel(stack[i]) /\ OwnsUnion(stack[i])
       /\ i # Len(stack) => Pending(stack[i])

(* The stack with a frame more, and with one less.                          *)
LEMMA PushedAt ==
  ASSUME StackOK, NEW frame, stack' = Append(stack, frame)
  PROVE  /\ Len(stack) \in Nat /\ Len(stack') = Len(stack) + 1
         /\ DOMAIN stack = 1 .. Len(stack) /\ DOMAIN stack' = 1 .. Len(stack) + 1
         /\ \A i \in 1 .. Len(stack) : stack'[i] = stack[i]
         /\ stack'[Len(stack) + 1] = frame
<1>1. stack \in Seq(ToSet(stack) \cup {frame})
  BY SeqMonotonic DEF StackOK
<1> QED
  BY <1>1, AppendProperties, LenProperties

LEMMA PoppedAt ==
  ASSUME StackOK, stack # <<>>, stack' = Front(stack)
  PROVE  /\ Len(stack) \in Nat \ {0} /\ Len(stack') = Len(stack) - 1
         /\ DOMAIN stack = 1 .. Len(stack) /\ DOMAIN stack' = 1 .. Len(stack) - 1
         /\ \A i \in 1 .. Len(stack) - 1 : stack'[i] = stack[i]
<1>1. Len(stack) \in Nat \ {0} /\ DOMAIN stack = 1 .. Len(stack)
  BY TopFrame
<1>2. \A i \in 1 .. Len(stack) - 1 : stack[i] \in ToSet(stack)
  BY <1>1 DEF ToSet
<1>3. Len(stack) - 1 \in Int
  BY <1>1
<1>4. /\ stack' \in Seq(ToSet(stack)) /\ Len(stack') = Len(stack) - 1
      /\ \A i \in 1 .. Len(stack) - 1 : stack'[i] = stack[i]
  BY <1>1, <1>2, <1>3, SubSeqProperties DEF Front
<1> QED
  BY <1>1, <1>4, LenProperties

(* A call returns: those below it keep what they own as long as it gives up no
   more than its own name.                                                  *)
LEMMA ReturnKeepsOwned ==
  ASSUME StackOK, stack # <<>>, Owned, stack' = Front(stack),
         \A n \in resolving : (Top.form \in Forms => n # Top.of) => n \in resolving',
         \A n \in DOMAIN unions :
            (Top.form = "union" => n # Top.of) => n \in DOMAIN unions' /\ unions'[n] = unions[n]
  PROVE  Owned'
<1>1. /\ Len(stack) \in Nat \ {0} /\ Len(stack') = Len(stack) - 1
      /\ DOMAIN stack = 1 .. Len(stack) /\ DOMAIN stack' = 1 .. Len(stack) - 1
      /\ \A i \in 1 .. Len(stack) - 1 : stack'[i] = stack[i]
  BY PoppedAt
<1>2. Top = stack[Len(stack)] /\ Len(stack) \in DOMAIN stack
  BY <1>1 DEF Top
<1>3. \A i \in DOMAIN stack' : i \in DOMAIN stack /\ i # Len(stack) /\ stack'[i] = stack[i]
  BY <1>1
<1>4. ASSUME NEW i \in DOMAIN stack'
      PROVE  /\ Pending(stack[i])
             /\ stack[i].form \in Forms => stack[i].of \in resolving'
             /\ stack[i].form = "union" =>
                  stack[i].of \in DOMAIN unions' /\ unions'[stack[i].of] = Empty
  <2>1. /\ Pending(stack[i]) /\ OwnsModel(stack[i]) /\ OwnsUnion(stack[i])
        /\ SameKind(stack[i], Top) => stack[i].of # Top.of
    BY <1>2, <1>3, <1>4 DEF Owned, OwnersApart
  <2>2. stack[i].form \in Forms => stack[i].of \in resolving'
    BY <2>1 DEF OwnsModel, SameKind
  <2>3. stack[i].form = "union" => stack[i].of \in DOMAIN unions' /\ unions'[stack[i].of] = Empty
    BY <2>1 DEF OwnsUnion, SameKind
  <2> QED
    BY <2>1, <2>2, <2>3
<1>5. OwnersApart'
  BY <1>3 DEF Owned, OwnersApart, SameKind
<1>6. ASSUME NEW i \in DOMAIN stack'
      PROVE  (OwnsModel(stack[i]) /\ OwnsUnion(stack[i]) /\ Pending(stack[i]))'
  BY <1>3, <1>4, <1>6 DEF OwnsModel, OwnsUnion, Pending
<1> QED
  BY <1>5, <1>6 DEF Owned

(* A part of the innermost call gets its type. A union in which one does that
   refers to a schema has a variant from then on.                           *)
LEMMA ResolveKeepsOwned ==
  ASSUME TypeOK, Resolving, stack # <<>>, Owned, NEW p \in Top.todo, Resolve(p)
  PROVE  Owned'
<1> DEFINE use   == Top.parts[p]
           type  == GoType(use, Top.form = "struct" /\ p \notin Top.required)
           body  == IF Top.form = "union" /\ type.base = Untyped THEN Top.body
                    ELSE With(Top.body, p, type)
           frame == [Top EXCEPT !.todo = @ \ {p}, !.body = body]
<1>1. /\ stack' = [stack EXCEPT ![Len(stack)] = frame]
      /\ UNCHANGED <<models, unions, resolving>>
  BY DEF Resolve
<1>2. /\ Len(stack) \in DOMAIN stack /\ Len(stack) \in Nat \ {0} /\ DOMAIN stack = 1 .. Len(stack)
      /\ Top = stack[Len(stack)]
      /\ {"of", "form", "parts", "todo", "body"} \subseteq DOMAIN Top
  BY TopFrame DEF Resolving, StackOK
<1>3. /\ frame.of = Top.of /\ frame.form = Top.form /\ frame.parts = Top.parts
      /\ frame.todo = Top.todo \ {p} /\ frame.body = body
  BY <1>2
<1>4. body = Empty => Top.body = Empty /\ use.to \notin Schemas
  <2> SUFFICES ASSUME body = Empty PROVE Top.body = Empty /\ use.to \notin Schemas
    OBVIOUS
  <2>1. With(Top.body, p, type) # Empty
    BY DEF With, Empty
  <2>2. Top.form = "union" /\ type.base = Untyped /\ Top.body = Empty
    BY <2>1
  <2>3. ASSUME use.to \in Schemas PROVE FALSE
    <3>1. Identifier(use.to) \in Names
      BY <2>3, ResolverAssumption DEF TypeOK, Documents, Identifier
    <3>2. type.base = Identifier(use.to)
      BY <2>3 DEF GoType, NamedType
    <3> QED
      BY <2>2, <3>1, <3>2, ResolverAssumption
  <2> QED
    BY <2>2, <2>3
<1>5. /\ DOMAIN stack' = DOMAIN stack /\ Len(stack') = Len(stack)
      /\ \A i \in DOMAIN stack : stack'[i] = IF i = Len(stack) THEN frame ELSE stack[i]
  <2> HIDE DEF frame
  <2>1. /\ stack' \in Seq(ToSet(stack')) /\ DOMAIN stack' = DOMAIN stack
        /\ \A i \in DOMAIN stack : stack'[i] = IF i = Len(stack) THEN frame ELSE stack[i]
    BY <1>1, ReplacedFrame DEF Resolving
  <2>2. Len(stack') \in Nat /\ DOMAIN stack' = 1 .. Len(stack')
    BY <2>1, LenProperties
  <2> QED
    BY <1>2, <2>1, <2>2
<1> HIDE DEF frame, body, type
<1>6. OwnersApart'
  BY <1>2, <1>3, <1>5 DEF Owned, OwnersApart, SameKind
<1>7. OwnsModel(frame) /\ OwnsUnion(frame)
  <2>1. OwnsModel(Top) /\ OwnsUnion(Top)
    BY <1>2 DEF Owned
  <2>2. OwnsModel(frame)
    BY <1>3, <2>1 DEF OwnsModel
  <2>3. ASSUME Top.form = "union", frame.body = Empty, ~Pending(frame)
        PROVE  Top.of \notin DOMAIN models
    <3>1. Top.body = Empty /\ use.to \notin Schemas
      BY <1>3, <1>4, <2>3
    <3>2. ~Pending(Top)
      BY <1>3, <2>3, <3>1 DEF Pending
    <3> QED
      BY <2>1, <2>3, <3>1, <3>2 DEF OwnsUnion
  <2>4. OwnsUnion(frame)
    BY <1>3, <2>1, <2>3 DEF OwnsUnion
  <2> QED
    BY <2>2, <2>4
<1>8. ASSUME NEW i \in DOMAIN stack'
      PROVE  (OwnsModel(stack[i]) /\ OwnsUnion(stack[i]) /\ (i # Len(stack) => Pending(stack[i])))'
  <2>1. CASE i = Len(stack)
    BY <1>1, <1>5, <1>7, <2>1 DEF OwnsModel, OwnsUnion, Pending
  <2>2. CASE i # Len(stack)
    <3>1. OwnsModel(stack[i]) /\ OwnsUnion(stack[i]) /\ Pending(stack[i]) /\ stack'[i] = stack[i]
      BY <1>5, <1>8, <2>2 DEF Owned
    <3> QED
      BY <1>1, <3>1 DEF OwnsModel, OwnsUnion, Pending
  <2> QED
    BY <2>1, <2>2
<1> QED
  BY <1>6, <1>8 DEF Owned

(* A name is reserved: nobody owns it.                                      *)
LEMMA DescendKeepsOwned ==
  ASSUME TypeOK, Resolving, stack # <<>>, Owned, NEW p \in Top.todo, Descend(p)
  PROVE  Owned'
<1> DEFINE s == Top.parts[p].to
           name == Identifier(s)
<1>1. /\ s \in Schemas /\ name \notin DOMAIN models /\ name \notin resolving
      /\ IsUnion(s) => name \notin DOMAIN unions
  BY DEF Descend, Answered, Known
<1>2. /\ Len(stack) \in DOMAIN stack /\ Top = stack[Len(stack)]
      /\ Pending(Top)
  BY <1>1, TopFrame DEF Resolving, Pending
<1>3. \A i \in DOMAIN stack : OwnsModel(stack[i]) /\ OwnsUnion(stack[i]) /\ Pending(stack[i])
  BY <1>2 DEF Owned
<1>4. ASSUME NEW frame, stack' = Append(stack, frame),
             frame.of = name, frame.form \in Forms \cup {"union"},
             frame.form \in Forms =>
               /\ name \in resolving' /\ resolving \subseteq resolving'
               /\ UNCHANGED unions,
             frame.form = "union" =>
               /\ name \notin DOMAIN unions /\ unions' = With(unions, name, Empty)
               /\ UNCHANGED <<models, resolving>>
      PROVE  Owned'
  <2>1. /\ Len(stack) \in Nat /\ Len(stack') = Len(stack) + 1
        /\ DOMAIN stack = 1 .. Len(stack) /\ DOMAIN stack' = 1 .. Len(stack) + 1
        /\ \A i \in 1 .. Len(stack) : stack'[i] = stack[i]
        /\ stack'[Len(stack) + 1] = frame
    BY <1>4, PushedAt DEF Resolving
  <2>2. \A i \in DOMAIN stack' : i = Len(stack') \/ i \in DOMAIN stack
    BY <2>1
  <2>3. \A i \in DOMAIN stack : SameKind(stack[i], frame) => stack[i].of # frame.of
    BY <1>1, <1>3, <1>4 DEF SameKind, OwnsModel, OwnsUnion, Forms
  <2>4. OwnersApart'
    BY <2>1, <2>2, <2>3 DEF Owned, OwnersApart, SameKind
  <2>5. ASSUME NEW i \in DOMAIN stack
        PROVE  (OwnsModel(stack[i]) /\ OwnsUnion(stack[i]) /\ Pending(stack[i]))'
    <3>1. /\ OwnsModel(stack[i]) /\ OwnsUnion(stack[i]) /\ Pending(stack[i])
          /\ stack'[i] = stack[i]
      BY <1>3, <2>1, <2>5
    <3>2. \A n \in DOMAIN unions : n \in DOMAIN unions' /\ (n # name => unions'[n] = unions[n])
      BY <1>4 DEF With
    <3>3. resolving \subseteq resolving'
      BY <1>4
    <3>4. stack[i].form = "union" => stack[i].of \in DOMAIN unions' /\ unions'[stack[i].of] = Empty
      BY <1>4, <3>1, <3>2 DEF OwnsUnion, With
    <3> QED
      BY <3>1, <3>3, <3>4 DEF OwnsModel, OwnsUnion, Pending
  <2>6. (OwnsModel(stack[Len(stack)]) /\ OwnsUnion(stack[Len(stack)]))'
    <3>1. stack'[Len(stack')] = frame
      BY <2>1
    <3>2. frame.form = "union" => /\ name \in DOMAIN unions' /\ unions'[name] = Empty
                                  /\ name \notin DOMAIN models'
      BY <1>1, <1>4 DEF With
    <3> QED
      BY <1>4, <3>1, <3>2 DEF OwnsModel, OwnsUnion
  <2> QED
    BY <2>2, <2>4, <2>5, <2>6 DEF Owned
<1>5. CASE IsUnion(s)
  <2> DEFINE frame == Frame(name, Body("union", document.schema[s].mapping, {}))
  <2>1. /\ stack' = Append(stack, frame) /\ unions' = With(unions, name, Empty)
        /\ UNCHANGED <<models, resolving>>
    BY <1>5 DEF Descend
  <2>2. frame.of = name /\ frame.form = "union" /\ "union" \notin Forms
    BY FrameFields DEF Body, Forms
  <2> HIDE DEF frame, name, s
  <2> QED
    BY <1>1, <1>4, <1>5, <2>1, <2>2
<1>6. CASE ~IsUnion(s)
  <2> DEFINE frame == Frame(name, DefinitionFor(s))
  <2>1. /\ stack' = Append(stack, frame) /\ resolving' = resolving \cup {name}
        /\ UNCHANGED unions
    BY <1>6 DEF Descend
  <2>2. frame.of = name /\ frame.form \in Forms /\ "union" \notin Forms
    BY FrameFields, DefinitionForm DEF Forms
  <2> HIDE DEF frame, name, s
  <2> QED
    BY <1>4, <2>1, <2>2
<1> QED
  BY <1>5, <1>6

(* A call that returns gives up its own name.                               *)
LEMMA ReturnStepKeepsOwned ==
  ASSUME TypeOK, Resolving, stack # <<>>, Owned, DefineModel \/ DefineUnion \/ WithdrawUnion
  PROVE  Owned'
<1>1. stack' = Front(stack) /\ StackOK
  BY DEF DefineModel, DefineUnion, WithdrawUnion, Resolving
<1>2. Top.form \in Forms \cup {"union", "operations"}
  BY TopKnown
<1>3. CASE DefineModel
  <2>1. Top.form \in Forms /\ resolving' = resolving \ {Top.of} /\ UNCHANGED unions
    BY <1>2, <1>3 DEF DefineModel
  <2> QED
    BY <1>1, <2>1, ReturnKeepsOwned
<1>4. CASE DefineUnion
  <2>1. /\ Top.form = "union" /\ UNCHANGED resolving
        /\ unions' = [unions EXCEPT ![Top.of] = Top.body]
    BY <1>4 DEF DefineUnion
  <2> QED
    BY <1>1, <2>1, ReturnKeepsOwned
<1>5. CASE WithdrawUnion
  <2>1. /\ Top.form = "union" /\ UNCHANGED resolving
        /\ unions' = [n \in DOMAIN unions \ {Top.of} |-> unions[n]]
    BY <1>5 DEF WithdrawUnion
  <2> QED
    BY <1>1, <2>1, ReturnKeepsOwned
<1> QED
  BY <1>3, <1>4, <1>5

OwnedInv == IInv /\ Owned

LEMMA OwnedStep == OwnedInv /\ [Next]_vars => OwnedInv'
<1> SUFFICES ASSUME IInv, Owned, [Next]_vars PROVE OwnedInv'
  BY DEF OwnedInv
<1>1. IInv'
  BY StepInvariant
<1>2. CASE Advance
  <2>1. TypeOK /\ Resolving /\ stack # <<>>
    BY <1>2 DEF IInv, Advance
  <2>2. CASE \E p \in Top.todo : Resolve(p)
    BY <1>1, <2>1, <2>2, ResolveKeepsOwned DEF OwnedInv
  <2>3. CASE \E p \in Top.todo : Descend(p)
    BY <1>1, <2>1, <2>3, DescendKeepsOwned DEF OwnedInv
  <2>4. CASE DefineModel \/ DefineUnion \/ WithdrawUnion
    BY <1>1, <2>1, <2>4, ReturnStepKeepsOwned DEF OwnedInv
  <2>5. CASE Finish
    <3>1. DOMAIN stack' = {}
      BY <2>5 DEF Finish
    <3> QED
      BY <1>1, <3>1 DEF OwnedInv, Owned, OwnersApart
  <2> QED
    BY <1>2, <2>2, <2>3, <2>4, <2>5 DEF Advance
<1>3. CASE UNCHANGED vars
  BY <1>1, <1>3 DEF OwnedInv, vars, Owned, OwnersApart, OwnsModel, OwnsUnion, Pending
<1> QED
  BY <1>2, <1>3 DEF Next, Finished

LEMMA OwnedInitially == Init => OwnedInv
<1> SUFFICES ASSUME Init PROVE OwnedInv
  OBVIOUS
<1> DEFINE frame == Frame(Service, Body("operations", document.operations,
                                        DOMAIN document.operations))
<1>1. frame.form = "operations"
  BY FrameFields DEF Body
<1>2. stack = <<frame>>
  BY DEF Init
<1> HIDE DEF frame
<1>3. DOMAIN stack = {1} /\ Len(stack) = 1 /\ stack[1] = frame
  BY <1>2
<1>4. Owned
  BY <1>1, <1>3 DEF Owned, OwnersApart, OwnsModel, OwnsUnion, Forms
<1> QED
  BY <1>4, InitInvariant DEF OwnedInv

(* A definition, once complete, is never entered again and stays as it is until
   names give way to the service's: a model that is defined, and a union that
   has its variants. Whatever circles the schemas run in, and whether or not
   they share identifiers.                                                  *)
THEOREM DefinitionsStay == Spec => DefinedOnce
<1>1. OwnedInv /\ [Next]_vars =>
        [stack' # <<>> =>
           /\ \A n \in DOMAIN models \ resolving :
                n \in DOMAIN models' \ resolving' /\ models'[n] = models[n]
           /\ \A n \in DOMAIN unions : unions[n] # Empty =>
                n \in DOMAIN unions' /\ unions'[n] = unions[n]]_vars
  <2> SUFFICES ASSUME OwnedInv, Advance, stack' # <<>>
               PROVE  /\ \A n \in DOMAIN models \ resolving :
                           n \in DOMAIN models' \ resolving' /\ models'[n] = models[n]
                      /\ \A n \in DOMAIN unions : unions[n] # Empty =>
                           n \in DOMAIN unions' /\ unions'[n] = unions[n]
    BY DEF Next, Finished
  <2>1. /\ TypeOK /\ Resolving /\ stack # <<>> /\ Top.form \in Forms \cup {"union", "operations"}
        /\ OwnsModel(Top) /\ OwnsUnion(Top)
    <3>1. TypeOK /\ Resolving /\ stack # <<>>
      BY DEF OwnedInv, IInv, Advance
    <3> QED
      BY <3>1, TopFrame, TopKnown DEF OwnedInv, Owned, Resolving
  <2>2. CASE \E p \in Top.todo : Resolve(p)
    BY <2>2 DEF Resolve
  <2>3. CASE \E p \in Top.todo : Descend(p)
    BY <2>3 DEF Descend, Answered, Known, With
  <2>4. CASE DefineModel
    <3>1. /\ Top.of \in resolving /\ models' = [models EXCEPT ![Top.of] = [form |-> Top.form, body |-> Top.body]]
          /\ resolving' = resolving \ {Top.of} /\ UNCHANGED unions
      BY <2>1, <2>4 DEF DefineModel, OwnsModel
    <3> QED
      BY <3>1
  <2>5. CASE DefineUnion
    <3>1. /\ unions[Top.of] = Empty /\ unions' = [unions EXCEPT ![Top.of] = Top.body]
          /\ UNCHANGED <<models, resolving>>
      BY <2>1, <2>5 DEF DefineUnion, OwnsUnion
    <3> QED
      BY <3>1
  <2>6. CASE WithdrawUnion /\ Top.todo = {}
    <3>1. Top.of \notin DOMAIN models /\ unions[Top.of] = Empty
      <4>1. Top.todo = {} /\ Top.form = "union" /\ Top.body = Empty
        BY <2>6 DEF WithdrawUnion
      <4> QED
        BY <2>1, <4>1 DEF OwnsUnion, Pending
    <3>2. /\ unions' = [n \in DOMAIN unions \ {Top.of} |-> unions[n]]
          /\ models' = With(models, Top.of, AnyDefinition) /\ UNCHANGED resolving
      BY <2>6 DEF WithdrawUnion
    <3> QED
      BY <3>1, <3>2 DEF With
  <2>7. CASE Finish
    BY <2>7 DEF Finish
  <2> QED
    BY <2>2, <2>3, <2>4, <2>5, <2>6, <2>7 DEF Advance
<1> QED
  BY <1>1, OwnedInitially, OwnedStep, PTL DEF Spec, DefinedOnce

-----------------------------------------------------------------------------
(* What holds at 0 and from each number to the next holds of all numbers.   *)
LEMMA CountingUp ==
  ASSUME NEW T, 0 \in T, \A k \in Nat : k \in T => k + 1 \in T
  PROVE  Nat \subseteq T
<1> SUFFICES ASSUME Nat \ T # {} PROVE FALSE
  OBVIOUS
<1>1. PICK k \in Nat \ T : \A j \in Nat \ T : ~ (<<j, k>> \in OpToRel(<, Nat))
  BY WFMin, NatLessThanWellFounded
<1>2. k # 0 /\ k - 1 \in Nat /\ k - 1 < k
  OBVIOUS
<1>3. k - 1 \in T
  BY <1>1, <1>2 DEF OpToRel
<1>4. (k - 1) + 1 \in T
  BY <1>2, <1>3
<1> QED
  BY <1>4

(* The walk over the members is a function: each depth is defined from the next,
   down to the bound.                                                       *)
Bottom == [c \in Compositions |-> NoProperties]

LEMMA CollectDefined ==
  /\ Collect[CompositionDepth + 1] = Bottom
  /\ \A depth \in 0 .. CompositionDepth : Collect[depth] = Level(Collect[depth + 1])
<1> DEFINE D == CompositionDepth + 1
           Walk(k, f) ==
             f = [depth \in D - k .. D |->
                    IF depth > CompositionDepth THEN Bottom ELSE Level(f[depth + 1])]
           T == {k \in Nat : k <= D => \E f : Walk(k, f)}
<1>1. CompositionDepth \in Nat /\ D \in Nat
  BY ResolverAssumption
<1>2. 0 \in T
  <2>1. Walk(0, [depth \in D - 0 .. D |-> Bottom])
    BY <1>1
  <2> QED
    BY <2>1
<1>3. ASSUME NEW k \in Nat, k \in T PROVE k + 1 \in T
  <2> SUFFICES ASSUME k + 1 <= D PROVE \E f : Walk(k + 1, f)
    OBVIOUS
  <2>1. PICK f : Walk(k, f)
    BY <1>1, <1>3
  <2> DEFINE d == D - (k + 1)
             g == [depth \in d .. D |-> IF depth = d THEN Level(f[d + 1]) ELSE f[depth]]
  <2>2. d \in Nat /\ d <= CompositionDepth /\ d + 1 = D - k
    BY <1>1
  <2>3. \A depth \in d + 1 .. D :
          f[depth] = IF depth > CompositionDepth THEN Bottom ELSE Level(f[depth + 1])
    BY <2>1, <2>2
  <2>4. \A depth \in d + 1 .. D : g[depth] = f[depth]
    BY <1>1, <2>2
  <2> HIDE DEF d
  <2>5. ASSUME NEW depth \in d .. D
        PROVE  g[depth] = IF depth > CompositionDepth THEN Bottom ELSE Level(g[depth + 1])
    <3>1. CASE depth = d
      <4>1. g[d + 1] = f[d + 1]
        BY <1>1, <2>2, <2>4
      <4> QED
        BY <1>1, <2>2, <3>1, <4>1
    <3>2. CASE depth # d
      <4>1. depth \in d + 1 .. D /\ g[depth] = f[depth]
        BY <1>1, <2>2, <2>4, <3>2
      <4>2. depth <= CompositionDepth => g[depth + 1] = f[depth + 1]
        BY <1>1, <2>2, <2>4, <4>1
      <4> QED
        BY <1>1, <2>2, <2>3, <4>1, <4>2
    <3> QED
      BY <3>1, <3>2
  <2>6. g = [depth \in d .. D |->
               IF depth > CompositionDepth THEN Bottom ELSE Level(g[depth + 1])]
    <3> HIDE DEF g
    <3>1. g = [depth \in d .. D |-> g[depth]]
      BY DEF g
    <3> QED
      BY <2>5, <3>1
  <2> QED
    BY <2>6 DEF d
<1>4. D \in T
  <2> HIDE DEF T
  <2> QED
    BY <1>1, <1>2, <1>3, CountingUp
<1>5. \E f : Walk(D, f)
  BY <1>1, <1>4
<1>6. Walk(D, Collect)
  <2>1. Collect = CHOOSE f : f = [depth \in 0 .. CompositionDepth + 1 |->
                    IF depth > CompositionDepth THEN [c \in Compositions |-> NoProperties]
                    ELSE Level(f[depth + 1])]
    BY DEF Collect
  <2>2. D - D = 0
    BY <1>1
  <2> QED
    BY <1>5, <2>1, <2>2 DEF Bottom
<1> QED
  BY <1>1, <1>6

(* What of properties a lemma is about: their names, or those required.     *)
Says(what, found) == IF what = "props" THEN DOMAIN found.props ELSE found.required

(* What the walk adds for a member.                                         *)
Part(depth, m) == IF m \in Compositions THEN Collect[depth][m] ELSE OwnProperties(m)

LEMMA MembersTyped ==
  ASSUME document \in Documents, NEW c \in Compositions
  PROVE  /\ Members(c) \in Seq(Schemas)
         /\ ToSet(Members(c)) = {Members(c)[i] : i \in DOMAIN Members(c)}
         /\ ToSet(Members(c)) \subseteq Schemas
<1>1. Members(c) \in Seq(Schemas)
  BY ResolverAssumption DEF Documents, Compositions, Members, Kind
<1>2. \A i \in DOMAIN Members(c) : Members(c)[i] \in Schemas
  BY <1>1
<1> QED
  BY <1>1, <1>2 DEF ToSet

LEMMA NothingSaid == \A what : Says(what, NoProperties) = {}
<1>1. DOMAIN Empty = {}
  BY DEF Empty
<1> QED
  BY <1>1 DEF Says, NoProperties

(* A composition says what its members say, at every depth but the last.    *)
LEMMA LevelSays ==
  ASSUME document \in Documents, NEW c \in Compositions,
         NEW depth \in 0 .. CompositionDepth, NEW what
  PROVE  Says(what, Collect[depth][c])
           = UNION {Says(what, Part(depth + 1, m)) : m \in ToSet(Members(c))}
<1> DEFINE objects == [i \in DOMAIN Members(c) |->
                         IF Members(c)[i] \in Compositions THEN Collect[depth + 1][Members(c)[i]]
                         ELSE OwnProperties(Members(c)[i])]
<1>1. Collect[depth][c] = Merged(objects)
  BY CollectDefined DEF Level
<1>2. \A i \in DOMAIN Members(c) : objects[i] = Part(depth + 1, Members(c)[i])
  BY DEF Part
<1>3. DOMAIN objects = DOMAIN Members(c)
  OBVIOUS
<1> HIDE DEF objects
<1>4. /\ DOMAIN Merged(objects).props = UNION {DOMAIN objects[i].props : i \in DOMAIN objects}
      /\ Merged(objects).required = UNION {objects[i].required : i \in DOMAIN objects}
  BY DEF Merged
<1>5. Says(what, Merged(objects)) = UNION {Says(what, objects[i]) : i \in DOMAIN objects}
  BY <1>4 DEF Says
<1>6. {Says(what, objects[i]) : i \in DOMAIN objects}
        = {Says(what, Part(depth + 1, m)) : m \in ToSet(Members(c))}
  BY <1>2, <1>3, MembersTyped
<1> QED
  BY <1>1, <1>5, <1>6

-----------------------------------------------------------------------------
(* What is reached from a schema through compositions of a set, as the least set
   that is closed under them.                                               *)
ClosedUnder(C, U) == \A c \in C \cap U : ToSet(Members(c)) \subseteq C

Within(U, s) == {o \in Schemas : \A C \in SUBSET Schemas : s \in C /\ ClosedUnder(C, U) => o \in C}

LEMMA ComposedIsWithin ==
  \A s : ComposedOf(s) = {o \in Within(Compositions, s) : Kind(o) = "object"}
BY DEF ComposedOf, Within, ClosedUnder

(* A walk of any depth finds nothing but what objects of the composition say.*)
LEMMA FoundIsComposed ==
  ASSUME document \in Documents, NEW what
  PROVE  \A depth \in 0 .. CompositionDepth + 1 : \A c \in Compositions :
           \A p \in Says(what, Collect[depth][c]) :
             \E o \in ComposedOf(c) : p \in Says(what, document.schema[o])
<1> DEFINE D == CompositionDepth + 1
           Sound(depth) == \A c \in Compositions : \A p \in Says(what, Collect[depth][c]) :
                             \E o \in ComposedOf(c) : p \in Says(what, document.schema[o])
           T == {k \in Nat : k <= D => Sound(D - k)}
<1>1. CompositionDepth \in Nat /\ D \in Nat
  BY ResolverAssumption
<1>2. 0 \in T
  <2>1. \A c \in Compositions : Collect[D][c] = NoProperties
    BY CollectDefined DEF Bottom
  <2>2. Sound(D)
    BY <2>1, NothingSaid
  <2>3. D - 0 = D
    BY <1>1
  <2> QED
    BY <2>2, <2>3
<1>3. ASSUME NEW k \in Nat, k \in T PROVE k + 1 \in T
  <2> DEFINE depth == D - (k + 1)
  <2> SUFFICES ASSUME k + 1 <= D, NEW c \in Compositions, NEW p \in Says(what, Collect[depth][c])
               PROVE  \E o \in ComposedOf(c) : p \in Says(what, document.schema[o])
    OBVIOUS
  <2>1. depth \in 0 .. CompositionDepth /\ depth + 1 = D - k
    BY <1>1
  <2>2. Sound(depth + 1)
    BY <1>1, <1>3, <2>1
  <2> HIDE DEF depth
  <2>3. PICK m \in ToSet(Members(c)) : p \in Says(what, Part(depth + 1, m))
    BY <2>1, LevelSays
  <2>4. /\ m \in Schemas /\ c \in Schemas
        /\ \A C \in SUBSET Schemas : c \in C /\ ClosedUnder(C, Compositions) => m \in C
    BY <2>3, MembersTyped DEF ClosedUnder, Compositions
  <2>5. CASE m \in Compositions
    <3>1. PICK o \in ComposedOf(m) : p \in Says(what, document.schema[o])
      BY <2>2, <2>3, <2>5 DEF Part
    <3>2. o \in ComposedOf(c)
      BY <2>4, ComposedIsWithin DEF Within
    <3> QED
      BY <3>1, <3>2
  <2>6. CASE m \notin Compositions
    <3>1. p \in Says(what, OwnProperties(m))
      BY <2>3, <2>6 DEF Part
    <3>2. Kind(m) = "object" /\ p \in Says(what, document.schema[m])
      BY <3>1, NothingSaid DEF OwnProperties
    <3>3. m \in ComposedOf(c)
      BY <2>4, <3>2, ComposedIsWithin DEF Within
    <3> QED
      BY <3>2, <3>3
  <2> QED
    BY <2>5, <2>6
<1>4. \A k \in Nat : k <= D => Sound(D - k)
  <2> HIDE DEF T
  <2>1. Nat \subseteq T
    BY <1>2, <1>3, CountingUp
  <2> QED
    BY <2>1 DEF T
<1>5. ASSUME NEW depth \in 0 .. CompositionDepth + 1 PROVE Sound(depth)
  <2>1. D - depth \in Nat /\ D - depth <= D /\ D - (D - depth) = depth
    BY <1>1
  <2> HIDE DEF Sound
  <2> QED
    BY <1>4, <2>1
<1> QED
  BY <1>5

(* What is reached through a composition is it, or is reached from a member without
   passing through it again.                                                *)
LEMMA ReachedThroughMember ==
  ASSUME document \in Documents, NEW U \in SUBSET Compositions, NEW c \in U,
         NEW o \in Within(U, c), o # c
  PROVE  \E m \in ToSet(Members(c)) : o \in Within(U \ {c}, m)
<1> DEFINE Rest == U \ {c}
           C == {c} \cup UNION {Within(Rest, m) : m \in ToSet(Members(c))}
<1>1. C \in SUBSET Schemas /\ c \in C
  BY DEF Within, Compositions
<1>2. ASSUME NEW x \in C \cap U, NEW y \in ToSet(Members(x)) PROVE y \in C
  <2>1. y \in Schemas
    BY <1>2, MembersTyped
  <2>2. CASE x = c
    <3>1. y \in Within(Rest, y)
      BY <2>1 DEF Within
    <3> QED
      BY <1>2, <2>2, <3>1
  <2>3. CASE x # c
    <3>1. PICK m \in ToSet(Members(c)) : x \in Within(Rest, m)
      BY <1>2, <2>3
    <3>2. x \in Rest
      BY <1>2, <2>3
    <3>3. y \in Within(Rest, m)
      BY <1>2, <2>1, <3>1, <3>2 DEF Within, ClosedUnder
    <3> QED
      BY <3>1, <3>3
  <2> QED
    BY <2>2, <2>3
<1>3. ClosedUnder(C, U)
  BY <1>2 DEF ClosedUnder
<1> HIDE DEF C
<1>4. o \in C
  BY <1>1, <1>3 DEF Within
<1> QED
  BY <1>4 DEF C

(* A walk with as many levels left as chains of compositions are long misses no
   object.                                                                  *)
Misses(what, o, depth, c) ==
  ~ (Says(what, document.schema[o]) \subseteq Says(what, Collect[depth][c]))

ShortFrom(U, c, k) == \A f \in [1 .. k + 1 -> U] : f[1] = c => ~IsChain(f)

WalkSuffices(what, k) ==
  \A U \in SUBSET Compositions : \A c \in U : ShortFrom(U, c, k) =>
    \A o \in Within(U, c) :
      Kind(o) = "object" => ~Misses(what, o, CompositionDepth + 1 - k, c)

(* No chain is shorter than the one composition it starts from.              *)
LEMMA ChainOfOne == ASSUME NEW U, NEW c \in U PROVE ~ShortFrom(U, c, 0)
<1> DEFINE f == [i \in 1 .. 0 + 1 |-> c]
<1>1. f \in [1 .. 0 + 1 -> U] /\ f[1] = c
  OBVIOUS
<1>2. DOMAIN f = {1}
  OBVIOUS
<1> HIDE DEF f
<1>3. IsChain(f)
  BY <1>2 DEF IsChain
<1> QED
  BY <1>1, <1>3 DEF ShortFrom

(* A chain from a member, which does not pass through the composition, makes one
   that is longer by the composition.                                       *)
LEMMA ShorterFromMember ==
  ASSUME NEW U \in SUBSET Compositions, NEW c \in U, NEW k \in Nat, ShortFrom(U, c, k + 1),
         NEW m \in U \ {c}, m \in ToSet(Members(c))
  PROVE  ShortFrom(U \ {c}, m, k)
<1> SUFFICES ASSUME NEW f \in [1 .. k + 1 -> U \ {c}], f[1] = m, IsChain(f)
             PROVE  FALSE
  BY DEF ShortFrom
<1> DEFINE g == [i \in 1 .. (k + 1) + 1 |-> IF i = 1 THEN c ELSE f[i - 1]]
<1>1. /\ DOMAIN g = 1 .. k + 2 /\ DOMAIN f = 1 .. k + 1
      /\ g[1] = c /\ \A i \in 2 .. k + 2 : g[i] = f[i - 1]
      /\ \A i \in 1 .. k + 1 : f[i] \in U \ {c}
  OBVIOUS
<1>2. g \in [1 .. (k + 1) + 1 -> U]
  OBVIOUS
<1> HIDE DEF g
<1>3. ASSUME NEW i \in DOMAIN g, NEW j \in DOMAIN g, g[i] = g[j] PROVE i = j
  <2>1. CASE i = 1 \/ j = 1
    <3>1. \A n \in 2 .. k + 2 : g[n] # c
      BY <1>1
    <3> QED
      BY <1>1, <1>3, <2>1, <3>1
  <2>2. CASE i # 1 /\ j # 1
    <3>1. i \in 2 .. k + 2 /\ j \in 2 .. k + 2 /\ i - 1 \in DOMAIN f /\ j - 1 \in DOMAIN f
      BY <1>1, <2>2
    <3>2. f[i - 1] = f[j - 1]
      BY <1>1, <1>3, <3>1
    <3>3. i - 1 = j - 1
      BY <3>1, <3>2 DEF IsChain
    <3> QED
      BY <3>1, <3>3
  <2> QED
    BY <2>1, <2>2
<1>4. ASSUME NEW i \in DOMAIN g, i + 1 \in DOMAIN g
      PROVE  g[i + 1] \in ToSet(Members(g[i]))
  <2>1. CASE i = 1
    BY <1>1, <1>4, <2>1
  <2>2. CASE i # 1
    <3>1. i - 1 \in DOMAIN f /\ (i - 1) + 1 \in DOMAIN f /\ (i - 1) + 1 = i
          /\ g[i] = f[i - 1] /\ g[i + 1] = f[i]
      BY <1>1, <1>4, <2>2
    <3> QED
      BY <3>1 DEF IsChain
  <2> QED
    BY <2>1, <2>2
<1>5. IsChain(g)
  BY <1>3, <1>4 DEF IsChain
<1> QED
  BY <1>1, <1>2, <1>5 DEF ShortFrom

LEMMA NothingMissed ==
  ASSUME document \in Documents, NEW what
  PROVE  \A k \in Nat : k <= CompositionDepth + 1 => WalkSuffices(what, k)
<1> DEFINE D == CompositionDepth + 1
           T == {k \in Nat : k <= D => WalkSuffices(what, k)}
<1>1. CompositionDepth \in Nat /\ D \in Nat
  BY ResolverAssumption
<1>2. 0 \in T
  BY ChainOfOne DEF WalkSuffices
<1>3. ASSUME NEW k \in Nat, k \in T PROVE k + 1 \in T
  <2> DEFINE depth == CompositionDepth + 1 - (k + 1)
  <2> SUFFICES ASSUME k + 1 <= D PROVE WalkSuffices(what, k + 1)
    OBVIOUS
  <2> SUFFICES ASSUME NEW U \in SUBSET Compositions, NEW c \in U,
                      ShortFrom(U, c, k + 1),
                      NEW o \in Within(U, c), Kind(o) = "object"
               PROVE  ~Misses(what, o, depth, c)
    BY DEF WalkSuffices
  <2>1. depth \in 0 .. CompositionDepth /\ depth + 1 = D - k
    BY <1>1
  <2> HIDE DEF depth
  <2>2. o # c
    BY DEF Compositions
  <2>3. PICK m \in ToSet(Members(c)) : o \in Within(U \ {c}, m)
    BY <2>2, ReachedThroughMember
  <2>4. m \in Schemas
    BY <2>3, MembersTyped
  <2>5. Says(what, document.schema[o]) \subseteq Says(what, Part(depth + 1, m))
    <3>1. CASE m \in U \ {c}
      <4>1. ShortFrom(U \ {c}, m, k)
        BY <2>3, <3>1, ShorterFromMember
      <4>2. WalkSuffices(what, k)
        BY <1>1, <1>3
      <4>3. U \ {c} \in SUBSET Compositions
        OBVIOUS
      <4>4. ~Misses(what, o, CompositionDepth + 1 - k, m)
        BY <2>3, <3>1, <4>1, <4>2, <4>3 DEF WalkSuffices
      <4>5. CompositionDepth + 1 - k = depth + 1
        BY <1>1, <2>1
      <4>6. ~Misses(what, o, depth + 1, m)
        BY <4>4, <4>5
      <4>7. m \in Compositions
        BY <3>1
      <4> QED
        BY <4>6, <4>7 DEF Part, Misses
    <3>2. CASE m \notin U \ {c}
      <4>1. ClosedUnder({m}, U \ {c})
        BY <3>2 DEF ClosedUnder
      <4>2. o = m
        BY <2>3, <2>4, <4>1 DEF Within
      <4> QED
        BY <4>2 DEF Part, OwnProperties, Compositions
    <3> QED
      BY <3>1, <3>2
  <2>6. Says(what, Collect[depth][c])
          = UNION {Says(what, Part(depth + 1, n)) : n \in ToSet(Members(c))}
    BY <2>1, LevelSays
  <2> QED
    BY <2>3, <2>5, <2>6 DEF Misses
<1> QED
  <2> HIDE DEF T
  <2>1. Nat \subseteq T
    BY <1>2, <1>3, CountingUp
  <2> QED
    BY <2>1 DEF T

(* As long as no chain of members is longer than the bound, what is collected for a
   composition is what the objects of it say, neither more nor less.        *)
LEMMA CollectedIsComposed ==
  ASSUME document \in Documents, NEW s \in Compositions, ShortChains, NEW what
  PROVE  Says(what, Collected(s)) = UNION {Says(what, document.schema[o]) : o \in ComposedOf(s)}
<1>1. CompositionDepth \in Nat
  BY ResolverAssumption
<1>2. \A p \in Says(what, Collected(s)) :
        \E o \in ComposedOf(s) : p \in Says(what, document.schema[o])
  BY <1>1, FoundIsComposed DEF Collected
<1>3. ASSUME NEW o \in ComposedOf(s)
      PROVE  Says(what, document.schema[o]) \subseteq Says(what, Collected(s))
  <2>1. o \in Schemas /\ Kind(o) = "object" /\ o \in Within(Compositions, s)
    BY ComposedIsWithin DEF ComposedOf
  <2>2. ShortFrom(Compositions, s, CompositionDepth + 1)
    <3>1. (CompositionDepth + 1) + 1 = CompositionDepth + 2
      BY <1>1
    <3> QED
      BY <3>1 DEF ShortChains, ShortFrom
  <2>3. CompositionDepth + 1 - (CompositionDepth + 1) = 0 /\ CompositionDepth + 1 \in Nat
    BY <1>1
  <2>4. WalkSuffices(what, CompositionDepth + 1)
    BY <2>3, NothingMissed
  <2>5. ~Misses(what, o, 0, s)
    BY <2>1, <2>2, <2>3, <2>4 DEF WalkSuffices
  <2> QED
    BY <2>5 DEF Misses, Collected
<1> QED
  BY <1>2, <1>3

-----------------------------------------------------------------------------
(* What a composition of several is to have, and to require.                *)
PropsOf(s)    == UNION {DOMAIN document.schema[o].props : o \in ComposedOf(s)}
RequiredOf(s) == UNION {document.schema[o].required : o \in ComposedOf(s)}

Composed == {s \in Compositions : Len(Members(s)) > 1 /\ PropsOf(s) # {}}

OptionalAsRequired(body, required) == \A p \in DOMAIN body : body[p].optional <=> p \notin required

(* The call that defines one has these properties before it, or behind it.  *)
FrameComposed(frame, s) ==
  /\ frame.form = "struct" /\ "required" \in DOMAIN frame
  /\ DOMAIN frame.body \cup frame.todo = PropsOf(s)
  /\ frame.required = RequiredOf(s)
  /\ OptionalAsRequired(frame.body, RequiredOf(s))

ModelComposed(model, s) ==
  /\ model.form = "struct"
  /\ DOMAIN model.body = PropsOf(s)
  /\ OptionalAsRequired(model.body, RequiredOf(s))

FramesComposed ==
  \A i \in DOMAIN stack : \A s \in Composed :
    stack[i].form \in Forms /\ stack[i].of = Identifier(s) => FrameComposed(stack[i], s)

ModelsComposed ==
  \A s \in Composed :
    Identifier(s) \in DOMAIN models \ resolving => ModelComposed(models[Identifier(s)], s)

WithinBound == Unambiguous /\ ShortChains

ComposedInv == OnceInv /\ (WithinBound => FramesComposed /\ ModelsComposed)

(* All of it is a matter of the document, which no step changes.            *)
LEMMA DocumentKept ==
  ASSUME UNCHANGED document
  PROVE  /\ Composed' = Composed
         /\ \A s : PropsOf(s)' = PropsOf(s) /\ RequiredOf(s)' = RequiredOf(s)
         /\ \A s : Identifier(s)' = Identifier(s)
         /\ WithinBound' <=> WithinBound
<1>1. Compositions' = Compositions /\ \A s : Members(s)' = Members(s) /\ Kind(s)' = Kind(s)
  BY DEF Compositions, Members, Kind
<1>2. \A s : ComposedOf(s)' = ComposedOf(s)
  BY <1>1 DEF ComposedOf
<1>3. \A s : PropsOf(s)' = PropsOf(s) /\ RequiredOf(s)' = RequiredOf(s)
  BY <1>2 DEF PropsOf, RequiredOf
<1>4. Composed' = Composed
  BY <1>1, <1>3 DEF Composed
<1>5. WithinBound' <=> WithinBound
  <2>1. ShortChains' <=> ShortChains
    BY <1>1 DEF ShortChains, IsChain
  <2> QED
    BY <2>1 DEF WithinBound, Unambiguous, ServiceClash, Kind, Identifier
<1>6. \A s : Identifier(s)' = Identifier(s)
  BY DEF Identifier
<1> QED
  BY <1>3, <1>4, <1>5, <1>6

(* The definition of a composition has what it is to have.                  *)
LEMMA DefinitionComposed ==
  ASSUME document \in Documents, WithinBound, NEW s \in Composed
  PROVE  /\ DefinitionFor(s).form = "struct"
         /\ DOMAIN DefinitionFor(s).parts = PropsOf(s)
         /\ DefinitionFor(s).required = RequiredOf(s)
<1>1. /\ s \in Compositions /\ Kind(s) = "allOf" /\ Len(Members(s)) # 1 /\ PropsOf(s) # {}
      /\ ShortChains
  <2>1. s \in Compositions /\ Len(Members(s)) > 1 /\ PropsOf(s) # {}
    BY DEF Composed
  <2>2. Len(Members(s)) \in Nat
    BY <2>1, MembersTyped
  <2>3. Len(Members(s)) # 1
    <3>1. \A n \in Nat : n > 1 => n # 1
      OBVIOUS
    <3> QED
      BY <2>1, <2>2, <3>1
  <2>4. Kind(s) = "allOf"
    BY <2>1 DEF Compositions
  <2> QED
    BY <2>1, <2>3, <2>4 DEF WithinBound
<1>2. DOMAIN Collected(s).props = PropsOf(s)
  <2>1. Says("props", Collected(s)) = UNION {Says("props", document.schema[o]) : o \in ComposedOf(s)}
    BY <1>1, CollectedIsComposed
  <2> QED
    BY <2>1 DEF Says, PropsOf
<1>3. Collected(s).required = RequiredOf(s)
  <2>1. Says("required", Collected(s))
          = UNION {Says("required", document.schema[o]) : o \in ComposedOf(s)}
    BY <1>1, CollectedIsComposed
  <2> QED
    BY <2>1 DEF Says, RequiredOf
<1>4. Collected(s).props # Empty
  BY <1>1, <1>2 DEF Empty
<1>5. DefinitionFor(s) = Body("struct", Collected(s).props, Collected(s).required)
  BY <1>1, <1>4 DEF DefinitionFor, AllOfBody, StructBody
<1> QED
  BY <1>2, <1>3, <1>5 DEF Body

-----------------------------------------------------------------------------
(* What is on the stack, and complete, stays as it is when neither changes but for
   names that are reserved or given up.                                     *)
LEMMA ComposedKept ==
  ASSUME FramesComposed, ModelsComposed, UNCHANGED document,
         \A i \in DOMAIN stack' : i \in DOMAIN stack /\ stack'[i] = stack[i],
         \A s \in Composed : Identifier(s) \in DOMAIN models' \ resolving' =>
           \/ ModelComposed(models'[Identifier(s)], s)
           \/ /\ Identifier(s) \in DOMAIN models \ resolving
              /\ models'[Identifier(s)] = models[Identifier(s)]
  PROVE  FramesComposed' /\ ModelsComposed'
<1>1. \A frame, s : FrameComposed(frame, s)' <=> FrameComposed(frame, s)
  BY DocumentKept DEF FrameComposed
<1>2. \A model, s : ModelComposed(model, s)' <=> ModelComposed(model, s)
  BY DocumentKept DEF ModelComposed
<1> QED
  BY <1>1, <1>2, DocumentKept DEF FramesComposed, ModelsComposed

LEMMA ResolveKeepsComposed ==
  ASSUME TypeOK, Resolving, stack # <<>>, FramesComposed, ModelsComposed,
         NEW p \in Top.todo, Resolve(p)
  PROVE  FramesComposed' /\ ModelsComposed'
<1> DEFINE type  == GoType(Top.parts[p], Top.form = "struct" /\ p \notin Top.required)
           body  == IF Top.form = "union" /\ type.base = Untyped THEN Top.body
                    ELSE With(Top.body, p, type)
           frame == [Top EXCEPT !.todo = @ \ {p}, !.body = body]
<1>1. /\ stack' = [stack EXCEPT ![Len(stack)] = frame]
      /\ UNCHANGED <<document, models, resolving>>
  BY DEF Resolve
<1>2. /\ Len(stack) \in DOMAIN stack /\ Top = stack[Len(stack)]
      /\ {"of", "form", "parts", "todo", "body"} \subseteq DOMAIN Top
  BY TopFrame DEF Resolving, StackOK
<1>3. /\ DOMAIN frame = DOMAIN Top /\ frame.of = Top.of /\ frame.form = Top.form
      /\ frame.todo = Top.todo \ {p} /\ frame.body = body
      /\ "required" \in DOMAIN Top => frame.required = Top.required
  BY <1>2
<1>4. ASSUME NEW s, FrameComposed(Top, s) PROVE FrameComposed(frame, s)
  <2>1. Top.form = "struct" /\ "required" \in DOMAIN Top /\ Top.required = RequiredOf(s)
    BY <1>4 DEF FrameComposed
  <2>2. body = With(Top.body, p, type)
    BY <2>1
  <2>3. type.optional <=> p \notin RequiredOf(s)
    BY <2>1 DEF GoType
  <2> HIDE DEF type, body, frame
  <2>4. /\ DOMAIN body = DOMAIN Top.body \cup {p}
        /\ \A q \in DOMAIN body : body[q] = IF q = p THEN type ELSE Top.body[q]
    BY <2>2 DEF With
  <2>5. OptionalAsRequired(body, RequiredOf(s))
    BY <1>4, <2>3, <2>4 DEF FrameComposed, OptionalAsRequired
  <2>6. DOMAIN body \cup (Top.todo \ {p}) = PropsOf(s)
    BY <1>4, <2>4 DEF FrameComposed
  <2> QED
    BY <1>3, <2>1, <2>5, <2>6 DEF FrameComposed
<1> HIDE DEF frame
<1>5. /\ DOMAIN stack' = DOMAIN stack
      /\ \A i \in DOMAIN stack : stack'[i] = IF i = Len(stack) THEN frame ELSE stack[i]
  BY <1>1, ReplacedFrame DEF Resolving
<1>6. ASSUME NEW i \in DOMAIN stack', NEW s \in Composed,
             stack'[i].form \in Forms, stack'[i].of = Identifier(s)
      PROVE  FrameComposed(stack'[i], s)
  BY <1>2, <1>3, <1>4, <1>5, <1>6 DEF FramesComposed
<1>7. \A f, s : FrameComposed(f, s)' <=> FrameComposed(f, s)
  BY <1>1, DocumentKept DEF FrameComposed
<1>8. \A m, s : ModelComposed(m, s)' <=> ModelComposed(m, s)
  BY <1>1, DocumentKept DEF ModelComposed
<1>9. FramesComposed'
  BY <1>1, <1>6, <1>7, DocumentKept DEF FramesComposed
<1>10. ModelsComposed'
  BY <1>1, <1>8, DocumentKept DEF ModelsComposed
<1> QED
  BY <1>9, <1>10

LEMMA DescendKeepsComposed ==
  ASSUME TypeOK, Resolving, stack # <<>>, WithinBound, FramesComposed, ModelsComposed,
         NEW p \in Top.todo, Descend(p)
  PROVE  FramesComposed' /\ ModelsComposed'
<1> DEFINE r == Top.parts[p].to
           body == IF IsUnion(r) THEN Body("union", document.schema[r].mapping, {})
                   ELSE DefinitionFor(r)
           frame == Frame(Identifier(r), body)
<1>1. /\ r \in Schemas /\ UNCHANGED document /\ stack' = Append(stack, frame)
      /\ \/ UNCHANGED <<models, resolving>>
         \/ /\ models' = With(models, Identifier(r), AnyDefinition)
            /\ resolving' = resolving \cup {Identifier(r)}
  BY DEF Descend, Answered
<1>2. ASSUME NEW s \in Composed, frame.form \in Forms, frame.of = Identifier(s)
      PROVE  FrameComposed(frame, s)
  <2>1. r = s
    <3>1. Identifier(r) = Identifier(s) /\ s \in Schemas
      BY <1>2 DEF Frame, Composed, Compositions
    <3> QED
      BY <1>1, <3>1 DEF WithinBound, Unambiguous
  <2>2. body = DefinitionFor(s)
    BY <1>2, <2>1 DEF IsUnion, Composed, Compositions
  <2> HIDE DEF body
  <2>3. /\ frame.form = body.form /\ frame.todo = DOMAIN body.parts
        /\ frame.required = body.required /\ "required" \in DOMAIN frame
        /\ DOMAIN frame.body = {}
    BY DEF Frame, Empty
  <2>4. document \in Documents
    BY DEF TypeOK
  <2>5. /\ body.form = "struct" /\ DOMAIN body.parts = PropsOf(s)
        /\ body.required = RequiredOf(s)
    BY <2>2, <2>4, DefinitionComposed
  <2> QED
    BY <2>3, <2>5 DEF FrameComposed, OptionalAsRequired
<1> HIDE DEF frame
<1>3. \A i \in DOMAIN stack' : (i \in DOMAIN stack /\ stack'[i] = stack[i]) \/ stack'[i] = frame
  BY <1>1, PushedFrame DEF Resolving
<1>4. ASSUME NEW i \in DOMAIN stack', NEW s \in Composed,
             stack'[i].form \in Forms, stack'[i].of = Identifier(s)
      PROVE  FrameComposed(stack'[i], s)
  BY <1>2, <1>3, <1>4 DEF FramesComposed
<1>5. \A f, s : FrameComposed(f, s)' <=> FrameComposed(f, s)
  BY <1>1, DocumentKept DEF FrameComposed
<1>6. \A m, s : ModelComposed(m, s)' <=> ModelComposed(m, s)
  BY <1>1, DocumentKept DEF ModelComposed
<1>7. FramesComposed'
  BY <1>1, <1>4, <1>5, DocumentKept DEF FramesComposed
<1>8. \A n \in DOMAIN models' \ resolving' : n \in DOMAIN models \ resolving /\ models'[n] = models[n]
  BY <1>1 DEF With
<1>9. ModelsComposed'
  BY <1>1, <1>6, <1>8, DocumentKept DEF ModelsComposed
<1> QED
  BY <1>7, <1>9

(* A definition that is complete has what the call had: nothing is left to do.
   A union that is withdrawn becomes a model under the name of no composition. *)
LEMMA ReturnKeepsComposed ==
  ASSUME OnceInv, stack # <<>>, WithinBound, FramesComposed, ModelsComposed,
         Top.todo = {}, DefineModel \/ DefineUnion \/ WithdrawUnion
  PROVE  FramesComposed' /\ ModelsComposed'
<1>1. TypeOK /\ Resolving /\ Sorted
  BY DEF OnceInv, IInv, WithinBound
<1>2. /\ Len(stack) \in DOMAIN stack /\ Top = stack[Len(stack)]
      /\ Top.form \in Forms \cup {"union", "operations"}
  BY <1>1, TopFrame, TopKnown DEF Resolving
<1>3. stack' = Front(stack) /\ UNCHANGED document
  BY DEF DefineModel, DefineUnion, WithdrawUnion
<1>4. \A i \in DOMAIN stack' : i \in DOMAIN stack /\ stack'[i] = stack[i]
  BY <1>1, <1>3, FrontFrames DEF Resolving
<1>5. ASSUME NEW s \in Composed, Identifier(s) \in DOMAIN models' \ resolving'
      PROVE  \/ ModelComposed(models'[Identifier(s)], s)
             \/ /\ Identifier(s) \in DOMAIN models \ resolving
                /\ models'[Identifier(s)] = models[Identifier(s)]
  <2>1. CASE DefineModel
    <3>1. /\ Top.form \in Forms /\ resolving' = resolving \ {Top.of}
          /\ models' = [models EXCEPT ![Top.of] = [form |-> Top.form, body |-> Top.body]]
      BY <1>2, <2>1 DEF DefineModel
    <3>2. CASE Identifier(s) = Top.of
      <4>1. FrameComposed(Top, s)
        BY <1>2, <3>1, <3>2 DEF FramesComposed
      <4>2. models'[Identifier(s)] = [form |-> Top.form, body |-> Top.body]
        BY <1>5, <3>1, <3>2
      <4> QED
        BY <4>1, <4>2 DEF FrameComposed, ModelComposed
    <3>3. CASE Identifier(s) # Top.of
      BY <1>5, <3>1, <3>3
    <3> QED
      BY <3>2, <3>3
  <2>2. CASE DefineUnion
    BY <1>5, <2>2 DEF DefineUnion
  <2>3. CASE WithdrawUnion
    <3>1. Identifier(s) # Top.of
      <4>1. PICK u \in Schemas : IsUnion(u) /\ Top.of = Identifier(u)
        BY <1>1, <1>2, <2>3 DEF WithdrawUnion, Sorted, IsUnionName
      <4>2. Kind(u) # Kind(s) /\ s \in Schemas
        BY <4>1 DEF IsUnion, Composed, Compositions
      <4> QED
        BY <4>1, <4>2 DEF WithinBound, Unambiguous
    <3> QED
      BY <1>5, <2>3, <3>1 DEF WithdrawUnion, With
  <2> QED
    BY <2>1, <2>2, <2>3
<1> QED
  BY <1>3, <1>4, <1>5, ComposedKept

LEMMA ComposedInitially == Init => ComposedInv
<1> SUFFICES ASSUME Init PROVE ComposedInv
  OBVIOUS
<1> DEFINE frame == Frame(Service, Body("operations", document.operations,
                                        DOMAIN document.operations))
<1>1. frame.form = "operations" /\ stack = <<frame>>
  BY FrameFields DEF Body, Init
<1> HIDE DEF frame
<1>2. \A i \in DOMAIN stack : stack[i].form \notin Forms
  BY <1>1 DEF Forms
<1>3. DOMAIN models = {}
  BY DEF Init, Empty
<1> QED
  BY <1>2, <1>3, OnceInitially DEF ComposedInv, FramesComposed, ModelsComposed

LEMMA ComposedStep == ComposedInv /\ [Next]_vars => ComposedInv'
<1> SUFFICES ASSUME ComposedInv, [Next]_vars PROVE ComposedInv'
  OBVIOUS
<1>1. OnceInv'
  BY OnceStep DEF ComposedInv
<1>2. CASE Advance
  <2>1. UNCHANGED document
    BY <1>2, DocumentFixed
  <2> SUFFICES ASSUME WithinBound PROVE FramesComposed' /\ ModelsComposed'
    BY <1>1, <2>1, DocumentKept DEF ComposedInv
  <2>2. /\ OnceInv /\ TypeOK /\ Resolving /\ stack # <<>>
        /\ FramesComposed /\ ModelsComposed
    BY <1>2 DEF ComposedInv, OnceInv, IInv, Advance
  <2>3. CASE \E p \in Top.todo : Resolve(p)
    BY <2>2, <2>3, ResolveKeepsComposed
  <2>4. CASE \E p \in Top.todo : Descend(p)
    BY <2>2, <2>4, DescendKeepsComposed
  <2>5. CASE Top.todo = {} /\ (DefineModel \/ DefineUnion \/ WithdrawUnion)
    BY <2>2, <2>5, ReturnKeepsComposed
  <2>6. CASE Finish
    <3>1. Service \notin DOMAIN models
      BY <2>2 DEF WithinBound, Unambiguous, ServiceClash, Resolving, Claimed
    <3>2. UNCHANGED <<document, models, resolving>> /\ DOMAIN stack' = {}
      BY <2>6, <3>1 DEF Finish
    <3> QED
      BY <2>2, <3>2, ComposedKept DEF ModelsComposed
  <2> QED
    BY <1>2, <2>3, <2>4, <2>5, <2>6 DEF Advance
<1>3. CASE UNCHANGED vars
  <2>1. UNCHANGED <<document, models, resolving, stack>>
    BY <1>3 DEF vars
  <2> SUFFICES ASSUME WithinBound PROVE FramesComposed' /\ ModelsComposed'
    BY <1>1, <2>1, DocumentKept DEF ComposedInv
  <2> QED
    BY <2>1, ComposedKept DEF ComposedInv, ModelsComposed
<1> QED
  BY <1>2, <1>3 DEF Next, Finished

(* A schema composed of several has every property of every object among them
   and below them, and requires what any of them requires: for any schemas, in
   whatever circles they run, as long as no chain of compositions, each a member
   of the one before, is longer than the depth bound follows.               *)
THEOREM CompositionsComplete == Spec => []ComposedComplete
<1>1. ComposedInv => ComposedComplete
  <2> SUFFICES ASSUME ComposedInv, WithinBound, NEW s \in Composed,
                      Identifier(s) \in DOMAIN models \ resolving
               PROVE  LET model == models[Identifier(s)] IN
                      /\ model.form = "struct"
                      /\ DOMAIN model.body = PropsOf(s)
                      /\ \A p \in PropsOf(s) : model.body[p].optional <=> p \notin RequiredOf(s)
    BY DEF ComposedComplete, WithinBound, Composed, PropsOf, RequiredOf
  <2>1. ModelComposed(models[Identifier(s)], s)
    BY DEF ComposedInv, ModelsComposed
  <2> QED
    BY <2>1 DEF ModelComposed, OptionalAsRequired
<1> QED
  BY <1>1, ComposedInitially, ComposedStep, PTL DEF Spec

-----------------------------------------------------------------------------
(* Names of schemas under which there is no model, and of those that no call has
   reserved at all. A union that is withdrawn leaves its name to a model.   *)
NotModels  == Claimed \ DOMAIN models
Unreserved == Claimed \ (DOMAIN models \cup DOMAIN unions)

(* There are only so many of them, as there are only so many schemas.       *)
LEMMA FinitelyManyNames == IsFiniteSet(NotModels) /\ IsFiniteSet(Unreserved)
<1> DEFINE name == [s \in Schemas |-> Identifier(s)]
<1>1. name \in Surjection(Schemas, Claimed)
  BY DEF Surjection, Claimed
<1>2. IsFiniteSet(Claimed)
  <2> HIDE DEF name
  <2> QED
    BY <1>1, FS_Surjection, ResolverAssumption
<1> QED
  BY <1>2, FS_Subset DEF NotModels, Unreserved

(* No name is given back, and one is reserved, or a call returns, or a part of the
   innermost is done.                                                       *)
Closer ==
  /\ NotModels' \subseteq NotModels /\ Unreserved' \subseteq Unreserved
  /\ \/ NotModels' # NotModels \/ Unreserved' # Unreserved
     \/ Len(stack') < Len(stack)
     \/ Len(stack') = Len(stack) /\ Top.todo' \subseteq Top.todo /\ Top.todo' # Top.todo

(* Whatever circles the schemas run in, no step but the last leaves the resolution
   where it was: with finitely many names, and parts of each schema, that is what
   ends it (TypeResolver.namedType, which answers a name that is reserved).  *)
THEOREM ResolutionGetsCloser == Spec => [][Advance => stack' = <<>> \/ Closer]_vars
<1>1. IInv /\ [Next]_vars => [Advance => stack' = <<>> \/ Closer]_vars
  <2> SUFFICES ASSUME IInv, Advance, stack' # <<>> PROVE Closer
    OBVIOUS
  <2>1. TypeOK /\ Resolving /\ stack # <<>> /\ StackOK
    BY DEF IInv, Resolving, Advance
  <2>2. Claimed' = Claimed
    BY DocumentFixed DEF Claimed, Identifier
  <2>3. ASSUME NEW p \in Top.todo, Resolve(p) PROVE Closer
    <3>1. PICK body :
            /\ stack' = [stack EXCEPT ![Len(stack)] = [Top EXCEPT !.todo = @ \ {p}, !.body = body]]
            /\ UNCHANGED <<models, unions>>
      BY <2>3 DEF Resolve
    <3> DEFINE frame == [Top EXCEPT !.todo = @ \ {p}, !.body = body]
    <3>2. Len(stack) \in Nat \ {0} /\ DOMAIN stack = 1 .. Len(stack)
          /\ {"of", "form", "parts", "todo", "body"} \subseteq DOMAIN Top
      BY <2>1, TopFrame DEF StackOK
    <3>3. frame.todo = Top.todo \ {p}
      BY <3>2
    <3> HIDE DEF frame
    <3>4. /\ stack' \in Seq(ToSet(stack')) /\ DOMAIN stack' = DOMAIN stack
          /\ \A i \in DOMAIN stack : stack'[i] = IF i = Len(stack) THEN frame ELSE stack[i]
      BY <2>1, <3>1, ReplacedFrame DEF frame
    <3>5. Len(stack') = Len(stack)
      BY <3>2, <3>4, LenProperties
    <3>6. Top' = frame
      BY <3>2, <3>4, <3>5 DEF Top
    <3> QED
      BY <2>2, <2>3, <3>1, <3>3, <3>5, <3>6 DEF Closer, NotModels, Unreserved
  <2>4. ASSUME NEW p \in Top.todo, Descend(p) PROVE Closer
    <3> DEFINE s == Top.parts[p].to
    <3>1. /\ Identifier(s) \in Claimed /\ Identifier(s) \notin DOMAIN models
          /\ IsUnion(s) => Identifier(s) \notin DOMAIN unions
      BY <2>4 DEF Descend, Answered, Known, Claimed
    <3>2. CASE IsUnion(s)
      <4>1. /\ DOMAIN models' = DOMAIN models
            /\ DOMAIN unions' = DOMAIN unions \cup {Identifier(s)}
        BY <2>4, <3>2 DEF Descend, With
      <4> QED
        BY <2>2, <3>1, <3>2, <4>1 DEF Closer, NotModels, Unreserved
    <3>3. CASE ~IsUnion(s)
      <4>1. /\ DOMAIN models' = DOMAIN models \cup {Identifier(s)}
            /\ DOMAIN unions' = DOMAIN unions
        BY <2>4, <3>3 DEF Descend, With
      <4> QED
        BY <2>2, <3>1, <4>1 DEF Closer, NotModels, Unreserved
    <3> QED
      BY <3>2, <3>3
  <2>5. CASE DefineModel \/ DefineUnion \/ WithdrawUnion
    <3>1. stack' = Front(stack)
      BY <2>5 DEF DefineModel, DefineUnion, WithdrawUnion
    <3>2. Len(stack') < Len(stack)
      BY <2>1, <3>1, PoppedAt
    <3>3. /\ DOMAIN models \subseteq DOMAIN models'
          /\ DOMAIN models \cup DOMAIN unions \subseteq DOMAIN models' \cup DOMAIN unions'
      BY <2>5 DEF DefineModel, DefineUnion, WithdrawUnion, With
    <3> QED
      BY <2>2, <3>2, <3>3 DEF Closer, NotModels, Unreserved
  <2>6. CASE Finish
    BY <2>6 DEF Finish
  <2> QED
    BY <2>3, <2>4, <2>5, <2>6 DEF Advance
<1> QED
  BY <1>1, InitInvariant, StepInvariant, PTL DEF Spec

=============================================================================
