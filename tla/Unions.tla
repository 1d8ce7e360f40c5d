------------------------------- MODULE Unions -------------------------------
(***************************************************************************)
(* A generated discriminated union, internal/templates/unions.go.tmpl: a   *)
(* struct with a discriminator, a pointer for each variant, and Raw, the   *)
(* payload as received. A variant is an object with one templated field.   *)
(*                                                                         *)
(* Programs decode into unions they have used before, as encoding/json     *)
(* does with the elements of a slice, and copy them. A copy of the struct  *)
(* shares the variants and the array behind Raw.                           *)
(***************************************************************************)
EXTENDS Integers, Templated

CONSTANTS
  Holders,    \* the variables that hold a union
  Kinds,      \* the discriminators the generated code knows
  Unknown,    \* one it does not know
  Objects,    \* bound: where variants live
  Buffers,    \* bound: where payloads live
  Nil,        \* no object, no buffer, no payload
  Received,   \* the payloads a program may decode
  Built,      \* the templated values a program may construct variants with
  MaxSteps    \* bound: operations on unions

(* A payload: its discriminator ("" for null, "untagged" where the tag does not
   decode), the JSON of its field, and its length.                          *)
Payloads == [kind : Kinds \cup {Unknown, "", "untagged"}, field : Fields, size : Nat]

(* A slice, and the array it is a slice of.                                 *)
Slices == [at : Buffers, size : Nat]
Arrays == [payload : Payloads, capacity : Nat]

Tags == Kinds \cup {Unknown, ""}

ASSUME UnionsAssumption ==
  /\ Kinds \cap {Unknown, "", "untagged", "garbled"} = {}
  /\ Unknown \notin {"", "untagged", "garbled"}
  /\ Nil \notin Objects /\ Nil \notin TemplatedValues
  /\ Nil \notin Payloads /\ Nil \notin Slices /\ Nil \notin Arrays
  /\ Received \subseteq Payloads /\ Built \subseteq TemplatedValues

ASSUME BoundAssumption == MaxSteps \in Nat

VARIABLES
  tag,       \* the discriminator of each union
  variant,   \* its pointers, one for each kind
  heap,      \* the variants pointed at
  raw,       \* Raw: a buffer and a length, or Nil
  buffer,    \* the buffers: the payload written last, and the capacity
  received,  \* the payload each union was last decoded from; history
  sharers,   \* the unions it has been copied with, itself among them; history
  disturbed, \* whether one of them was decoded into after it was; history
  steps

vars == <<tag, variant, heap, raw, buffer, received, sharers, disturbed, steps>>

Init ==
  /\ tag = [h \in Holders |-> ""]
  /\ variant = [h \in Holders |-> [kind \in Kinds |-> Nil]]
  /\ heap = [o \in Objects |-> Unset]
  /\ raw = [h \in Holders |-> Nil]
  /\ buffer = [b \in Buffers |-> Nil]
  /\ received = [h \in Holders |-> Nil]
  /\ sharers = [h \in Holders |-> {h}]
  /\ disturbed = [h \in Holders |-> FALSE]
  /\ steps = 0

(* What nobody points at can be allocated.                                  *)
FreeObjects == {o \in Objects : \A h \in Holders, kind \in Kinds : variant[h][kind] # o}
FreeBuffers == {b \in Buffers : \A h \in Holders : raw[h] = Nil \/ raw[h].at # b}

FreshObject == CHOOSE o \in FreeObjects : TRUE
FreshBuffer == CHOOSE b \in FreeBuffers : TRUE

(* h leaves those it was copied with and joins a group of others.            *)
Joins(h, group) ==
  sharers' = [k \in Holders |->
                IF k \in group \cup {h} THEN group \cup {h} ELSE sharers[k] \ {h}]

(* h has what it was decoded from; those it was copied with may have lost theirs. *)
Disturbs(h) ==
  disturbed' = [k \in Holders |-> k # h /\ (k \in sharers[h] \/ disturbed[k])]

-----------------------------------------------------------------------------
(* append(u.Raw[:0], data...): the array is used again if the payload fits.  *)
Fits(h, payload) == raw[h] # Nil /\ payload.size <= buffer[raw[h].at].capacity

\* Mutant of Receive: a payload that fits is written behind the one before.
ReceiveAppending(h, payload) ==
  LET b == IF raw[h] = Nil THEN FreshBuffer ELSE raw[h].at IN
  /\ raw' = [raw EXCEPT ![h] =
               [at |-> b, size |-> payload.size + IF raw[h] = Nil THEN 0 ELSE raw[h].size]]
  /\ buffer' = [buffer EXCEPT ![b] = [payload |-> payload, capacity |-> payload.size]]

Receive(h, payload) ==
  LET b == IF Fits(h, payload) THEN raw[h].at ELSE FreshBuffer IN
  /\ raw' = [raw EXCEPT ![h] = [at |-> b, size |-> payload.size]]
  /\ \E capacity \in {payload.size, payload.size + 1} :
       buffer' = [buffer EXCEPT ![b] =
         [payload |-> payload,
          capacity |-> IF Fits(h, payload) THEN buffer[b].capacity ELSE capacity]]

\* Mutant of StoreVariant: what is pointed at already is decoded into.
StoreVariantInPlace(h, kind, v) ==
  LET o == IF variant[h][kind] = Nil THEN FreshObject ELSE variant[h][kind] IN
  /\ heap' = [heap EXCEPT ![o] = v]
  /\ variant' = [variant EXCEPT ![h][kind] = o]

(* A variable of its own for the variant, pointed at when it has decoded. The
   pointers of other kinds stay.                                            *)
StoreVariant(h, kind, v) ==
  /\ heap' = [heap EXCEPT ![FreshObject] = v]
  /\ variant' = [variant EXCEPT ![h][kind] = FreshObject]

(* UnmarshalJSON: Raw first, then the tag, then the variant; an error in one of
   them leaves what comes after as it was. An unknown tag is no error.       *)
Decode(h, payload) ==
  /\ Receive(h, payload)
  /\ received' = [received EXCEPT ![h] = payload]
  /\ IF payload.kind = "untagged" THEN UNCHANGED tag
     ELSE tag' = [tag EXCEPT ![h] = payload.kind]
  /\ IF payload.kind \in Kinds /\ Reads(payload.field)
       THEN StoreVariant(h, payload.kind, Read(payload.field))
       ELSE UNCHANGED <<variant, heap>>
  /\ Disturbs(h)
  /\ UNCHANGED sharers

(* A New…From… constructor: no other variant, and an empty Raw.              *)
Construct(h, kind, v) ==
  /\ tag' = [tag EXCEPT ![h] = kind]
  /\ heap' = [heap EXCEPT ![FreshObject] = v]
  /\ variant' = [variant EXCEPT ![h] =
                   [other \in Kinds |-> IF other = kind THEN FreshObject ELSE Nil]]
  /\ raw' = [raw EXCEPT ![h] = Nil]
  /\ received' = [received EXCEPT ![h] = Nil]
  /\ Joins(h, {})
  /\ disturbed' = [disturbed EXCEPT ![h] = FALSE]
  /\ UNCHANGED buffer

(* An assignment of one union to another.                                   *)
Copy(g, h) ==
  /\ tag' = [tag EXCEPT ![h] = tag[g]]
  /\ variant' = [variant EXCEPT ![h] = variant[g]]
  /\ raw' = [raw EXCEPT ![h] = raw[g]]
  /\ received' = [received EXCEPT ![h] = received[g]]
  /\ Joins(h, sharers[g])
  /\ disturbed' = [disturbed EXCEPT ![h] = disturbed[g]]
  /\ UNCHANGED <<heap, buffer>>

(* The discriminator is a field that anybody may set.                       *)
SetTag(h, t) ==
  /\ tag' = [tag EXCEPT ![h] = t]
  /\ UNCHANGED <<variant, heap, raw, buffer, received, sharers, disturbed>>

Step ==
  \E h \in Holders :
    \/ \E payload \in Received : Decode(h, payload)
    \/ \E kind \in Kinds, v \in Built : Construct(h, kind, v)
    \/ \E g \in Holders \ {h} : Copy(g, h)
    \/ \E t \in Tags : SetTag(h, t)

(* The bound on the steps is the model's end.                               *)
Done == steps = MaxSteps /\ UNCHANGED vars

Next ==
  \/ /\ steps < MaxSteps /\ FreeObjects # {} /\ FreeBuffers # {}
     /\ steps' = steps + 1
     /\ Step
  \/ Done

Spec == Init /\ [][Next]_vars

-----------------------------------------------------------------------------
(* What MarshalJSON writes: a payload, or one of these.                      *)
Null  == [kind |-> "", field |-> "null"]
Error == [kind |-> "error", field |-> "null"]

Sent(payload) == [kind |-> payload.kind, field |-> payload.field]

(* Raw as the union sees it: another union may have written to its array, and
   then its length need not be that of the payload that is there.           *)
RawOf(h) ==
  LET payload == buffer[raw[h].at].payload IN
  IF payload.size = raw[h].size THEN Sent(payload) ELSE [kind |-> "garbled", field |-> "null"]

Fallback(h) ==
  IF raw[h] # Nil THEN RawOf(h)
  ELSE IF tag[h] = "" THEN Null ELSE Error

Encode(h) ==
  IF tag[h] \in Kinds
    THEN IF variant[h][tag[h]] = Nil THEN Error
         ELSE [kind |-> tag[h], field |-> Written(heap[variant[h][tag[h]]])]
    ELSE Fallback(h)

(* Every variable has its type.                                             *)
TypeOK ==
  /\ tag \in [Holders -> Tags]
  /\ variant \in [Holders -> [Kinds -> Objects \cup {Nil}]]
  /\ heap \in [Objects -> TemplatedValues]
  /\ raw \in [Holders -> Slices \cup {Nil}]
  /\ buffer \in [Buffers -> Arrays \cup {Nil}]
  /\ received \in [Holders -> Payloads \cup {Nil}]
  /\ sharers \in [Holders -> SUBSET Holders]
  /\ disturbed \in [Holders -> BOOLEAN]
  /\ steps \in 0 .. MaxSteps

(* Unions are values as long as their kind is one the code knows: they implement
   UnionValues, although copies share what they point at and payloads are decoded
   into them again and again, not always with success.                      *)
Held == [h \in Holders |-> [kind \in Kinds |->
           IF variant[h][kind] = Nil THEN Nil ELSE heap[variant[h][kind]]]]

Values == INSTANCE UnionValues
            WITH Variants <- TemplatedValues, None <- Nil, held <- Held

ValueSemantics == Values!Spec

(* "An unrecognised discriminator is not an error": a union of unknown kind sends
   back the payload it was decoded from last, a copy the one its original was,
   until a union it shares an origin with is decoded into.                  *)
SendsBack(h) == received[h] # Nil => Encode(h) = Sent(received[h])

UnknownSentBack == \A h \in Holders : tag[h] \notin Kinds /\ ~disturbed[h] => SendsBack(h)

(* A union that was decoded from a payload of a known kind sends it back under that
   kind, with null for a field that was absent, whatever became of its copies. *)
Decoded(h, kind) ==
  received[h] # Nil /\ received[h].kind = kind /\ Reads(received[h].field)

KnownSentBack ==
  \A h \in Holders : tag[h] \in Kinds /\ Decoded(h, tag[h]) =>
    \/ SendsBack(h)
    \/ received[h].field = "absent" /\ Encode(h) = [kind |-> tag[h], field |-> "null"]

=============================================================================
