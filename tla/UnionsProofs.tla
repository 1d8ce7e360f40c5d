---------------------------- MODULE UnionsProofs ----------------------------
(***************************************************************************)
(* Proofs about Unions, for any kinds, holders and payloads.               *)
(***************************************************************************)
EXTENDS Unions, TLAPS

(* Whoever has a payload has an array with something in it; who has an array in
   common with another was copied with it, and the array holds the payload that was
   decoded last as long as no such other was decoded into.                  *)
HasArray(h) == raw[h] # Nil => buffer[raw[h].at] # Nil

Remembers(h) == raw[h] = Nil <=> received[h] = Nil

OwnPayload(h) ==
  raw[h] # Nil /\ ~disturbed[h] =>
    /\ buffer[raw[h].at].payload = received[h]
    /\ raw[h].size = received[h].size

SharedArray(h) ==
  \A k \in Holders : raw[h] # Nil /\ raw[k] # Nil /\ raw[k].at = raw[h].at => k \in sharers[h]

(* Being copied with is an equivalence.                                     *)
SharersAgree(h) == h \in sharers[h] /\ \A k \in sharers[h] : sharers[k] = sharers[h]

(* The variant that was decoded last is the one of its kind.                *)
OwnVariant(h) ==
  \A kind \in Kinds : Decoded(h, kind) => Held[h][kind] = Read(received[h].field)

Owned ==
  \A h \in Holders :
    /\ HasArray(h) /\ Remembers(h) /\ OwnPayload(h)
    /\ SharedArray(h) /\ SharersAgree(h) /\ OwnVariant(h)

IInv == TypeOK /\ Owned

-----------------------------------------------------------------------------
(* What is read is a templated value, and written as it was read.            *)
LEMMA ReadTyped == \A field \in Fields : Reads(field) => Read(field) \in TemplatedValues
<1> SUFFICES ASSUME NEW field \in Fields, Reads(field) PROVE Read(field) \in TemplatedValues
  OBVIOUS
<1>1. CASE field \in {"absent", "null"}  BY <1>1 DEF Read, TemplatedValues
<1>2. CASE field \in Texts  BY <1>2 DEF Read, TemplatedValues, Texts
<1> QED  BY <1>1, <1>2 DEF Fields, Texts, Reads

LEMMA ReadWritten ==
  \A field \in Fields : Reads(field) =>
    Written(Read(field)) = IF field = "absent" THEN "null" ELSE field
BY DEF Read, Reads, Written, Unset, NewValue, NewExpression, Fields

LEMMA FreshObjectFree ==
  ASSUME FreeObjects # {}
  PROVE  /\ FreshObject \in Objects
         /\ \A h \in Holders, kind \in Kinds : variant[h][kind] # FreshObject
<1>1. FreshObject \in FreeObjects  BY DEF FreshObject
<1> QED  BY <1>1 DEF FreeObjects

LEMMA FreshBufferFree ==
  ASSUME FreeBuffers # {}
  PROVE  /\ FreshBuffer \in Buffers
         /\ \A h \in Holders : raw[h] = Nil \/ raw[h].at # FreshBuffer
<1>1. FreshBuffer \in FreeBuffers  BY DEF FreshBuffer
<1> QED  BY <1>1 DEF FreeBuffers

(* A variant that was read is stored in an object of its own.                *)
LEMMA StoreTyped ==
  ASSUME TypeOK, FreeObjects # {}, NEW h \in Holders, NEW kind \in Kinds,
         NEW v \in TemplatedValues, StoreVariant(h, kind, v)
  PROVE  /\ variant' \in [Holders -> [Kinds -> Objects \cup {Nil}]]
         /\ heap' \in [Objects -> TemplatedValues]
BY FreshObjectFree DEF StoreVariant, TypeOK

-----------------------------------------------------------------------------
(* Receive: the array that gets the payload is fresh, or was the union's.    *)
LEMMA ReceiveKeeps ==
  ASSUME IInv, FreeBuffers # {}, NEW h \in Holders, NEW payload \in Payloads,
         Receive(h, payload), received' = [received EXCEPT ![h] = payload],
         Disturbs(h), UNCHANGED sharers
  PROVE  /\ raw' \in [Holders -> Slices \cup {Nil}]
         /\ buffer' \in [Buffers -> Arrays \cup {Nil}]
         /\ received' \in [Holders -> Payloads \cup {Nil}]
         /\ \A g \in Holders : /\ HasArray(g)' /\ Remembers(g)' /\ OwnPayload(g)'
                               /\ SharedArray(g)' /\ SharersAgree(g)'
<1> DEFINE b == IF Fits(h, payload) THEN raw[h].at ELSE FreshBuffer
<1>1. PICK capacity \in Nat :
        buffer' = [buffer EXCEPT ![b] = [payload |-> payload, capacity |-> capacity]]
  <2>1. payload.size \in Nat /\ payload.size + 1 \in Nat
    <3>1. payload.size \in Nat  BY DEF Payloads
    <3> QED  BY <3>1
  <2>2. Fits(h, payload) => buffer[b].capacity \in Nat
    BY DEF Fits, IInv, TypeOK, Owned, HasArray, Slices, Arrays
  <2>3. CASE Fits(h, payload)  BY <2>2, <2>3 DEF Receive
  <2>4. CASE ~Fits(h, payload)  BY <2>1, <2>4 DEF Receive
  <2> QED  BY <2>3, <2>4
<1>2. b \in Buffers
  BY FreshBufferFree DEF Fits, IInv, TypeOK, Slices
<1>3. raw' = [raw EXCEPT ![h] = [at |-> b, size |-> payload.size]]  BY DEF Receive
<1>4. payload # Nil /\ [at |-> b, size |-> payload.size] # Nil
      /\ [payload |-> payload, capacity |-> capacity] # Nil
  <2>1. [at |-> b, size |-> payload.size] \in Slices  BY <1>2 DEF Slices, Payloads
  <2>2. [payload |-> payload, capacity |-> capacity] \in Arrays  BY DEF Arrays
  <2> QED  BY <2>1, <2>2, UnionsAssumption
<1>5. /\ raw' \in [Holders -> Slices \cup {Nil}]
      /\ buffer' \in [Buffers -> Arrays \cup {Nil}]
      /\ received' \in [Holders -> Payloads \cup {Nil}]
  <2>1. [at |-> b, size |-> payload.size] \in Slices  BY <1>2 DEF Slices, Payloads
  <2>2. [payload |-> payload, capacity |-> capacity] \in Arrays  BY DEF Arrays
  <2> QED  BY <1>1, <1>3, <2>1, <2>2 DEF IInv, TypeOK
<1>6. \A g \in Holders \ {h} : raw[g] # Nil /\ raw[g].at = b =>
        h \in sharers[g] /\ g \in sharers[h]
  BY FreshBufferFree DEF Fits, IInv, Owned, SharedArray
<1>7. /\ raw'[h] = [at |-> b, size |-> payload.size]
      /\ buffer'[b] = [payload |-> payload, capacity |-> capacity]
      /\ received'[h] = payload
      /\ \A g \in Holders \ {h} : raw'[g] = raw[g] /\ received'[g] = received[g]
      /\ \A other \in Buffers \ {b} : buffer'[other] = buffer[other]
      /\ \A g \in Holders \ {h} : disturbed'[g] = (g \in sharers[h] \/ disturbed[g])
      /\ sharers' = sharers
  BY <1>1, <1>2, <1>3 DEF IInv, TypeOK, Disturbs
<1> HIDE DEF b
<1>8. ASSUME NEW g \in Holders
      PROVE  HasArray(g)' /\ Remembers(g)' /\ OwnPayload(g)' /\ SharedArray(g)' /\ SharersAgree(g)'
  <2>1. SharersAgree(g)'  BY <1>7 DEF IInv, Owned, SharersAgree
  <2>2. SharedArray(g)'
    <3> SUFFICES ASSUME NEW k \in Holders, raw'[g] # Nil, raw'[k] # Nil, raw'[k].at = raw'[g].at
                 PROVE  k \in sharers[g]
      BY <1>7 DEF SharedArray
    <3>1. CASE k = g  BY <3>1 DEF IInv, Owned, SharersAgree
    <3>2. CASE k = h /\ g # h  BY <3>2, <1>6, <1>7
    <3>3. CASE g = h /\ k # h  BY <3>3, <1>6, <1>7
    <3>4. CASE k # h /\ g # h  BY <3>4, <1>7 DEF IInv, Owned, SharedArray
    <3> QED  BY <3>1, <3>2, <3>3, <3>4
  <2>3. CASE g = h
    BY <2>1, <2>2, <2>3, <1>4, <1>7 DEF HasArray, Remembers, OwnPayload
  <2>4. CASE g # h
    <3>1. raw[g] # Nil => raw[g].at \in Buffers  BY DEF IInv, TypeOK, Slices
    <3>2. HasArray(g) /\ Remembers(g) /\ OwnPayload(g)
      BY DEF IInv, Owned
    <3>3. raw'[g] = raw[g] /\ received'[g] = received[g]
          /\ (~disturbed'[g] => g \notin sharers[h] /\ ~disturbed[g])
      BY <2>4, <1>7
    <3>4. HasArray(g)' /\ Remembers(g)'
      BY <3>1, <3>2, <3>3, <1>4, <1>7 DEF HasArray, Remembers
    <3>5. OwnPayload(g)'
      <4> SUFFICES ASSUME raw[g] # Nil, ~disturbed'[g]
                   PROVE  /\ buffer'[raw[g].at].payload = received[g]
                          /\ raw[g].size = received[g].size
        BY <3>3 DEF OwnPayload
      <4>1. raw[g].at # b  BY <2>4, <3>3, <1>6
      <4>2. buffer'[raw[g].at] = buffer[raw[g].at]  BY <4>1, <3>1, <1>7
      <4> QED  BY <4>2, <3>2, <3>3 DEF OwnPayload
    <3> QED  BY <2>1, <2>2, <3>4, <3>5
  <2> QED  BY <2>3, <2>4
<1> QED  BY <1>5, <1>8

-----------------------------------------------------------------------------
(* What a union holds afterwards, when a variant is stored or a union built.  *)
LEMMA StorePuts ==
  ASSUME IInv, FreeObjects # {}, NEW h \in Holders, NEW kind \in Kinds,
         NEW v \in TemplatedValues, StoreVariant(h, kind, v)
  PROVE  Held' = [Held EXCEPT ![h][kind] = v]
<1>1. FreshObject \in Objects /\ FreshObject # Nil
  BY FreshObjectFree, UnionsAssumption
<1>2. \A g \in Holders, other \in Kinds :
        variant[g][other] # Nil => variant[g][other] \in Objects \ {FreshObject}
  BY FreshObjectFree DEF IInv, TypeOK
<1> DEFINE o == FreshObject
<1>3. variant' = [variant EXCEPT ![h][kind] = o] /\ heap' = [heap EXCEPT ![o] = v]
  BY DEF StoreVariant
<1> HIDE DEF o
<1>4. ASSUME NEW g \in Holders, NEW other \in Kinds
      PROVE  (IF variant'[g][other] = Nil THEN Nil ELSE heap'[variant'[g][other]])
               = IF g = h /\ other = kind THEN v ELSE Held[g][other]
  BY <1>1, <1>2, <1>3 DEF Held, IInv, TypeOK, o
<1>5. [Held EXCEPT ![h][kind] = v]
        = [g \in Holders |-> [other \in Kinds |->
             IF g = h /\ other = kind THEN v ELSE Held[g][other]]]
  BY DEF Held
<1> QED  BY <1>4, <1>5 DEF Held

LEMMA ConstructMakes ==
  ASSUME IInv, FreeObjects # {}, NEW h \in Holders, NEW kind \in Kinds,
         NEW v \in TemplatedValues, Construct(h, kind, v)
  PROVE  Held' = [Held EXCEPT ![h] = [other \in Kinds |-> IF other = kind THEN v ELSE Nil]]
<1>1. FreshObject \in Objects /\ FreshObject # Nil
  BY FreshObjectFree, UnionsAssumption
<1>2. \A g \in Holders, other \in Kinds :
        variant[g][other] # Nil => variant[g][other] \in Objects \ {FreshObject}
  BY FreshObjectFree DEF IInv, TypeOK
<1> DEFINE o == FreshObject
<1>3. /\ variant' = [variant EXCEPT ![h] = [other \in Kinds |-> IF other = kind THEN o ELSE Nil]]
      /\ heap' = [heap EXCEPT ![o] = v]
  BY DEF Construct
<1> HIDE DEF o
<1>4. ASSUME NEW g \in Holders, NEW other \in Kinds
      PROVE  (IF variant'[g][other] = Nil THEN Nil ELSE heap'[variant'[g][other]])
               = IF g = h THEN IF other = kind THEN v ELSE Nil ELSE Held[g][other]
  BY <1>1, <1>2, <1>3 DEF Held, IInv, TypeOK, o
<1> QED  BY <1>4 DEF Held

-----------------------------------------------------------------------------
LEMMA InitIInv == Init => IInv
<1> SUFFICES ASSUME Init PROVE IInv  OBVIOUS
<1>1. TypeOK
  <2>1. Unset \in TemplatedValues  BY DEF TemplatedValues
  <2>2. steps \in 0 .. MaxSteps
    <3>1. steps = 0  BY DEF Init
    <3> QED  BY <3>1, BoundAssumption
  <2> QED  BY <2>1, <2>2 DEF Init, TypeOK, Tags
<1>2. Owned
  BY DEF Init, Owned, HasArray, Remembers, OwnPayload, SharedArray, SharersAgree,
         OwnVariant, Decoded
<1> QED  BY <1>1, <1>2 DEF IInv

LEMMA DecodeKeeps ==
  ASSUME IInv, FreeObjects # {}, FreeBuffers # {}, steps' \in 0 .. MaxSteps,
         NEW h \in Holders, NEW payload \in Received, Decode(h, payload)
  PROVE  IInv'
<1>1. payload \in Payloads  BY UnionsAssumption
<1>2. /\ raw' \in [Holders -> Slices \cup {Nil}]
      /\ buffer' \in [Buffers -> Arrays \cup {Nil}]
      /\ received' \in [Holders -> Payloads \cup {Nil}]
      /\ \A g \in Holders : /\ HasArray(g)' /\ Remembers(g)' /\ OwnPayload(g)'
                            /\ SharedArray(g)' /\ SharersAgree(g)'
  BY <1>1, ReceiveKeeps DEF Decode
<1>3. tag' \in [Holders -> Tags]
  <2>1. CASE payload.kind = "untagged"  BY <2>1 DEF Decode, IInv, TypeOK
  <2>2. CASE payload.kind # "untagged"
    <3>1. payload.kind \in Tags  BY <1>1, <2>2 DEF Payloads, Tags
    <3> QED  BY <2>2, <3>1 DEF Decode, IInv, TypeOK
  <2> QED  BY <2>1, <2>2
<1>4. /\ variant' \in [Holders -> [Kinds -> Objects \cup {Nil}]]
      /\ heap' \in [Objects -> TemplatedValues]
  <2>1. CASE payload.kind \in Kinds /\ Reads(payload.field)
    <3>1. Read(payload.field) \in TemplatedValues  BY <1>1, <2>1, ReadTyped DEF Payloads
    <3>2. StoreVariant(h, payload.kind, Read(payload.field))  BY <2>1 DEF Decode
    <3>3. payload.kind \in Kinds  BY <2>1
    <3> QED  BY <3>1, <3>2, <3>3, StoreTyped DEF IInv
  <2>2. CASE ~(payload.kind \in Kinds /\ Reads(payload.field))
    BY <2>2 DEF Decode, IInv, TypeOK
  <2> QED  BY <2>1, <2>2
<1>5. sharers' \in [Holders -> SUBSET Holders] /\ disturbed' \in [Holders -> BOOLEAN]
  BY DEF Decode, Disturbs, IInv, TypeOK
<1>6. ASSUME NEW g \in Holders PROVE OwnVariant(g)'
  <2> SUFFICES ASSUME NEW kind \in Kinds, Decoded(g, kind)'
               PROVE  Held'[g][kind] = Read(received'[g].field)
    BY DEF OwnVariant
  <2>1. /\ received'[h] = payload
        /\ g # h => received'[g] = received[g] /\ (Decoded(g, kind)' => Decoded(g, kind))
    BY DEF Decode, IInv, TypeOK, Decoded
  <2>2. CASE payload.kind \in Kinds /\ Reads(payload.field)
    <3>1. Held' = [Held EXCEPT ![h][payload.kind] = Read(payload.field)]
      BY <1>1, <2>2, ReadTyped, StorePuts DEF Decode, Payloads
    <3>2. CASE g = h
      <4>1. kind = payload.kind  BY <3>2, <2>1 DEF Decoded
      <4> QED  BY <3>1, <3>2, <4>1, <2>1 DEF Held
    <3>3. CASE g # h
      <4>1. Held'[g][kind] = Held[g][kind]  BY <3>1, <3>3 DEF Held
      <4> QED  BY <4>1, <3>3, <2>1 DEF IInv, Owned, OwnVariant
    <3> QED  BY <3>2, <3>3
  <2>3. CASE ~(payload.kind \in Kinds /\ Reads(payload.field))
    <3>1. Held' = Held  BY <2>3 DEF Decode, Held
    <3>2. g # h  BY <2>3, <2>1 DEF Decoded
    <3> QED  BY <3>1, <3>2, <2>1 DEF IInv, Owned, OwnVariant
  <2> QED  BY <2>2, <2>3
<1> QED  BY <1>2, <1>3, <1>4, <1>5, <1>6 DEF IInv, TypeOK, Owned, Decode

LEMMA ConstructKeeps ==
  ASSUME IInv, FreeObjects # {}, steps' \in 0 .. MaxSteps,
         NEW h \in Holders, NEW kind \in Kinds, NEW v \in Built, Construct(h, kind, v)
  PROVE  IInv'
<1>1. TypeOK'
  <2>1. v \in TemplatedValues /\ kind \in Tags  BY UnionsAssumption DEF Tags
  <2> QED  BY <2>1, FreshObjectFree DEF Construct, Joins, IInv, TypeOK
<1>2. Held' = [Held EXCEPT ![h] = [other \in Kinds |-> IF other = kind THEN v ELSE Nil]]
  <2>1. v \in TemplatedValues  BY UnionsAssumption
  <2> QED  BY <2>1, ConstructMakes DEF IInv
<1>3. ASSUME NEW g \in Holders
      PROVE  /\ HasArray(g)' /\ Remembers(g)' /\ OwnPayload(g)'
             /\ SharedArray(g)' /\ SharersAgree(g)' /\ OwnVariant(g)'
  <2>1. HasArray(g) /\ Remembers(g) /\ OwnPayload(g)
        /\ SharedArray(g) /\ SharersAgree(g) /\ OwnVariant(g)
    BY DEF IInv, Owned
  <2>2. /\ raw'[h] = Nil /\ received'[h] = Nil
        /\ \A k \in Holders \ {h} : raw'[k] = raw[k] /\ received'[k] = received[k]
                                  /\ disturbed'[k] = disturbed[k]
        /\ buffer' = buffer
        /\ \A k \in Holders : sharers'[k] = IF k = h THEN {h} ELSE sharers[k] \ {h}
    BY DEF Construct, Joins, IInv, TypeOK
  <2>3. HasArray(g)' /\ Remembers(g)' /\ OwnPayload(g)'
    BY <2>1, <2>2 DEF HasArray, Remembers, OwnPayload
  <2>4. SharedArray(g)'  BY <2>1, <2>2 DEF SharedArray
  <2>5. SharersAgree(g)'
    <3>1. \A k \in Holders : SharersAgree(k) /\ sharers[k] \subseteq Holders
      BY DEF IInv, Owned, TypeOK
    <3>2. CASE g = h  BY <3>2, <2>2 DEF SharersAgree
    <3>3. CASE g # h
      <4>1. sharers'[g] = sharers[g] \ {h}  BY <3>3, <2>2
      <4>2. ASSUME NEW k \in sharers[g], k # h PROVE sharers'[k] = sharers[g] \ {h}
        BY <4>2, <3>1, <2>2 DEF SharersAgree
      <4> QED  BY <3>1, <3>3, <4>1, <4>2 DEF SharersAgree
    <3> QED  BY <3>2, <3>3
  <2>6. OwnVariant(g)'
    <3>1. CASE g = h  BY <3>1, <2>2 DEF OwnVariant, Decoded
    <3>2. CASE g # h
      <4>1. Held'[g] = Held[g]  BY <1>2, <3>2 DEF Held
      <4> QED  BY <4>1, <3>2, <2>1, <2>2 DEF OwnVariant, Decoded
    <3> QED  BY <3>1, <3>2
  <2> QED  BY <2>3, <2>4, <2>5, <2>6
<1> QED  BY <1>1, <1>3 DEF IInv, Owned

LEMMA CopyKeeps ==
  ASSUME IInv, steps' \in 0 .. MaxSteps,
         NEW h \in Holders, NEW g \in Holders \ {h}, Copy(g, h)
  PROVE  IInv'
<1> DEFINE kin == sharers[g] \cup {h}
<1>1. TypeOK'
  <2>1. kin \subseteq Holders  BY DEF IInv, TypeOK
  <2> QED  BY <2>1 DEF Copy, Joins, IInv, TypeOK
<1>2. /\ raw'[h] = raw[g] /\ received'[h] = received[g] /\ disturbed'[h] = disturbed[g]
      /\ \A k \in Holders \ {h} : raw'[k] = raw[k] /\ received'[k] = received[k]
                                /\ disturbed'[k] = disturbed[k]
      /\ buffer' = buffer
      /\ \A k \in Holders : sharers'[k] = IF k \in kin THEN kin ELSE sharers[k] \ {h}
  BY DEF Copy, Joins, IInv, TypeOK
<1>3. Held' = [Held EXCEPT ![h] = Held[g]]
  BY DEF Copy, Held, IInv, TypeOK
<1>4. \A k \in Holders : /\ HasArray(k) /\ Remembers(k) /\ OwnPayload(k)
                        /\ SharedArray(k) /\ SharersAgree(k) /\ OwnVariant(k)
  BY DEF IInv, Owned
<1>5. \A k \in Holders : sharers[k] \subseteq Holders  BY DEF IInv, TypeOK
<1> HIDE DEF kin
<1>6. ASSUME NEW m \in Holders
      PROVE  /\ HasArray(m)' /\ Remembers(m)' /\ OwnPayload(m)'
             /\ SharedArray(m)' /\ SharersAgree(m)' /\ OwnVariant(m)'
  <2>1. HasArray(m)' /\ Remembers(m)' /\ OwnPayload(m)'
    BY <1>2, <1>4 DEF HasArray, Remembers, OwnPayload
  <2>2. SharersAgree(m)'
    <3>1. CASE m \in kin
      <4>1. kin \subseteq Holders  BY <1>5 DEF kin
      <4>2. \A k \in kin : sharers'[k] = kin  BY <4>1, <1>2
      <4> QED  BY <3>1, <4>2 DEF SharersAgree
    <3>2. CASE m \notin kin
      <4>1. \A k \in sharers[m] : k \notin sharers[g]
        BY <3>2, <1>4, <1>5 DEF SharersAgree, kin
      <4>2. m # h /\ sharers'[m] = sharers[m] \ {h}  BY <3>2, <1>2 DEF kin
      <4>3. ASSUME NEW k \in sharers[m], k # h PROVE sharers'[k] = sharers[m] \ {h}
        <5>1. k \in Holders /\ k \notin kin  BY <4>1, <4>3, <1>5 DEF kin
        <5> QED  BY <5>1, <1>2, <1>4 DEF SharersAgree
      <4> QED  BY <4>2, <4>3, <1>4 DEF SharersAgree
    <3> QED  BY <3>1, <3>2
  <2>3. SharedArray(m)'
    <3> SUFFICES ASSUME NEW k \in Holders, raw'[m] # Nil, raw'[k] # Nil, raw'[k].at = raw'[m].at
                 PROVE  k \in sharers'[m]
      BY DEF SharedArray
    <3> DEFINE from(n) == IF n = h THEN g ELSE n
    <3>1. raw'[m] = raw[from(m)] /\ raw'[k] = raw[from(k)]  BY <1>2
    <3>2. from(m) \in Holders /\ from(k) \in Holders  OBVIOUS
    <3>3. from(k) \in sharers[from(m)]  BY <3>1, <3>2, <1>4 DEF SharedArray
    <3>4. CASE from(m) \in sharers[g]
      <4>1. from(k) \in sharers[g]  BY <3>3, <3>4, <1>4 DEF SharersAgree
      <4>2. m \in kin /\ k \in kin  BY <3>4, <4>1 DEF kin
      <4> QED  BY <4>2, <1>2
    <3>5. CASE from(m) \notin sharers[g]
      <4>1. m # h  BY <3>5, <1>4 DEF SharersAgree
      <4>2. k # h  BY <3>3, <3>5, <4>1, <1>4 DEF SharersAgree
      <4>3. m \notin kin  BY <3>5, <4>1 DEF kin
      <4> QED  BY <3>3, <4>1, <4>2, <4>3, <1>2
    <3> QED  BY <3>4, <3>5
  <2>4. OwnVariant(m)'
    <3>1. Held'[m] = Held[IF m = h THEN g ELSE m]  BY <1>3 DEF Held
    <3> QED  BY <3>1, <1>2, <1>4 DEF OwnVariant, Decoded
  <2> QED  BY <2>1, <2>2, <2>3, <2>4
<1> QED  BY <1>1, <1>6 DEF IInv, Owned

LEMMA NextIInv == IInv /\ [Next]_vars => IInv'
<1> SUFFICES ASSUME IInv, [Next]_vars PROVE IInv'  OBVIOUS
<1>1. CASE UNCHANGED vars
  BY <1>1
  DEF vars, Held, IInv, TypeOK, Owned, HasArray, Remembers, OwnPayload, SharedArray,
      SharersAgree, OwnVariant, Decoded
<1>2. CASE /\ steps < MaxSteps /\ FreeObjects # {} /\ FreeBuffers # {}
           /\ steps' = steps + 1
           /\ Step
  <2>1. steps' \in 0 .. MaxSteps  BY <1>2, BoundAssumption DEF IInv, TypeOK
  <2>2. ASSUME NEW h \in Holders, NEW payload \in Received, Decode(h, payload) PROVE IInv'
    BY <1>2, <2>1, <2>2, DecodeKeeps
  <2>3. ASSUME NEW h \in Holders, NEW kind \in Kinds, NEW v \in Built, Construct(h, kind, v)
        PROVE  IInv'
    BY <1>2, <2>1, <2>3, ConstructKeeps
  <2>4. ASSUME NEW h \in Holders, NEW g \in Holders \ {h}, Copy(g, h) PROVE IInv'
    BY <2>1, <2>4, CopyKeeps
  <2>5. ASSUME NEW h \in Holders, NEW t \in Tags, SetTag(h, t) PROVE IInv'
    BY <2>1, <2>5
    DEF SetTag, Held, IInv, TypeOK, Owned, HasArray, Remembers, OwnPayload, SharedArray,
        SharersAgree, OwnVariant, Decoded
  <2> QED  BY <1>2, <2>2, <2>3, <2>4, <2>5 DEF Step
<1> QED  BY <1>1, <1>2 DEF Next, Done

THEOREM AlwaysOwned == Spec => []IInv
BY InitIInv, NextIInv, PTL DEF Spec

(* Every variable has its type.                                             *)
THEOREM TypeCorrect == Spec => []TypeOK
<1>1. IInv => TypeOK  BY DEF IInv
<1> QED  BY AlwaysOwned, <1>1, PTL

(* A union of unknown kind sends back what it was decoded from last, as do its
   copies until one of them is decoded into (UnmarshalJSON, MarshalJSON).   *)
THEOREM UnknownKindsRoundTrip == Spec => []UnknownSentBack
<1>1. IInv => UnknownSentBack
  <2> SUFFICES ASSUME IInv, NEW h \in Holders, tag[h] \notin Kinds, ~disturbed[h],
                      received[h] # Nil
               PROVE  Encode(h) = Sent(received[h])
    BY DEF UnknownSentBack, SendsBack
  <2>1. raw[h] # Nil  BY DEF IInv, Owned, Remembers
  <2>2. buffer[raw[h].at].payload = received[h] /\ raw[h].size = received[h].size
    BY <2>1 DEF IInv, Owned, OwnPayload
  <2> QED  BY <2>1, <2>2 DEF Encode, Fallback, RawOf
<1> QED  BY AlwaysOwned, <1>1, PTL

(* What was decoded from a known kind is sent back under it (UnmarshalJSON,
   MarshalJSON and marshalVariant, with TemplatedValue's two).              *)
THEOREM KnownKindsRoundTrip == Spec => []KnownSentBack
<1>1. IInv => KnownSentBack
  <2> SUFFICES ASSUME IInv, NEW h \in Holders, tag[h] \in Kinds, Decoded(h, tag[h])
               PROVE  \/ SendsBack(h)
                      \/ received[h].field = "absent"
                         /\ Encode(h) = [kind |-> tag[h], field |-> "null"]
    BY DEF KnownSentBack
  <2>1. received[h].field \in Fields /\ received[h].kind = tag[h] /\ Reads(received[h].field)
    BY DEF Decoded, IInv, TypeOK, Payloads
  <2>2. variant[h][tag[h]] # Nil /\ heap[variant[h][tag[h]]] = Read(received[h].field)
    <3>1. Held[h][tag[h]] = Read(received[h].field)  BY DEF IInv, Owned, OwnVariant
    <3>2. Read(received[h].field) # Nil  BY <2>1, ReadTyped, UnionsAssumption
    <3> QED  BY <3>1, <3>2 DEF Held
  <2>3. Encode(h) = [kind |-> tag[h], field |-> Written(Read(received[h].field))]
    BY <2>2 DEF Encode
  <2> QED  BY <2>1, <2>3, ReadWritten DEF SendsBack, Sent
<1> QED  BY AlwaysOwned, <1>1, PTL

-----------------------------------------------------------------------------
(* Unions behave as values of their own (UnionValues): nothing done to one shows
   in another, although copies share pointers.                              *)
THEOREM UnionsAreValues == Spec => ValueSemantics
<1>1. Init => Values!Init
  <2> SUFFICES ASSUME Init PROVE Values!Init  OBVIOUS
  <2>1. tag \in [Holders -> Tags]  BY DEF Init, Tags
  <2>2. Held = [h \in Holders |-> [kind \in Kinds |-> Nil]]  BY DEF Init, Held
  <2> QED  BY <2>1, <2>2 DEF Values!Init
<1>2. IInv /\ [Next]_vars => [Values!Next]_(Values!valueVars)
  <2> SUFFICES ASSUME IInv, [Next]_vars PROVE [Values!Next]_(Values!valueVars)
    OBVIOUS
  <2>1. CASE UNCHANGED vars  BY <2>1 DEF vars, Values!valueVars, Held
  <2>2. CASE FreeObjects # {} /\ Step
    <3>1. ASSUME NEW h \in Holders, NEW payload \in Received, Decode(h, payload)
          PROVE  [Values!Next]_(Values!valueVars)
      <4>1. payload \in Payloads  BY UnionsAssumption
      <4>2. CASE payload.kind \in Kinds /\ Reads(payload.field)
        <5>1. payload.kind \in Kinds /\ Read(payload.field) \in TemplatedValues
          BY <4>1, <4>2, ReadTyped DEF Payloads
        <5>2. Held' = [Held EXCEPT ![h][payload.kind] = Read(payload.field)]
          BY <2>2, <3>1, <4>2, <5>1, StorePuts DEF Decode
        <5>3. tag' = [tag EXCEPT ![h] = payload.kind]
          BY <3>1, <5>1, UnionsAssumption DEF Decode
        <5> QED  BY <5>1, <5>2, <5>3 DEF Values!Next, Values!Put, Values!SetTag
      <4>3. CASE ~(payload.kind \in Kinds /\ Reads(payload.field))
        <5>1. UNCHANGED Held  BY <3>1, <4>3 DEF Decode, Held
        <5>2. CASE payload.kind = "untagged"
          BY <3>1, <5>1, <5>2 DEF Decode, Values!valueVars
        <5>3. CASE payload.kind # "untagged"
          <6>1. payload.kind \in Tags  BY <4>1, <5>3 DEF Payloads, Tags
          <6> QED  BY <3>1, <5>1, <5>3, <6>1 DEF Decode, Values!Next, Values!Retag, Values!SetTag
        <5> QED  BY <5>2, <5>3
      <4> QED  BY <4>2, <4>3
    <3>2. ASSUME NEW h \in Holders, NEW kind \in Kinds, NEW v \in Built, Construct(h, kind, v)
          PROVE  [Values!Next]_(Values!valueVars)
      <4>1. v \in TemplatedValues  BY UnionsAssumption
      <4>2. Held' = [Held EXCEPT ![h] = [other \in Kinds |-> IF other = kind THEN v ELSE Nil]]
        BY <2>2, <3>2, <4>1, ConstructMakes
      <4> QED  BY <3>2, <4>1, <4>2 DEF Construct, Values!Next, Values!Make, Values!SetTag
    <3>3. ASSUME NEW h \in Holders, NEW g \in Holders \ {h}, Copy(g, h)
          PROVE  [Values!Next]_(Values!valueVars)
      <4>1. Held' = [Held EXCEPT ![h] = Held[g]]
        BY <3>3 DEF Copy, Held, IInv, TypeOK
      <4> QED  BY <3>3, <4>1 DEF Copy, Values!Next, Values!Copy, Values!SetTag
    <3>4. ASSUME NEW h \in Holders, NEW t \in Tags, SetTag(h, t)
          PROVE  [Values!Next]_(Values!valueVars)
      <4>1. UNCHANGED Held  BY <3>4 DEF SetTag, Held
      <4> QED  BY <3>4, <4>1 DEF SetTag, Values!Next, Values!Retag, Values!SetTag
    <3> QED  BY <2>2, <3>1, <3>2, <3>3, <3>4 DEF Step
  <2> QED  BY <2>1, <2>2 DEF Next, Done
<1> QED  BY AlwaysOwned, <1>1, <1>2, PTL DEF Spec, ValueSemantics, Values!Spec

=============================================================================
