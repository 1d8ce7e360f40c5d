---------------------------- MODULE UnionValues ----------------------------
(***************************************************************************)
(* What a union promises to those who hold one, without pointers, buffers  *)
(* or JSON: it has a tag, and for each kind at most one variant. Whatever  *)
(* is done to one holder's union leaves the others' alone.                 *)
(***************************************************************************)
CONSTANTS Holders, Kinds, Tags, Variants, None

VARIABLES tag, held

valueVars == <<tag, held>>

Init ==
  /\ tag \in [Holders -> Tags]
  /\ held = [h \in Holders |-> [kind \in Kinds |-> None]]

SetTag(h, t) == tag' = [tag EXCEPT ![h] = t]

(* A variant is put in beside those of other kinds.                         *)
Put(h, kind, v) ==
  /\ SetTag(h, kind)
  /\ held' = [held EXCEPT ![h][kind] = v]

(* A union with that variant alone.                                         *)
Make(h, kind, v) ==
  /\ SetTag(h, kind)
  /\ held' = [held EXCEPT ![h] = [other \in Kinds |-> IF other = kind THEN v ELSE None]]

Retag(h, t) == SetTag(h, t) /\ UNCHANGED held

Copy(g, h) ==
  /\ SetTag(h, tag[g])
  /\ held' = [held EXCEPT ![h] = held[g]]

Next ==
  \E h \in Holders :
    \/ \E kind \in Kinds, v \in Variants : Put(h, kind, v) \/ Make(h, kind, v)
    \/ \E t \in Tags : Retag(h, t)
    \/ \E g \in Holders : Copy(g, h)

Spec == Init /\ [][Next]_valueVars

=============================================================================
