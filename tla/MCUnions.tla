------------------------------ MODULE MCUnions ------------------------------
(***************************************************************************)
(* Unions with two variables and two kinds.                                *)
(***************************************************************************)
EXTENDS Unions

Payload(kind, field, size) == [kind |-> kind, field |-> field, size |-> size]

(* Two kinds, of which one has payloads of either length and one that does not
   decode; a kind the code does not know; null; and what has no tag.           *)
SomePayloads ==
  {Payload("cloud", "braced", 2), Payload("cloud", "absent", 1), Payload("cloud", "mismatched", 2),
   Payload("cluster", "plain", 2), Payload("cluster", "null", 1),
   Payload("future", "plain", 2), Payload("future", "null", 1), Payload("", "null", 1),
   Payload("untagged", "null", 1)}

SomeValues == {NewValue("braced"), NewExpression("mismatched")}

=============================================================================
