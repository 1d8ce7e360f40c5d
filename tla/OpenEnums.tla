----------------------------- MODULE OpenEnums ------------------------------
(***************************************************************************)
(* An enumeration as internal/templates/enums.go.tmpl declares it: a named *)
(* type over string or int. It is open: any string, or number, is a value  *)
(* of it, and the values of the specification are known.                   *)
(*                                                                         *)
(* A value is written as the API spells it, a number too.                  *)
(***************************************************************************)
EXTENDS Functions

Enumeration(package, name, base, values) ==
  [package |-> package, name |-> name, base |-> base, values |-> values]

Strings(package, name, values) == Enumeration(package, name, "string", values)
Ints(package, name, values)    == Enumeration(package, name, "int", values)

(* "Every value the specification declares, in specification order."         *)
Values(e) == e.values

IsKnown(e, v) == v \in Range(Values(e))

(* A known value as it is spelled, any other in parentheses behind the name.  *)
String(e, v) == IF IsKnown(e, v) THEN <<v>> ELSE <<e.name, v>>

=============================================================================
