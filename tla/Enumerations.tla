---------------------------- MODULE Enumerations ----------------------------
(***************************************************************************)
(* Values of the generated enumerations. A program decodes one with the    *)
(* type of one package, and hands it on, by conversion, to packages that   *)
(* declare the type of the same name; at each of them it may ask for       *)
(* IsKnown and String, and where the type is that of a discriminator a     *)
(* union of the package is decoded by it.                                  *)
(***************************************************************************)
EXTENDS OpenEnums

CONSTANTS
  Declared,  \* the enumerations of all packages
  Unions,    \* their unions
  Future     \* a value that no package knows

VARIABLES
  type,     \* the enumeration that the value is of
  value,
  decodedAs \* the enumeration that it was decoded with

vars == <<type, value, decodedAs>>

(* The enumerations of a name, in whatever package.                         *)
Namesakes == [name \in {e.name : e \in Declared} |-> {e \in Declared : e.name = name}]

(* Decoding takes any value of the type under the enumeration.               *)
Init ==
  /\ type \in Declared
  /\ value \in Range(Values(type)) \cup {Future}
  /\ decodedAs = type

(* A conversion changes the type alone; from a number to a string, or back, it
   would be no conversion of the value.                                     *)
Convert ==
  /\ \E e \in Namesakes[type.name] : e.base = type.base /\ type' = e
  /\ UNCHANGED <<value, decodedAs>>

Next == Convert

Spec == Init /\ [][Next]_vars

-----------------------------------------------------------------------------
(* Packages are generated one by one, with -only from whatever specification is
   the newest then, but what one of them documents about a value the others that
   declare the type do as well.                                             *)
KnownAlike ==
  /\ IsKnown(type, value) <=> IsKnown(decodedAs, value)
  /\ String(type, value) = String(decodedAs, value)

(* The values of a discriminator and the cases of UnmarshalJSON are made apart,
   from the keys of a mapping and from the variants that resolve (types.go), yet
   what IsKnown says is whether the union has a variant to decode into
   (internal/generatedtest).                                                *)
KnownIsDecoded ==
  \A u \in Unions :
    u.package = type.package /\ u.type = type.name
      => (IsKnown(type, value) <=> value \in u.kinds)

=============================================================================
