----------------------------- MODULE Templated -----------------------------
(***************************************************************************)
(* TemplatedValue of thousandeyes/shared/templating/templated_value.go as  *)
(* functions: a field of a template that is a value or an expression to be *)
(* substituted, read from JSON and written to it.                          *)
(*                                                                         *)
(* Of the JSON of a field is kept what the code looks at: nothing or null, *)
(* a string that is one {{...}} as a whole ("braced"), what else decodes   *)
(* as the field's type ("plain", "empty"), or does not ("mismatched").     *)
(* An expression may be any string, one that cannot be read back included. *)
(***************************************************************************)

Fields == {"absent", "null", "plain", "empty", "braced", "mismatched"}

(* What a value of the field's type may be written as.                       *)
Texts == {"plain", "empty", "braced"}

(* Neither pointer is set.                                                  *)
Unset == [form |-> "unset", text |-> "null"]

(* NewValue takes a value of the field's type. NewExpression takes any string: it
   is written as a JSON string, which a field of another type does not decode
   unless it is braced.                                                     *)
NewValue(text)      == [form |-> "value", text |-> text]
NewExpression(text) == [form |-> "expression", text |-> text]

TemplatedValues ==
  {Unset} \cup {NewValue(text) : text \in Texts}
          \cup {NewExpression(text) : text \in Texts \cup {"mismatched"}}

(* Whether UnmarshalJSON succeeds.                                          *)
Reads(field) == field # "mismatched"

\* Mutant of Read: null goes to json.Unmarshal, which leaves the zero value.
ReadNullAsValue(field) ==
  IF field = "absent" THEN Unset
  ELSE IF field = "null" THEN NewValue("empty")
  ELSE IF field = "braced" THEN NewExpression(field) ELSE NewValue(field)

(* UnmarshalJSON is not called for a field that is absent.                  *)
Read(field) ==
  IF field \in {"absent", "null"} THEN Unset
  ELSE IF field = "braced" THEN NewExpression(field) ELSE NewValue(field)

(* MarshalJSON. The option omitempty of the fields does not apply to structs, so
   one that was absent is written as null.                                  *)
Written(value) == value.text

=============================================================================
