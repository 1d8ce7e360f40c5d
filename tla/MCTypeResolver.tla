--------------------------- MODULE MCTypeResolver ---------------------------
(***************************************************************************)
(* TypeResolver on small documents: three schemas that refer to each other *)
(* and themselves in every way of the menus below, under identifiers of    *)
(* their own, under one that two share, under that of a tag enum, and under*)
(* that of the service.                                                    *)
(***************************************************************************)
EXTENDS TypeResolver

CONSTANTS s1, s2, s3

ThreeSchemas == {s1, s2, s3}
GoNames == {"A", "B", "C", "AType", "BType", "CType", "Svc", "ResourceSvc"}
SpareNames == <<"ResourceSvc">>
TagTypes ==
  [n \in GoNames |-> CASE n = "A" -> "AType" [] n = "B" -> "BType" [] OTHER -> "CType"]

Plain(r) == [to |-> r, wrap |-> "plain"]
Object(props, required) == [kind |-> "object", props |-> props, required |-> required]
AllOf(members) == [kind |-> "allOf", members |-> members]
OneOf(mapping) == [kind |-> "oneOf", mapping |-> mapping]

Terminals ==
  {[kind |-> "enum"], [kind |-> "scalar"], OneOf(Empty), OneOf("t" :> Plain(Untyped)),
   Object("f" :> Plain(Scalar), {}), Object(Empty, {"f"})}

Links(refs) ==
  UNION {{Object("f" :> Plain(r), {}), Object("f" :> Plain(r), {"f"}), AllOf(<<r>>),
          OneOf("t" :> Plain(r)), [kind |-> "array", items |-> Plain(r)],
          [kind |-> "anyOf", items |-> [to |-> r, wrap |-> "template"]]} : r \in refs}

Joins(firsts, seconds) ==
  UNION {{Object("f" :> Plain(a) @@ "g" :> Plain(b), {"g"}),
          Object("f" :> Plain(a) @@ "g" :> [to |-> b, wrap |-> "slice"], {}),
          AllOf(<<a, b>>),
          OneOf("t" :> Plain(a) @@ "u" :> Plain(b))} : a \in firsts, b \in seconds}

GoIdentifiers ==
  {s1 :> "A" @@ s2 :> "B" @@ s3 :> c : c \in {"C", "B", "AType", "Svc"}}

OwnIdentifiers == {s1 :> "A" @@ s2 :> "B" @@ s3 :> "C"}

Operations == {"get" :> Plain(s1) @@ "post" :> [to |-> s3, wrap |-> "slice"]}

SmallDocuments ==
  {s1 :> a @@ s2 :> b @@ s3 :> c :
     a \in Links({s2, s3}) \cup Joins({s1}, {s2, s3}) \cup Joins({s2}, {s2, s3}),
     b \in Terminals \cup Links({s1, s3}),
     c \in Terminals \cup Links({s1})}

(* Objects that refer to each other and themselves.                         *)
ObjectDocuments ==
  {s1 :> Object("f" :> Plain(a), {}) @@ s2 :> Object("f" :> Plain(b), {"f"})
     @@ s3 :> Object("f" :> Plain(c), {}) :
     a \in {s1, s2}, b \in ThreeSchemas, c \in {s1, s3, Scalar}}

=============================================================================
