----------------------------- MODULE MCGenerate -----------------------------
(***************************************************************************)
(* Generate with two tags and four snapshots.                              *)
(***************************************************************************)
EXTENDS Generate, Sequences

Package(service, enums) == [kind \in {"service", "enums"} |->
                              IF kind = "service" THEN service ELSE enums]

NoPackage == Package(Absent, Absent)

(* The second snapshot has no enumerations left and drops a package; of the third,
   gofmt rejects a file; the fourth does not decode.                        *)
Shrinking ==
  <<<<Package(1, 2), Package(3, Absent)>>,
    <<Package(1, Absent), NoPackage>>,
    <<Package(4, 5), NoPackage>>,
    <<NoPackage, NoPackage>>>>

=============================================================================
