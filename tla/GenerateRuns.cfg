SPECIFICATION Spec
CONSTANTS
  Tags = {1, 2}
  Kinds = {"service", "enums"}
  Texts = {1, 2, 3, 4, 5}
  Rendered <- Shrinking
  Readable = {1, 2, 3}
  Unformattable = {5}
  All = All
  Absent = Absent
  Torn = Torn
  MaxCommits = 1
  MaxDeaths = 1
INVARIANTS
  SuccessIsWhole
  RootCoherent
  VerifiedNotStale
