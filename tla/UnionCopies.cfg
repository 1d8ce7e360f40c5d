SPECIFICATION Spec
CONSTANTS
  Holders = {h1, h2}
  h1 = h1
  h2 = h2
  Kinds = {"cloud", "cluster"}
  Unknown = "future"
  Objects = {1, 2, 3, 4, 5}
  Buffers = {1, 2, 3}
  Nil = Nil
  Received <- SomePayloads
  Built <- SomeValues
  MaxSteps = 4
INVARIANTS
  UnknownSentBack
  KnownSentBack
PROPERTIES
  ValueSemantics
