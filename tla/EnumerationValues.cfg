SPECIFICATION Spec
CONSTANTS
  Declared <- AllEnumerations
  Unions <- AllUnions
  Future = "a value of the next release"
INVARIANTS
  KnownAlike
  KnownIsDecoded
