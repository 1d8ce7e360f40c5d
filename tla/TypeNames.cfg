SPECIFICATION FairSpec
CONSTANTS
  s1 = s1
  s2 = s2
  s3 = s3
  Schemas <- ThreeSchemas
  Names <- GoNames
  Service = "Svc"
  Spare <- SpareNames
  TagType <- TagTypes
  CompositionDepth = 1
  SchemaMaps <- SmallDocuments
  Identifiers <- GoIdentifiers
  Requests <- Operations
  Untyped = Untyped
  Scalar = Scalar
INVARIANTS
  NamesDeclared
  DeclaredOnce
  ComposedComplete
PROPERTIES
  DefinedOnce
  ResolutionEnds
