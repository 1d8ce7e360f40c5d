SPECIFICATION FairSpec
CONSTANTS
  Pages = {p1, p2, p3}
  p1 = p1
  p2 = p2
  p3 = p3
  First = p1
  NoPage = NoPage
  DefaultMaxPages = 4
  Bounds = {0, 1, 2, 5}
  Shapes = {"items", "empty", "unlinked", "bad link", "undecodable", "failed"}
INVARIANTS
  WalksTheChain
  MergedOnceInOrder
  CompleteForAReason
PROPERTIES
  WalkEnds
