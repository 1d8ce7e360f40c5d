SPECIFICATION FairSpec
CONSTANTS
  Docs = {d1, d2}
  d1 = d1
  d2 = d2
  Unified = Unified
  Extra = Extra
  Absent = Absent
  Torn = Torn
  Garbled = Garbled
  NoCatalogue = NoCatalogue
  Catalogues <- SometimesMoved
  FreshCheckout = TRUE
  MaxChanges = 2
  MaxInterrupts = 1
  MaxPulls = 2
INVARIANTS
  RepositoryComplete
  PullConsistent
  NothingMissed
PROPERTIES
  StaysCaughtUp
  SnapshotsImmutable
  CatchesUp
