SPECIFICATION FairSpec
CONSTANTS
  Callers = {c1, c2, c3}
  c1 = c1
  c2 = c2
  c3 = c3
  MaxConcurrent = 2
  RetryCount = 1
  Budgeted = TRUE
  Methods = {"PUT"}
  Deadlines = {"none"}
  Statuses = {200, 404, 408}
INVARIANTS
  SlotsMatchHolders
PROPERTIES
  EveryCallReturns
  CancelledCallReturns
  KeepsSlots
  RetriedForCause
