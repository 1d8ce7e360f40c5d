SPECIFICATION Spec
CONSTANTS
  Workers = {w1, w2}
  w1 = w1
  w2 = w2
  Limit = 10
  Window = 3
  Reported = {"all", "no reset", "none"}
  Faults = TRUE
  Durations = {1, 3}
  AdaptiveMax = 1
  MaxTime = 4
  Absent = Absent
SYMMETRY WorkerSymmetry
INVARIANTS
  SleepsWithinWindow
  QuotaNotPessimistic
  BudgetLasts
PROPERTIES
  DelayedForSlowness
