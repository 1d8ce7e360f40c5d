SPECIFICATION Spec
CONSTANTS
  Callers = {c1}
  c1 = c1
  MaxConcurrent = 1
  RetryCount = 1
  Budgeted = TRUE
  Methods = {"PUT"}
  Deadlines = {"none"}
  Statuses = {200, 404, 429}
INVARIANTS
  NeverRetried
