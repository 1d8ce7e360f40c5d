SPECIFICATION Spec
CONSTANTS
  Raws <- SomeRaws
  Generated <- Services
  Options <- SomeOptions
  OptionLists <- SomeOptionLists
  AccountGroup = "own"
  Deadlines = {1, Forever}
  Forever = Forever
  Budget = 2
  ErrorBodies <- SomeErrors
  MaxRequests = 3
  Nil = Nil
INVARIANTS
  RequestAsSpecified
  PagesCarry
  WholeBudgetEach
  ResultIffSuccess
  ErrorFromOneShape
