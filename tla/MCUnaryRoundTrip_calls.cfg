SPECIFICATION RoundTripSpec
CONSTANTS
  MaxFilters = 1
  MaxCalls = 2
  None = None
  f1 = f1
  f2 = f2
  f3 = f3
  GlobalFilters <- MCGlobal
  ClassFilters <- MCClass
  MethodFilters <- MCMethod
  Orders = {1, 9}
  Methods <- MCMethods
  Values = {"v1"}
  Codes = {"NotFound"}
  MaxRuns = 2
INVARIANTS
  NoCallLeftBehind
  FiltersNested
  StatusTold
  ResultReachesCaller
PROPERTIES
  PlainDisposeCancels
  AnsweredReturns
CHECK_DEADLOCK FALSE
