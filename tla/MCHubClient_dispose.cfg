SPECIFICATION MCSpec
CONSTANTS
  Callers = {c1, c2}
  Disposers = {d1}
  Sub = sub
  NoCaller = nobody
  IdMax = 1
  MaxCalls = 2
  MaxOneWay = 1
  MaxBroadcasts = 1
INVARIANTS
  WriterExclusive
  ResponseFindsFuture
  CleanupLeavesNobodyWaiting
PROPERTIES
  CallsRefined
  CallsReturnUndisposed
  DisposeReturns
  DisconnectSignalled
CHECK_DEADLOCK FALSE
