SPECIFICATION Spec
CONSTANTS
  Callers = {c1}
  Disposers = {d1}
  Sub = sub
  NoCaller = nobody
  IdMax = 1
  MaxCalls = 1
  MaxOneWay = 1
  MaxBroadcasts = 0
PROPERTIES
  EveryCallReturns
CHECK_DEADLOCK FALSE
