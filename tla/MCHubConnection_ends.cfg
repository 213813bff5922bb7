SPECIFICATION MCSpec
CONSTANTS
  Callers = {c1}
  Disposers = {d1}
  Sub = sub
  NoCaller = nobody
  IdMax = 1
  MaxCalls = 1
  MaxOneWay = 1
  Groups = {g1}
  MaxJoins = 1
  MaxBroadcasts = 0
PROPERTIES
  ServerAsAssumed
  EndsOnBothSides
  EveryCallReturns
CHECK_DEADLOCK FALSE
