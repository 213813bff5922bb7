SPECIFICATION SituationsSpec
CONSTANTS
  s1 = s1
  s2 = s2
  c1 = c1
  c2 = c2
  c3 = c3
  Servers <- MCServers
  Connections <- MCConnections
  Home <- MCHome
  MaxObjects = 2
  MaxAdds = 1
  MaxMessages = 1
  Limit = 2
  MaxFailures = 1
SYMMETRY SameServerSymmetry
INVARIANTS
  GoneIsNoMember
  NeverOvercounts
  SerializedDelivers
  StayingIsCounted
CHECK_DEADLOCK FALSE
