SPECIFICATION Spec
CONSTANTS
  Groups = {g1}
  MaxRequests = 2
  MaxBroadcasts = 1
  MaxJoins = 1
  OnConnectingJoins = TRUE
  OnDisconnectedThrows = TRUE
  DetachedJoins = TRUE
PROPERTIES
  ConnectReturns
  ConsumerStops
  AnswersSent
CHECK_DEADLOCK FALSE
