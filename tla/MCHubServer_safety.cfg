SPECIFICATION Safety
CONSTANTS
  Groups = {g1, g2}
  MaxRequests = 2
  MaxBroadcasts = 1
  MaxJoins = 2
  OnConnectingJoins = FALSE
  OnDisconnectedThrows = FALSE
  DetachedJoins = FALSE
SYMMETRY GroupSymmetry
INVARIANTS
  AnswersInOrder
  OneWriteAtATime
  LeftEveryGroup
CHECK_DEADLOCK FALSE
