SPECIFICATION BroadcastsSpec
CONSTANTS
  Receivers = {c1, c2, c3}
  Senders = {p}
  Methods <- CalledMethods
  MaxSent = 2
  Nobody = nobody
PROPERTIES
  BroadcastPromise
CHECK_DEADLOCK FALSE
