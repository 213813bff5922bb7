SPECIFICATION Spec
CONSTANTS
  c1 = c1
  Channels = {c1, c2}
  Hubs = {h1}
  Threads = {x1, x2}
  Home <- MCHome
  Nobody = nobody
INVARIANTS
  NoHubForgotten
PROPERTIES
  DisposedChannelGoes
  DisconnectedHubGoes
