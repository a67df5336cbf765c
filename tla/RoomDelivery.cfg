SPECIFICATION FairSpec
CONSTANTS
  c1 = c1
  s1 = s1
  s2 = s2
  NoClient = NoClient
  NoSocket = NoSocket
  Client = {c1}
  Socket = {s1, s2}
  MaxBuffer = 1
  MaxMsgs = 3
  MaxStray = 1
  HasOnDrop = TRUE
CHECK_DEADLOCK FALSE
INVARIANTS
  InOrder
PROPERTIES
  WindowCloses
