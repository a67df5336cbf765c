SPECIFICATION Spec
CONSTANTS
  c1 = c1
  c2 = c2
  s1 = s1
  s2 = s2
  s3 = s3
  NoClient = NoClient
  NoSocket = NoSocket
  Client = {c1, c2}
  Socket = {s1, s2, s3}
  MaxBuffer = 0
  MaxMsgs = 1
  MaxStray = 1
  HasOnDrop = TRUE
SYMMETRY Symmetry
CHECK_DEADLOCK FALSE
INVARIANTS
  TypeOK
  TokensMatchSeats
  LiveSessionIsRouted
  HeldSeatHasReason
  LeavesExactlyOnce
  ParentInSync
  StoppedRoomIsQuiet
