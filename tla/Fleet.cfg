SPECIFICATION Spec
CONSTANTS
  Server = {a, b}
  Room = {r1}
  Endpoint = {e1, e2}
  NoServer = NoServer
  MaxCalls = 2
  MaxDown = 1
  MaxAlike = 2
  MaxStale = 1
  MaxExpiries = 1
  MaxFailures = 1
SYMMETRY Symmetry
CONSTRAINT Bounded
INVARIANTS
  TypeOK
PROPERTIES
  ActsAsMemoryDriver
  LeaderSparesLiveRooms
CHECK_DEADLOCK FALSE
