SPECIFICATION FairSpec
CONSTANTS
  MaxDials = 2
  MaxAttempts = 2
  MaxBeats = 1
INVARIANTS
  TypeOK
  EachEndIsToldOnce
PROPERTIES
  ServerHearsTheRoom
  RoomEndsForGood
CHECK_DEADLOCK FALSE
