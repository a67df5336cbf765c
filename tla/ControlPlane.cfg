SPECIFICATION Spec
CONSTANTS
  Room = {r1, r2}
  Tick = {t1, t2}
  NoRoom = NoRoom
  NoTick = NoTick
  MaxReaps = 2
  MaxMishaps = 2
  MaxTimeouts = 1
SYMMETRY Symmetry
CONSTRAINT Focused
INVARIANTS
  TypeOK
  SpawnedAtMostOnce
  NoProcessIsForgotten
  PublishedStaysPublished
PROPERTIES
  WantedRoomSurvives
  RemovedStaysRemoved
CHECK_DEADLOCK FALSE
