SPECIFICATION FairSpec
CONSTANTS
  Room = {r1}
  Tick = {t1, t2}
  NoRoom = NoRoom
  NoTick = NoTick
  MaxReaps = 1
  MaxMishaps = 1
  MaxTimeouts = 0
PROPERTIES
  Converges
CHECK_DEADLOCK FALSE
