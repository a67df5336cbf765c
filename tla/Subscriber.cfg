SPECIFICATION FairSpec
CONSTANTS
  Channel = {c1, c2}
  Listener = {l1, l2, l3}
  Canary = Canary
  Interval = 2
  Timeout = 2
  MaxFaults = 2
INVARIANTS
  DetectedInTime
PROPERTIES
  OnlyTheDeafIsBlamed
  ListenersAreHeard
CHECK_DEADLOCK FALSE
