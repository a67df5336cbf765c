SPECIFICATION FairSpec
CONSTANTS
  MaxReads = 3
  MaxFaults = 2
CHECK_DEADLOCK FALSE
INVARIANTS
  TypeOK
  FailsOnlyIfGone
  RejectedLeavesNoRoom
  ReleasesChannels
PROPERTIES
  CreateEnds
