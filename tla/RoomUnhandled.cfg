SPECIFICATION Spec
CONSTANTS
  MaxReads = 2
  MaxFaults = 2
CHECK_DEADLOCK FALSE
INVARIANTS
  NoUnhandledRejection
