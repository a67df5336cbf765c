SPECIFICATION Spec
CONSTANTS
  MaxSockets = 3
  MaxRetries = 2
  MaxBuffer = 1
  MaxMsgs = 2
CHECK_DEADLOCK FALSE
PROPERTIES
  CloseIsFinal
