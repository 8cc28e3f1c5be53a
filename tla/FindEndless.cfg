SPECIFICATION SessionSpec
CHECK_DEADLOCK FALSE
CONSTANTS
  Script <- MCScript
  ConnectTime = 1
  Timeout = 2
  MaxAddr = 2
  MaxElapsed = 5
INVARIANTS
  SessionInTime
