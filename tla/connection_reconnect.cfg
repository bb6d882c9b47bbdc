CONSTANTS
  MaxMessages = 3
  MaxReady = 3
  MaxSessions = 2
SPECIFICATION Spec
INVARIANT ChainAlive
CHECK_DEADLOCK FALSE
