CONSTANTS
  MaxMessages = 3
  MaxReady = 3
  MaxSessions = 2
SPECIFICATION Spec
INVARIANT StopReturns
CHECK_DEADLOCK FALSE
