CONSTANTS
  MaxMessages = 3
  MaxReady = 3
  MaxSessions = 2
SPECIFICATION FairSpec
INVARIANTS TypeOK OneWriter SwitchChainAlive InOrder OneReader
PROPERTY Delivered
CHECK_DEADLOCK FALSE
