CONSTANTS
  d1 = d1
  d2 = d2
  d3 = d3
  v1 = v1
  v2 = v2
  VSwitches = {v1, v2}
  Dpids = {d1, d2, d3}
  Deps <- Deps3
  Cables <- Cables3
  StaleCompletions = FALSE
  MaxQueue = 1
SPECIFICATION FairSpec
CHECK_DEADLOCK FALSE
INVARIANTS OnlineOnlyIfReady OneDriver
PROPERTY ComesOnline
