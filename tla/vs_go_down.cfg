CONSTANTS
  d1 = d1
  d2 = d2
  d3 = d3
  v1 = v1
  v2 = v2
  VSwitches = {v1, v2}
  Dpids = {d1, d2}
  Deps <- Deps3
  Cables <- Cables2
  StaleCompletions = FALSE
  MaxQueue = 1
SPECIFICATION Spec
CHECK_DEADLOCK FALSE
INVARIANT GoesOffline
