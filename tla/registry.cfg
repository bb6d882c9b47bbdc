CONSTANTS
  c1 = c1
  c2 = c2
  c3 = c3
  c4 = c4
  d1 = d1
  d2 = d2
  None = None
  Conns = {c1, c2, c3, c4}
  Dpids = {d1, d2}
  MinId = 0
  MaxId = 1
  OverlappingConnections = TRUE
SPECIFICATION Spec
SYMMETRY Symmetry
CONSTRAINT QueuedAfterStale
INVARIANTS TypeOK UniqueIdsUntilStale IdsAccountedFor LookupSound CrashOnlyWhenFull
PROPERTIES LookupLostOnlyToSharer ImplementsPool
CHECK_DEADLOCK FALSE
