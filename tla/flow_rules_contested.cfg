CONSTANTS
  sw_a = sw_a
  sw_b = sw_b
  sw_c = sw_c
  v1 = v1
  v2 = v2
  Switches = {sw_a, sw_b, sw_c}
  Id <- Ids
  Ports <- PortsOf
  Flaky <- FlakyEnds
  Cables <- Triangle
  VSwitches = {v1, v2}
  Slice <- SliceOf
  PortMap <- Map
  GroupsSurvive = FALSE
  MaxGroups = 6
SPECIFICATION Spec
CHECK_DEADLOCK FALSE
INVARIANTS ContestedPortsStayDown
