CONSTANTS
  s1 = s1
  s2 = s2
  p1 = p1
  p2 = p2
  Switches = {s1, s2}
  Ends = {p1, p2}
  SwitchOf <- Owner
  Cables <- Cable
  MaxLinks = 2
  MaxInbox = 1
  MaxLate = 1
SPECIFICATION Spec
CHECK_DEADLOCK FALSE
PROPERTY TimeoutRemovesItsOwnLink
