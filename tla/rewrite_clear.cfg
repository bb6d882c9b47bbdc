CONSTANTS
  sw_a = sw_a
  sw_b = sw_b
  VSwitches = {1, 2}
  Dependent <- SwitchesOf
  PortMap <- Ports
  OutputId <- Ids
  FirstId <- First
  Tables <- TableList
  FlowMods <- ClearsAndWrites
  GroupMods <- Groups
  PacketOuts <- Packets
SPECIFICATION Spec
INVARIANT SameForwarding
