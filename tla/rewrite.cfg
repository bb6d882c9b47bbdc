CONSTANTS
  sw_a = sw_a
  sw_b = sw_b
  VSwitches = {1, 2}
  Dependent <- SwitchesOf
  PortMap <- Ports
  OutputId <- Ids
  FirstId <- First
  Tables <- TableList
  FlowMods <- Messages
  GroupMods <- Groups
  PacketOuts <- Packets
SPECIFICATION Spec
INVARIANTS TypeOK SameForwarding
PROPERTY ImplementsVirtualTable
