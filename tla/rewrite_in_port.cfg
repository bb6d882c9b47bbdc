CONSTANTS
  sw_a = sw_a
  sw_b = sw_b
  VSwitches = {1, 2}
  Dependent <- SwitchesOf
  PortMap <- SwappedPorts
  OutputId <- Ids
  FirstId <- First
  Tables <- TableList
  FlowMods <- FromPort1Only
  GroupMods <- Groups
  PacketOuts <- Packets
SPECIFICATION Spec
INVARIANT EntriesAreSent
