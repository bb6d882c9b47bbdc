------------------------------ MODULE Rewrite -------------------------------
(***************************************************************************)
(* How VirtualSwitch and PhysicalSwitch turn the flow_mod, group_mod and   *)
(* packet_out messages of a controller into messages for the physical      *)
(* switches (virtual_switch.cpp, physical_switch_rewrite.cpp, MetadataTag  *)
(* in tag.cpp), with the tables of the physical switches that they fill.   *)
(*                                                                         *)
(* Every virtual switch of the model is connected and registered, so its   *)
(* output groups exist; that they deliver to their ports is what module    *)
(* FlowRules is about.  The switches handle a controller's message at once *)
(* (no packet comes between the messages it becomes).  Metadata is cut     *)
(* into its bit fields: bit and vs are the hypervisor's, user is what is   *)
(* left of the controller's, high what the shift by 14 would lose; a match *)
(* without a mask looks at all of them.                                    *)
(***************************************************************************)
EXTENDS OpenFlow, FiniteSets

CONSTANTS
  VSwitches,  \* the ids of the virtual switches
  Dependent,  \* dependent_switches of each, in the order of the hash map
  PortMap,    \* port_map: PortMap[v][s][virtual port] is the port of s
  OutputId,   \* OutputId[s][v][port]: the output groups and the flood group
  FirstId,    \* FirstId[s]: the first group id that registering left free
  Tables,     \* the virtual tables, ascending
  FlowMods, GroupMods, PacketOuts  \* what the controllers may send

Switches   == UNION {ToSet(Dependent[v]) : v \in VSwitches}
PortsOf    == [v \in VSwitches |-> UNION {DOMAIN PortMap[v][s] :
                                            s \in ToSet(Dependent[v])}]
Controller == 253
Flood      == 251

\* A virtual switch has switches, each of them once, and numbered ports
ASSUME PortAssumption ==
  \A v \in VSwitches :
    /\ Dependent[v] \in Seq(Switches) \ {<<>>} /\ IsInjective(Dependent[v])
    /\ IsFiniteSet(PortsOf[v])
    /\ \A s \in ToSet(Dependent[v]) :
         DOMAIN PortMap[v][s] \cup Range(PortMap[v][s]) \subseteq Nat

\* What registering sets up: an output group for each port and one to flood,
\* with ids of their own, which come before those of the controllers
ASSUME RewriteAssumption ==
  \A v \in VSwitches : \A s \in ToSet(Dependent[v]) :
    /\ FirstId[s] \in Nat \ {0}
    /\ DOMAIN OutputId[s][v] = PortsOf[v] \cup {Flood}
    /\ \A w \in VSwitches : s \in ToSet(Dependent[w]) =>
         \A p \in DOMAIN OutputId[s][v], q \in DOMAIN OutputId[s][w] :
           /\ OutputId[s][v][p] \in 1..(FirstId[s] - 1)
           /\ OutputId[s][v][p] = OutputId[s][w][q] => v = w /\ p = q

Action    == {NoAction} \cup [kind : {"output", "group"}, id : Nat]
ActionSet == {set \in [output : Action, group : Action] :
                set.output.kind # "group" /\ set.group.kind # "output"}

Metadata  == [{} -> Nat] \cup [{"user"} -> Nat]
               \cup [{"high"} -> Nat] \cup [{"user", "high"} -> Nat]
Entries   == [table : 0..255, prio : Nat, in : Nat \cup {AnyPort},
              meta : Metadata, apply : Action, clear : BOOLEAN,
              write : ActionSet, wmeta : Metadata, goto : Nat \cup {NoTable}]

\* A controller is told of 2 tables less than the 255 that a switch may have
ASSUME MessageAssumption ==
  /\ ToSet(Tables) \subseteq 0..252
  /\ \A v \in VSwitches :
       /\ \A m \in FlowMods[v] :
            /\ m.entry \in Entries
            /\ m.command \in {"add", "modify", "delete"}
       /\ \A m \in GroupMods[v] :
            m.group \in Nat /\ m.buckets \in Seq(ActionSet)
       /\ PacketOuts[v] \subseteq Action

VARIABLES
  device,        \* the flow entries and groups of the physical switches
  group_id_map,  \* rewrite_map[v].group_id_map of each switch
  next_id        \* the next id of group_id_allocator of each switch
vars == <<device, group_id_map, next_id>>

\* The groups that registering leaves in a switch: group 0 leads to the
\* hypervisor, and the flood group to every port of its virtual switch
GroupOf(s, v, port) ==
  IF port = Flood
  THEN SetToSeq({[NoActions EXCEPT !.group = Group(OutputId[s][v][p])] :
                   p \in PortsOf[v]})
  ELSE <<[NoActions EXCEPT !.output = Output(<<v, port>>)]>>

\* The output groups of a switch, by virtual switch and port
Tenants(s) == {v \in VSwitches : s \in ToSet(Dependent[v])}
Outputs(s) == UNION {{<<v, p>> : p \in DOMAIN OutputId[s][v]} : v \in Tenants(s)}

\* The group ids that the hypervisor uses for itself on a switch
Reserved(s) == {0} \cup {OutputId[s][o[1]][o[2]] : o \in Outputs(s)}

Registered(s) ==
  [g \in Reserved(s) |->
     IF g = 0 THEN <<[NoActions EXCEPT !.output = Output(<<0, Controller>>)]>>
     ELSE LET o == CHOOSE x \in Outputs(s) : OutputId[s][x[1]][x[2]] = g
          IN GroupOf(s, o[1], o[2])]

Init ==
  /\ device = [s \in Switches |-> [flows |-> {}, groups |-> Registered(s)]]
  /\ group_id_map = [s \in Switches |-> [v \in VSwitches |-> <<>>]]
  /\ next_id = FirstId

-----------------------------------------------------------------------------
\* physical_switch_rewrite.cpp

\* The output groups exist for the ports of the virtual switch only
UnknownOutput(v, a) ==
  a.kind = "output" /\ a.id \notin PortsOf[v] \cup {Controller, Flood}

\* Actions are rewritten in order; nothing after an unknown output is looked at
Refused(v, actions) == \E a \in ToSet(actions) : UnknownOutput(v, a)

\* The groups that are looked at, with the place where each is named first
GroupsAsked(v, actions) ==
  LET seen == {n \in DOMAIN actions :
                 \A o \in 1..n : ~ UnknownOutput(v, actions[o])}
  IN [g \in GroupsIn({actions[n] : n \in seen}) |->
        Min({n \in seen : actions[n].kind = "group" /\ actions[n].id = g})]

\* A seeded bug: a message takes one id from the allocator however many it uses
WithIdsTakesOne(map, next, groups) ==
  LET fresh == DOMAIN groups \ DOMAIN map
  IN [map  |-> [g \in DOMAIN map \cup fresh |->
                  IF g \in DOMAIN map THEN map[g]
                  ELSE next + Cardinality({h \in fresh : groups[h] < groups[g]})],
      next |-> next + 1]

\* get_rewritten_group_id for each of the groups: new ids in their order
WithIds(map, next, groups) ==
  LET fresh == DOMAIN groups \ DOMAIN map
  IN [map  |-> [g \in DOMAIN map \cup fresh |->
                  IF g \in DOMAIN map THEN map[g]
                  ELSE next + Cardinality({h \in fresh : groups[h] < groups[g]})],
      next |-> next + Cardinality(fresh)]

\* The maps and allocators after a message whose actions were rewritten for
\* the switches given
AskIds(v, switches, groups) ==
  LET new(s) == WithIds(group_id_map[s][v], next_id[s], groups)
  IN /\ group_id_map' =
          [s \in Switches |-> [w \in VSwitches |->
             IF s \in switches /\ w = v THEN new(s).map
             ELSE group_id_map[s][w]]]
     /\ next_id' = [s \in Switches |->
                      IF s \in switches THEN new(s).next ELSE next_id[s]]

\* A seeded bug: the id that the controller gave its group is kept
RewriteActionKeepsGroup(s, v, map, a) ==
  IF a.kind = "output"
  THEN Group(IF a.id = Controller THEN 0 ELSE OutputId[s][v][a.id])
  ELSE a

\* One action of a list or set: an output becomes a group action
RewriteAction(s, v, map, a) ==
  IF a.kind = "output"
  THEN Group(IF a.id = Controller THEN 0 ELSE OutputId[s][v][a.id])
  ELSE IF a.kind = "group" THEN Group(map[a.id])
  ELSE NoAction

HasGroup(set) == set.group # NoAction

\* rewrite_action_set: the set with the output and the one without it
SetWithOutput(s, v, map, set) ==
  [NoActions EXCEPT !.group = RewriteAction(s, v, map, set.output)]
SetWithoutOutput(s, v, map, set) ==
  [NoActions EXCEPT !.group = RewriteAction(s, v, map, set.group)]

\* MetadataTag::add_to_match: the hypervisor's fields beside those of the match
AddToMatch(bit, v, meta) ==
  [x \in {"bit", "vs"} \cup DOMAIN meta |->
     IF x = "bit" THEN bit ELSE IF x = "vs" THEN v ELSE meta[x]]

\* The group bit is written beside the controller's metadata
WithBit(bit, wmeta) ==
  [x \in {"bit"} \cup DOMAIN wmeta |-> IF x = "bit" THEN bit ELSE wmeta[x]]

\* Seeded bug: the outputs are pushed next to a group, too
CopyAlwaysOutputs(s, v, map, m, in, bit) ==
  [table |-> (m.table + 2) % 256,
   prio  |-> m.prio,
   in    |-> in,
   meta  |-> AddToMatch(bit, v, m.meta),
   apply |-> RewriteAction(s, v, map, m.apply),
   clear |-> m.clear,
   write |-> IF ~ HasGroup(m.write)
             THEN SetWithOutput(s, v, map, m.write)
             ELSE SetWithoutOutput(s, v, map, m.write),
   wmeta |-> IF HasGroup(m.write) THEN WithBit(1, m.wmeta)
             ELSE IF m.clear THEN WithBit(0, m.wmeta) ELSE m.wmeta,
   goto  |-> IF m.goto = NoTable THEN NoTable ELSE (m.goto + 2) % 256]

\* rewrite_instruction_set, and the match and table of the copy for packets
\* whose group bit is as given.  The bit follows whether the action set holds a
\* group; while it does, writing an output must not replace that group.
Copy(s, v, map, m, in, bit) ==
  [table |-> (m.table + 2) % 256,
   prio  |-> m.prio,
   in    |-> in,
   meta  |-> AddToMatch(bit, v, m.meta),
   apply |-> RewriteAction(s, v, map, m.apply),
   clear |-> m.clear,
   write |-> IF bit = 0 /\ ~ HasGroup(m.write)
             THEN SetWithOutput(s, v, map, m.write)
             ELSE SetWithoutOutput(s, v, map, m.write),
   wmeta |-> IF HasGroup(m.write) THEN WithBit(1, m.wmeta)
             ELSE IF m.clear THEN WithBit(0, m.wmeta) ELSE m.wmeta,
   goto  |-> IF m.goto = NoTable THEN NoTable ELSE (m.goto + 2) % 256]

\* Packets from the port, or from any, come in on switch s
OnSwitch(v, s, port) == port \in {AnyPort} \cup DOMAIN PortMap[v][s]
PortAt(v, s, port)   == IF port = AnyPort THEN AnyPort ELSE PortMap[v][s][port]

\* rewrite_match, for one switch after the other: where the message is pushed,
\* and with which in_port.  The rewritten match is put back into the message,
\* so the next switch starts from the port of the one before.
MatchPorts(v, port) ==
  LET switches == Dependent[v]
      in[n \in 0..Len(switches)] ==
        IF n = 0 THEN port
        ELSE IF OnSwitch(v, switches[n], in[n - 1])
        THEN PortAt(v, switches[n], in[n - 1]) ELSE in[n - 1]
      met == {n \in DOMAIN switches : OnSwitch(v, switches[n], in[n - 1])}
  IN [s \in {switches[n] : n \in met} |->
        in[CHOOSE n \in met : switches[n] = s]]

-----------------------------------------------------------------------------
\* virtual_switch.cpp

\* Where a message that is refused stops: at the first switch it is meant for
FirstOf(v, switches) ==
  LET i == SelectInSeq(Dependent[v], LAMBDA s : s \in switches)
  IN IF i = 0 THEN {} ELSE {Dependent[v][i]}

HandleFlowMod(v, command, m) ==
  LET ports   == MatchPorts(v, m.in)
      pushed  == DOMAIN ports
      actions == <<m.apply, m.write.group, m.write.output>>
      groups  == GroupsAsked(v, actions)
  IN IF "high" \in DOMAIN m.meta
     THEN UNCHANGED vars
     ELSE IF Refused(v, actions) \/ "high" \in DOMAIN m.wmeta
     THEN AskIds(v, FirstOf(v, pushed), groups) /\ UNCHANGED device
     ELSE /\ AskIds(v, pushed, groups)
          /\ device' =
               [s \in Switches |->
                  IF s \notin pushed THEN device[s]
                  ELSE LET map == group_id_map'[s][v]
                       IN FlowMod(FlowMod(device[s], command,
                                          Copy(s, v, map, m, ports[s], 0)),
                                  command, Copy(s, v, map, m, ports[s], 1))]

\* What is rewritten for a group_mod: its group, then each bucket
ActionsOf(g, buckets) ==
  [n \in 1..(2 * Len(buckets) + 1) |->
     IF n = 1 THEN Group(g)
     ELSE IF n % 2 = 0 THEN buckets[n \div 2].group
     ELSE buckets[n \div 2].output]

HandleGroupMod(v, command, g, buckets) ==
  LET switches == ToSet(Dependent[v])
      actions  == ActionsOf(g, buckets)
      groups   == GroupsAsked(v, actions)
  IN IF Refused(v, actions)
     THEN AskIds(v, FirstOf(v, switches), groups) /\ UNCHANGED device
     ELSE /\ AskIds(v, switches, groups)
          /\ device' =
               [s \in Switches |->
                  IF s \notin switches THEN device[s]
                  ELSE LET map == group_id_map'[s][v]
                       IN GroupMod(device[s], command, map[g],
                            [i \in DOMAIN buckets |->
                               IF HasGroup(buckets[i])
                               THEN SetWithoutOutput(s, v, map, buckets[i])
                               ELSE SetWithOutput(s, v, map, buckets[i])])]

\* The switch to send a packet_out to: the one with its in_port.  A port that
\* the virtual switch does not have makes port_to_dependent_switch.at throw.
PacketOutSwitch(v, port) ==
  IF port = Controller THEN Dependent[v][1]
  ELSE CHOOSE s \in ToSet(Dependent[v]) : port \in DOMAIN PortMap[v][s]

HandlePacketOut(v, port, action) ==
  /\ AskIds(v, {PacketOutSwitch(v, port)}, GroupsAsked(v, <<action>>))
  /\ UNCHANGED device

\* The other map of each port_map, from physical to virtual ports
PortOf ==
  [v \in VSwitches |->
     [s \in ToSet(Dependent[v]) |-> AntiFunction(PortMap[v][s])]]

\* handle_packet_in: a packet that the tenants' tables send up goes to the
\* virtual switch in its metadata, from the virtual port it came in on
HandlePacketIn(s, p) ==
  <<p.meta.vs, Controller, PortOf[p.meta.vs][s][p.in]>>

Next ==
  \E v \in VSwitches :
    \/ \E m \in FlowMods[v] : HandleFlowMod(v, m.command, m.entry)
    \/ \E m \in GroupMods[v] :
         HandleGroupMod(v, m.command, m.group, m.buckets)
    \/ \E port \in PortsOf[v] \cup {Controller}, a \in PacketOuts[v] :
         HandlePacketOut(v, port, a)

Spec == Init /\ [][Next]_vars

-----------------------------------------------------------------------------
\* The tables that the controllers see

\* The ports behind the output groups
OutputOf ==
  [s \in Switches |-> [v \in Tenants(s) |-> AntiFunction(OutputId[s][v])]]

\* The action that one of v's physical group actions stands for.  An id that
\* is not v's would show as port 0, which no controller names.
Original(s, v, map, a) ==
  IF a.kind # "group" THEN a
  ELSE IF a.id = 0 THEN Output(Controller)
  ELSE IF a.id \in DOMAIN OutputOf[s][v] THEN Output(OutputOf[s][v][a.id])
  ELSE LET groups == {g \in DOMAIN map : map[g] = a.id}
       IN IF groups = {} THEN Output(0)
          ELSE Group(CHOOSE g \in groups : TRUE)

OriginalSet(s, v, map, set) ==
  LET a == Original(s, v, map, set.group)
  IN IF a.kind = "group" THEN [NoActions EXCEPT !.group = a]
     ELSE [NoActions EXCEPT !.output = a]

UserFields(meta) == [x \in DOMAIN meta \ {"bit", "vs"} |-> meta[x]]

\* The entry of v's controller that a copy for packets without a group, on
\* switch s, comes from
OriginalEntry(s, v, map, f) ==
  [table |-> (f.table - 2) % 256,
   prio  |-> f.prio,
   in    |-> IF f.in = AnyPort THEN AnyPort ELSE PortOf[v][s][f.in],
   meta  |-> UserFields(f.meta),
   apply |-> Original(s, v, map, f.apply),
   clear |-> f.clear,
   write |-> OriginalSet(s, v, map, f.write),
   wmeta |-> UserFields(f.wmeta),
   goto  |-> IF f.goto = NoTable THEN NoTable ELSE (f.goto - 2) % 256]

\* What v's controller would recognise of the entries and groups that are in
\* the tables d of switch s
FlowsSeen(s, v, map, d) ==
  {OriginalEntry(s, v, map, f) :
     f \in {x \in d.flows : x.meta.vs = v /\ x.meta.bit = 0}}

GroupsThere(map, d) == {g \in DOMAIN map : map[g] \in DOMAIN d.groups}
GroupsSeen(s, v, map, d) ==
  [g \in GroupsThere(map, d) |->
     [i \in DOMAIN d.groups[map[g]] |->
        OriginalSet(s, v, map, d.groups[map[g]][i])]]

FlowsAt(s, v)  == FlowsSeen(s, v, group_id_map[s][v], device[s])
GroupsAt(s, v) == GroupsSeen(s, v, group_id_map[s][v], device[s])

\* An entry is there when every switch has it on which a packet may meet it
FlowsOf(v) ==
  LET at == {<<s, FlowsAt(s, v)>> : s \in ToSet(Dependent[v])}
  IN {f \in UNION {a[2] : a \in at} :
        \A a \in at : OnSwitch(v, a[1], f.in) => f \in a[2]}

\* A group is there when every switch has it
GroupsOf(v) ==
  LET there(s) == GroupsThere(group_id_map[s][v], device[s])
      first    == Dependent[v][1]
  IN [g \in {h \in there(first) :
               \A s \in ToSet(Dependent[v]) : h \in there(s)} |->
        GroupsAt(first, v)[g]]

Virtual == INSTANCE VirtualTable
  WITH switch <- [v \in VSwitches |-> [flows |-> FlowsOf(v),
                                       groups |-> GroupsOf(v)]]

-----------------------------------------------------------------------------
\* Properties

\* The hypervisor's ids and the switches' entries keep to their ranges: no
\* group id is given twice on a switch, every tenant entry is in a tenant table
\* and every entry has its other copy.
TypeOK ==
  \A s \in Switches :
    /\ \A v \in VSwitches : \A g \in DOMAIN group_id_map[s][v] :
         /\ group_id_map[s][v][g] \in FirstId[s]..(next_id[s] - 1)
         /\ \A w \in VSwitches : \A h \in DOMAIN group_id_map[s][w] :
              group_id_map[s][v][g] = group_id_map[s][w][h] => v = w /\ g = h
    /\ \A f \in device[s].flows :
         /\ f.table \in {t + 2 : t \in ToSet(Tables)}
         /\ \E h \in device[s].flows :
              /\ h.meta = AddToMatch(1 - f.meta.bit, f.meta.vs, f.meta)
              /\ <<h.table, h.prio, h.in>> = <<f.table, f.prio, f.in>>

\* What the messages of the controllers make of the physical tables is, for
\* each virtual switch, an OpenFlow switch of its own: a message changes the
\* entries and groups of its sender as it would there, on all switches, and
\* those of nobody else.
ImplementsVirtualTable == Virtual!Spec

\* Controllers add entries to tables that they were told of.  Nothing in the
\* code sees to it: an entry for table 254 or 255 wraps into the tables of the
\* hypervisor.
AddsTold ==
  \A v \in VSwitches : \A m \in FlowMods[v] :
    m.command = "add" => m.entry.table \in ToSet(Tables)

\* It does so for messages that name tables of the virtual switch only (table
\* 253 would become the one that stands for all) and as long as the numbers of
\* the ports do not meet: no physical port is two virtual ones, and a virtual
\* port that a message names is on one switch, where its physical number is not
\* a virtual port of another.
TablesNamed ==
  \A v \in VSwitches : \A m \in FlowMods[v] :
    /\ m.entry.table \in ToSet(Tables)
    /\ m.entry.goto \in ToSet(Tables) \cup {NoTable}

NumbersApart ==
  \A v \in VSwitches : \A s \in ToSet(Dependent[v]) :
    /\ IsInjective(PortMap[v][s])
    /\ \A m \in FlowMods[v] : \A t \in ToSet(Dependent[v]) \ {s} :
         m.entry.in \in DOMAIN PortMap[v][s] =>
           {m.entry.in, PortMap[v][s][m.entry.in]} \cap DOMAIN PortMap[v][t] = {}

\* A packet of v that the hypervisor's tables hand to the tenants' tables
Arriving(s, v, port) ==
  [table |-> 2, in |-> PortMap[v][s][port],
   meta |-> [bit |-> 0, vs |-> v, user |-> 0], set |-> NoActions, sent |-> {}]

\* The ports of a virtual switch that such a packet may reach, or its controller
Forwarding(s, v, port) ==
  LET tables == [i \in DOMAIN Tables |-> Tables[i] + 2]
  IN {{IF out = <<0, Controller>> THEN HandlePacketIn(s, p) ELSE out :
         out \in p.sent} :
        p \in Outcomes(device[s], tables, Arriving(s, v, port))}

\* A packet that arrives at a port of a virtual switch goes where the entries
\* and groups of its controller send it, or to that controller, whatever
\* physical switch the port is on and whatever the other tenants have put
\* there: outputs that became groups, the two copies with the group bit and the
\* rewritten ids do not show.
SameForwarding ==
  \A v \in VSwitches : \A s \in ToSet(Dependent[v]) :
    \A port \in DOMAIN PortMap[v][s] :
      Forwarding(s, v, port) =
        {{IF p = Controller THEN <<v, Controller, port>> ELSE <<v, p>> : p \in ps} :
           ps \in Virtual!Forwarding(v, Tables, port)}

\* An entry of v on a physical switch is one that v's controller sent for a port
\* of that switch or for all ports, not another entry that matches on the port
\* number of a different switch: handle_flow_mod says of a message for a port
\* elsewhere "it can never trigger on this switch, so don't push it to the
\* physical switch".
EntriesAreSent ==
  \A v \in VSwitches : \A s \in ToSet(Dependent[v]) :
    \A f \in FlowsAt(s, v) :
      \E m \in FlowMods[v] : SameEntry(m.entry, f)
=============================================================================
