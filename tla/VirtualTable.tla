---------------------------- MODULE VirtualTable ----------------------------
(***************************************************************************)
(* What the hypervisor promises the controllers: every virtual switch is   *)
(* an OpenFlow switch of its own, with the flow entries and groups that    *)
(* its controller put there and nothing else.                              *)
(***************************************************************************)
EXTENDS OpenFlow

CONSTANTS VSwitches,  \* the ids of the virtual switches
          PortsOf,    \* the ports of each
          FlowMods,   \* the flow_mod messages its controller may send
          GroupMods   \* and its group_mod messages

VARIABLE switch       \* the flow entries and groups of each virtual switch

Controller == 253     \* OFPP_CONTROLLER
Flood      == 251     \* OFPP_FLOOD

Known(v, actions) ==
  \A a \in actions :
    a.kind = "output" => a.id \in PortsOf[v] \cup {Controller, Flood}

\* The hypervisor keeps the upper bits of the metadata for itself
Supported(v, m) ==
  /\ m.in \in PortsOf[v] \cup {AnyPort}
  /\ "high" \notin DOMAIN m.meta \cup DOMAIN m.wmeta
  /\ Known(v, {m.apply, m.write.output})

\* An output next to a group in one action set is never executed: what removes
\* the group from the set removes it too
Normal(m) ==
  IF m.write.group # NoAction
  THEN [m EXCEPT !.write.output = NoAction] ELSE m

NormalBuckets(buckets) ==
  [i \in DOMAIN buckets |->
     IF buckets[i].group # NoAction
     THEN [buckets[i] EXCEPT !.output = NoAction] ELSE buckets[i]]

Init == switch = [v \in VSwitches |-> [flows |-> {}, groups |-> <<>>]]

\* What a message of the controller of v turns its switch into
AfterFlowMod(v, old) ==
  {FlowMod(old, m.command, Normal(m.entry)) :
     m \in {n \in FlowMods[v] : Supported(v, n.entry)}}

AfterGroupMod(v, old) ==
  {GroupMod(old, m.command, m.group, NormalBuckets(m.buckets)) :
     m \in {n \in GroupMods[v] :
              Known(v, {b.output : b \in ToSet(n.buckets)})}}

\* One switch changes.  (The quantifiers over a single value make TLC evaluate
\* the refinement mapping once for each.)
Next ==
  \E v \in VSwitches : \E old \in {switch[v]}, new \in {switch'[v]} :
    /\ new # old
    /\ new \in AfterFlowMod(v, old) \cup AfterGroupMod(v, old)
    /\ switch' = [switch EXCEPT ![v] = new]

Spec == Init /\ [][Next]_switch

-----------------------------------------------------------------------------
\* FLOOD stands for every port of the virtual switch
Ports(v, sent) ==
  (sent \ {Flood}) \cup (IF Flood \in sent THEN PortsOf[v] ELSE {})

Arriving(port) ==
  [table |-> 0, in |-> port, meta |-> [user |-> 0], set |-> NoActions,
   sent |-> {}]

\* The sets of ports to which a packet that arrives on the port may go
Forwarding(v, tables, port) ==
  {Ports(v, p.sent) : p \in Outcomes(switch[v], tables, Arriving(port))}
=============================================================================
