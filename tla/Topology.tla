------------------------------ MODULE Topology ------------------------------
(***************************************************************************)
(* Topology discovery (physical_switch_topology.cpp, discoveredlink.cpp):  *)
(* every switch is told to send a packet with its id and port number over  *)
(* each of its ports in turn; the switch at the other end of the cable     *)
(* hands it to the hypervisor, which creates a DiscoveredLink, stores it   *)
(* at the ports of both ends and starts its liveness timer.  Later packets *)
(* only restart the timer.                                                 *)
(*                                                                         *)
(* An end is a port of a switch, a switch is its id in the hypervisor: a   *)
(* switch that connects after another one stopped may get the same id.     *)
(* Handlers are atomic; what one switch sends is handled in order, and a   *)
(* timer that expired is queued behind whatever else is ready.  Closing    *)
(* the socket does not take back a read or write that completed: its       *)
(* handler still runs, on a switch that has stopped.  Timers of a stopped  *)
(* switch are left out: all they can do is send on its closed socket.      *)
(***************************************************************************)
EXTENDS Integers, Sequences, FiniteSets

CONSTANTS
  Switches,    \* ids of physical switches
  Ends,        \* ports of all switches
  SwitchOf,    \* SwitchOf[e]: the switch end e is a port of
  Cables,      \* the pairs of ends a cable can join
  MaxLinks,    \* bound on the DiscoveredLinks that exist at a time
  MaxInbox,    \* bound on the messages a switch has waiting when it sends
               \* one about its ports
  MaxLate      \* bound on the completions of stopped switches that wait and
               \* the links such switches found, when a switch stops

ASSUME TopologyAssumption ==
  /\ SwitchOf \in [Ends -> Switches]
  /\ \A c \in Cables : c \in SUBSET Ends /\ Cardinality(c) = 2
  /\ MaxLinks \in Nat
  /\ MaxInbox \in Nat
  /\ MaxLate \in Nat

VARIABLES
  wiring,    \* the cables that are plugged in
  present,   \* the ports the switches have
  up,        \* the switches in Hypervisor::physical_switches
  reported,  \* those that answered the port description request
  inbox,     \* what a switch sent and is not handled yet
  late,      \* what completed before the switch stopped and is not handled
             \* yet, of the read and the write that did not stop it
  ports,     \* the ports in PhysicalSwitch::ports
  link,      \* Port::link of each of them
  links,     \* the DiscoveredLink objects, a function on their numbers
  fault      \* the undefined behaviour the process ran into, or "none"

vars ==
  <<wiring, present, up, reported, inbox, late, ports, link, links, fault>>

NoLink  == 0
LinkIds == 1 .. MaxLinks

PortsOf(s) == {e \in Ends : SwitchOf[e] = s}

Messages ==
  [kind : {"port_desc"}, ports : SUBSET Ends]
    \cup [kind : {"port_added", "port_deleted"}, port : Ends]
    \cup [kind : {"packet_in"}, port : Ends, from : Ends]

\* A packet that was read: known tells whether its port was in the ports of
\* the switch that stopped, described (which models no code) whether its port
\* description had been handled.  Other messages change only the ports of the
\* switch that stopped, as good as none.
NoCompletion == [kind |-> "none"]

Completions ==
  [kind : {"none", "error"}]
    \cup [kind : {"packet_in"}, port : Ends, from : Ends,
          known : BOOLEAN, described : BOOLEAN]

\* one: where the first packet arrived; other: the port it names
DiscoveredLink ==
  [one : Ends, other : Ends,
   late : BOOLEAN,     \* found by a switch that had stopped (models no code)
   armed : BOOLEAN,    \* liveness_timer is waiting
   fired : BOOLEAN]    \* timeout is queued

TypeOK ==
  /\ wiring \subseteq Cables
  /\ \A c, d \in wiring : c = d \/ c \cap d = {}
  /\ present \subseteq Ends
  /\ reported \subseteq up /\ up \subseteq Switches
  /\ inbox \in [Switches -> Seq(Messages)]
  /\ late \in [Switches -> Completions]
  /\ ports \subseteq {e \in Ends : SwitchOf[e] \in up}
  /\ link \in [Ends -> LinkIds \cup {NoLink}]
  /\ DOMAIN links \subseteq LinkIds
  /\ \A l \in DOMAIN links : links[l] \in DiscoveredLink
  /\ \A e \in Ends : link[e] # NoLink => e \in ports /\ link[e] \in DOMAIN links
  /\ fault \in {"none", "in_port", "modulo", "second_stop"}

Init ==
  /\ wiring = {}
  /\ present = Ends
  /\ up = {}
  /\ reported = {}
  /\ inbox = [s \in Switches |-> << >>]
  /\ late = [s \in Switches |-> NoCompletion]
  /\ ports = {}
  /\ link = [e \in Ends |-> NoLink]
  /\ links = << >>
  /\ fault = "none"

-----------------------------------------------------------------------------
\* Parts of handlers

\* get_port_number, as a port of s: the first end if s is its switch, and
\* otherwise the second
PortAt(d, s) == IF SwitchOf[d.one] = s THEN d.one ELSE d.other

\* A seeded bug: only the end that saw the first packet is reset
ResetPortsOneEnd(d) ==
  {PortAt(d, s) : s \in {SwitchOf[d.one]} \cap up} \cap ports

\* The ports DiscoveredLink::stop asks reset_link for, of those that exist
ResetPorts(d) ==
  {PortAt(d, s) : s \in {SwitchOf[d.one], SwitchOf[d.other]} \cap up} \cap ports

Clear(lk, ends) == [e \in Ends |-> IF e \in ends THEN NoLink ELSE lk[e]]

\* A DiscoveredLink lives while a port or a handler of its timer points to it
Store(lk, ls) ==
  LET alive == {l \in DOMAIN ls : \/ ls[l].armed \/ ls[l].fired
                                  \/ \E e \in Ends : lk[e] = l}
  IN  /\ link' = lk
      /\ links' = [l \in alive |-> ls[l]]

\* cancel does not take back a timeout that is queued
Cancel(ls, stopped) ==
  [l \in DOMAIN ls |-> IF l \in stopped THEN [ls[l] EXCEPT !.armed = FALSE]
                                        ELSE ls[l]]

\* DiscoveredLink::stop of every link in stopped; gone are ports that are
\* erased right after
StopLinks(stopped, gone) ==
  Store(Clear(link, gone \cup UNION {ResetPorts(links[l]) : l \in stopped}),
        Cancel(links, stopped))

\* The links Port::link of some ports point to
LinksAt(ends) == {link[e] : e \in ends} \ {NoLink}

-----------------------------------------------------------------------------
\* The network

Plug(c) ==
  /\ \A d \in wiring : c \cap d = {}
  /\ wiring' = wiring \cup {c}
  /\ UNCHANGED <<present, up, reported, inbox, late, ports, link, links, fault>>

Cut(c) ==
  /\ c \in wiring
  /\ wiring' = wiring \ {c}
  /\ UNCHANGED <<present, up, reported, inbox, late, ports, link, links, fault>>

Room(s) == Len(inbox[s]) < MaxInbox

Sends(s, m) == inbox' = [inbox EXCEPT ![s] = Append(@, m)]

\* A switch that is connected tells about its ports
PortStatus(e, kind) ==
  /\ SwitchOf[e] \in up => Room(SwitchOf[e])
  /\ IF SwitchOf[e] \in up
     THEN Sends(SwitchOf[e], [kind |-> kind, port |-> e])
     ELSE UNCHANGED inbox
  /\ UNCHANGED <<wiring, up, reported, late, ports, link, links, fault>>

PortAppears(e) ==
  /\ e \notin present
  /\ present' = present \cup {e}
  /\ PortStatus(e, "port_added")

PortDisappears(e) ==
  /\ e \in present
  /\ present' = present \ {e}
  /\ PortStatus(e, "port_deleted")

ReportPorts(s) ==
  /\ s \in up \ reported
  /\ Room(s)
  /\ reported' = reported \cup {s}
  /\ Sends(s, [kind |-> "port_desc", ports |-> PortsOf(s) \cap present])
  /\ UNCHANGED <<wiring, present, up, late, ports, link, links, fault>>

\* A discovery packet sent over e would reach f and be handed up from there.
\* Nothing waits for the port description: a switch that was connected
\* before, to this hypervisor or the last, still has the discovery rule.
Delivers(e, f) ==
  /\ e \in ports
  /\ {e, f} \in wiring
  /\ {e, f} \subseteq present
  /\ SwitchOf[f] \in up

Packet(e, f) == [kind |-> "packet_in", port |-> f, from |-> e]

-----------------------------------------------------------------------------
\* Switches and their timers

\* Hypervisor::handle_accept and PhysicalSwitch::start
Connect(s) ==
  /\ s \notin up
  /\ up' = up \cup {s}
  /\ UNCHANGED <<wiring, present, reported, inbox, late, ports, link, links, fault>>

\* send_topology_discovery_message for port e, up to the arrival of the
\* packet at the hypervisor; a packet that does not get there changes nothing.
\* One packet of a port is under way at a time.
SendDiscovery(e) ==
  \E f \in Ends :
    /\ Delivers(e, f)
    /\ \A i \in DOMAIN inbox[SwitchOf[f]] :
         inbox[SwitchOf[f]][i] # Packet(e, f)
    /\ Sends(SwitchOf[f], Packet(e, f))
    /\ UNCHANGED <<wiring, present, up, reported, late, ports, link, links,
                   fault>>

\* With no port the number of ports is a divisor of zero
SendDiscoveryWithoutPorts(s) ==
  /\ s \in up
  /\ PortsOf(s) \cap ports = {}
  /\ fault' = "modulo"
  /\ UNCHANGED <<wiring, present, up, reported, inbox, late, ports, link, links>>

\* The socket is closed: nothing more that arrived is read
DropInput(s) == inbox' = [inbox EXCEPT ![s] = << >>]

\* The port description of the connection is handled
Described(s) ==
  /\ s \in reported
  /\ \A i \in DOMAIN inbox[s] : inbox[s][i].kind # "port_desc"

NextIsPacket(s) == inbox[s] # << >> /\ Head(inbox[s]).kind = "packet_in"

\* The read of packet m completed
ReadOf(s, m) ==
  [kind |-> "packet_in", port |-> m.port, from |-> m.from,
   known |-> m.port \in ports, described |-> Described(s)]

LateRoom ==
  Cardinality({s \in Switches : late[s] # NoCompletion})
    + Cardinality({l \in DOMAIN links : links[l].late}) < MaxLate

\* What can be queued when s stops.  One of its read and its write stops it,
\* the other may have completed: with an error, or with the next message.
Completed(s, c) ==
  \/ c = NoCompletion
  \/ LateRoom /\ c = [kind |-> "error"]
  \/ LateRoom /\ NextIsPacket(s) /\ c = ReadOf(s, Head(inbox[s]))

\* PhysicalSwitch::stop, by the first of its completions that failed
HandleNetworkError(s) ==
  /\ s \in up
  /\ late[s] = NoCompletion
  /\ \E c \in Completions : Completed(s, c) /\ late' = [late EXCEPT ![s] = c]
  /\ StopLinks(LinksAt(PortsOf(s)), PortsOf(s))
  /\ up' = up \ {s}
  /\ reported' = reported \ {s}
  /\ ports' = ports \ PortsOf(s)
  /\ DropInput(s)
  /\ UNCHANGED <<wiring, present, fault>>

\* The liveness timer of link l runs out
Expire(l) ==
  /\ links[l].armed /\ ~links[l].fired
  /\ links' = [links EXCEPT ![l].armed = FALSE, ![l].fired = TRUE]
  /\ UNCHANGED <<wiring, present, up, reported, inbox, late, ports, link, fault>>

\* DiscoveredLink::timeout
HandleTimeout(l) ==
  /\ links[l].fired
  /\ Store(Clear(link, ResetPorts(links[l])),
           [links EXCEPT ![l].armed = FALSE, ![l].fired = FALSE])
  /\ UNCHANGED <<wiring, present, up, reported, inbox, late, ports, fault>>

-----------------------------------------------------------------------------
\* Messages of switches

\* handle_port for every port of a port description
HandlePortDesc(s, m) ==
  /\ m.kind = "port_desc"
  /\ ports' = ports \cup m.ports
  /\ UNCHANGED <<link, links, fault>>

\* A seeded bug: only ports of the port description become known
HandlePortAddedIgnored(s, m) ==
  /\ m.kind = "port_added"
  /\ UNCHANGED <<ports, link, links, fault>>

\* handle_port for a new port; a known one keeps its link
HandlePortAdded(s, m) ==
  /\ m.kind = "port_added"
  /\ ports' = ports \cup {m.port}
  /\ UNCHANGED <<link, links, fault>>

HandlePortDeleted(s, m) ==
  /\ m.kind = "port_deleted"
  /\ StopLinks(LinksAt({m.port} \cap ports), {m.port})
  /\ ports' = ports \ {m.port}
  /\ UNCHANGED fault

\* handle_topology_discovery_packet_in on a port that is not in the map
HandlePacketInUnknownPort(s, m) ==
  /\ m.kind = "packet_in"
  /\ m.port \notin ports
  /\ fault' = "in_port"
  /\ UNCHANGED <<ports, link, links>>

\* ... on a port that has a link, whichever port the packet names
HandlePacketInRefresh(s, m) ==
  /\ m.kind = "packet_in"
  /\ m.port \in ports
  /\ link[m.port] # NoLink
  /\ links' = [links EXCEPT ![link[m.port]].armed = TRUE]
  /\ UNCHANGED <<ports, link, fault>>

\* A seeded bug: the timer is not started
DiscoveredUntimed(m) ==
  [one |-> m.port, other |-> m.from, late |-> FALSE,
   armed |-> FALSE, fired |-> FALSE]

\* The link a packet is about, with its timer running
Discovered(m) ==
  [one |-> m.port, other |-> m.from, late |-> FALSE,
   armed |-> TRUE, fired |-> FALSE]

\* Seeded bugs: the link is stored at one end only, or at a port that the
\* other switch does not have
AddLinkOneEnd(d, l) == [link EXCEPT ![PortAt(d, SwitchOf[d.one])] = l]
AddLinkUnchecked(d, l) == [link EXCEPT ![d.one] = l, ![d.other] = l]

\* add_link at both switches.  A port the other switch does not have stops
\* the link, which takes it from the first port again.
AddLink(d, l) ==
  IF PortAt(d, SwitchOf[d.other]) \in ports
  THEN [link EXCEPT ![PortAt(d, SwitchOf[d.one])] = l,
                    ![PortAt(d, SwitchOf[d.other])] = l]
  ELSE Clear(link, ResetPorts(d))

\* The new object d is link l; lk tells where add_link leaves it
CreateLink(l, d, lk) ==
  /\ l \notin DOMAIN links
  /\ \A k \in LinkIds \ DOMAIN links : l <= k
  /\ Store(lk, [k \in DOMAIN links \cup {l} |-> IF k = l THEN d ELSE links[k]])

\* ... on a port without a link: a link to a switch that is gone is dropped,
\* every other one starts its timer, even if add_link stopped it
HandlePacketInNewLink(s, m) ==
  /\ m.kind = "packet_in"
  /\ m.port \in ports
  /\ link[m.port] = NoLink
  /\ IF SwitchOf[m.from] \in up
     THEN \E l \in LinkIds :
            CreateLink(l, Discovered(m), AddLink(Discovered(m), l))
     ELSE UNCHANGED <<link, links>>
  /\ UNCHANGED <<ports, fault>>

\* What the loop queued for the stopped switch comes first
HandleMessage(s) ==
  /\ late[s] = NoCompletion
  /\ inbox[s] # << >>
  /\ LET m == Head(inbox[s])
     IN  \/ HandlePortDesc(s, m)
         \/ HandlePortAdded(s, m)
         \/ HandlePortDeleted(s, m)
         \/ HandlePacketInUnknownPort(s, m)
         \/ HandlePacketInRefresh(s, m)
         \/ HandlePacketInNewLink(s, m)
  /\ inbox' = [inbox EXCEPT ![s] = Tail(@)]
  /\ UNCHANGED <<wiring, present, up, reported, late>>

-----------------------------------------------------------------------------
\* Completions of a switch that has stopped

\* The link a stopped switch finds: none of its ports has one any more
DiscoveredLate(m) == [Discovered(m) EXCEPT !.late = TRUE]

\* add_link: at the port of the stopped switch, which nobody looks at any
\* more, and at the other switch
AddLinkLate(d, l) ==
  LET e == PortAt(d, SwitchOf[d.other])
  IN  IF e \in ports THEN [link EXCEPT ![e] = l] ELSE Clear(link, ResetPorts(d))

\* handle_topology_discovery_packet_in
HandleLatePacket(s) ==
  /\ late[s].kind = "packet_in"
  /\ IF ~late[s].known
     THEN fault' = "in_port" /\ UNCHANGED <<link, links>>
     ELSE /\ IF SwitchOf[late[s].from] \in up
             THEN LET d == DiscoveredLate(late[s])
                  IN  \E l \in LinkIds : CreateLink(l, d, AddLinkLate(d, l))
             ELSE UNCHANGED <<link, links>>
          /\ UNCHANGED fault

\* handle_network_error: the switch is stopped once more.  Its ports have no
\* links then; but a switch that has its id by now is erased from the map,
\* still connected, and the model ends (what becomes of ids is in Registry).
HandleLateError(s) ==
  /\ late[s].kind = "error"
  /\ fault' = IF s \in up THEN "second_stop" ELSE fault
  /\ UNCHANGED <<link, links>>

HandleLate(s) ==
  /\ HandleLatePacket(s) \/ HandleLateError(s)
  /\ late' = [late EXCEPT ![s] = NoCompletion]
  /\ UNCHANGED <<wiring, present, up, reported, inbox, ports>>

-----------------------------------------------------------------------------
NetworkStep ==
  \/ \E c \in Cables : Plug(c) \/ Cut(c)
  \/ \E e \in Ends : PortAppears(e) \/ PortDisappears(e)
  \/ \E s \in Switches : ReportPorts(s)

HypervisorStep ==
  \/ \E s \in Switches : \/ Connect(s) \/ HandleNetworkError(s)
                         \/ HandleMessage(s) \/ HandleLate(s)
                         \/ SendDiscoveryWithoutPorts(s)
  \/ \E e \in Ends : SendDiscovery(e)
  \/ \E l \in DOMAIN links : Expire(l) \/ HandleTimeout(l)

Next == fault = "none" /\ (NetworkStep \/ HypervisorStep)

Spec == Init /\ [][Next]_vars

\* No port that holds link l can get a packet, so nothing restarts its timer
Unrefreshed(l) ==
  \A e \in Ends : link[e] = l => \A f \in Ends : ~Delivers(f, e)

\* The loop runs its handlers, ports take their turns and packets arrive, and
\* a timer that nothing restarts runs out
Fairness ==
  /\ \A s \in Switches : /\ WF_vars(fault = "none" /\ HandleMessage(s))
                         /\ WF_vars(fault = "none" /\ HandleLate(s))
  /\ \A e \in Ends : WF_vars(fault = "none" /\ SendDiscovery(e))
  /\ \A l \in LinkIds :
       /\ WF_vars(/\ fault = "none" /\ l \in DOMAIN links
                  /\ Unrefreshed(l) /\ Expire(l))
       /\ WF_vars(fault = "none" /\ l \in DOMAIN links /\ HandleTimeout(l))

FairSpec == Spec /\ Fairness

-----------------------------------------------------------------------------
\* Properties

Holders(l) == {e \in Ends : link[e] = l}

OneCablePerEnd  == \A c, d \in Cables : c = d \/ c \cap d = {}
BetweenSwitches == \A c \in Cables : \A e, f \in c :
                     SwitchOf[e] = SwitchOf[f] => e = f

\* A link is stored at both its ports or at none, unless a switch that had
\* stopped found it: then at most the other switch has it.  Routes are
\* computed from the links of each switch by itself (reset_distances), so a
\* link only one end has is a route into a switch with no way back.  It is at
\* stake when links are found from either end, time out, and ports and
\* switches of one end go and come back while packets, completions and
\* timeouts of old links are queued, or while a late link is in their place.
\* An end can have one cable only here (a moved cable overwrites links) and a
\* cable joins two switches: of two ports of one switch get_port_number only
\* ever names the first.
BothEnds ==
  OneCablePerEnd /\ BetweenSwitches =>
     \A l \in DOMAIN links :
       IF links[l].late THEN Holders(l) \subseteq {links[l].other}
       ELSE Holders(l) \in {{}, {links[l].one, links[l].other}}

\* The same of every link.  It fails of what a stopped switch finds.
EveryLinkAtBothEnds ==
  \A l \in DOMAIN links :
    Holders(l) \in {{}, {links[l].one, links[l].other}}

\* A link that some port holds has its timer running or its timeout queued:
\* otherwise it would never be removed, whatever happens to its cable.
HeldLinksAreTimed ==
  \A l \in DOMAIN links : Holders(l) # {} => links[l].armed \/ links[l].fired

\* Once the port description of a connection is handled, its next packet
\* arrived at a port the switch knows: messages about ports come in the order
\* of what they tell about.  So it is with a packet that is handled after the
\* switch stopped, which finds the ports as they were.
UnknownPortOnlyAtStart ==
  /\ \A s \in up :
       Described(s) /\ NextIsPacket(s) => Head(inbox[s]).port \in ports
  /\ \A s \in Switches :
       late[s].kind = "packet_in" /\ late[s].described => late[s].known

\* A link times out because it is dead: what a timeout removes from a port
\* is the link that timed out ("called when a discovered link times out")
TimeoutRemovesItsOwnLink ==
  [][\A l \in DOMAIN links : HandleTimeout(l) =>
       \A e \in Ends : link'[e] # link[e] => link[e] = l]_vars

\* A port whose cable stays away loses its link (or the process died)
DeadLinksGo ==
  \A e \in Ends :
    <>[](\A f \in Ends : {e, f} \notin wiring)
      => <>[](link[e] = NoLink \/ fault # "none")

Usable(c) ==
  /\ c \in wiring /\ c \subseteq present /\ c \subseteq ports
  /\ fault = "none"

FoundLink(c) ==
  \E l \in DOMAIN links : /\ {links[l].one, links[l].other} = c
                          /\ Holders(l) = c

\* A cable between two known ports that stays is found, and found again
\* after whatever removes its link
LinksAreFound == \A c \in Cables : <>[]Usable(c) => []<>FoundLink(c)
=============================================================================
