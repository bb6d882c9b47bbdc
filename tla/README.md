# Verification of Delftvisor

Delftvisor is a hypervisor for OpenFlow 1.3 networks. Physical switches connect
to it as if it were their controller; it connects, once per virtual switch, to
the controllers of its tenants (slices) as if it were a switch. This directory
holds TLA+ modules of its core, TLC configurations that check them on small
instances, and proofs that TLAPS checks for every value of the constants.

All handlers run on one `boost::asio` loop (`main.cpp` calls more than one
thread experimental; it is not modelled). A handler is one atomic step. What
makes the program hard is the distance between an operation that *completes*
and its *handler*: what completed waits in the loop's queue, and the handlers
that run in between may stop, reconnect or free the object it is about.
Stopping a socket or a timer completes what is still pending with
`operation_aborted`, but cannot take back what has completed already: a switch
that a failed write stopped still handles the read that had completed
(`Registry`, `Topology`, `OpenflowConnection`).

## Inventory

| Component | State | Operations | Interactions | Hard behaviour | What makes it correct |
|---|---|---|---|---|---|
| `IdAllocator` (`id_allocator.hpp`) | `next`, `returned_ids` | `new_id`, `free_id` | used for switch, virtual switch and group ids | runs of returned ids, exhaustion | no id twice, none lost |
| Registry (`Hypervisor`) | `physical_switches`, `datapath_id_to_switch_id`, the allocator | accept, register, unregister, lookups | called by `PhysicalSwitch`, asked by `VirtualSwitch` | two connections of one datapath, two errors of one connection | ids unique, lookups find the right, living switch |
| `PhysicalSwitch` | registration state, ports, features | start, features reply, port status, stop | the registry, links, all virtual switches | errors at any stage of the handshake | everything it holds is returned once |
| `VirtualSwitch`, `Slice` | state `down`/`try_connecting`/`connected`, backoff timer, port map | check_online, try_connect, start, stop, go_down | asked after every route calculation; registers interest at physical switches | connects, timers and errors whose handlers run after a change of topology | online only and always when its switches are online and connected |
| `OpenflowConnection` | socket, `send_queue`, read buffer, echo timer | send, receive, echo, stop | base class of both switches | queue and chains across errors and reconnects, the mutex | one writer, order, nothing left behind |
| Topology discovery, `DiscoveredLink` | link of each port, liveness timer | discovery packets, timeout, stop | route calculation | both ends and the timer of overwritten links | both ends agree, dead links go |
| Route calculation | `dist`, `next` of each switch | `calculate_routes` (Floyd-Warshall) | after every change of switches and links | one-sided links | distances are shortest paths, routes do not loop |
| Flow tables (`physical_switch_flowtable.cpp`) | rule state of ports, needed ports, output groups | static and dynamic rules | route calculation, register/remove interest | rules follow state by differences | the rules in the switch are those of the state |
| Rewriting (`physical_switch_rewrite.cpp`) | group id map | rewrite of matches, instructions, actions | flow, group and packet messages of tenants | in-place changes, 8-bit tables | isolation of virtual switches |
| Tags (`tag.*`) | bit fields | set, get, match, action | rules and discovery packets | widths, reserved values | set then get is the identity in range |
| `bidirectional_map` | two maps | insert, erase | port and group ids | overwritten pairs | the maps stay inverse |
| Configuration, `main` | options, JSON | load once | builds slices | - | - |
| Unsupported messages (`*_unused.cpp`) | - | log or answer with an error | - | - | - |

libfluid (messages) and boost (loop, sockets, timers) are external: only what
the code can observe of them is modelled.

## Modules

| Module | Models | Checked by | Proved in |
|---|---|---|---|
| `IdAllocator` | the allocator as operators on a record | `registry` | `RegistryProofs` |
| `IdPool` | abstract specification: an id is given only while nobody has it | `registry` (as `ImplementsPool`) | `RegistryProofs` |
| `Registry` | accept, features reply, network errors, stop | `registry*` | `RegistryProofs` |
| `VirtualSwitch` | life of the virtual switches over a changing topology | `vs_*` | `VirtualSwitchProofs` |
| `OpenflowConnection` | one connection with its chains, queue, timer, mutex | `connection*` | `OpenflowConnectionProofs` |
| `Topology` | ports, discovery packets, links and their liveness timers | `topology` | `TopologyProofs` |
| `FloydWarshall` | `calculate_routes`, one iteration of the innermost loop a step | `routes` | `FloydWarshallProofs` |
| `Tag` | the bit fields of the VLAN tag and matches on them | in `flow_rules` | `FlowRulesProofs` |
| `FlowRules` | dynamic rules, output groups, interest, and what the switches do with packets | `flow_rules` | `FlowRulesProofs`, `DeliveryProofs` |
| `OpenFlow` | flow entries, groups and packets of an OpenFlow switch (external) | in `rewrite*` | in `RewriteProofs` |
| `VirtualTable` | abstract specification: each virtual switch is an OpenFlow switch of its own | `rewrite` (as `ImplementsVirtualTable`) | `RewriteProofs` |
| `Rewrite` | flow_mod, group_mod, packet_out and packet_in of the tenants, rewritten | `rewrite*` | `RewriteProofs` |

**Registry.** A connection `c` is a `PhysicalSwitch` object. `ready[c]` is the
queue of its completions. `FeaturesReplyArrives`, `ReadFails`, `WriteFails`
are the network; `HandleAccept`, `HandleFeaturesReply`, `HandleNetworkError`
are the handlers of the same names, with every call they make:
`HandleNetworkError` is `handle_network_error`, `PhysicalSwitch::stop` and
`unregister_physical_switch`. A read and a write of one connection may both
complete before the first of their handlers runs, as they do when a connection
is reset; the second handler then runs on a switch that was stopped, and its id
may belong to another one by now. The variable `stale` records that such a
handler has run; it is history that no guard reads. Properties that such a
handler breaks are stated up to it, all others without condition (below,
Proofs). One constant opens a hazard: `OverlappingConnections`, a datapath has two connections. Left
out is one thing that follows only after an id was freed twice: `emplace` keeps
the switch that has the id, and `handle_accept` starts that one a second time
(a second read and a second handshake on its connection).

**VirtualSwitch.** A physical switch is its datapath id, online while the
lookup of the registry finds it; links are unordered pairs, since both ends of
a `DiscoveredLink` are set in one handler. A port's link needs its port
description, which the switch sends after its features reply, so `LinkUp`
takes switches that are online. `Reachable` is the least set that is closed
under the links, which is what the walk over `next` finds, and needs no
recursion. Each change ends in `Recalculate`, the
`check_online` of every virtual switch that `calculate_routes` makes. The
exceptions the code throws and does not catch, and null pointers, end the
behaviour in `fault`. `Hypervisor::stop` is one handler but stops the switches
in the order of a hash map: `BeginStop`, a `SwitchStop` each, `FinishStop`,
with nothing else in between.

**OpenflowConnection.** The `kind` of the object is chosen in the initial
state: a physical switch without or with discovered links (whose `stop` sends
messages), or a virtual switch (whose `stop` connects again). A message is its
number in the order of `send_message`, so order and loss can be stated.
The header and the body of a message are one read. The other messages that
`PhysicalSwitch::start` sends are steps `Send`.

**Topology.** An end is a port of a switch; `link[e]` is `Port::link`, and
`links` the `DiscoveredLink` objects, which live while a port or a handler
points to them (`Store`). What a switch sends is handled in order (`inbox`);
sending a discovery packet, its way over the cable and its arrival at the
hypervisor are one step (`SendDiscovery`), since its delay is that of waiting
in the inbox. `HandleNetworkError` is `PhysicalSwitch::stop`, by the first
completion that failed; the other operation of the connection may have completed
too, and stays in `late`. `HandleLate` is its handler: an error stops the switch once
more, a packet runs `handle_topology_discovery_packet_in` on the stopped switch,
whose `ports` nobody cleared, and stores a link at the other switch only
(`AddLinkLate`). Timers of a stopped switch that had expired are left out: they
send on a closed socket (`bad_descriptor`, which `handle_network_error` ignores).
The route
calculation each change ends in is in `VirtualSwitch`. Undefined behaviour ends
the behaviour in `fault`: `in_port` (the end iterator of `ports` is used) and
`modulo` (division by `ports.size()` = 0). So does `second_stop`, the second
stop of a switch whose id another one has by now: it erases that one from the
map although it is connected, which `Registry` models and `Topology` does not.
A packet can arrive before the port description, because a switch keeps the discovery rule of its last connection
until `start` deletes it.

**FloydWarshall.** `link`, `dist` and `next` are `Port::link`,
`PhysicalSwitch::dist` and `next`; `k`, `i`, `j` are the iterators of the three
loops, `Relax` and `Keep` the two outcomes of the comparison. `Recalculate` is
any change of one end of one link followed by `reset_distances` of every
switch. Nothing makes the two ends of a link agree, since the code does not
look at the other end. In the code the whole calculation is one handler; the
steps are there to state what holds half way, which is what the proof needs.

**Tag.** A tag is the integer the code packs switch, port and slice into;
`Matches` is a masked match on some of the fields. The rules of `FlowRules`
carry these integers, so ids that are too large for their field would collide
there as in the program.

**FlowRules.** `sw[d]` is what the hypervisor keeps of a physical switch
(`ports` with the state of their rules, `interest`, `installed`, the output
groups `out`, the group ids used up) together with what the messages it sent
have left in the switch (`table0`, `table1`, `groups`): add, modify and delete
do what OpenFlow says, so a modify of a rule that is not there does nothing and
an add of a group that is there fails. `UpdateDynamicRules` is
`update_dynamic_rules` in its order: ports, shared links, routes, groups. Every
handler ends with it, directly (`PortsAdded`, `PortErased`, `Connected`,
`ControllerLost`) or through `CalculateRoutes`. Stopping a switch and erasing a
port calculate the routes several times and are several steps with nothing else
in between (`stopping`, `erasing`). Which of several shortest routes is taken
depends on hash maps: `Routes` pairs every set of links with all of them, and
`RoutesOver` looks up those of the links there are. `f ++ g` is `g` with the
arguments of `f` replaced or added, as an add of a flow does. A datapath has the same id each time
it connects (`Id`), while the program may give it another one: what carries the
old id is deleted with the flows of the switch or with the interest of the
virtual switches that need it, and a left-over route leads only to switches
whose route for that id is as old or newer, whoever has the id. The second half
of the module, `Arrives`, `Table1`, `Hop`, `Journey`, is the network: what a
packet meets on its way. `Delivery` and the other invariants are about packets, not about rules.

**OpenFlow, VirtualTable, Rewrite.** `OpenFlow` is one OpenFlow switch, and it
is used on both sides: the physical switches below the hypervisor
(`device[s]` in `Rewrite`) and the virtual ones its tenants believe in
(`VirtualTable`). `HandleFlowMod`, `HandleGroupMod`, `HandlePacketOut`,
`HandlePacketIn` are the handlers of those names. Their loop over
`dependent_switches` is in one step, but with its early returns: `FirstOf` is
where a refused message stops, after it took its group ids. `MatchPorts` is the
loop with the match that is written back. The refinement mapping reads the
tenants' tables back from the physical ones: `OriginalEntry` undoes the shift
of the tables, the port and group ids and the metadata, and `FlowsOf` demands
an entry on every switch on which a packet could meet it.

The `MC*` modules define the small instances. Definitions whose comment says
*seeded bug* are not part of the specifications: they are plausible mistakes
that the properties must notice if they replace the correct definition.

## Runs

| Run | Result | What it shows |
|---|---|---|
| `registry` | pass | no id leaks and the crash of `new_id` comes only with all ids in use, whatever happens; until a handler of an already stopped connection runs, ids are unique, lookups are sound, a registration is lost only to another connection of the same datapath, and the registry implements `IdPool` |
| `registry_double_stop` | violation of `UniqueIds` | a connection stopped twice frees an id of someone else |
| `vs_races` | pass | whatever the order of handlers, a virtual switch is registered at all its switches or none, only while they can be reached, and never down while it could be online |
| `vs_prompt` | pass | when handlers keep up, it is online only when its switches are, exactly one thing drives it, and it comes online again and again |
| `vs_go_down` | violation of `GoesOffline` | going down while still connecting throws |
| `connection` | pass | one writer, messages in order and delivered, one reader and one echo per switch connection |
| `connection_deadlock` | violation of `StopReturns` | a failed write to a switch with links locks `send_queue_mutex` twice |
| `topology` | pass | both ends of a cable hold the same link or none, except for a link that a stopped switch found, which at most the other end holds; every held link has its timer, a packet meets an unknown port only before its connection's port description was handled, dead links go, cables are found again and again |
| `routes` | pass | whatever links have one end or two, the calculation ends with the shortest distances and with routes that come closer at each hop; a next is known exactly where a distance is; if all links have two ends, the one test of `check_online` covers all pairs `next.at` is asked for |
| `flow_rules` | pass | after any sequence of changes, what a virtual switch sends to a usable port leaves the network there with the right tag, what comes in is handed to its owner and to nobody else, left-over routes form no loop, `next.at` never throws |
| `rewrite` | pass | the physical tables are, for each tenant, an OpenFlow switch that holds what its controller sent, and a packet goes where that switch would send it |
| `rewrite_in_port` | violation of `EntriesAreSent` | a message for one virtual port reaches a switch that does not have it |

### Known deviations

Four of them are runs (above); they contradict what a document or comment of
the repository says, and PROJECT.json quotes it. These others were found on the
way. Their configurations are kept beside the runs and TLC finds each of them
with `tlc -config <name>.cfg <module>`:

| Configuration | Module | Violated | What happens |
|---|---|---|---|
| `registry_lookup` | `MCRegistry` | `LookupComplete` | a datapath reconnects before its old connection stops; the stop of the old one erases the registration of the new one |
| `vs_backoff` | `MCVirtualSwitch` | `OnlineOnlyIfReady` | a late backoff handler brings a virtual switch up whose switch is gone |
| `connection_reconnect` | `MCOpenflowConnection` | `ChainAlive` | after a reconnect nothing sends the queue |
| `topology_late` | `MCTopology` | `EveryLinkAtBothEnds` | a write of a switch fails while a packet of it was read already: the packet is handled after `stop` and leaves a link at the other switch only, until its timer runs out |
| `topology_stale_timer` | `MCTopology` | `TimeoutRemovesItsOwnLink` | the timer of a link that no port holds takes the live link of the same ports; that one's timer then does the same to the next, and a cable that nobody touches flaps |
| `flow_rules_contested` | `MCFlowRules` | `ContestedPortsStayDown` | a port without a link that two virtual switches need is dropped on the way in, but both can send out over it (design.md:94) |
| `flow_rules_groups` | `MCFlowRules` | `Delivery` | a switch that keeps its groups while it is disconnected refuses the groups of the new session, whose ids start again, and packets take those of the old one |
| `rewrite_clear` | `MCRewrite` | `SameForwarding` | an entry that clears the action set and writes an output is pushed, in its copy for packets with the group bit, without the output: the packet is lost (design.md:84) |

The run `rewrite` has entries that clear and entries that write outputs, but
none that does both, and its port numbers do not provoke `rewrite_in_port`;
`flow_rules` takes switches that forget their groups. So each of these runs
says what holds apart from the deviation.

Not a run either: `table_id` is 8 bits wide and 2 is added to it, so a delete
for all tables (`OFPTT_ALL`, 255) becomes one for table 1 that matches nothing
of the tenant. `Copy` models the wrap; design.md:211 lists the case as something
to be done. In the same way `handle_group_mod` gives every group id of a tenant
an id of its own, `OFPG_ALL` too: a delete of all groups deletes none. (It is
why no tenant can reach the groups of another one, see `TenantsApart` below.)

### Bounds

- `registry`: four connections, two datapaths, two ids. Fewer ids than
  connections reaches exhaustion, both orders of returns and ids that are freed
  twice; two connections can share a datapath while two others do too.
  Connections and datapaths are symmetric. The state constraint
  `QueuedAfterStale` cuts behaviours after a handler of a stopped connection has
  run: from then on at most one completion waits for a handler in all. Three
  connections and two ids were checked once without it (3.8 million states),
  with the same result.
- `vs_races`: two virtual switches, on one and on two of three switches in a
  triangle (a lost link can be bypassed), `MaxQueue` = 3 queued completions
  each: an aborted connect, an expired timer and a lost controller at once.
- `vs_prompt`, `vs_go_down`: the same virtual switches; a handler runs before
  the next operation of its object completes (`StaleCompletions` = FALSE), so
  one queued completion is all there can be.
- `connection`, `connection_deadlock`: `MaxMessages` = 3 messages, `MaxReady` =
  3 queued completions, `MaxSessions` = 2 connections of one object. One message under way, one
  queued behind it and one sent by a handler is every case of the write chain;
  a second session is enough to carry something over.

- `topology`: two switches with a port each and one cable, `MaxLinks` = 2
  objects (a link that is held and one only its timer holds), `MaxInbox` = 1:
  a switch has at most one message waiting when it sends one about its ports.
  `MaxLate` = 1: one completion of a stopped switch waits, or one link that such
  a switch found exists, when a switch stops. The safety properties
  were checked once with `MaxInbox` = 2 (2.6 million states) and once with
  `MaxLinks` = 3 (5.5 million). Whatever can happen to
  one cable can: both ends find it, it is cut, either port or switch goes and
  comes back. An end with two possible cables (moved cables) is allowed by the
  module. The second link then overwrites one end of the first, and a cable
  between two ports of one switch is stored at one of them only, so `BothEnds`
  is stated of networks without either (`OneCablePerEnd`, `BetweenSwitches`),
  of which the run is one.

- `routes`: four switches, with a port for each other one and, on the first
  switch, one that may lead back to it; every directed graph over these is
  reached and recalculated. Four is the smallest number in which a path of
  three links is found in two halves. The order of the hash maps is that of the
  numbers, and all graphs include all renumberings. Parallel links are in the
  module and in the proof, not in the run.
- `flow_rules`: three switches in a triangle, so that routes have alternatives,
  can be stale and could form a circle; two virtual switches of two slices that
  share an end of a link, one of them with a host port elsewhere; one port that
  is removed and added. Ids are at the ends of their fields (switches 0 and
  126, port 15, slice 14): one more is the reserved value. `MaxGroups` = 6
  group ids at a switch, where a registration takes three: both virtual
  switches at once, or one of them again, with other ids, after its controller
  came back.
- `rewrite`: two switches, two virtual switches on both, three virtual tables.
  The messages of the first tenant are chosen so that a group can be in the
  action set, be replaced, cleared or kept, and meet an output in a later table
  or in the same set; groups lead to groups; a modify, a wildcard delete of entries, deletes of groups;
  messages that are refused at once (metadata) or after ids were taken (an
  unknown output). The second tenant uses the same group and port numbers.

Deadlock is checked in `routes` and `rewrite`. In the others it is not: those
systems may stop (the process dies, the bounds are used up, everything is
disconnected).

### Fairness

`vs_prompt` assumes that handlers of the loop run and timers expire (weak
fairness), that a connect completes, and that a controller that is tried
forever is reached at some time (strong fairness of `ConnectSucceeds`): without
the last the code can only keep trying. `connection` assumes weak fairness of
the handlers and of the network taking what is written to an open socket.
`topology` assumes weak fairness of the handlers, those of stopped
switches included, of the discovery packet of
each port whose cable and peer stay, and of the expiry of timers that nothing
restarts. A timer may also expire although packets arrive (it runs 550 ms, the
period is 500): no property relies on the difference. Nothing is assumed of
switches, links, peers or tenants.

## Proofs

`RegistryProofs` begins with the allocator, for every range of ids: `new_id`
returns an id in range that is not in use (`NewIdCorrect`), `free_id` frees
exactly its argument (`FreeIdCorrect`). The loop of `free_id` is a `CHOOSE` of
the lowest id of the run below `next`; that it exists (`TrimExists`) follows
from the well-foundedness of the naturals.

The theorems about the registry assume nothing but the named assumptions of the
constants; in particular a connection may be stopped twice. `UniqueIds` is not
inductive: that an id is free depends on the allocator, that the emplace of an
accept finds no entry on the map, the lookups on which objects live. `IInv` has
two parts. What always holds is `TypeOK`, the shape of the allocator
(`AllocShape`), that a handler runs for an object that exists (`ObjectsLive`),
that the map of ids leads to the right connections (`MapSound`), and
`IdsAccountedFor`. What holds until a handler of a stopped connection runs
(`~stale`) is `InOrder`: no id is returned twice, ids are unique, and the
lookups by datapath id are sound. One lemma per handler preserves both.

- Without condition follow `TypeCorrect`; `CrashesOnlyWhenFull` (with one more
  induction); the half of `IdsNeverLeak` that no id is lost, since a second
  return of an id can only make too many free; and `LookupLost`, which says
  whose handler can take the registration of an open connection away: that of
  another connection of its datapath or, once a handler of a stopped connection
  runs, of its id.
- Until a handler of a stopped connection runs: `IdsUnique`, `LookupIsSound`, the
  other half of `IdsNeverLeak`, the refinement `RefinesPool` (an accept
  allocates, an error releases, all else stutters), and `LookupIsComplete`, which
  also needs that connections of a datapath do not overlap and one more invariant
  (`FoundWhileRegistered`). `registry_double_stop` shows that `UniqueIds` does not
  hold beyond.

`FloydWarshallProofs`: for any number of switches and ports and any cabling,
`TypeCorrect`, `NextIsKnown` and `RoutesNeverLoop`. That routes descend holds
only when the loops are done; half way the switch that a route leads to may not
have found its own route yet. The inductive invariant `IInv` therefore says of
each pair that it descends already or that the iterators have still to come to
the triple that makes it so (`OnTrack`), beside the types, that another
switch is at least 1 away and a switch at most 1 from itself, that a next leads
to a switch, and that what was visited in this round is no longer than the way over `k`. One lemma per action
(`KeepCorrect`, `RelaxCorrect`, `RecalculateCorrect`) preserves it. The
assumptions are the named ones of the constants.

That the distances are the shortest (`DistancesShortest`) needs two more parts
of the invariant: every finite distance is the number of links of some walk
(`Sound`), and no distance is longer than a walk over the switches that the
outer loop has been through, those up to `Bound(a, b)` (`Complete`). The step is
`OverOneMore`: a walk that may also go over `k` is cut at its first and at its
last visit of `k` (`FirstAndLast`), and both pieces are known already. At the
end the walk may go over every switch; a shortest one has fewer than `N` links
(`ShortWay`, by the pigeonhole principle), and the sets `Within` of the
reference definition are those of the walks (`AroundIsWays`, by induction over
their number of links). `OneTestCoversAll` joins a walk back to the first
switch (`WayBack`, each link has both ends) to one onwards, and shortens it.
Both theorems assume `InfiniteIsFar`, `N <= Infinite`: with as many switches as
`topology::infinite` counts (10000) the longest path would pass for none. The
code never meets that limit, since a tag tells at most 128 switches apart.

`VirtualSwitchProofs`: for any virtual switches, dependencies and cables. The
first half assumes nothing of the loop. `IInv` is `TypeOK`, what a virtual
switch is registered at in each of its states (`Registrations`), and
`ReadyIsNotDown`; the last is there because an event that makes a virtual
switch ready is followed by `check_online` in the same handler, which has to
find it down. `RegisteredIsReady`, `ConnectedIsRegistered` and
`ReadyIsNotDown` follow; the first holds while the hypervisor stops as well.
The second half assumes `Prompt` (`StaleCompletions = FALSE`; `vs_backoff`
shows that it is needed): `PInv` says of every state what the virtual switch
waits for and what can be queued, and gives `OnlineNeedsReady`,
`ExactlyOneDriver` and `OnlyGoingDownThrows`, the last of which leaves the
crash of `vs_go_down` as the only uncaught exception. That reachability only
grows with the links is all the proofs use of `Reachable`.

`OpenflowConnectionProofs`: for any number of messages, completions and
sessions. A handler is a sequence of parts (`send_message`, `stop`, the pop of
`handle_send_message`) on a state `s`, so the invariant is stated of such a
state and each part has its lemma. `Writer` counts what is under way: a write
or one completion of it, with its message at the front of the queue. `Chain` ties
the wire, the message under way and the queue to the order of `send_message`.
`Listens` is the read and the echo of a switch; it holds while the mutex is not
locked twice (`~stuck`, the deadlock of `connection_deadlock`). None of
`OneWriter`, `SwitchChainAlive` and `InOrder` is inductive without the other
two: a pop is only right for the message that was written.

`TopologyProofs`: for every network. A port can only be reset by the links that
have it as the end on its switch (`Held`), links join ends of cables
(`OverCables`), what waits in an inbox is about the switch that sent it
(`FromSwitches`), and once the port description is handled the known ports are
those of the switch less what waits (`InStep`). What completed before a switch
stopped is about that switch, and a read knows whether its port was known
(`LateCompletions`). `StoredAtBothEnds` has the two hypotheses about cables given
under Bounds, and says of a link that a stopped switch found only that no port but
the one at the other switch holds it; `LinksAreTimed` and
`UnknownPortsAtStartOnly` have none. All are about behaviours up to the second
stop of a switch whose id another switch has (`fault`), if there is one.

`FlowRulesProofs` begins with the tag: `FieldsIndependent` (setting a field
changes no other and is read back), `RawRoundTrip` (the tag on the wire is the
tag that was sent) and `FullTagIsUnique` (ends of one slice never share a tag
while their ids fit). They are arithmetic over quotients and remainders;
`FieldsIndependent` has one step for each field.

The rest is for any network, virtual switches and shortest routes. Rules
follow the state by differences, so a rule is right only if it was right before
for the ports whose state stays. `Prepared` says this of the record that a
handler hands to `update_dynamic_rules`; the update makes every port `InStep`.
It rests on `InterestChanged`: a handler only adds virtual switches to the
interest or only removes some, so a port that has one user before and after has
the same one. That would be false of a handler that does both, and `sw[d].ports`
holds no owner with which the code could notice. `IInv` is the conjunction of
this for every switch with what `calculate_routes` guarantees: virtual switches
that lost a switch or a path are down, and out of the interest, before the rules
are updated (`RouteToPorts`), which is why `next.at` does not throw
(`RoutesAreKnown`). `TenantsAreIsolated` and `TenantsAreServed` are then about
single packets: a rule of a shared link identifies its tenant (`OneTenant`,
with `FullTagIsUnique`). The assumptions are the named ones; that there are
finitely many virtual switches and ports of each is needed to count the users
of a port, and `TagAssumption` says that slice ids and ports are none of the
reserved values.

`DeliveryProofs`: for any network, virtual switches and shortest routes,
`NoLoops` and `Delivered`. What `update_dynamic_rules` relies on is `Fit`: a
port whose state is recorded has its rules for every slice, the groups in the
switch are those that were sent, under ids of their own, and a switch has no
route to itself. What it leaves is `Carries`: a rule for every port and slice,
for every route of `next`, and groups that go where `next` and the links say.
`Carried` is both, of all switches, with `NoForwardingLoop`; one lemma per
handler preserves it (`CarriedNext`), given `IInv` of `FlowRulesProofs`.

- Loops: a route that is left over from earlier links can lead anywhere. Yet a
  route that is sent leads to a switch from which the end can be reached over
  the links of now, so that it has a new route too (`NoNewLoop`). A loop would
  consist of new routes, along which the distance falls, or of old ones only,
  which were there before the step.
- Delivery: a packet with the tag of a port is matched by the route to its
  switch and the rule of that port and by no other rule (`FullTagMatch`), which
  needs that tags of different ends differ. So every hop follows `next`, which
  comes closer (`RouteDescends`), and the journey ends within as many hops as
  there are switches (`GetsThere`): a shortest path meets no switch twice
  (`ShorterPath` and the pigeonhole principle). Induction over the hops is the
  least counterexample of a set of naturals (`LeastNatural`).

Two hypotheses are not assumptions of the module. `IdsFit` says that switch ids
are below the reserved 127 and ports at most 15. The code does not see to it:
the allocator is `IdAllocator<0,max_switch_id>`, so the 128th switch gets the
reserved id, and ports are not looked at (the hazard at `tag.hpp:47`).
`Delivered` also assumes that a switch that comes back has lost its groups
(`~GroupsSurvive`); the configuration `flow_rules_groups` shows that it is needed.

`RewriteProofs`: for any virtual switches, port maps, tables and messages,
`TenantsApart`; for those that add entries to known tables only, `TypeCorrect`;
and for those that meet two conditions, the refinement `ImplementsVirtual` with
`SwitchesAgree` and `EntriesSent`. `TypeOK` is not inductive. `IInv` has three
parts:

- `IdsApart`: every id given to a group of a tenant lies between `FirstId` and
  `next_id`, and no two groups have the same. A message asks for several ids at
  once, in the order in which it names its groups first (`GroupsAsked`); that
  these ranks differ (`RanksDiffer`) is why `WithIds` gives different ones. The
  allocator counts up, since nothing returns a group id.
- `ReservedStay`: the groups of the hypervisor are there. A delete of a group
  deletes the entries and groups that lead to it, so this needs that the ids of
  controllers come after those of the hypervisor, whatever id they ask for.
- `EntriesFit`: an entry uses ids of its own tenant or the hypervisor's, and its
  other copy is there, with the same groups of the tenant (`Paired`). Without the
  groups it would not be inductive: the delete of a group has to delete both
  copies or none. `handle_flow_mod` sends two messages, and between them one
  copy is there without the other; `TwiceCorrect` shows that the second message
  meets the copies of just those entries that the first one replaced, changed
  or deleted (`CopiesAgree`).

`TenantsApart` is an action property of every step, `OneTenant`: one tenant's
entries, groups and ids are the only ones that change, on all switches. No
message of a controller, refused or not, is noticed by another tenant or by the
groups that were set up at registration. The rules of the hypervisor in tables 0
and 1 are not in `Rewrite`, so it says nothing of them.

`ImplementsVirtual` says what is left to a tenant when nobody disturbs it: what
it can read back from the physical tables is an OpenFlow switch, on which each
of its messages does what OpenFlow says. The invariant is `RInv`: `IInv`,
`TablesFit` (actions, buckets and fields are such as rewriting produces) and
`Agree`, that the switches of a tenant all hold the same groups and, for the
ports that are theirs, the same entries. `Agree` is what the loop over
`dependent_switches` has to keep, where every switch decides for itself whether
it accepts the message; `SwitchesAgree` states that it does. The argument goes
from the small to the large:

- One action: what was rewritten is recognised as what it was
  (`OriginalOfRewritten`), so an entry and a bucket are, too. A set with a group
  and an output comes back without the output; that is the difference `Normal`
  makes in `VirtualTable`.
- One switch: both copies of an entry change together and only one is read
  back, so `SeenFlowMod` is about the first message, and about the second one
  leaving what is read alone. For groups, `SeenGroupMod` also has to show that a
  delete takes the same entries and groups along on both sides, through ids that
  two tenants never share.
- All switches: `MatchPortsCorrect` says where a message is pushed, and with
  which port. `TableChanges` and `Together` put the parts of a table together
  again; each step is then one of `Virtual!Next` or changes nothing
  (`StepsSeen`).

`EntriesSent` follows `RInv` with one more fact, that each entry a tenant reads
back is one of its messages (`SameEntry`).

Three conditions on the messages are hypotheses of theorems, and not
assumptions of the module, since the code does not see to them:

- `AddsTold` (for `TypeCorrect`): entries are added to tables that the controller
  was told of. `handle_flow_mod` does not check `table_id`, and tables 254 and
  255 wrap into those of the hypervisor (the hazard at `virtual_switch.cpp:346`).
- `TablesNamed`: messages name tables that the controller was told of. A modify
  or delete with table 253 would become one for 255, which stands for all
  tables.
- `NumbersApart`: no physical port is two virtual ones, and a virtual port that
  a message names is on one switch only, where its physical number is not a
  virtual port of another switch. Without it `rewrite_match`, which works in
  place, rewrites a port twice; the run `rewrite_in_port` is an instance in which
  it fails and `EntriesAreSent` with it.

`MCRewrite` assumes the last two, which imply the first, for the messages of the
run `rewrite` (`ConditionsMet`), so TLC confirms that there are messages that meet them.

The assumptions are named and TLC evaluates them in `rewrite`: `PortAssumption`
(a virtual switch has switches, each once, and its ports are numbers),
`RewriteAssumption` (registering gave each output group an id of its own, from
below `FirstId`) and `MessageAssumption` (controllers are told of at most 253
tables, actions and sets have their types). Ids
are unbounded naturals; that 2^32 of them run out is a hazard of its own.

### Only model-checked

- `SameForwarding` of `Rewrite`: a packet that comes in leaves by the ports it
  would leave by on the virtual switch. It follows the packet through a fold over
  the tables and, in each, through groups that lead to groups; what these folds
  compute is an induction over data, and the library's induction theorems take
  an operator as a parameter. Nor does it hold for all values of the constants.
  `rewrite_clear` is an instance in which it fails, by what the code does; and
  `Expand` follows groups three levels deep, of which the physical switches need
  one or two more than the virtual one, since an output is a group there. The
  run has no chain that long. `ImplementsVirtual` proves the other half for all
  values: which entries and groups there are.
- Everything temporal: `ComesOnline`, `Delivered` of `OpenflowConnection`,
  `DeadLinksGo` and `LinksAreFound`. Liveness under fairness is out of reach of
  TLAPS.

## Not modelled

- Parsing and packing of messages, logging and the debug files that
  `calculate_routes` writes, options and the JSON file (read once, before
  anything runs), and more than one thread.
- Meters: with `use_meters` the static rules add one for each slice, which
  limits the rate of its packets, and the rules that hand packets to tenants go
  through it. Rates are not modelled; where `FlowRules` says that a packet
  arrives, a meter may still drop it. Meter instructions of tenants are dropped
  by the code. The error rules of tables 0 and 1, which send what no other rule
  takes to the hypervisor, are lost packets in `FlowRules`.
- What a virtual switch tells its controller of itself (features, group, meter
  and table features, port descriptions, port status): each answer is put
  together from stored values and changes nothing. The minimum of `n_tables`,
  less 2 in 8 bits, is among the hazards.
- The fields `out_port` and `out_group` of a flow_mod, which filter what a delete
  takes, and the watch port and watch group of a bucket: the messages of the
  tenants in `Rewrite` do not use them.
- Whether a switch accepts a flood group: `register_interest` adds it before the
  groups that it names exist (`physical_switch.cpp:96`), which a switch may
  refuse. `Rewrite` (`Registered`) and `FlowRules` (`RegisterInterest`) take it as
  present.
- Handlers that log or answer with an error (`*_unused.cpp`).
- The composition of all modules. They meet at narrow interfaces, each of which
  one module provides and another one assumes: `Topology` provides links with
  both ends (`BothEnds`), which `VirtualSwitch` and `FlowRules` take as sets of
  two. The link that a stopped switch found is an exception (`topology_late`):
  for at most 550 ms one switch holds a link to a switch that is gone, or to one
  that came back and does not hold it. What routes do in that time is covered by
  `FloydWarshall` alone, whose links may have one end; a test of `check_online`
  may then succeed where the way back is missing, and `next.at` throw at the other
  end (`OneTestSuffices` has the condition). `FloydWarshall` provides shortest routes (`DistancesAreShortest`,
  `RoutesDescend`), of which `FlowRules` takes any (`Routes`); `FlowRules`
  provides output groups that deliver (`Delivery`), which `Rewrite` takes as
  actions that leave at a port; `VirtualSwitch` has the completions and timers
  that `Connected` and `ControllerLost` of `FlowRules` leave out. A packet-in
  to a virtual switch whose controller is away is a step `Send` in
  `OpenflowConnection` and nothing elsewhere. The crash of
  `go_down` (`vs_go_down`) is in both `VirtualSwitch` and `FlowRules` and ends
  their behaviours.

## Plan

1. Proofs: `SameForwarding` for entries whose groups do not lead to groups, one
   table at a time; the copies that clear the set and write an output excepted.
2. `Topology`: moved cables (a run in which ends have two possible cables), and
   the abstract specification of a set of undirected links.
3. Meters and the answers of `VirtualSwitch` to multipart requests.
