----------------------------- MODULE FlowRules -----------------------------
(***************************************************************************)
(* The flow rules and groups that Delftvisor keeps in the physical         *)
(* switches (physical_switch_flowtable.cpp, register_interest and          *)
(* remove_interest of physical_switch.cpp): table 0 decides what to do     *)
(* with a packet by the port it came in on, table 1 forwards packets that  *)
(* carry a tag, the groups send a tenant's packet on its way to a port of  *)
(* its virtual switch, which may be on another physical switch.            *)
(*                                                                         *)
(* The hypervisor remembers what it sent and sends differences, so a       *)
(* wrong record of the past leaves wrong rules for good.  Every handler    *)
(* ends with the rules updated and is one step, except for the two that    *)
(* calculate the routes more than once (stopping, erasing).                *)
(*                                                                         *)
(* A physical switch is its datapath id d.  A virtual switch that tries to *)
(* connect may succeed at any time; its timers and completions are in      *)
(* module VirtualSwitch, how links come and go is in module Topology.      *)
(***************************************************************************)
EXTENDS Tag, FiniteSets

CONSTANTS
  Switches,       \* datapath ids
  Id,             \* Id[d]: the id the hypervisor gives to d
  Ports,          \* Ports[d]: the port numbers of d
  Flaky,          \* the ends <<d, p>> that can be removed and added again
  Cables,         \* the cables, sets of two ends
  VSwitches,      \* the configured virtual switches
  Slice,          \* Slice[v]: the id of its slice
  PortMap,        \* PortMap[v]: from virtual port numbers to ends
  GroupsSurvive,  \* does a switch keep its groups while disconnected?
  MaxGroups       \* bound on the group ids a switch is given

Ends == UNION {{<<d, p>> : p \in Ports[d]} : d \in Switches}

\* The ends of v on d
PortsAt(v, d) == {p \in Ports[d] : \E x \in DOMAIN PortMap[v] : PortMap[v][x] = <<d, p>>}

\* dependent_switches
Deps(v) == {PortMap[v][x][1] : x \in DOMAIN PortMap[v]}

ASSUME FlowRulesAssumption ==
  /\ \A d, e \in Switches : Id[d] = Id[e] => d = e
  /\ Flaky \subseteq Ends
  /\ \A c \in Cables : c \subseteq Ends /\ Cardinality(c) = 2
  /\ \A c, d \in Cables : c = d \/ c \cap d = {}
  /\ \A v \in VSwitches : \A x \in DOMAIN PortMap[v] : PortMap[v][x] \in Ends
  \* the configuration gives an end to one virtual switch of a slice
  /\ \A v, w \in VSwitches : \A d \in Deps(v) \cap Deps(w) :
       Slice[v] = Slice[w] /\ PortsAt(v, d) \cap PortsAt(w, d) # {} => v = w
  /\ IsFiniteSet(Switches) /\ IsFiniteSet(VSwitches)
  /\ \A v \in VSwitches : DOMAIN PortMap[v] \subseteq Nat /\ IsFiniteSet(DOMAIN PortMap[v])
  /\ GroupsSurvive \in BOOLEAN
  /\ MaxGroups \in Nat

\* Slices and ports are numbered from 1, and the slice in a tag is not the one
\* of the discovery packets.  Nothing in the code makes sure of that.
ASSUME TagAssumption ==
  /\ \A v \in VSwitches : Slice[v] \in 1 .. (max_slice_id - 1)
  /\ \A d \in Switches : 0 \notin Ports[d]

VARIABLES
  online,    \* the switches a lookup by datapath id finds
  sw,        \* what is known of, and what is in, each switch (see TypeOK)
  links,     \* the links discovery has found
  next,      \* PhysicalSwitch::next of the switches that are online
  vstate,    \* VirtualSwitch::state
  stopping,  \* the switch whose stop is under way
  erasing,   \* the end that handle_port is about to erase
  fault      \* the exception that ended the process, or "none"

vars == <<online, sw, links, next, vstate, stopping, erasing, fault>>

Slices      == {Slice[v] : v \in VSwitches}
PortNumbers == UNION {Ports[d] : d \in Switches}
FromController == 0   \* stands for OFPP_CONTROLLER
NoTag == -1           \* a packet without a VLAN header, as hosts send them
Keep  == -2           \* the tag stays as it is

PortStates  == {"no_rule", "link_rule", "host_rule", "drop_rule"}
GroupStates == {"no_rule", "host_rule", "shared_link_rule", "switch_rule"}

\* A match in table 1; in = FromController stands for any port
Key(prio, in, tag, fields) == [prio |-> prio, in |-> in, tag |-> tag, fields |-> fields]

\* The function g with the arguments of f added or replaced
f ++ g == [x \in DOMAIN f \cup DOMAIN g |-> IF x \in DOMAIN f THEN f[x] ELSE g[x]]

Nothing == << >>   \* the function without arguments

\* The tags in use
FullTags   == [t \in Switches \X PortNumbers \X Slices |-> FullTag(Id[t[1]], t[2], t[3])]
SharedTags == [s \in Slices |-> SharedTag(s)]
SwitchTags == [d \in Switches |-> FullTag(Id[d], 0, 0)]

SharedKey(p, s)  == Key(30, p, SharedTags[s], Fields)
RouteKey(d)      == Key(20, FromController, SwitchTags[d], {SwitchField})
PortKey(d, p, s) == Key(10, FromController, FullTags[<<d, p, s>>], Fields)

Keys ==
  {SharedKey(p, s) : p \in PortNumbers, s \in Slices}
    \cup {RouteKey(d) : d \in Switches}
    \cup {PortKey(e[1], e[2], s) : e \in Ends, s \in Slices}

Drop       == [kind |-> "drop"]
Goto1      == [kind |-> "goto_1"]
Tenant(v)  == [kind |-> "tenant", vs |-> v]  \* write its metadata, goto table 2
Out(p, tag) == [kind |-> "out", port |-> p, tag |-> tag]

OutKeys == UNION {{<<v, x>> : x \in DOMAIN PortMap[v]} : v \in VSwitches}

TypeOK ==
  /\ online \subseteq Switches
  /\ stopping \subseteq online /\ erasing \subseteq Flaky
  /\ links \subseteq Cables
  /\ \A c \in links : \A e \in c : e[1] \in online /\ e[2] \in DOMAIN sw[e[1]].ports
  /\ DOMAIN next = online
  /\ \A d \in online : \A e \in DOMAIN next[d] : e \in online /\ next[d][e] \in Ports[d]
  /\ vstate \in [VSwitches -> {"down", "trying", "connected"}]
  /\ fault \in {"none", "remove_interest", "next"}
  /\ DOMAIN sw = Switches
  /\ \A d \in Switches : LET s == sw[d] IN
       \* in the hypervisor: ports, needed_ports and rewrite_map
       /\ DOMAIN s.ports \subseteq Ports[d]
       /\ \A p \in DOMAIN s.ports : s.ports[p] \in PortStates \ {"no_rule"}
       /\ s.interest \subseteq VSwitches
       /\ \A i \in s.installed : i[1] \in PortsAt(i[2], d) /\ i[2] \in s.interest
       /\ DOMAIN s.out = {k \in OutKeys : k[1] \in s.interest}
       /\ \A k \in DOMAIN s.out :
            s.out[k].id \in 1 .. s.ids /\ s.out[k].state \in GroupStates
       /\ s.ids \in 0 .. MaxGroups
       \* in the switch: tables 0 and 1 and the groups
       /\ DOMAIN s.table0 \subseteq Ports[d] \cup {FromController}
       /\ \A p \in DOMAIN s.table0 :
            s.table0[p] \in {Drop, Goto1} \cup {Tenant(v) : v \in VSwitches}
       /\ DOMAIN s.table1 \subseteq Keys
       /\ \A k \in DOMAIN s.table1 : s.table1[k].kind \in {"tenant", "out"}
       /\ DOMAIN s.groups \subseteq 1 .. MaxGroups

\* A switch that is not connected; its flows are deleted when it connects
Offline(groups) ==
  [ports |-> Nothing, interest |-> {}, installed |-> {}, out |-> Nothing,
   ids |-> 0, table0 |-> Nothing, table1 |-> Nothing, groups |-> groups]

Init ==
  /\ online = {}
  /\ sw = [d \in Switches |-> Offline(Nothing)]
  /\ links = {}
  /\ next = Nothing
  /\ vstate = [v \in VSwitches |-> "down"]
  /\ stopping = {}
  /\ erasing = {}
  /\ fault = "none"

-----------------------------------------------------------------------------
\* Routes

Linked(lk, d, p) == \E c \in lk : <<d, p>> \in c

\* The other end of the cable at <<d, p>>
Peer(d, p) ==
  LET c == CHOOSE c \in Cables : <<d, p>> \in c
  IN  CHOOSE e \in c : e # <<d, p>>

\* A path of n links from d to e
Path(lk, d, e, n) ==
  \E w \in [0 .. n -> Switches] :
    /\ w[0] = d /\ w[n] = e
    /\ \A k \in 1 .. n : \E c \in lk : \E f, g \in c : f[1] = w[k - 1] /\ g[1] = w[k]

\* The switches d reaches: the least set with d that no link leads out of
Reach(lk, d) ==
  {e \in Switches : \A S \in SUBSET Switches :
     d \in S /\ (\A c \in lk : \A f, g \in c : f[1] \in S => g[1] \in S)
       => e \in S}

Dist(lk, d, e) ==
  CHOOSE n \in 0 .. Cardinality(Switches) :
    Path(lk, d, e, n) /\ \A m \in 0 .. (n - 1) : ~Path(lk, d, e, m)

\* The ports of d that are the first of a shortest path to e
FirstPorts(lk, d, e) ==
  {p \in Ports[d] : Linked(lk, d, p)
                     /\ Dist(lk, Peer(d, p)[1], e) < Dist(lk, d, e)}

\* What calculate_routes can put into the next of d: which of the shortest
\* paths it takes depends on the order of its hash maps (see FloydWarshall)
NextOf(lk, d) ==
  {f \in [Reach(lk, d) \ {d} -> Ports[d]] :
     \A e \in DOMAIN f : f[e] \in FirstPorts(lk, d, e)}

\* Every set of links with the routes over it, a table that is evaluated once
Routes ==
  UNION {LET of == [d \in Switches |-> NextOf(lk, d)]
         IN  {<<lk, r>> : r \in {r \in [Switches -> UNION {of[d] : d \in Switches}] :
                                   \A d \in Switches : r[d] \in of[d]}} :
         lk \in SUBSET Cables}

RoutesOver(lk) == {r[2] : r \in {x \in Routes : x[1] = lk}}

-----------------------------------------------------------------------------
\* update_dynamic_rules, on the record s of switch d.  An ADD replaces a flow
\* but fails for a group that exists; a MODIFY changes only what exists.

\* Seeded bug: a port without link goes to whoever asked for it first
PortStateShared(d, s, lk, p) ==
  IF Linked(lk, d, p) THEN "link_rule"
  ELSE IF \E v \in s.interest : p \in PortsAt(v, d)
  THEN "host_rule" ELSE "drop_rule"

PortState(d, s, lk, p) ==
  IF Linked(lk, d, p) THEN "link_rule"
  ELSE IF Cardinality({v \in s.interest : p \in PortsAt(v, d)}) = 1
  THEN "host_rule" ELSE "drop_rule"

Instruction(d, s, state, p) ==
  CASE state = "link_rule" -> Goto1
    [] state = "host_rule" -> Tenant(CHOOSE v \in s.interest : p \in PortsAt(v, d))
    [] state = "drop_rule" -> Drop

\* The tag that (1,10) rules leave on a packet that goes out over the port
TagAfter(state, slice) ==
  CASE state = "link_rule" -> SharedTags[slice]
    [] state = "host_rule" -> NoTag
    [] state = "drop_rule" -> Keep

\* Seeded bug: the rule of a port that has one is left as it is
UpdatePortsAddOnly(d, s, lk) ==
  LET state == [p \in DOMAIN s.ports |-> PortState(d, s, lk, p)]
      sent  == {p \in DOMAIN s.ports : s.ports[p] = "no_rule"}
      rules == UNION {{<<p, slice>> : slice \in Slices} : p \in sent}
  IN  [s EXCEPT
        !.ports  = state,
        !.table0 = [p \in sent |-> Instruction(d, s, state[p], p)] ++ @,
        !.table1 = [k \in {PortKey(d, r[1], r[2]) : r \in rules} |->
                      LET r == CHOOSE r \in rules : k = PortKey(d, r[1], r[2])
                      IN  Out(r[1], TagAfter(state[r[1]], r[2]))] ++ @]

\* The rules about ports: (0,10) and, for every slice, (1,10)
UpdatePorts(d, s, lk) ==
  LET state == [p \in DOMAIN s.ports |-> PortState(d, s, lk, p)]
      sent  == {p \in DOMAIN s.ports : s.ports[p] # state[p]}
      rules == {r \in sent \X Slices :
                  \/ s.ports[r[1]] = "no_rule"
                  \/ PortKey(d, r[1], r[2]) \in DOMAIN s.table1}
  IN  [s EXCEPT
        !.ports  = state,
        !.table0 = [p \in {q \in sent : s.ports[q] = "no_rule" \/ q \in DOMAIN s.table0} |->
                      Instruction(d, s, state[p], p)] ++ @,
        !.table1 = [k \in {PortKey(d, r[1], r[2]) : r \in rules} |->
                      LET r == CHOOSE r \in rules : k = PortKey(d, r[1], r[2])
                      IN  Out(r[1], TagAfter(state[r[1]], r[2]))] ++ @]

\* The rules (1,30) for links that virtual switches share
UpdateShared(d, s) ==
  LET wanted == UNION {{<<p, v>> : p \in PortsAt(v, d)} : v \in s.interest}
      known  == {i \in wanted : i[1] \in DOMAIN s.ports}
      add    == {i \in known \ s.installed : s.ports[i[1]] = "link_rule"}
      delete == {i \in known \cap s.installed : s.ports[i[1]] # "link_rule"}
      gone   == {SharedKey(i[1], Slice[i[2]]) : i \in delete}
  IN  [s EXCEPT
        !.installed = (@ \ delete) \cup add,
        !.table1 = [k \in {SharedKey(i[1], Slice[i[2]]) : i \in add} |->
                      Tenant((CHOOSE i \in add : k = SharedKey(i[1], Slice[i[2]]))[2])]
                   ++ [k \in DOMAIN @ \ gone |-> @[k]]]

\* Seeded bug: a route that was sent once is not sent again
UpdateRoutesOnce(s, route) ==
  [s EXCEPT !.table1 = @ ++ [k \in {RouteKey(e) : e \in DOMAIN route} |->
     Out(route[CHOOSE e \in DOMAIN route : k = RouteKey(e)], Keep)]]

\* The rules (1,20) to other switches.  current_next is never written, so
\* every route is added again each time, and none is ever deleted
UpdateRoutes(s, route) ==
  [s EXCEPT !.table1 = [k \in {RouteKey(e) : e \in DOMAIN route} |->
     Out(route[CHOOSE e \in DOMAIN route : k = RouteKey(e)], Keep)] ++ @]

\* new_state and new_output_port of an output group
Target(d, lk, route, k) ==
  LET end == PortMap[k[1]][k[2]]
  IN  IF end[1] # d
      THEN [state |-> "switch_rule", port |-> route[end[1]]]
      ELSE IF Linked(lk, d, end[2])
      THEN [state |-> "shared_link_rule", port |-> end[2]]
      ELSE [state |-> "host_rule", port |-> end[2]]

\* What its bucket does
Bucket(k, target) ==
  LET end == PortMap[k[1]][k[2]]
  IN  Out(target.port,
          CASE target.state = "host_rule"        -> NoTag
            [] target.state = "shared_link_rule" -> SharedTags[Slice[k[1]]]
            [] target.state = "switch_rule"      ->
                 FullTags[<<end[1], end[2], Slice[k[1]]>>])

\* Seeded bug: only a new state makes a group differ, not a new port
UpdateGroupsByState(d, s, lk, route, vs) ==
  LET new  == [k \in {k \in DOMAIN s.out : vs[k[1]] # "down"} |-> Target(d, lk, route, k)]
      sent == {k \in DOMAIN new : s.out[k].state # new[k].state}
      took == {k \in sent : (s.out[k].state = "no_rule") # (s.out[k].id \in DOMAIN s.groups)}
  IN  [s EXCEPT
        !.out    = [k \in sent |-> [id |-> s.out[k].id] ++ new[k]] ++ @,
        !.groups = [i \in {s.out[k].id : k \in took} |->
                      LET k == CHOOSE k \in took : s.out[k].id = i
                      IN  Bucket(k, new[k])] ++ @]

\* The output groups
UpdateGroups(d, s, lk, route, vs) ==
  LET new  == [k \in {k \in DOMAIN s.out : vs[k[1]] # "down"} |-> Target(d, lk, route, k)]
      sent == {k \in DOMAIN new : \/ s.out[k].state # new[k].state
                                  \/ s.out[k].port # new[k].port}
      took == {k \in sent : (s.out[k].state = "no_rule") # (s.out[k].id \in DOMAIN s.groups)}
  IN  [s EXCEPT
        !.out    = [k \in sent |-> [id |-> s.out[k].id] ++ new[k]] ++ @,
        !.groups = [i \in {s.out[k].id : k \in took} |->
                      LET k == CHOOSE k \in took : s.out[k].id = i
                      IN  Bucket(k, new[k])] ++ @]

UpdateDynamicRules(d, s, lk, route, vs) ==
  UpdateGroups(d, UpdateRoutes(UpdateShared(d, UpdatePorts(d, s, lk)), route), lk, route, vs)

\* next.at of a switch to which there is no route
NextThrows(d, s, route, vs) ==
  \E k \in DOMAIN s.out : /\ vs[k[1]] # "down"
                          /\ PortMap[k[1]][k[2]][1] \notin DOMAIN route \cup {d}

-----------------------------------------------------------------------------
\* Interest of a virtual switch

\* The group ids of a registration: one for the flood group, one per port
IdsNeeded(v) == 1 + Cardinality(DOMAIN PortMap[v])

\* The output groups, numbered in the order of port_to_dependent_switch
OutputIds(v, s) ==
  [k \in {<<v, x>> : x \in DOMAIN PortMap[v]} |->
     [id |-> s.ids + 1 + Cardinality({y \in DOMAIN PortMap[v] : y <= k[2]}),
      state |-> "no_rule", port |-> 0]]

Flood(out) == [kind |-> "flood", groups |-> {out[k].id : k \in DOMAIN out}]

RegisterInterest(v, s) ==
  LET out == OutputIds(v, s)
  IN  [s EXCEPT
        !.interest  = @ \cup {v},
        !.installed = {i \in @ : i[2] # v},
        !.ids       = @ + IdsNeeded(v),
        !.out       = out ++ @,
        !.groups    = @ ++ [i \in {s.ids + 1} |-> Flood(out)]]  \* fails if it exists

\* Seeded bug: the ports are needed as before, only the groups are forgotten
RemoveInterestKeepsPorts(gone, s) ==
  [s EXCEPT !.out = [k \in {k \in DOMAIN @ : k[1] \notin gone} |-> @[k]]]

\* The groups, their ids and the flows stay ("TODO" in the code)
RemoveInterest(gone, s) ==
  [s EXCEPT
    !.interest  = @ \ gone,
    !.installed = {i \in @ : i[2] \notin gone},
    !.out       = [k \in {k \in DOMAIN @ : k[1] \notin gone} |-> @[k]]]

-----------------------------------------------------------------------------
\* Ends of handlers

Die(why) ==
  /\ fault' = why
  /\ UNCHANGED <<online, sw, links, next, vstate>>

\* update_dynamic_rules of the switches ds, whose records are now in s
Update(ds, s, vs) ==
  IF \E d \in ds : NextThrows(d, s[d], next[d], vs)
  THEN Die("next")
  ELSE /\ sw' = [d \in Switches |-> IF d \in ds
                   THEN UpdateDynamicRules(d, s[d], links, next[d], vs)
                   ELSE s[d]]
       /\ vstate' = vs
       /\ UNCHANGED <<online, links, next, fault>>

\* Seeded bug: that the switches reach each other is not looked at
ReadyIfOnline(v, on, lk) == Deps(v) \subseteq on

\* all_online_and_reachable of VirtualSwitch::check_online
Ready(v, on, lk) ==
  /\ Deps(v) \subseteq on
  /\ \A d, e \in Deps(v) : e \in Reach(lk, d)

\* Hypervisor::calculate_routes: new routes; every virtual switch checks
\* whether it goes down, which removes its interest, or starts connecting; the
\* rules of every switch are updated
CalculateRoutes(on, lk, s) ==
  LET lost == {v \in VSwitches : vstate[v] # "down" /\ ~Ready(v, on, lk)}
      vs   == [v \in VSwitches |->
                 IF v \in lost THEN "down"
                 ELSE IF vstate[v] = "down" /\ Ready(v, on, lk) THEN "trying"
                 ELSE vstate[v]]
      left == [d \in on |-> RemoveInterest(lost, s[d])]
  IN  IF \E v \in lost : \E d \in Deps(v) \cap on : v \notin s[d].interest
      THEN Die("remove_interest")
      ELSE \E routes \in RoutesOver(lk) :
             IF \E d \in on : NextThrows(d, left[d], routes[d], vs)
             THEN Die("next")
             ELSE /\ online' = on
                  /\ links' = lk
                  /\ next' = [d \in on |-> routes[d]]
                  /\ vstate' = vs
                  /\ sw' = [d \in on |-> UpdateDynamicRules(d, left[d], lk, routes[d], vs)] ++ s
                  /\ UNCHANGED fault

-----------------------------------------------------------------------------
\* Handlers

Idle == stopping = {} /\ erasing = {} /\ fault = "none"

\* start and handle_features_reply: the flows are deleted, the static rules
\* added.  Until the ports are described nothing else concerns the switch.
SwitchOnline(d) ==
  /\ Idle
  /\ d \notin online
  /\ CalculateRoutes(online \cup {d}, links,
       [sw EXCEPT ![d].table0 = [i \in {FromController} |-> Goto1]])
  /\ UNCHANGED <<stopping, erasing>>

\* handle_port of new ports, from a port description or a port status
PortsAdded(d, ps) ==
  /\ Idle
  /\ d \in online
  /\ Update({d}, [sw EXCEPT ![d].ports = [p \in ps |-> "no_rule"] ++ @], vstate)
  /\ UNCHANGED <<stopping, erasing>>

PortDescription(d) ==
  /\ d \in online /\ DOMAIN sw[d].ports = {}
  /\ PortsAdded(d, Ports[d])

PortAdded(e) ==
  /\ DOMAIN sw[e[1]].ports \notin {{}, Ports[e[1]]}
  /\ e[2] \notin DOMAIN sw[e[1]].ports
  /\ PortsAdded(e[1], {e[2]})

\* handle_port of a port that was removed first stops its link
PortRemoved(e) ==
  /\ Idle
  /\ e[1] \in online
  /\ e[2] \in DOMAIN sw[e[1]].ports
  /\ erasing' = {e}
  /\ \/ /\ Linked(links, e[1], e[2])
        /\ CalculateRoutes(online, {c \in links : e \notin c}, sw)
     \/ /\ ~Linked(links, e[1], e[2])
        /\ UNCHANGED <<online, sw, links, next, vstate, fault>>
  /\ UNCHANGED stopping

PortErased(e) ==
  /\ fault = "none"
  /\ e \in erasing
  /\ erasing' = {}
  /\ Update({e[1]},
       [sw EXCEPT ![e[1]].ports = [p \in DOMAIN @ \ {e[2]} |-> @[p]]], vstate)
  /\ UNCHANGED stopping

LinkFound(c) ==
  /\ Idle
  /\ c \notin links
  /\ \A e \in c : e[1] \in online /\ e[2] \in DOMAIN sw[e[1]].ports
  /\ CalculateRoutes(online, links \cup {c}, sw)
  /\ UNCHANGED <<stopping, erasing>>

LinkLost(c) ==
  /\ Idle
  /\ c \in links
  /\ CalculateRoutes(online, links \ {c}, sw)
  /\ UNCHANGED <<stopping, erasing>>

\* PhysicalSwitch::stop: the links are stopped one by one
SwitchStop(d) ==
  /\ Idle
  /\ d \in online
  /\ stopping' = {d}
  /\ UNCHANGED <<online, sw, links, next, vstate, erasing, fault>>

StopLink(d, c) ==
  /\ fault = "none"
  /\ d \in stopping
  /\ c \in links
  /\ \E e \in c : e[1] = d
  /\ CalculateRoutes(online, links \ {c}, sw)
  /\ UNCHANGED <<stopping, erasing>>

SwitchStopped(d) ==
  /\ fault = "none"
  /\ d \in stopping
  /\ \A c \in links : \A e \in c : e[1] # d
  /\ stopping' = {}
  /\ CalculateRoutes(online \ {d}, links,
       [sw EXCEPT ![d] = Offline(IF GroupsSurvive THEN @.groups ELSE Nothing)])
  /\ UNCHANGED erasing

\* VirtualSwitch::start
Connected(v) ==
  /\ Idle
  /\ vstate[v] = "trying"
  /\ \A d \in Deps(v) : sw[d].ids + IdsNeeded(v) <= MaxGroups   \* bound
  /\ Update(Deps(v),
       [d \in Switches |-> IF d \in Deps(v) THEN RegisterInterest(v, sw[d]) ELSE sw[d]],
       [vstate EXCEPT ![v] = "connected"])
  /\ UNCHANGED <<stopping, erasing>>

\* VirtualSwitch::stop after a network error; it tries to connect again
ControllerLost(v) ==
  /\ Idle
  /\ vstate[v] = "connected"
  /\ Update(Deps(v),
       [d \in Switches |-> IF d \in Deps(v) THEN RemoveInterest({v}, sw[d]) ELSE sw[d]],
       [vstate EXCEPT ![v] = "trying"])
  /\ UNCHANGED <<stopping, erasing>>

Next ==
  \/ \E d \in Switches : \/ SwitchOnline(d) \/ PortDescription(d)
                         \/ SwitchStop(d) \/ SwitchStopped(d)
                         \/ \E c \in Cables : StopLink(d, c)
  \/ \E e \in Flaky : PortAdded(e) \/ PortRemoved(e) \/ PortErased(e)
  \/ \E c \in Cables : LinkFound(c) \/ LinkLost(c)
  \/ \E v \in VSwitches : Connected(v) \/ ControllerLost(v)

Spec == Init /\ [][Next]_vars

-----------------------------------------------------------------------------
\* What the switches do with a packet

Lost == [kind |-> "lost"]   \* dropped, or sent up as an error

Leaves(d, p, tag) == [kind |-> "wire", sw |-> d, port |-> p, tag |-> tag]

\* A packet with a tag in table 1 of d: the match with the highest priority
Table1(d, in, tag) ==
  LET t == sw[d].table1
      hits == {k \in DOMAIN t : /\ k.in \in {FromController, in}
                                /\ Matches(tag, k.tag, k.fields)}
      rule == t[CHOOSE k \in hits : \A l \in hits : k.prio >= l.prio]
  IN  IF hits = {} THEN Lost
      ELSE IF rule.kind = "tenant" THEN rule
      ELSE Leaves(d, rule.port, IF rule.tag = Keep THEN tag ELSE rule.tag)

\* A packet that comes in on a port.  The rule (0,20) for topology discovery
\* takes whatever has the highest slice in its tag.
Arrives(d, in, tag) ==
  IF \/ in \notin DOMAIN sw[d].table0
     \/ tag # NoTag /\ GetValue(tag, SliceField) = max_slice_id
  THEN Lost
  ELSE LET i == sw[d].table0[in]
       IN  CASE i.kind = "tenant" -> i
             [] i.kind = "drop"   -> Lost
             [] i.kind = "goto_1" -> IF tag = NoTag THEN Lost ELSE Table1(d, in, tag)

Hop(at) ==
  IF at.kind = "wire" /\ Linked(Cables, at.sw, at.port)
     /\ Peer(at.sw, at.port)[1] \in online
  THEN LET e == Peer(at.sw, at.port) IN Arrives(e[1], e[2], at.tag)
  ELSE Lost

\* Where a packet is after 0, 1, ... hops
Journey(start) ==
  LET j[n \in 0 .. Cardinality(Switches)] == IF n = 0 THEN start ELSE Hop(j[n - 1])
  IN  j

\* A packet put into the output group of port x of v at switch d
ThroughGroup(v, x, d) ==
  LET b == sw[d].groups[sw[d].out[<<v, x>>].id]
  IN  Leaves(d, b.port, b.tag)

-----------------------------------------------------------------------------
\* Properties

\* An end that can be used: a link that is known, or no link and one user
Usable(e) ==
  /\ e[2] \in DOMAIN sw[e[1]].ports
  /\ \/ Linked(links, e[1], e[2])
     \/ Cardinality({v \in sw[e[1]].interest : e[2] \in PortsAt(v, e[1])}) = 1

\* Whatever the virtual switch sends to one of its ports, from any of its
\* physical switches, leaves the network at that port: untagged to a host,
\* with the tag of its slice on a shared link (update_dynamic_rules).
Delivery ==
  fault = "none" =>
  \A v \in VSwitches : vstate[v] = "connected" =>
    \A x \in DOMAIN PortMap[v] : \A d \in Deps(v) :
      LET e == PortMap[v][x]
          j == Journey(ThroughGroup(v, x, d))
      IN  Usable(e) =>
            \E n \in DOMAIN j :
              j[n] = Leaves(e[1], e[2], IF Linked(links, e[1], e[2])
                                        THEN SharedTags[Slice[v]] ELSE NoTag)

\* What comes in is handed to the virtual switch that it belongs to: an
\* untagged packet only where that is the only user of a port without a link,
\* a tagged one only on a link, with the tag of its slice.
OwnTrafficOnly ==
  fault = "none" =>
  \A d \in online : \A p \in DOMAIN sw[d].ports :
    /\ LET a == Arrives(d, p, NoTag)
       IN  a.kind = "tenant" =>
             /\ ~Linked(links, d, p)
             /\ {v \in sw[d].interest : p \in PortsAt(v, d)} = {a.vs}
    /\ Linked(links, d, p) =>
         \A s \in Slices :
           LET a == Arrives(d, p, SharedTags[s])
           IN  a.kind = "tenant" => Slice[a.vs] = s /\ p \in PortsAt(a.vs, d)

\* A connected virtual switch gets the packets that come in on its ports.
TrafficArrives ==
  fault = "none" =>
  \A v \in VSwitches : vstate[v] = "connected" =>
    \A x \in DOMAIN PortMap[v] :
      LET e == PortMap[v][x]
          tag == IF Linked(links, e[1], e[2]) THEN SharedTags[Slice[v]] ELSE NoTag
      IN  Usable(e) => Arrives(e[1], e[2], tag) = Tenant(v)

\* Where d sends what is meant for switch e, and is not e itself
Forwards(d, e) ==
  {f \in online :
     /\ d # f /\ RouteKey(e) \in DOMAIN sw[d].table1
     /\ LET p == sw[d].table1[RouteKey(e)].port
        IN  Linked(Cables, d, p) /\ Peer(d, p)[1] = f}

\* Routes are never deleted, yet the ones that are left over never form a
\* loop (switches that each get from another one of them what is meant for e):
\* no packet goes round for ever, wherever it was and is meant to go.
NoForwardingLoop ==
  \A e \in Switches : \A loop \in SUBSET online :
    (\A f \in loop : \E d \in loop : f \in Forwards(d, e)) => loop = {}

\* calculate_routes takes a virtual switch down before it updates rules that
\* would need a route to its ports: next.at is never asked in vain.
RoutesKnown == fault # "next"

\* If a port without a link is needed by several virtual switches, nothing is
\* sent out over it (design.md: "the virtual ports stay down").
ContestedPortsStayDown ==
  fault = "none" =>
  \A v \in VSwitches : vstate[v] = "connected" =>
    \A x \in DOMAIN PortMap[v] :
      LET e == PortMap[v][x]
          j == Journey(ThroughGroup(v, x, e[1]))
      IN  \/ Linked(links, e[1], e[2])
          \/ Cardinality({w \in sw[e[1]].interest : e[2] \in PortsAt(w, e[1])}) <= 1
          \/ \A n \in DOMAIN j : j[n].kind = "wire" => <<j[n].sw, j[n].port>> # e
=============================================================================
