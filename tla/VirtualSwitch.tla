--------------------------- MODULE VirtualSwitch ---------------------------
(***************************************************************************)
(* The life of the virtual switches (virtual_switch.cpp, slice.cpp): when  *)
(* the physical switches they depend on are online and can reach each      *)
(* other they connect to their controller and register at those switches;  *)
(* when that is over they unregister and go down.                          *)
(*                                                                         *)
(* Every handler is one step of the boost::asio loop.  The completions of  *)
(* a virtual switch (of its connect, of its backoff timer, of its reads    *)
(* and writes) are queued in order and handled later, so a handler can     *)
(* find a virtual switch that changed after its operation completed.       *)
(*                                                                         *)
(* A physical switch is its datapath id; it is online while a lookup by    *)
(* datapath id finds it (module Registry).  A link is an unordered pair.   *)
(***************************************************************************)
EXTENDS Integers, Sequences, FiniteSets

CONSTANTS
  VSwitches,         \* the configured virtual switches
  Dpids,             \* datapath ids of the physical switches
  Deps,              \* Deps[v]: the datapaths v has ports on
  Cables,            \* the pairs of datapaths that can have a link
  StaleCompletions,  \* may events happen while completions are queued?
  MaxQueue           \* bound on the queued completions of a virtual switch

ASSUME VirtualSwitchAssumption ==
  /\ Deps \in [VSwitches -> SUBSET Dpids]
  /\ \A c \in Cables : c \in SUBSET Dpids
  /\ StaleCompletions \in BOOLEAN
  /\ MaxQueue \in Nat

VARIABLES
  phase,   \* of the hypervisor: "loaded", "running", "stopping", "stopped"
  online,  \* the datapaths get_physical_switch_by_datapath_id finds
  links,   \* the links found by topology discovery
  vs,      \* the virtual switches, a record each (see TypeOK)
  fault    \* why the process died: an exception nothing catches, or a
           \* pointer to nothing; "none" while it lives

vars == <<phase, online, links, vs, fault>>

Completions == {"connected", "connect_failed", "backoff_expired", "io_error"}

TypeOK ==
  /\ phase \in {"loaded", "running", "stopping", "stopped"}
  /\ online \subseteq Dpids
  /\ links \subseteq Cables
  /\ vs \in [VSwitches ->
       [state    : {"down", "try_connecting", "connected"},
        sock     : {"closed", "connecting", "failed", "open"},
        timer    : BOOLEAN,           \* connection_backoff_timer is waiting
        reads    : BOOLEAN,           \* start_receive_message is waiting
        ready    : Seq(Completions),
        interest : SUBSET Dpids]]     \* where register_interest was called
  /\ \A v \in VSwitches : vs[v].interest \subseteq Deps[v]
  /\ fault \in {"none", "register_interest", "remove_interest",
                "update_dynamic_rules", "slice"}

Init ==
  /\ phase = "loaded"
  /\ online = {}
  /\ links = {}
  /\ vs = [v \in VSwitches |->
             [state |-> "down", sock |-> "closed", timer |-> FALSE,
              reads |-> FALSE, ready |-> << >>, interest |-> {}]]
  /\ fault = "none"

-----------------------------------------------------------------------------
\* Reachability over links, what a finite distance of calculate_routes means:
\* a datapath is reached if every set that follows the links contains it

Reachable(from, on, lk) ==
  LET Closed == {S \in SUBSET Dpids :
                   from \in S /\ \A e \in S, d \in on : {d, e} \in lk => d \in S}
  IN  {d \in Dpids : \A S \in Closed : d \in S}

\* all_online_and_reachable of VirtualSwitch::check_online
Ready(v, on, lk) ==
  /\ Deps[v] \subseteq on
  /\ \A d \in Deps[v] : Deps[v] \subseteq Reachable(d, on, lk)

-----------------------------------------------------------------------------
\* The parts of handlers, on the record r of one virtual switch

Queue(r, what) == [r EXCEPT !.ready = Append(@, what)]

\* async_connect opens a closed socket; on one that is connecting or connected
\* it fails at once (EALREADY, EISCONN)
TryConnect(r) ==
  IF r.sock \in {"closed", "failed"}
  THEN [r EXCEPT !.state = "try_connecting", !.sock = "connecting"]
  ELSE Queue([r EXCEPT !.state = "try_connecting"], "connect_failed")

\* OpenflowConnection::stop and the cancelled timer: a pending connect
\* completes with operation_aborted, the other aborted handlers do nothing
Disconnect(r) ==
  LET q == IF r.sock = "connecting" THEN Queue(r, "connect_failed") ELSE r
  IN  [q EXCEPT !.sock = "closed", !.reads = FALSE, !.timer = FALSE]

\* Seeded bugs: the registration is kept, or a lost connection is not retried
StopKeepsInterest(r, on) ==
  IF r.state = "connected" THEN TryConnect(Disconnect(r)) ELSE Disconnect(r)
StopGivesUp(r, on) == [Disconnect(r) EXCEPT !.interest = @ \ on]

\* VirtualSwitch::stop
Stop(r, on) ==
  LET s == [Disconnect(r) EXCEPT !.interest = @ \ on]
  IN  IF r.state = "connected" THEN TryConnect(s) ELSE s

\* remove_interest throws at a switch where nothing was registered
StopThrows(v, r, on) == ~(Deps[v] \cap on \subseteq r.interest)

GoesDown(v, r, on, lk) == ~Ready(v, on, lk) /\ r.state # "down"

\* VirtualSwitch::check_online, with go_down
CheckOnline(v, r, on, lk) ==
  CASE GoesDown(v, r, on, lk) -> Stop([r EXCEPT !.state = "down"], on)
    [] Ready(v, on, lk) /\ r.state = "down" -> TryConnect(r)
    [] OTHER -> r

\* calculate_routes: check_online of every virtual switch
CheckAll(f, on, lk) == [v \in VSwitches |-> CheckOnline(v, f[v], on, lk)]

CheckThrows(f, on, lk) ==
  \E v \in VSwitches :
    GoesDown(v, f[v], on, lk) /\ StopThrows(v, f[v], on)

Recalculate(on, lk) ==
  /\ vs' = CheckAll(vs, on, lk)
  /\ fault' = IF CheckThrows(vs, on, lk) THEN "remove_interest" ELSE "none"

-----------------------------------------------------------------------------
\* Events.  Without StaleCompletions an event that touches a virtual switch
\* happens only after the handlers of its earlier completions.

MayHappen(v) ==
  Len(vs[v].ready) <= IF StaleCompletions THEN MaxQueue - 1 ELSE 0

Settled == fault = "none" /\ \A v \in VSwitches : MayHappen(v)

\* Hypervisor::start, which starts the slices
Start ==
  /\ Settled /\ phase = "loaded"
  /\ phase' = "running"
  /\ Recalculate(online, links)
  /\ UNCHANGED <<online, links>>

\* A seeded bug: calculate_routes is not called for a new switch
SwitchOnlineUnnoticed(d) ==
  /\ Settled /\ phase = "running"
  /\ d \notin online
  /\ online' = online \cup {d}
  /\ UNCHANGED <<phase, links, vs, fault>>

\* PhysicalSwitch::handle_features_reply
SwitchOnline(d) ==
  /\ Settled /\ phase = "running"
  /\ d \notin online
  /\ online' = online \cup {d}
  /\ Recalculate(online', links)
  /\ UNCHANGED <<phase, links>>

\* DiscoveredLink created by handle_topology_discovery_packet_in
LinkUp(c) ==
  /\ Settled /\ phase = "running"
  /\ c \subseteq online /\ c \notin links
  /\ links' = links \cup {c}
  /\ Recalculate(online, links')
  /\ UNCHANGED <<phase, online>>

\* A seeded bug: calculate_routes is not called for a lost link
LinkDownUnnoticed(c) ==
  /\ Settled /\ phase = "running"
  /\ c \in links
  /\ links' = links \ {c}
  /\ UNCHANGED <<phase, online, vs, fault>>

\* DiscoveredLink::stop, when the link times out or its port is deleted
LinkDown(c) ==
  /\ Settled /\ phase = "running"
  /\ c \in links
  /\ links' = links \ {c}
  /\ Recalculate(online, links')
  /\ UNCHANGED <<phase, online>>

\* PhysicalSwitch::stop.  Its links are stopped first, which recalculates the
\* routes while it is still registered; what was registered at it goes with
\* the object.
SwitchStop(d) ==
  /\ IF phase = "stopping" THEN fault = "none"
     ELSE Settled /\ phase = "running"
  /\ d \in online
  /\ links' = {c \in links : d \notin c}
  /\ online' = online \ {d}
  /\ LET f == IF links' = links THEN vs ELSE CheckAll(vs, online, links')
         g == [v \in VSwitches |-> [f[v] EXCEPT !.interest = @ \ {d}]]
     IN  /\ vs' = CheckAll(g, online', links')
         /\ fault' = IF \/ links' # links /\ CheckThrows(vs, online, links')
                        \/ CheckThrows(g, online', links')
                     THEN "remove_interest" ELSE "none"
  /\ UNCHANGED phase

\* Hypervisor::stop is one handler: it stops the physical switches in some
\* order (nothing else happens while phase is "stopping") and then the slices.
BeginStop ==
  /\ Settled /\ phase = "running"
  /\ phase' = "stopping"
  /\ UNCHANGED <<online, links, vs, fault>>

FinishStop ==
  /\ fault = "none" /\ phase = "stopping"
  /\ online = {}
  /\ phase' = "stopped"
  /\ vs' = [v \in VSwitches |->
              IF vs[v].state = "down" THEN vs[v]
              ELSE Stop([vs[v] EXCEPT !.state = "down"], online)]
  /\ UNCHANGED <<online, links, fault>>

-----------------------------------------------------------------------------
\* Operations of one virtual switch complete

Event(v, r) ==
  /\ fault = "none" /\ MayHappen(v)
  /\ phase \in {"running", "stopped"}
  /\ vs' = [vs EXCEPT ![v] = r]
  /\ UNCHANGED <<phase, online, links, fault>>

ConnectSucceeds(v) ==
  /\ vs[v].sock = "connecting"
  /\ Event(v, Queue([vs[v] EXCEPT !.sock = "open"], "connected"))

\* A read that waits on the same socket fails with it
ConnectFails(v) ==
  LET r == Queue([vs[v] EXCEPT !.sock = "failed", !.reads = FALSE],
                 "connect_failed")
  IN  /\ vs[v].sock = "connecting"
      /\ Event(v, IF vs[v].reads THEN Queue(r, "io_error") ELSE r)

TimerExpires(v) ==
  /\ vs[v].timer
  /\ Event(v, Queue([vs[v] EXCEPT !.timer = FALSE], "backoff_expired"))

\* The controller closes the connection or the network fails: the read
\* completes with the error, and so may a write
ControllerLost(v) ==
  LET r == [vs[v] EXCEPT !.sock = "failed", !.reads = FALSE]
      e == IF vs[v].reads THEN Queue(r, "io_error") ELSE r
  IN  /\ vs[v].sock = "open"
      /\ \/ Event(v, e)
         \/ /\ StaleCompletions /\ vs[v].reads
            /\ Event(v, Queue(e, "io_error"))

-----------------------------------------------------------------------------
\* Handlers of one virtual switch

Pending(v, what) ==
  /\ fault = "none"
  /\ phase \in {"running", "stopped"}
  /\ vs[v].ready # << >> /\ Head(vs[v].ready) = what

Handled(v) == [vs[v] EXCEPT !.ready = Tail(@)]

\* start without a switch to register at (a null pointer), or without a route
\* between the switches (next.at of update_dynamic_rules)
StartThrows(v) ==
  CASE ~(Deps[v] \subseteq online)  -> "register_interest"
    [] ~Ready(v, online, links) -> "update_dynamic_rules"
    [] OTHER -> "none"

\* Seeded bugs: start registers at every switch, or at only one
RegistersAtAll(v) == online
RegistersAtOne(v) == IF Deps[v] = {} THEN {} ELSE {CHOOSE d \in Deps[v] : TRUE}

\* The switches where start registers the interest of a virtual switch
RegistersAt(v) == Deps[v]

\* handle_connect without an error: VirtualSwitch::start
HandleConnected(v) ==
  /\ Pending(v, "connected")
  /\ IF vs[v].state # "try_connecting"
     THEN vs' = [vs EXCEPT ![v] = Handled(v)] /\ UNCHANGED fault
     ELSE LET r == [Handled(v) EXCEPT !.state = "connected",
                                      !.interest = RegistersAt(v)]
          IN  /\ vs' = [vs EXCEPT ![v] =
                   CASE r.sock \in {"open", "connecting"} ->
                          [r EXCEPT !.reads = TRUE]
                     [] r.sock = "failed" -> Queue(r, "io_error")
                     [] OTHER -> r]
              /\ fault' = StartThrows(v)
  /\ UNCHANGED <<phase, online, links>>

\* A seeded bug: the backoff timer is armed whatever the state
ConnectFailedAlwaysRetries(v) ==
  /\ Pending(v, "connect_failed")
  /\ vs' = [vs EXCEPT ![v] = [Handled(v) EXCEPT !.timer = TRUE]]
  /\ UNCHANGED <<phase, online, links, fault>>

\* handle_connect with an error
HandleConnectFailed(v) ==
  /\ Pending(v, "connect_failed")
  /\ vs' = [vs EXCEPT ![v] =
              [Handled(v) EXCEPT
                 !.timer = @ \/ vs[v].state = "try_connecting"]]
  /\ UNCHANGED <<phase, online, links, fault>>

\* backoff_expired.  Hypervisor::stop destroys the slices try_connect asks for
\* the address of the controller.
BackoffExpired(v) ==
  /\ Pending(v, "backoff_expired")
  /\ vs' = [vs EXCEPT ![v] = TryConnect(Handled(v))]
  /\ fault' = IF phase = "stopped" THEN "slice" ELSE "none"
  /\ UNCHANGED <<phase, online, links>>

\* handle_network_error of OpenflowConnection, which calls the virtual stop
HandleIoError(v) ==
  /\ Pending(v, "io_error")
  /\ vs' = [vs EXCEPT ![v] = Stop(Handled(v), online)]
  /\ fault' = IF StopThrows(v, vs[v], online) THEN "remove_interest"
              ELSE "none"
  /\ UNCHANGED <<phase, online, links>>

-----------------------------------------------------------------------------
Handle(v) ==
  \/ HandleConnected(v)
  \/ HandleConnectFailed(v)
  \/ BackoffExpired(v)
  \/ HandleIoError(v)

Next ==
  \/ Start \/ BeginStop \/ FinishStop
  \/ \E d \in Dpids : SwitchOnline(d) \/ SwitchStop(d)
  \/ \E c \in Cables : LinkUp(c) \/ LinkDown(c)
  \/ \E v \in VSwitches :
       \/ ConnectSucceeds(v) \/ ConnectFails(v)
       \/ TimerExpires(v) \/ ControllerLost(v)
       \/ Handle(v)

Spec == Init /\ [][Next]_vars

\* Handlers run and timers expire; a controller that is tried again and again
\* is reached at last.
Fairness ==
  \A v \in VSwitches :
    /\ WF_vars(Handle(v))
    /\ WF_vars(TimerExpires(v))
    /\ WF_vars(ConnectSucceeds(v) \/ ConnectFails(v))
    /\ SF_vars(ConnectSucceeds(v))

FairSpec == Spec /\ Fairness /\ WF_vars(Start)

-----------------------------------------------------------------------------
\* Properties

\* A virtual switch is registered at all its physical switches or at none, and
\* only while they are online and reach each other: update_dynamic_rules looks
\* up a route (next.at) for every registered virtual switch.
RegisteredIsReady ==
  fault = "none" =>
    \A v \in VSwitches : vs[v].interest # {} =>
      /\ vs[v].interest = Deps[v]
      /\ Ready(v, online, links)
      /\ vs[v].state # "down"

\* A virtual switch that serves its controller is registered at every physical
\* switch it has a port on.
ConnectedIsRegistered ==
  fault = "none" =>
    \A v \in VSwitches :
      vs[v].state = "connected" => vs[v].interest = Deps[v]

\* No virtual switch stays down when it could be online.
ReadyIsNotDown ==
  phase = "running" /\ fault = "none" =>
    \A v \in VSwitches : Ready(v, online, links) => vs[v].state # "down"

\* design.md:581: a virtual switch is online (or tries to be) only while all
\* physical switches it depends on are online and can route to each other.
OnlineOnlyIfReady ==
  phase = "running" /\ fault = "none" =>
    \A v \in VSwitches : vs[v].state # "down" => Ready(v, online, links)

\* design.md:581: when a physical switch or a route disappears the virtual
\* switch goes offline, and Delftvisor goes on.
GoesOffline ==
  phase = "running" =>
    \A v \in VSwitches : ~Ready(v, online, links) =>
      vs[v].state = "down" /\ fault = "none"

\* A virtual switch that is not down always waits for exactly one thing: its
\* connect, its timer, its controller or one queued completion.  With none it
\* would never come online (again), with two it would connect twice.
Drivers(r) ==
  Len(r.ready) + Cardinality({w \in {"connect", "timer", "read"} :
                                \/ w = "connect" /\ r.sock = "connecting"
                                \/ w = "timer" /\ r.timer
                                \/ w = "read" /\ r.reads})
OneDriver ==
  fault = "none" =>
    \A v \in VSwitches : vs[v].state # "down" => Drivers(vs[v]) = 1

\* A virtual switch whose physical switches stay online and connected to each
\* other serves its controller again and again, whatever the controller does.
ComesOnline ==
  [](fault = "none" /\ phase # "stopping") =>
    \A v \in VSwitches :
      <>[](phase = "running" /\ Ready(v, online, links))
        => []<>(vs[v].state = "connected" /\ vs[v].sock = "open")
=============================================================================
