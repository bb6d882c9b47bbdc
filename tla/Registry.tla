------------------------------ MODULE Registry ------------------------------
(***************************************************************************)
(* The registry of physical switches: Hypervisor (hypervisor.cpp) accepts  *)
(* the connections of switches and gives each an id, PhysicalSwitch        *)
(* (physical_switch.cpp) registers its datapath id when the features reply *)
(* arrives and unregisters when its connection fails.                      *)
(*                                                                         *)
(* Handlers run one at a time on the boost::asio loop, so each is one      *)
(* step.  What interleaves is the network with the handlers: an operation  *)
(* on a socket first completes (its handler is queued in "ready") and its  *)
(* handler runs later, after whatever was queued before it.  A stopped     *)
(* socket completes what is pending with operation_aborted, which every    *)
(* handler ignores, but what had completed before is delivered as it was.  *)
(*                                                                         *)
(* The call of calculate_routes in these handlers changes nothing of the   *)
(* registry: its effect on the virtual switches is in module VirtualSwitch.*)
(***************************************************************************)
EXTENDS IdAllocator, Sequences

CONSTANTS
  Conns,                  \* PhysicalSwitch objects (accepted connections)
  Dpids,                  \* datapath ids of the switches
  None,                   \* not a datapath id
  OverlappingConnections  \* may a datapath connect while an earlier
                          \* connection of it has not been stopped?

ASSUME RegistryAssumption ==
  /\ None \notin Dpids
  /\ OverlappingConnections \in BOOLEAN

VARIABLES
  state,      \* state[c]: "none" (no object), "unregistered", "registered"
  sock,       \* sock[c]: "closed" or "open"
  peer,       \* peer[c]: the datapath at the other end
  id,         \* id[c]: the switch id given by handle_accept (no object: MinId)
  ready,      \* ready[c]: completions whose handlers have not run yet
  alloc,      \* physical_switch_id_allocator
  physical_switches,         \* switch id |-> connection
  datapath_id_to_switch_id,  \* datapath id |-> switch id
  crashed,    \* the exception of new_id ended the process
  stale       \* history: a handler of a stopped connection has run.  No
              \* guard reads it

vars == <<state, sock, peer, id, ready, alloc, physical_switches,
          datapath_id_to_switch_id, crashed, stale>>

-----------------------------------------------------------------------------
\* Maps with a changing domain (std::unordered_map)

Insert(f, k, v) == [x \in DOMAIN f \cup {k} |-> IF x = k THEN v ELSE f[x]]
Erase(f, k)     == [x \in DOMAIN f \ {k} |-> f[x]]

Completions == {"features_reply", "read_error", "write_error"}

Live(c) == sock[c] = "open"

\* get_physical_switch_by_datapath_id: the switch d is found under, or none
LookupFinds(d, c) ==
  /\ d \in DOMAIN datapath_id_to_switch_id
  /\ datapath_id_to_switch_id[d] \in DOMAIN physical_switches
  /\ physical_switches[datapath_id_to_switch_id[d]] = c

TypeOK ==
  /\ state \in [Conns -> {"none", "unregistered", "registered"}]
  /\ sock \in [Conns -> {"closed", "open"}]
  /\ peer \in [Conns -> Dpids \cup {None}]
  /\ id \in [Conns -> MinId .. MaxId]
  /\ ready \in [Conns -> Seq(Completions)]
  /\ alloc.next \in MinId .. (MaxId + 1)
  /\ alloc.returned \subseteq MinId .. MaxId
  /\ DOMAIN physical_switches \subseteq MinId .. MaxId
  /\ \A i \in DOMAIN physical_switches : physical_switches[i] \in Conns
  /\ DOMAIN datapath_id_to_switch_id \subseteq Dpids
  /\ \A d \in DOMAIN datapath_id_to_switch_id :
       datapath_id_to_switch_id[d] \in MinId .. MaxId
  /\ crashed \in BOOLEAN
  /\ stale \in BOOLEAN

Init ==
  /\ state = [c \in Conns |-> "none"]
  /\ sock = [c \in Conns |-> "closed"]
  /\ peer = [c \in Conns |-> None]
  /\ id = [c \in Conns |-> MinId]
  /\ ready = [c \in Conns |-> << >>]
  /\ alloc = InitAlloc
  /\ physical_switches = << >>
  /\ datapath_id_to_switch_id = << >>
  /\ crashed = FALSE
  /\ stale = FALSE

-----------------------------------------------------------------------------
\* Hypervisor::handle_accept

\* new_id throws and nothing catches it
AcceptFails ==
  /\ Exhausted(alloc)
  /\ crashed' = TRUE
  /\ UNCHANGED <<state, sock, peer, id, ready, alloc, physical_switches,
                 datapath_id_to_switch_id, stale>>

\* emplace keeps the entry that is there: the new object is then dropped.
\* (The start of the old switch that follows adds a second read to it.  It
\* takes an id that was freed twice, and is left out.)
AcceptSucceeds(c, d) ==
  /\ ~Exhausted(alloc)
  /\ alloc' = AfterNew(alloc)
  /\ IF NewId(alloc) \in DOMAIN physical_switches
     THEN UNCHANGED <<state, sock, peer, id, physical_switches>>
     ELSE /\ state' = [state EXCEPT ![c] = "unregistered"]
          /\ sock' = [sock EXCEPT ![c] = "open"]
          /\ peer' = [peer EXCEPT ![c] = d]
          /\ id' = [id EXCEPT ![c] = NewId(alloc)]
          /\ physical_switches' = Insert(physical_switches, NewId(alloc), c)
  /\ UNCHANGED <<ready, datapath_id_to_switch_id, crashed, stale>>

HandleAccept(c, d) ==
  /\ ~crashed
  /\ state[c] = "none"
  /\ OverlappingConnections \/ \A o \in Conns : Live(o) => peer[o] # d
  /\ AcceptFails \/ AcceptSucceeds(c, d)

-----------------------------------------------------------------------------
\* The network: an operation of an open socket completes.  At most one read
\* and one write of a connection are outstanding, and both may have completed
\* before the first of their handlers runs.

Queued(c, kinds) == \E i \in 1 .. Len(ready[c]) : ready[c][i] \in kinds

Complete(c, kind, same) ==
  /\ ~crashed
  /\ Live(c)
  /\ ~Queued(c, same)
  /\ ready' = [ready EXCEPT ![c] = Append(@, kind)]
  /\ UNCHANGED <<state, sock, peer, id, alloc, physical_switches,
                 datapath_id_to_switch_id, crashed, stale>>

FeaturesReplyArrives(c) ==
  Complete(c, "features_reply", {"features_reply", "read_error"})

ReadFails(c) == Complete(c, "read_error", {"features_reply", "read_error"})

WriteFails(c) == Complete(c, "write_error", {"write_error"})

-----------------------------------------------------------------------------
\* Handlers

Pending(c, kind) == ~crashed /\ ready[c] # << >> /\ Head(ready[c]) = kind

\* The object lives, in state st, as long as its socket or a queued handler
\* refers to it
Collect(c, st) ==
  IF sock'[c] = "closed" /\ ready'[c] = << >>
  THEN /\ state' = [state EXCEPT ![c] = "none"]
       /\ peer' = [peer EXCEPT ![c] = None]
       /\ id' = [id EXCEPT ![c] = MinId]
  ELSE /\ state' = [state EXCEPT ![c] = st]
       /\ UNCHANGED <<peer, id>>

\* A handler of c runs: of a connection that was stopped before, or not
Heard(c) == stale' = (stale \/ sock[c] = "closed")

\* PhysicalSwitch::handle_features_reply and register_physical_switch
HandleFeaturesReply(c) ==
  /\ Pending(c, "features_reply")
  /\ ready' = [ready EXCEPT ![c] = Tail(@)]
  /\ datapath_id_to_switch_id' =
       Insert(datapath_id_to_switch_id, peer[c], id[c])
  /\ UNCHANGED <<sock, alloc, physical_switches, crashed>>
  /\ Heard(c)
  /\ Collect(c, "registered")

\* A seeded bug: the id is not returned to the allocator
UnregisterLeaksId(c) ==
  /\ datapath_id_to_switch_id' =
       IF state[c] = "unregistered" THEN datapath_id_to_switch_id
       ELSE Erase(datapath_id_to_switch_id, peer[c])
  /\ physical_switches' = Erase(physical_switches, id[c])
  /\ alloc' = alloc

\* A seeded bug: the datapath id stays registered
UnregisterKeepsDatapath(c) ==
  /\ datapath_id_to_switch_id' = datapath_id_to_switch_id
  /\ physical_switches' = Erase(physical_switches, id[c])
  /\ alloc' = AfterFree(alloc, id[c])

\* A seeded bug: all datapath ids are dropped with one switch
UnregisterClearsDatapaths(c) ==
  /\ datapath_id_to_switch_id' = << >>
  /\ physical_switches' = Erase(physical_switches, id[c])
  /\ alloc' = AfterFree(alloc, id[c])

\* unregister_physical_switch, with the datapath id when it was registered
Unregister(c) ==
  /\ datapath_id_to_switch_id' =
       IF state[c] = "unregistered" THEN datapath_id_to_switch_id
       ELSE Erase(datapath_id_to_switch_id, peer[c])
  /\ physical_switches' = Erase(physical_switches, id[c])
  /\ alloc' = AfterFree(alloc, id[c])

\* A seeded bug: stop forgets to close the socket
HandleNetworkErrorKeepsSocket(c) ==
  /\ Pending(c, "read_error") \/ Pending(c, "write_error")
  /\ ready' = [ready EXCEPT ![c] = Tail(@)]
  /\ sock' = sock
  /\ Unregister(c)
  /\ UNCHANGED crashed
  /\ Heard(c)
  /\ Collect(c, state[c])

\* handle_network_error with anything but an aborted operation, and the
\* PhysicalSwitch::stop it calls
HandleNetworkError(c) ==
  /\ Pending(c, "read_error") \/ Pending(c, "write_error")
  /\ ready' = [ready EXCEPT ![c] = Tail(@)]
  /\ sock' = [sock EXCEPT ![c] = "closed"]
  /\ Unregister(c)
  /\ UNCHANGED crashed
  /\ Heard(c)
  /\ Collect(c, state[c])

Next ==
  \E c \in Conns :
    \/ \E d \in Dpids : HandleAccept(c, d)
    \/ FeaturesReplyArrives(c)
    \/ ReadFails(c)
    \/ WriteFails(c)
    \/ HandleFeaturesReply(c)
    \/ HandleNetworkError(c)

Spec == Init /\ [][Next]_vars

-----------------------------------------------------------------------------
\* Properties

\* What a handler does that runs after its connection was stopped is not what
\* the registry is made for (registry_double_stop): it may free an id another
\* switch has meanwhile, or register a datapath that is gone.  A property that
\* such a handler can break is said up to it.  Until then connections may fail
\* in every order, with both completions of any of them queued.

LiveIds == {id[c] : c \in {x \in Conns : Live(x)}}

\* Two connected switches never have the same id (id_allocator.hpp:5-10), and
\* every connected switch is the one found under its id.
UniqueIds ==
  \A c \in Conns : Live(c) =>
    /\ id[c] \in DOMAIN physical_switches
    /\ physical_switches[id[c]] = c

\* Ids are unique until a handler of a stopped connection runs.
UniqueIdsUntilStale == ~stale => UniqueIds

\* The ids the allocator counts as used are ids of connected switches: none
\* leaks when a connection is lost at any stage of its handshake, not even
\* when it is stopped twice.  Until that happens they are exactly the ids of
\* the connected switches: none is free while a switch has it.
IdsAccountedFor ==
  /\ Allocated(alloc) \subseteq LiveIds
  /\ ~stale => LiveIds \subseteq Allocated(alloc)

\* Until a handler of a stopped connection runs, a lookup by datapath id never
\* returns a switch with another datapath id or one that is no longer connected
\* (register_interest would send its rules to the wrong switch).
LookupSound ==
  ~stale => \A d \in DOMAIN datapath_id_to_switch_id :
              \E c \in Conns : /\ LookupFinds(d, c)
                               /\ Live(c) /\ state[c] = "registered"
                               /\ peer[c] = d

\* A switch that completed its handshake, and is the only connection of its
\* datapath, is found under its datapath id (design.md:503, hypervisor.hpp:64),
\* until a handler of a stopped connection runs: otherwise the virtual switches
\* that depend on it never come online.
LookupComplete ==
  ~stale => \A c \in Conns :
              /\ Live(c) /\ state[c] = "registered"
              /\ \A o \in Conns \ {c} : Live(o) => peer[o] # peer[c]
              => LookupFinds(peer[c], c)

\* The step is a handler of o, which has the datapath of c or, when a handler of
\* a stopped connection runs or ran, the id of c
HiddenBy(o, c) ==
  /\ ready'[o] # ready[o]
  /\ peer[o] = peer[c] \/ (stale' /\ id[o] = id[c])

\* A registered switch is hidden from the lookup only by a handler of another
\* connection of the same datapath, or once a handler of a stopped connection
\* ran, of one that shares its id.
LookupLostOnlyToSharer ==
  [][\A c \in Conns :
       /\ Live(c) /\ state[c] = "registered" /\ LookupFinds(peer[c], c)
       /\ Live(c)'
       => LookupFinds(peer[c], c)' \/ \E o \in Conns \ {c} : HiddenBy(o, c)]_vars

\* Delftvisor only dies of an unusable id when every id is held by a
\* connected switch, even after connections were stopped twice.
CrashOnlyWhenFull == crashed => LiveIds = MinId .. MaxId

\* The ids of connected switches behave as an abstract pool of ids until a
\* handler of a stopped connection runs: an id is given to a connection only
\* while no connected switch holds it (id_allocator.hpp:5-10).
HeldIds == [c \in Conns |-> IF Live(c) THEN id[c] ELSE MinId - 1]
Pool == INSTANCE IdPool WITH Users <- Conns, held <- HeldIds
ImplementsPool == Pool!Init /\ [][Pool!Next \/ stale']_HeldIds
=============================================================================
