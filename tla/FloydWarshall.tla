--------------------------- MODULE FloydWarshall ---------------------------
(***************************************************************************)
(* Hypervisor::calculate_routes: the distances and the output ports        *)
(* between all physical switches, computed over the links that topology    *)
(* discovery has found, and computed anew whenever one of them changes.    *)
(*                                                                         *)
(* link[s][p] is the switch behind the link of port p of switch s.  The    *)
(* two ends of a link are two entries, and nothing here makes them agree:  *)
(* the code looks at the ports of each switch alone.  A link may lead back *)
(* to its own switch.  The loop over an unordered map visits the switches  *)
(* in some order; they are numbered in that order.  One iteration of the   *)
(* innermost loop is one step.                                             *)
(***************************************************************************)
EXTENDS Naturals, FiniteSets

CONSTANTS
  N,        \* the number of physical switches
  Ports,    \* the ports of a switch
  Infinite, \* topology::infinite, the distance of what cannot be reached
  Leads     \* Leads[s][p], the switches port p of s may be cabled to

None     == 0
Switches == 1..N

Cablings == [Switches -> [Ports -> SUBSET Switches]]

ASSUME NAssumption        == N \in Nat \ {0}
ASSUME PortsAssumption    == Ports \subseteq Nat \ {None}
ASSUME InfiniteAssumption == Infinite \in Nat /\ Infinite > 1
ASSUME LeadsAssumption    == Leads \in Cablings

VARIABLES
  link,    \* the other switch of each port's link
  dist,    \* dist[a][b], Infinite where the map has no entry
  next,    \* next[a][b], the port towards b, None where there is no entry
  k, i, j  \* the iterators of the three loops; k = N + 1 when they are done

vars == <<link, dist, next, k, i, j>>

Done == k = N + 1

\* A port holds a link to a switch it is cabled to, or none.
Links == {l \in [Switches -> [Ports -> Switches \cup {None}]] :
            \A s \in Switches, p \in Ports : l[s][p] \in Leads[s][p] \cup {None}}

\* The ports of a that lead straight to b
PortsTo(l, a, b) == {p \in Ports : l[a][p] = b}

(***************************************************************************)
(* reset_distances of every switch: 0 to itself, then 1 to the other end   *)
(* of each link, which overwrites the 0 where that is the switch itself.   *)
(* Of parallel links the last in the order of the map of ports is taken.   *)
(***************************************************************************)
DirectDistance(l, a, b) ==
  IF PortsTo(l, a, b) # {} THEN 1 ELSE IF a = b THEN 0 ELSE Infinite

\* A seeded bug: links count in one direction only, as print_topology does
DirectPortOnce(l, a, b) ==
  IF PortsTo(l, a, b) = {} \/ b < a THEN None
  ELSE CHOOSE p \in PortsTo(l, a, b) : TRUE

DirectPort(l, a, b) ==
  IF PortsTo(l, a, b) = {} THEN None ELSE CHOOSE p \in PortsTo(l, a, b) : TRUE

Distances(l) == [a \in Switches |-> [b \in Switches |-> DirectDistance(l, a, b)]]
Nexts(l)     == [a \in Switches |-> [b \in Switches |-> DirectPort(l, a, b)]]

Init ==
  /\ link = [s \in Switches |-> [p \in Ports |-> None]]
  /\ dist = Distances(link)
  /\ next = Nexts(link)
  /\ k = 1 /\ i = 1 /\ j = 1

-----------------------------------------------------------------------------
\* A seeded bug: a distance of the innermost loop is left out
AdvanceTooFar ==
  /\ j' = IF j + 1 < N THEN j + 1 ELSE 1
  /\ i' = IF j + 1 < N THEN i ELSE IF i < N THEN i + 1 ELSE 1
  /\ k' = IF j + 1 < N \/ i < N THEN k ELSE k + 1

\* The three iterators go on to the next triple.
Advance ==
  /\ j' = IF j < N THEN j + 1 ELSE 1
  /\ i' = IF j < N THEN i ELSE IF i < N THEN i + 1 ELSE 1
  /\ k' = IF j < N \/ i < N THEN k ELSE k + 1

\* A seeded bug: what is not known yet is always replaced
ShorterOrUnknown ==
  dist[i][j] = Infinite \/ dist[i][k] + dist[k][j] < dist[i][j]

\* The sum over k is shorter than what is known from i to j.
Shorter == dist[i][k] + dist[k][j] < dist[i][j]

\* A seeded bug: the distance is stored without the port
RelaxDistanceOnly ==
  /\ ~Done
  /\ Shorter
  /\ dist' = [dist EXCEPT ![i][j] = dist[i][k] + dist[k][j]]
  /\ Advance
  /\ UNCHANGED <<link, next>>

\* A seeded bug: the port is the one of k towards j
RelaxPortOfOther ==
  /\ ~Done
  /\ Shorter
  /\ dist' = [dist EXCEPT ![i][j] = dist[i][k] + dist[k][j]]
  /\ next' = [next EXCEPT ![i][j] = next[k][j]]
  /\ Advance
  /\ UNCHANGED link

Relax ==
  /\ ~Done
  /\ Shorter
  /\ dist' = [dist EXCEPT ![i][j] = dist[i][k] + dist[k][j]]
  /\ next' = [next EXCEPT ![i][j] = next[i][k]]
  /\ Advance
  /\ UNCHANGED link

Keep ==
  /\ ~Done
  /\ ~Shorter
  /\ Advance
  /\ UNCHANGED <<link, dist, next>>

(***************************************************************************)
(* A link is found, lost or leads elsewhere, one end at a time: everything *)
(* is reset and calculated again.                                          *)
(***************************************************************************)
Recalculate ==
  /\ Done
  /\ \E s \in Switches, p \in Ports :
       \E t \in (Leads[s][p] \cup {None}) \ {link[s][p]} :
         link' = [link EXCEPT ![s][p] = t]
  /\ dist' = Distances(link')
  /\ next' = Nexts(link')
  /\ k' = 1 /\ i' = 1 /\ j' = 1

Next == Relax \/ Keep \/ Recalculate

Spec == Init /\ [][Next]_vars
-----------------------------------------------------------------------------
TypeOK ==
  /\ link \in Links
  /\ dist \in [Switches -> [Switches -> 0..Infinite]]
  /\ next \in [Switches -> [Switches -> Ports \cup {None}]]
  /\ k \in 1..(N + 1)
  /\ i \in Switches
  /\ j \in Switches

Finite(a, b) == dist[a][b] < Infinite

\* The switch behind the port that a uses towards b
Hop(a, b) == link[a][next[a][b]]

(***************************************************************************)
(* Whenever a distance is finite there is a port to go to, also half way:  *)
(* get_next never returns UINT32_MAX as the port of a route, and a route   *)
(* whose distance is finite is in the map that update_dynamic_rules reads  *)
(* with next.at.                                                           *)
(***************************************************************************)
NextIffFinite ==
  \A a, b \in Switches : a # b => (Finite(a, b) <=> next[a][b] # None)

(***************************************************************************)
(* When the loops are done each switch hands a packet for b to a switch    *)
(* that is closer to b, so no packet goes round in circles, whatever links *)
(* are missing an end or lead back to their switch.                        *)
(***************************************************************************)
RoutesDescend ==
  Done => \A a, b \in Switches :
            a # b /\ Finite(a, b) =>
              /\ next[a][b] \in Ports
              /\ Hop(a, b) \in Switches
              /\ Hop(a, b) = b \/ dist[Hop(a, b)][b] < dist[a][b]

(***************************************************************************)
(* Reference: Within(n)[a] are the switches at most n links away from a.   *)
(***************************************************************************)
Neighbours(a) == {b \in Switches : PortsTo(link, a, b) # {}}

ShortestPath(a, b) ==
  LET Within[n \in 0..N] ==
        IF n = 0 THEN {a}
        ELSE Within[n - 1] \cup UNION {Neighbours(c) : c \in Within[n - 1]}
      Lengths == {n \in 0..N : b \in Within[n]}
  IN IF Lengths = {} THEN Infinite
     ELSE CHOOSE n \in Lengths : \A m \in Lengths : n <= m

\* The loops compute the lengths of the shortest paths.
DistancesAreShortest ==
  Done => \A a, b \in Switches : a # b => dist[a][b] = ShortestPath(a, b)

(***************************************************************************)
(* check_online asks only whether the first switch of a virtual switch     *)
(* reaches the others; update_dynamic_rules then takes the route between   *)
(* any two of them without a test.  That is right while every link has     *)
(* both its ends.                                                          *)
(***************************************************************************)
BothEnds ==
  \A a, b \in Switches : b \in Neighbours(a) <=> a \in Neighbours(b)

OneTestSuffices ==
  Done /\ BothEnds =>
    \A a, b, c \in Switches :
      Finite(a, b) /\ Finite(a, c) /\ b # c => next[b][c] # None
=============================================================================
