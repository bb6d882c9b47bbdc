--------------------------- MODULE DeliveryProofs ---------------------------
(***************************************************************************)
(* What the virtual switches send arrives: the rules that carry a packet   *)
(* from switch to switch, and the groups that put it on its way, are those *)
(* of the links and of the routes that calculate_routes found last.        *)
(*                                                                         *)
(* update_dynamic_rules changes rules and groups by differences, so what a *)
(* handler passes to it has to be Fit: what it will leave alone is in the  *)
(* switch already.  A packet then follows routes that come closer with     *)
(* each hop, and routes that are left over lead to no circle because the   *)
(* new ones never lead to a switch that has only an old one.               *)
(***************************************************************************)
EXTENDS FlowRulesProofs

\* Switch ids and ports fit into the tag and are none of the reserved values
IdsFit ==
  \A d \in Switches : /\ Id[d] \in 0 .. (max_switch_id - 1)
                      /\ Ports[d] \subseteq 0 .. max_port_id

-----------------------------------------------------------------------------
\* The invariant

\* The rules that send a packet with the tag of p out over p
TaggedPort(d, s, p) ==
  \A i \in Slices :
    /\ PortKey(d, p, i) \in DOMAIN s.table1
    /\ s.table1[PortKey(d, p, i)] = Out(p, TagAfter(s.ports[p], i))

\* The groups are those that were sent, under ids of their own
GroupsFit(s) ==
  /\ \A k, l \in DOMAIN s.out : s.out[k].id = s.out[l].id => k = l
  /\ \A k \in DOMAIN s.out :
       IF s.out[k].state = "no_rule"
       THEN s.out[k].id \notin DOMAIN s.groups
       ELSE /\ s.out[k].id \in DOMAIN s.groups
            /\ s.groups[s.out[k].id] = Bucket(k, s.out[k])
  /\ DOMAIN s.groups \subseteq 1 .. s.ids

\* What update_dynamic_rules relies on
Fit(d, s) ==
  /\ RouteKey(d) \notin DOMAIN s.table1
  /\ \A p \in DOMAIN s.ports : s.ports[p] # "no_rule" => TaggedPort(d, s, p)
  /\ GroupsSurvive \/ GroupsFit(s)

\* What it leaves
PortsTagged(d, s) == \A p \in DOMAIN s.ports : TaggedPort(d, s, p)

RoutesSent(s, route) ==
  \A e \in DOMAIN route : /\ RouteKey(e) \in DOMAIN s.table1
                          /\ s.table1[RouteKey(e)] = Out(route[e], Keep)

GroupsSent(d, s, lk, route, vs) ==
  \A k \in DOMAIN s.out : vs[k[1]] # "down" =>
    /\ s.out[k].state = Target(d, lk, route, k).state
    /\ s.out[k].port = Target(d, lk, route, k).port

Carries(d, s, lk, route, vs) ==
  PortsTagged(d, s) /\ RoutesSent(s, route) /\ GroupsSent(d, s, lk, route, vs)

Carried ==
  /\ \A d \in Switches : Fit(d, sw[d])
  /\ \A d \in online : /\ Carries(d, sw[d], links, next[d], vstate)
                       /\ next[d] \in NextOf(links, d)
  /\ \A d \in Switches \ online : sw[d].table1 = Nothing
  /\ NoForwardingLoop

-----------------------------------------------------------------------------
\* Paths and distances

\* A set of naturals that is not empty has a least element.
LEMMA LeastNatural ==
  ASSUME NEW S, S \subseteq Nat, S # {}
  PROVE  \E n \in S : \A m \in S : n <= m
<1>1. PICK n \in S : \A m \in S : ~ (<<m, n>> \in OpToRel(<, Nat))
  BY NatLessThanWellFounded, WFMin
<1>2. ASSUME NEW m \in S PROVE n <= m
  <2>1. <<m, n>> \in Nat \X Nat /\ <<m, n>>[1] = m /\ <<m, n>>[2] = n
    OBVIOUS
  <2>2. m < n => <<m, n>> \in OpToRel(<, Nat)
    BY <2>1 DEF OpToRel
  <2>3. ~ (m < n)
    BY <1>1, <2>2
  <2>4. m \in Nat /\ n \in Nat
    OBVIOUS
  <2> QED
    BY <2>3, <2>4
<1> QED
  BY <1>2

\* A link leads from a to b
Joined(lk, a, b) == \E c \in lk : \E f, g \in c : f[1] = a /\ g[1] = b

\* The switches of a path of n links
Walk(lk, w, n) ==
  w \in [0 .. n -> Switches] /\ \A k \in 1 .. n : Joined(lk, w[k - 1], w[k])

LEMMA PathIsWalk ==
  ASSUME NEW lk, NEW d, NEW e, NEW n
  PROVE  Path(lk, d, e, n) <=> \E w : Walk(lk, w, n) /\ w[0] = d /\ w[n] = e
BY DEF Path, Walk, Joined

LEMMA EmptyPath ==
  ASSUME NEW lk, NEW d \in Switches
  PROVE  Path(lk, d, d, 0) /\ \A e : Path(lk, d, e, 0) => e = d
<1> DEFINE w == [k \in 0 .. 0 |-> d]
<1>1. Walk(lk, w, 0) /\ w[0] = d
  BY DEF Walk
<1> QED
  BY <1>1, PathIsWalk

LEMMA LongerPath ==
  ASSUME NEW lk, NEW d, NEW e, NEW n \in Nat, Path(lk, d, e, n),
         NEW f \in Switches, Joined(lk, e, f)
  PROVE  Path(lk, d, f, n + 1)
<1>1. PICK w : Walk(lk, w, n) /\ w[0] = d /\ w[n] = e
  BY PathIsWalk
<1> DEFINE v == [k \in 0 .. (n + 1) |-> IF k = n + 1 THEN f ELSE w[k]]
<1>2. v \in [0 .. (n + 1) -> Switches]
  BY <1>1 DEF Walk
<1>3. v[0] = d /\ v[n + 1] = f /\ v[n] = e /\ \A k \in 0 .. n : v[k] = w[k]
  BY <1>1
<1> HIDE DEF v
<1>4. ASSUME NEW k \in 1 .. (n + 1) PROVE Joined(lk, v[k - 1], v[k])
  <2>1. CASE k = n + 1
    <3>1. k - 1 = n
      BY <2>1
    <3> QED
      BY <1>3, <2>1, <3>1
  <2>2. CASE k # n + 1
    <3>1. k \in 1 .. n /\ k - 1 \in 0 .. n /\ k \in 0 .. n
      BY <2>2
    <3> QED
      BY <1>1, <1>3, <3>1 DEF Walk
  <2> QED
    BY <2>1, <2>2
<1>5. Walk(lk, v, n + 1)
  BY <1>2, <1>4 DEF Walk
<1> QED
  BY <1>3, <1>5, PathIsWalk

\* A path that meets a switch twice can be shortened.
LEMMA ShorterPath ==
  ASSUME NEW lk, NEW n \in Nat, NEW w, Walk(lk, w, n),
         NEW a \in 0 .. n, NEW b \in 0 .. n, a < b, w[a] = w[b]
  PROVE  \E m \in 0 .. (n - 1) : Path(lk, w[0], w[n], m)
<1> DEFINE c == b - a
           v == [k \in 0 .. (n - c) |-> IF k <= a THEN w[k] ELSE w[k + c]]
<1>1. c \in 1 .. n /\ n - c \in 0 .. (n - 1) /\ a <= n - c
  OBVIOUS
<1>2. /\ v \in [0 .. (n - c) -> Switches]
      /\ \A k \in 0 .. a : v[k] = w[k]
      /\ \A k \in (a + 1) .. (n - c) : v[k] = w[k + c]
  BY <1>1 DEF Walk
<1>3. v[0] = w[0] /\ v[a] = w[b] /\ (n - c > a => v[n - c] = w[n])
  <2>1. (n - c) + c = n
    BY <1>1
  <2> QED
    BY <1>1, <1>2, <2>1
<1>4. v[n - c] = w[n]
  <2>1. CASE n - c = a
    <3>1. b = n
      BY <2>1
    <3> QED
      BY <1>3, <2>1, <3>1
  <2> QED
    BY <1>1, <1>3, <2>1
<1>5. ASSUME NEW k \in 1 .. (n - c) PROVE Joined(lk, v[k - 1], v[k])
  <2>1. CASE k <= a
    <3>1. k \in 1 .. n /\ v[k - 1] = w[k - 1] /\ v[k] = w[k]
      BY <1>1, <1>2, <2>1
    <3> QED
      BY <3>1 DEF Walk
  <2>2. CASE k = a + 1
    <3>1. /\ k - 1 = a /\ k + c = b + 1 /\ b + 1 \in 1 .. n /\ (b + 1) - 1 = b
          /\ k \in (a + 1) .. (n - c)
      BY <1>1, <2>2
    <3>2. v[k - 1] = w[b] /\ v[k] = w[b + 1]
      BY <1>2, <1>3, <3>1
    <3>3. Joined(lk, w[(b + 1) - 1], w[b + 1])
      BY <3>1 DEF Walk
    <3> QED
      BY <3>1, <3>2, <3>3
  <2>3. CASE k > a + 1
    <3>1. /\ k + c \in 1 .. n /\ (k + c) - 1 = (k - 1) + c
          /\ k \in (a + 1) .. (n - c) /\ k - 1 \in (a + 1) .. (n - c)
      BY <1>1, <2>3
    <3>2. v[k - 1] = w[(k + c) - 1] /\ v[k] = w[k + c]
      BY <1>2, <3>1
    <3>3. Joined(lk, w[(k + c) - 1], w[k + c])
      BY <3>1 DEF Walk
    <3> QED
      BY <3>2, <3>3
  <2> QED
    BY <1>1, <2>1, <2>2, <2>3
<1> HIDE DEF v, c
<1>6. Walk(lk, v, n - c)
  BY <1>2, <1>5 DEF Walk
<1> QED
  BY <1>1, <1>3, <1>4, <1>6, PathIsWalk

\* What is reached has a path, and the shortest has no more links than there
\* are switches.
LEMMA ReachedByPath ==
  ASSUME NEW lk \in SUBSET Cables, NEW d \in Switches, NEW e \in Reach(lk, d)
  PROVE  \E n \in Nat : Path(lk, d, e, n)
<1> DEFINE S == {f \in Switches : \E n \in Nat : Path(lk, d, f, n)}
<1>1. d \in S
  BY EmptyPath
<1>2. ASSUME NEW c \in lk, NEW f \in c, NEW g \in c, f[1] \in S
      PROVE  g[1] \in S
  <2>1. PICK n \in Nat : Path(lk, d, f[1], n)
    BY <1>2
  <2>2. g[1] \in Switches
    <3>1. g \in Ends
      BY FlowRulesAssumption
    <3> QED
      BY <3>1 DEF Ends
  <2>3. Joined(lk, f[1], g[1])
    BY DEF Joined
  <2>4. Path(lk, d, g[1], n + 1)
    BY <2>1, <2>2, <2>3, LongerPath
  <2> QED
    BY <2>1, <2>2, <2>4
<1>3. S \in SUBSET Switches
  OBVIOUS
<1>4. e \in S
  <2> HIDE DEF S
  <2> QED
    BY <1>1, <1>2, <1>3 DEF Reach
<1> QED
  BY <1>4

LEMMA DistIsShortest ==
  ASSUME NEW lk \in SUBSET Cables, NEW d \in Switches, NEW e \in Reach(lk, d)
  PROVE  /\ Dist(lk, d, e) \in 0 .. Cardinality(Switches)
         /\ Path(lk, d, e, Dist(lk, d, e))
<1> DEFINE L == {n \in Nat : Path(lk, d, e, n)}
           N == Cardinality(Switches)
<1>1. PICK n \in L : \A m \in L : n <= m
  <2>1. L \subseteq Nat /\ L # {}
    BY ReachedByPath
  <2> HIDE DEF L
  <2> QED
    BY <2>1, LeastNatural
<1>2. n \in Nat /\ Path(lk, d, e, n) /\ \A m \in 0 .. (n - 1) : ~Path(lk, d, e, m)
  BY <1>1
<1>3. PICK w : Walk(lk, w, n) /\ w[0] = d /\ w[n] = e
  BY <1>2, PathIsWalk
<1>4. n <= N
  <2> SUFFICES ASSUME ~ (n <= N) PROVE FALSE
    OBVIOUS
  <2>1. IsFiniteSet(Switches) /\ N \in Nat
    BY FlowRulesAssumption, FS_CardinalityType
  <2>2. IsFiniteSet(0 .. n) /\ Cardinality(0 .. n) = n + 1
    BY <1>2, FS_Interval
  <2>3. w \in [0 .. n -> Switches]
    BY <1>3 DEF Walk
  <2>4. PICK a, b \in 0 .. n : a # b /\ w[a] = w[b]
    <3>1. N < Cardinality(0 .. n)
      BY <1>2, <2>1, <2>2
    <3> QED
      BY <2>1, <2>2, <2>3, <3>1, FS_PigeonHole
  <2>5. a < b \/ b < a
    BY <2>4
  <2>6. \E m \in 0 .. (n - 1) : Path(lk, w[0], w[n], m)
    BY <1>2, <1>3, <2>4, <2>5, ShorterPath
  <2> QED
    BY <1>2, <1>3, <2>6
<1>5. n \in 0 .. N
  BY <1>2, <1>4, FlowRulesAssumption, FS_CardinalityType
<1> HIDE DEF L, N
<1>6. Dist(lk, d, e) = CHOOSE k \in 0 .. N :
        Path(lk, d, e, k) /\ \A m \in 0 .. (k - 1) : ~Path(lk, d, e, m)
  BY DEF Dist, N
<1>7. /\ Dist(lk, d, e) \in 0 .. N
      /\ Path(lk, d, e, Dist(lk, d, e))
  BY <1>2, <1>5, <1>6
<1> QED
  BY <1>7 DEF N

\* The ends of a cable
LEMMA PeerIsOther ==
  ASSUME NEW d, NEW p, NEW c \in Cables, <<d, p>> \in c
  PROVE  /\ Peer(d, p) \in c /\ Peer(d, p) # <<d, p>>
         /\ Peer(d, p) \in Ends /\ Peer(d, p) = <<Peer(d, p)[1], Peer(d, p)[2]>>
         /\ \A k \in Cables : <<d, p>> \in k => k = c
<1>1. \A k \in Cables : <<d, p>> \in k => k = c
  BY FlowRulesAssumption
<1>2. c = CHOOSE k \in Cables : <<d, p>> \in k
  BY <1>1
<1>3. \E e \in c : e # <<d, p>>
  <2> SUFFICES ASSUME \A e \in c : e = <<d, p>> PROVE FALSE
    OBVIOUS
  <2>1. c = {<<d, p>>}
    OBVIOUS
  <2>2. Cardinality(c) = 1
    BY <2>1, FS_Singleton
  <2> QED
    BY <2>2, FlowRulesAssumption
<1>4. Peer(d, p) = CHOOSE e \in c : e # <<d, p>>
  BY <1>2 DEF Peer
<1>5. Peer(d, p) \in c /\ Peer(d, p) # <<d, p>>
  BY <1>3, <1>4
<1>6. Peer(d, p) \in Ends
  BY <1>5, FlowRulesAssumption
<1>7. Peer(d, p) = <<Peer(d, p)[1], Peer(d, p)[2]>>
  BY <1>6 DEF Ends
<1> QED
  BY <1>1, <1>5, <1>6, <1>7

\* A route leads over a link to a switch that is closer.
LEMMA RouteDescends ==
  ASSUME NEW lk \in SUBSET Cables, NEW d \in Switches, NEW r \in NextOf(lk, d),
         NEW e \in DOMAIN r, NEW f, f = Peer(d, r[e])[1]
  PROVE  /\ r[e] \in Ports[d] /\ Linked(lk, d, r[e])
         /\ f \in Switches /\ e \in Reach(lk, f) /\ e # d
         /\ Dist(lk, f, e) \in 0 .. Cardinality(Switches)
         /\ Dist(lk, d, e) \in 0 .. Cardinality(Switches)
         /\ Dist(lk, f, e) < Dist(lk, d, e)
<1>1. DOMAIN r = Reach(lk, d) \ {d} /\ r[e] \in FirstPorts(lk, d, e)
  BY DEF NextOf
<1>2. /\ r[e] \in Ports[d] /\ Linked(lk, d, r[e])
      /\ Dist(lk, f, e) < Dist(lk, d, e)
  BY <1>1 DEF FirstPorts
<1>3. PICK c \in lk : <<d, r[e]>> \in c
  BY <1>2 DEF Linked
<1>4. c \in Cables
  OBVIOUS
<1>5. Peer(d, r[e]) \in c /\ Peer(d, r[e]) \in Ends
  BY <1>3, <1>4, PeerIsOther
<1>6. f \in Switches
  BY <1>5 DEF Ends
<1>7. e \in Reach(lk, f)
  <2>1. e \in Reach(lk, d)
    BY <1>1
  <2>2. <<d, r[e]>>[1] = d
    OBVIOUS
  <2>3. ASSUME NEW S \in SUBSET Switches, f \in S,
               \A k \in lk : \A g, h \in k : g[1] \in S => h[1] \in S
        PROVE  e \in S
    <3>1. d \in S
      BY <1>3, <1>5, <2>2, <2>3
    <3> QED
      BY <2>1, <2>3, <3>1 DEF Reach
  <2> QED
    BY <2>1, <2>3 DEF Reach
<1>8. /\ Dist(lk, f, e) \in 0 .. Cardinality(Switches)
      /\ Dist(lk, d, e) \in 0 .. Cardinality(Switches)
  BY <1>1, <1>6, <1>7, DistIsShortest, SMTT(30)
<1> QED
  BY <1>1, <1>2, <1>6, <1>7, <1>8

-----------------------------------------------------------------------------
\* Tags and matches

\* What the fields of a tag can hold
Wide   == 0 .. 127
Narrow == 0 .. 15

LEMMA FieldsOfFullTag ==
  \A n \in Wide : \A p, i \in Narrow :
    /\ FullTag(n, p, i) \in Tags
    /\ GetValue(FullTag(n, p, i), SwitchField) = n
    /\ GetValue(FullTag(n, p, i), PortField) = p
    /\ GetValue(FullTag(n, p, i), SliceField) = i
BY FullTagIsUnique DEF Wide, Narrow

LEMMA FieldsOfTag ==
  ASSUME IdsFit, NEW d \in Switches, NEW p \in Ports[d], NEW i \in Slices
  PROVE  /\ FullTags[<<d, p, i>>] \in Tags
         /\ GetValue(FullTags[<<d, p, i>>], SwitchField) = Id[d]
         /\ GetValue(FullTags[<<d, p, i>>], PortField) = p
         /\ GetValue(FullTags[<<d, p, i>>], SliceField) = i
         /\ Id[d] \in 0 .. 126 /\ i \in 1 .. 14
<1>1. FullTags[<<d, p, i>>] = FullTag(Id[d], p, i)
  <2>1. p \in PortNumbers
    BY DEF PortNumbers
  <2>2. PICK t : t = <<d, p, i>>
    OBVIOUS
  <2>3. t \in Switches \X PortNumbers \X Slices /\ t[1] = d /\ t[2] = p /\ t[3] = i
    BY <2>1, <2>2
  <2> QED
    BY <2>2, <2>3 DEF FullTags
<1>2. Id[d] \in 0 .. 126 /\ p \in 0 .. 15 /\ i \in 1 .. 14
  <2>1. max_switch_id = 127 /\ max_port_id = 15
    BY DEF max_switch_id, max_port_id, SwitchField, PortField
  <2> QED
    BY <2>1, SliceOfSharedTag DEF IdsFit
<1>3. Id[d] \in 0 .. 127 /\ i \in 0 .. 15
  BY <1>2
<1>4. PICK n : n = Id[d]
  OBVIOUS
<1>5. n \in Wide /\ p \in Narrow /\ i \in Narrow
  BY <1>2, <1>3, <1>4 DEF Wide, Narrow
<1>6. /\ FullTag(n, p, i) \in Tags
      /\ GetValue(FullTag(n, p, i), SwitchField) = n
      /\ GetValue(FullTag(n, p, i), PortField) = p
      /\ GetValue(FullTag(n, p, i), SliceField) = i
  BY <1>5, FieldsOfFullTag
<1> QED
  BY <1>1, <1>2, <1>4, <1>6

LEMMA SwitchOfTag ==
  ASSUME IdsFit, NEW d \in Switches
  PROVE  /\ SwitchTags[d] \in Tags
         /\ GetValue(SwitchTags[d], SwitchField) = Id[d]
<1>1. PICK z : z = 0
  OBVIOUS
<1>2. SwitchTags[d] = FullTag(Id[d], z, z)
  BY <1>1 DEF SwitchTags
<1>3. Id[d] \in 0 .. 127 /\ z \in 0 .. 15
  BY <1>1 DEF IdsFit, max_switch_id, SwitchField
<1>4. PICK n : n = Id[d]
  OBVIOUS
<1>5. n \in Wide /\ z \in Narrow
  BY <1>3, <1>4 DEF Wide, Narrow
<1>6. /\ FullTag(n, z, z) \in Tags
      /\ GetValue(FullTag(n, z, z), SwitchField) = n
  BY <1>5, FieldsOfFullTag
<1> QED
  BY <1>2, <1>4, <1>6

\* The rules of different switches, ports and slices have different matches.
LEMMA MatchesDiffer ==
  ASSUME IdsFit
  PROVE  /\ \A d, e \in Switches : RouteKey(d) = RouteKey(e) => d = e
         /\ \A d \in Switches : \A p, q \in Ports[d] : \A i, j \in Slices :
              PortKey(d, p, i) = PortKey(d, q, j) => p = q /\ i = j
         /\ \A d, e, p, i : PortKey(d, p, i) # RouteKey(e)
<1>1. \A x, y, a, b, t, u, f, g : Key(x, a, t, f) = Key(y, b, u, g) => x = y /\ t = u
  BY DEF Key
<1>2. ASSUME NEW d \in Switches, NEW e \in Switches, RouteKey(d) = RouteKey(e)
      PROVE  d = e
  <2>1. SwitchTags[d] = SwitchTags[e]
    BY <1>1, <1>2 DEF RouteKey
  <2>2. Id[d] = Id[e]
    BY <2>1, SwitchOfTag
  <2> QED
    BY <2>2, FlowRulesAssumption
<1>3. ASSUME NEW d \in Switches, NEW p \in Ports[d], NEW q \in Ports[d],
             NEW i \in Slices, NEW j \in Slices, PortKey(d, p, i) = PortKey(d, q, j)
      PROVE  p = q /\ i = j
  <2>1. FullTags[<<d, p, i>>] = FullTags[<<d, q, j>>]
    BY <1>1, <1>3 DEF PortKey
  <2> QED
    BY <2>1, FieldsOfTag
<1>4. ASSUME NEW d, NEW e, NEW p, NEW i, PortKey(d, p, i) = RouteKey(e)
      PROVE  FALSE
  BY <1>1, <1>4 DEF PortKey, RouteKey
<1> QED
  BY <1>2, <1>3, <1>4

LEMMA PortKeyUnique ==
  ASSUME IdsFit, NEW d \in Switches, NEW p \in Ports[d], NEW q \in Ports[d],
         NEW i \in Slices, NEW j \in Slices, PortKey(d, p, i) = PortKey(d, q, j)
  PROVE  p = q /\ i = j
BY MatchesDiffer

-----------------------------------------------------------------------------
\* One update of the rules, part by part

\* The rules for routes of one table are in the other
SameRoute(s, t, e) ==
  /\ RouteKey(e) \in DOMAIN t.table1 <=> RouteKey(e) \in DOMAIN s.table1
  /\ RouteKey(e) \in DOMAIN s.table1 => t.table1[RouteKey(e)] = s.table1[RouteKey(e)]

SameGroups(s, t) == t.out = s.out /\ t.groups = s.groups /\ t.ids = s.ids

LEMMA FitTables ==
  ASSUME NEW d \in Switches, NEW s, NEW t, Fit(d, s), SameGroups(s, t),
         SameRoute(s, t, d)
  PROVE  /\ RouteKey(d) \notin DOMAIN t.table1
         /\ GroupsSurvive \/ GroupsFit(t)
BY DEF Fit, SameGroups, SameRoute, GroupsFit

\* Every port gets its rules for the tags that name it.
LEMMA PortsUpdatedFit ==
  ASSUME IdsFit, NEW d \in Switches, NEW s, NEW lk, Typed(d, s), Fit(d, s),
         NEW t, t = UpdatePorts(d, s, lk)
  PROVE  /\ Fit(d, t) /\ PortsTagged(d, t)
         /\ SameGroups(s, t) /\ \A e : SameRoute(s, t, e)
<1> DEFINE state == [p \in DOMAIN s.ports |-> PortState(d, s, lk, p)]
           sent  == {p \in DOMAIN s.ports : s.ports[p] # state[p]}
           now   == {p \in sent : s.ports[p] = "no_rule" \/ p \in DOMAIN s.table0}
           rules == {r \in sent \X Slices :
                       \/ s.ports[r[1]] = "no_rule"
                       \/ PortKey(d, r[1], r[2]) \in DOMAIN s.table1}
           rule(k) == CHOOSE r \in rules : k = PortKey(d, r[1], r[2])
           a == [p \in now |-> Instruction(d, s, state[p], p)]
           b == [k \in {PortKey(d, r[1], r[2]) : r \in rules} |->
                   Out(rule(k)[1], TagAfter(state[rule(k)[1]], rule(k)[2]))]
<1>1. t = [s EXCEPT !.ports = state, !.table0 = a ++ @, !.table1 = b ++ @]
  BY DEF UpdatePorts
<1>2. /\ DOMAIN state = DOMAIN s.ports
      /\ \A p \in DOMAIN s.ports : state[p] = PortState(d, s, lk, p)
      /\ DOMAIN s.ports \subseteq Ports[d]
  BY DEF Typed, TypedPorts
<1>3. \A r : r \in rules <=>
        /\ r \in sent \X Slices
        /\ s.ports[r[1]] = "no_rule" \/ PortKey(d, r[1], r[2]) \in DOMAIN s.table1
  OBVIOUS
<1>4. sent \subseteq DOMAIN s.ports /\ \A p \in DOMAIN s.ports : p \notin sent => s.ports[p] = state[p]
  OBVIOUS
<1>5. DOMAIN b = {PortKey(d, r[1], r[2]) : r \in rules}
  OBVIOUS
<1>6. ASSUME NEW r \in rules
      PROVE  b[PortKey(d, r[1], r[2])] = Out(r[1], TagAfter(state[r[1]], r[2]))
  <2>1. PICK k : k = PortKey(d, r[1], r[2])
    OBVIOUS
  <2>2. rule(k) \in rules /\ k = PortKey(d, rule(k)[1], rule(k)[2])
    BY <2>1
  <2>3. b[k] = Out(rule(k)[1], TagAfter(state[rule(k)[1]], rule(k)[2]))
    BY <2>1
  <2>4. PICK q : q = rule(k)
    OBVIOUS
  <2>5. q \in rules /\ k = PortKey(d, q[1], q[2])
    BY <2>2, <2>4, ZenonT(60)
  <2>6. b[k] = Out(q[1], TagAfter(state[q[1]], q[2]))
    BY <2>3, <2>4
  <2> HIDE DEF b, rule, rules, state, sent
  <2>7. /\ r[1] \in Ports[d] /\ r[2] \in Slices
        /\ q[1] \in Ports[d] /\ q[2] \in Slices
    BY <1>2, <1>3, <1>4, <2>5
  <2>8. PortKey(d, r[1], r[2]) = PortKey(d, q[1], q[2])
    BY <2>1, <2>5
  <2>9. r[1] = q[1] /\ r[2] = q[2]
    BY <2>7, <2>8, PortKeyUnique
  <2> QED
    BY <2>1, <2>6, <2>9
<1> HIDE DEF a, b, rule, rules, state, sent, now
<1>7. /\ t.table1 = b ++ s.table1 /\ t.ports = state
      /\ t.out = s.out /\ t.groups = s.groups /\ t.ids = s.ids
  <2>1. Record(s)
    BY DEF Typed
  <2> QED
    BY <1>1, <2>1 DEF Record
<1>8. /\ DOMAIN (b ++ s.table1) = DOMAIN b \cup DOMAIN s.table1
      /\ \A x \in DOMAIN b : (b ++ s.table1)[x] = b[x]
      /\ \A x \in DOMAIN s.table1 \ DOMAIN b : (b ++ s.table1)[x] = s.table1[x]
  BY MergeFacts
<1>9. SameGroups(s, t)
  BY <1>7 DEF SameGroups
<1>10. \A e : SameRoute(s, t, e)
  <2>1. \A e : RouteKey(e) \notin DOMAIN b
    BY <1>5, MatchesDiffer
  <2> QED
    BY <1>7, <1>8, <2>1 DEF SameRoute
<1>11. PortsTagged(d, t)
  <2> SUFFICES ASSUME NEW p \in DOMAIN s.ports, NEW i \in Slices
               PROVE  /\ PortKey(d, p, i) \in DOMAIN t.table1
                      /\ t.table1[PortKey(d, p, i)] = Out(p, TagAfter(t.ports[p], i))
    BY <1>2, <1>7 DEF PortsTagged, TaggedPort
  <2>1. <<p, i>>[1] = p /\ <<p, i>>[2] = i
    OBVIOUS
  <2>2. CASE <<p, i>> \in rules
    <3>1. PortKey(d, p, i) \in DOMAIN b
      BY <1>5, <2>1, <2>2
    <3>2. b[PortKey(d, p, i)] = Out(p, TagAfter(state[p], i))
      BY <1>6, <2>1, <2>2
    <3> QED
      BY <1>7, <1>8, <3>1, <3>2
  <2>3. CASE <<p, i>> \notin rules
    <3>1. PortKey(d, p, i) \notin DOMAIN b
      <4> SUFFICES ASSUME NEW r \in rules, PortKey(d, p, i) = PortKey(d, r[1], r[2])
                   PROVE  FALSE
        BY <1>5
      <4>1. r \in sent \X Slices /\ r = <<r[1], r[2]>>
        BY <1>3
      <4>2. r[1] \in Ports[d] /\ r[2] \in Slices /\ p \in Ports[d]
        BY <1>2, <1>4, <4>1
      <4>3. p = r[1] /\ i = r[2]
        BY <4>2, MatchesDiffer
      <4> QED
        BY <2>3, <4>1, <4>3
    <3>2. CASE p \in sent
      <4>1. s.ports[p] # "no_rule" /\ PortKey(d, p, i) \notin DOMAIN s.table1
        BY <1>3, <2>1, <2>3, <3>2
      <4> QED
        BY <4>1 DEF Fit, TaggedPort
    <3>3. CASE p \notin sent
      <4>1. s.ports[p] = state[p] /\ s.ports[p] # "no_rule"
        BY <1>2, <1>4, <3>3, PortStateType
      <4>2. /\ PortKey(d, p, i) \in DOMAIN s.table1
            /\ s.table1[PortKey(d, p, i)] = Out(p, TagAfter(s.ports[p], i))
        BY <4>1 DEF Fit, TaggedPort
      <4> QED
        BY <1>7, <1>8, <3>1, <4>1, <4>2
    <3> QED
      BY <3>2, <3>3
  <2> QED
    BY <2>2, <2>3
<1> QED
  BY <1>9, <1>10, <1>11, FitTables, SMTT(30) DEF Fit, PortsTagged

\* The rules for shared links have matches of their own.
LEMMA SharedUpdatedFit ==
  ASSUME NEW d \in Switches, NEW s, Typed(d, s), Fit(d, s), PortsTagged(d, s),
         NEW t, t = UpdateShared(d, s)
  PROVE  /\ Fit(d, t) /\ PortsTagged(d, t)
         /\ SameGroups(s, t) /\ \A e : SameRoute(s, t, e)
<1> DEFINE wanted == UNION {{<<p, v>> : p \in PortsAt(v, d)} : v \in s.interest}
           known  == {i \in wanted : i[1] \in DOMAIN s.ports}
           add    == {i \in known \ s.installed : s.ports[i[1]] = "link_rule"}
           delete == {i \in known \cap s.installed : s.ports[i[1]] # "link_rule"}
           gone   == {SharedKey(i[1], Slice[i[2]]) : i \in delete}
           whose(k) == CHOOSE i \in add : k = SharedKey(i[1], Slice[i[2]])
           a == [k \in {SharedKey(i[1], Slice[i[2]]) : i \in add} |-> Tenant(whose(k)[2])]
           b == [k \in DOMAIN s.table1 \ gone |-> s.table1[k]]
<1>1. t = [s EXCEPT !.installed = (@ \ delete) \cup add, !.table1 = a ++ b]
  BY DEF UpdateShared
<1>2. DOMAIN a = {SharedKey(i[1], Slice[i[2]]) : i \in add}
  OBVIOUS
<1>3. \A k : (\A p, i : k # SharedKey(p, i)) => k \notin DOMAIN a /\ k \notin gone
  BY <1>2
<1>4. /\ DOMAIN b = DOMAIN s.table1 \ gone
      /\ \A k \in DOMAIN b : b[k] = s.table1[k]
  OBVIOUS
<1> HIDE DEF a, b, gone, add, delete, whose, wanted, known
<1>5. /\ t.table1 = a ++ b /\ t.ports = s.ports
      /\ t.out = s.out /\ t.groups = s.groups /\ t.ids = s.ids
  <2>1. Record(s)
    BY DEF Typed
  <2> QED
    BY <1>1, <2>1 DEF Record
<1>6. /\ DOMAIN (a ++ b) = DOMAIN a \cup DOMAIN b
      /\ \A x \in DOMAIN b \ DOMAIN a : (a ++ b)[x] = b[x]
  BY MergeFacts
<1>7. ASSUME NEW k, \A p, i : k # SharedKey(p, i)
      PROVE  /\ k \in DOMAIN t.table1 <=> k \in DOMAIN s.table1
             /\ k \in DOMAIN s.table1 => t.table1[k] = s.table1[k]
  <2>1. k \notin DOMAIN a /\ k \notin gone
    BY <1>3, <1>7
  <2> QED
    BY <1>4, <1>5, <1>6, <2>1
<1>8. SameGroups(s, t)
  BY <1>5 DEF SameGroups
<1>9. \A e : SameRoute(s, t, e)
  BY <1>7, KeysDiffer DEF SameRoute
<1>10. PortsTagged(d, t)
  <2> SUFFICES ASSUME NEW p \in DOMAIN s.ports, NEW i \in Slices
               PROVE  /\ PortKey(d, p, i) \in DOMAIN t.table1
                      /\ t.table1[PortKey(d, p, i)] = Out(p, TagAfter(t.ports[p], i))
    BY <1>5 DEF PortsTagged, TaggedPort
  <2>1. \A q, j : PortKey(d, p, i) # SharedKey(q, j)
    BY KeysDiffer
  <2>2. /\ PortKey(d, p, i) \in DOMAIN s.table1
        /\ s.table1[PortKey(d, p, i)] = Out(p, TagAfter(s.ports[p], i))
    BY DEF PortsTagged, TaggedPort
  <2> QED
    BY <1>5, <1>7, <2>1, <2>2
<1> QED
  BY <1>8, <1>9, <1>10, FitTables DEF Fit, PortsTagged

\* The routes are sent, and those to other switches stay.
LEMMA RoutesUpdatedFit ==
  ASSUME IdsFit, NEW d \in Switches, NEW s, Typed(d, s), Fit(d, s), PortsTagged(d, s),
         NEW route, DOMAIN route \subseteq Switches \ {d},
         NEW t, t = UpdateRoutes(s, route)
  PROVE  /\ Fit(d, t) /\ PortsTagged(d, t) /\ RoutesSent(t, route)
         /\ SameGroups(s, t)
         /\ \A e \in Switches \ DOMAIN route : SameRoute(s, t, e)
<1> DEFINE whose(k) == CHOOSE e \in DOMAIN route : k = RouteKey(e)
           c == [k \in {RouteKey(e) : e \in DOMAIN route} |-> Out(route[whose(k)], Keep)]
<1>1. t = [s EXCEPT !.table1 = c ++ @]
  BY DEF UpdateRoutes
<1>2. DOMAIN c = {RouteKey(e) : e \in DOMAIN route}
  OBVIOUS
<1>3. ASSUME NEW e \in DOMAIN route PROVE c[RouteKey(e)] = Out(route[e], Keep)
  <2>1. PICK k : k = RouteKey(e)
    OBVIOUS
  <2>2. PICK f : f = whose(k)
    OBVIOUS
  <2>3. f \in DOMAIN route /\ k = RouteKey(f)
    BY <2>1, <2>2
  <2>4. c[k] = Out(route[f], Keep)
    BY <2>1, <2>2
  <2>5. e = f
    <3>1. RouteKey(e) = RouteKey(f) /\ e \in Switches /\ f \in Switches
      BY <2>1, <2>3
    <3> QED
      BY <3>1, MatchesDiffer
  <2> QED
    BY <2>1, <2>4, <2>5
<1> HIDE DEF c, whose
<1>4. /\ t.table1 = c ++ s.table1 /\ t.ports = s.ports
      /\ t.out = s.out /\ t.groups = s.groups /\ t.ids = s.ids
  <2>1. Record(s)
    BY DEF Typed
  <2> QED
    BY <1>1, <2>1 DEF Record
<1>5. /\ DOMAIN (c ++ s.table1) = DOMAIN c \cup DOMAIN s.table1
      /\ \A x \in DOMAIN c : (c ++ s.table1)[x] = c[x]
      /\ \A x \in DOMAIN s.table1 \ DOMAIN c : (c ++ s.table1)[x] = s.table1[x]
  BY MergeFacts
<1>6. SameGroups(s, t)
  BY <1>4 DEF SameGroups
<1>7. RoutesSent(t, route)
  BY <1>2, <1>3, <1>4, <1>5 DEF RoutesSent
<1>8. ASSUME NEW e \in Switches \ DOMAIN route PROVE SameRoute(s, t, e)
  <2>1. RouteKey(e) \notin DOMAIN c
    BY <1>2, MatchesDiffer
  <2> QED
    BY <1>4, <1>5, <2>1 DEF SameRoute
<1>9. PortsTagged(d, t)
  <2> SUFFICES ASSUME NEW p \in DOMAIN s.ports, NEW i \in Slices
               PROVE  /\ PortKey(d, p, i) \in DOMAIN t.table1
                      /\ t.table1[PortKey(d, p, i)] = Out(p, TagAfter(t.ports[p], i))
    BY <1>4 DEF PortsTagged, TaggedPort
  <2>1. PortKey(d, p, i) \notin DOMAIN c
    BY <1>2, MatchesDiffer
  <2>2. /\ PortKey(d, p, i) \in DOMAIN s.table1
        /\ s.table1[PortKey(d, p, i)] = Out(p, TagAfter(s.ports[p], i))
    BY DEF PortsTagged, TaggedPort
  <2> QED
    BY <1>4, <1>5, <2>1, <2>2
<1>10. SameRoute(s, t, d)
  BY <1>8
<1> QED
  BY <1>6, <1>7, <1>8, <1>9, <1>10, FitTables DEF Fit, PortsTagged

\* Each group is sent once, under its own id, and is the bucket of its target.
LEMMA GroupsUpdatedFit ==
  ASSUME NEW d \in Switches, NEW s, Typed(d, s), Fit(d, s), PortsTagged(d, s),
         NEW lk, NEW route, NEW vs, NEW t, t = UpdateGroups(d, s, lk, route, vs)
  PROVE  /\ Fit(d, t) /\ PortsTagged(d, t) /\ GroupsSent(d, t, lk, route, vs)
         /\ t.table1 = s.table1
<1> DEFINE new  == [k \in {k \in DOMAIN s.out : vs[k[1]] # "down"} |-> Target(d, lk, route, k)]
           sent == {k \in DOMAIN new : \/ s.out[k].state # new[k].state
                                       \/ s.out[k].port # new[k].port}
           took == {k \in sent : (s.out[k].state = "no_rule") # (s.out[k].id \in DOMAIN s.groups)}
           whose(i) == CHOOSE k \in took : s.out[k].id = i
           a == [k \in sent |-> [id |-> s.out[k].id] ++ new[k]]
           b == [i \in {s.out[k].id : k \in took} |-> Bucket(whose(i), new[whose(i)])]
<1>1. t = [s EXCEPT !.out = a ++ @, !.groups = b ++ @]
  BY DEF UpdateGroups
<1>2. /\ sent \subseteq DOMAIN s.out /\ took \subseteq sent
      /\ DOMAIN a = sent /\ DOMAIN b = {s.out[k].id : k \in took}
      /\ \A k \in sent : new[k] = Target(d, lk, route, k)
  OBVIOUS
<1>3. ASSUME NEW k \in DOMAIN s.out, vs[k[1]] # "down", k \notin sent
      PROVE  /\ s.out[k].state = Target(d, lk, route, k).state
             /\ s.out[k].port = Target(d, lk, route, k).port
  <2>1. k \in DOMAIN new /\ new[k] = Target(d, lk, route, k)
    BY <1>3
  <2> QED
    BY <1>3, <2>1
<1>4. ASSUME NEW k \in sent
      PROVE  /\ a[k].id = s.out[k].id
             /\ a[k].state = Target(d, lk, route, k).state
             /\ a[k].port = Target(d, lk, route, k).port
  <2>1. PICK f, g : f = [id |-> s.out[k].id] /\ g = Target(d, lk, route, k)
    OBVIOUS
  <2>2. a[k] = f ++ g
    BY <1>2, <2>1
  <2>3. DOMAIN f = {"id"} /\ f["id"] = s.out[k].id /\ DOMAIN g = {"state", "port"}
    BY <2>1, TargetState
  <2> HIDE DEF a, new, sent
  <2>4. /\ (f ++ g)["id"] = f["id"] /\ (f ++ g)["state"] = g["state"]
        /\ (f ++ g)["port"] = g["port"]
    BY <2>3 DEF ++
  <2> QED
    BY <2>1, <2>2, <2>3, <2>4
<1>5. ASSUME GroupsFit(s), NEW k \in sent PROVE k \in took
  <2>1. (s.out[k].state = "no_rule") <=> ~ (s.out[k].id \in DOMAIN s.groups)
    BY <1>2, <1>5, SMTT(30) DEF GroupsFit
  <2> QED
    BY <2>1, SMTT(30)
<1>6. ASSUME GroupsFit(s), NEW k \in sent
      PROVE  b[s.out[k].id] = Bucket(k, Target(d, lk, route, k))
  <2>1. PICK i : i = s.out[k].id
    OBVIOUS
  <2>2. PICK l : l = whose(i)
    BY SMTT(30)
  <2>3. l \in took /\ s.out[l].id = i
    BY <1>5, <1>6, <2>1, <2>2, ZenonT(60)
  <2>4. l = k
    BY <1>2, <1>6, <2>1, <2>3, SMTT(30) DEF GroupsFit
  <2>5. b[i] = Bucket(l, new[l])
    BY <1>5, <1>6, <2>1, <2>2
  <2> QED
    BY <1>2, <2>1, <2>4, <2>5
<1> HIDE DEF new, sent, took, whose, a, b
<1>7. /\ t.out = a ++ s.out /\ t.groups = b ++ s.groups /\ t.ids = s.ids
      /\ t.ports = s.ports /\ t.table1 = s.table1
  <2>1. Record(s)
    BY DEF Typed
  <2> QED
    BY <1>1, <2>1 DEF Record
<1>8. /\ DOMAIN (a ++ s.out) = DOMAIN a \cup DOMAIN s.out
      /\ \A x \in DOMAIN a : (a ++ s.out)[x] = a[x]
      /\ \A x \in DOMAIN s.out \ DOMAIN a : (a ++ s.out)[x] = s.out[x]
      /\ DOMAIN (b ++ s.groups) = DOMAIN b \cup DOMAIN s.groups
      /\ \A x \in DOMAIN b : (b ++ s.groups)[x] = b[x]
      /\ \A x \in DOMAIN s.groups \ DOMAIN b : (b ++ s.groups)[x] = s.groups[x]
  BY MergeFacts
<1>9. /\ DOMAIN t.out = DOMAIN s.out
      /\ \A k \in DOMAIN s.out : t.out[k].id = s.out[k].id
      /\ \A k \in DOMAIN s.out \ sent : t.out[k] = s.out[k]
      /\ \A k \in sent : /\ t.out[k].state = Target(d, lk, route, k).state
                          /\ t.out[k].port = Target(d, lk, route, k).port
  BY <1>2, <1>4, <1>7, <1>8
<1>10. GroupsSent(d, t, lk, route, vs)
  BY <1>3, <1>9 DEF GroupsSent
<1>11. ASSUME GroupsFit(s) PROVE GroupsFit(t)
  <2>1. \A k, l \in DOMAIN t.out : t.out[k].id = t.out[l].id => k = l
    BY <1>9, <1>11 DEF GroupsFit
  <2>2. ASSUME NEW k \in sent
        PROVE  /\ t.out[k].state # "no_rule"
               /\ t.out[k].id \in DOMAIN t.groups
               /\ t.groups[t.out[k].id] = Bucket(k, t.out[k])
    <3>1. t.out[k].state # "no_rule"
      BY <1>9 DEF Target
    <3>2. s.out[k].id \in DOMAIN b /\ t.out[k].id = s.out[k].id
      BY <1>2, <1>5, <1>9, <1>11
    <3>3. Bucket(k, Target(d, lk, route, k)) = Bucket(k, t.out[k])
      BY <1>9 DEF Bucket
    <3>4. t.groups[s.out[k].id] = Bucket(k, Target(d, lk, route, k))
      BY <1>6, <1>7, <1>8, <1>11, <3>2
    <3> QED
      BY <1>7, <1>8, <3>1, <3>2, <3>3, <3>4
  <2>3. ASSUME NEW k \in DOMAIN s.out \ sent
        PROVE  /\ t.out[k] = s.out[k]
               /\ t.out[k].id \in DOMAIN t.groups <=> s.out[k].id \in DOMAIN s.groups
               /\ s.out[k].id \in DOMAIN s.groups =>
                    t.groups[t.out[k].id] = s.groups[s.out[k].id]
    <3>1. s.out[k].id \notin DOMAIN b
      BY <1>2, <1>11 DEF GroupsFit
    <3> QED
      BY <1>7, <1>8, <1>9, <3>1
  <2>4. \A k \in DOMAIN t.out :
          IF t.out[k].state = "no_rule"
          THEN t.out[k].id \notin DOMAIN t.groups
          ELSE /\ t.out[k].id \in DOMAIN t.groups
               /\ t.groups[t.out[k].id] = Bucket(k, t.out[k])
    <3>1. ASSUME NEW k \in DOMAIN t.out
          PROVE  IF t.out[k].state = "no_rule"
                 THEN t.out[k].id \notin DOMAIN t.groups
                 ELSE /\ t.out[k].id \in DOMAIN t.groups
                      /\ t.groups[t.out[k].id] = Bucket(k, t.out[k])
      <4>1. CASE k \in sent
        BY <2>2, <4>1
      <4>2. CASE k \notin sent
        <5>1. k \in DOMAIN s.out \ sent
          BY <1>9, <4>2
        <5>2. /\ t.out[k] = s.out[k]
              /\ t.out[k].id \in DOMAIN t.groups <=> s.out[k].id \in DOMAIN s.groups
              /\ s.out[k].id \in DOMAIN s.groups =>
                   t.groups[t.out[k].id] = s.groups[s.out[k].id]
          BY <2>3, <5>1
        <5>3. IF s.out[k].state = "no_rule"
              THEN s.out[k].id \notin DOMAIN s.groups
              ELSE /\ s.out[k].id \in DOMAIN s.groups
                   /\ s.groups[s.out[k].id] = Bucket(k, s.out[k])
          BY <1>11, <5>1 DEF GroupsFit
        <5> QED
          BY <5>2, <5>3
      <4> QED
        BY <4>1, <4>2
    <3> QED
      BY <3>1
  <2>5. DOMAIN t.groups \subseteq 1 .. t.ids
    <3>1. DOMAIN b \subseteq 1 .. s.ids
      BY <1>2 DEF Typed, TypedGroups
    <3> QED
      BY <1>7, <1>8, <1>11, <3>1 DEF GroupsFit
  <2> QED
    BY <2>1, <2>4, <2>5 DEF GroupsFit
<1>12. Fit(d, t) /\ PortsTagged(d, t)
  BY <1>7, <1>11 DEF Fit, PortsTagged, TaggedPort
<1> QED
  BY <1>7, <1>10, <1>12, SMTT(30)

\* One update_dynamic_rules of a record that is fit leaves all that is to
\* carry packets, and no route changes that is not sent.
LEMMA UpdateCarries ==
  ASSUME IdsFit, NEW d \in Switches, NEW s, NEW lk, Typed(d, s), Prepared(d, s, lk),
         Fit(d, s), NEW route, DOMAIN route \subseteq Switches \ {d}, NEW vs,
         NEW t, t = UpdateDynamicRules(d, s, lk, route, vs)
  PROVE  /\ Fit(d, t) /\ Carries(d, t, lk, route, vs)
         /\ \A e \in Switches \ DOMAIN route : SameRoute(s, t, e)
<1>1. PICK t1 : t1 = UpdatePorts(d, s, lk)
  OBVIOUS
<1>2. PICK t2 : t2 = UpdateShared(d, t1)
  OBVIOUS
<1>3. PICK t3 : t3 = UpdateRoutes(t2, route)
  OBVIOUS
<1>4. t = UpdateGroups(d, t3, lk, route, vs)
  BY <1>1, <1>2, <1>3, Zenon DEF UpdateDynamicRules
<1>5. Typed(d, t1) /\ PortsInStep(d, t1, lk)
  BY <1>1, PortsUpdated
<1>6. /\ Fit(d, t1) /\ PortsTagged(d, t1) /\ \A e : SameRoute(s, t1, e)
  BY <1>1, PortsUpdatedFit
<1>7. Typed(d, t2) /\ PortsInStep(d, t2, lk) /\ LinksInStep(d, t2)
  BY <1>2, <1>5, SharedUpdated
<1>8. /\ Fit(d, t2) /\ PortsTagged(d, t2) /\ \A e : SameRoute(t1, t2, e)
  BY <1>2, <1>5, <1>6, SharedUpdatedFit
<1>9. InStep(d, t2, lk) /\ DOMAIN route \subseteq Switches
  BY <1>7 DEF InStep
<1>10. Typed(d, t3)
  BY <1>3, <1>7, <1>9, RoutesUpdated
<1>11. /\ Fit(d, t3) /\ PortsTagged(d, t3) /\ RoutesSent(t3, route)
       /\ \A e \in Switches \ DOMAIN route : SameRoute(t2, t3, e)
  BY <1>3, <1>7, <1>8, RoutesUpdatedFit
<1>12. /\ Fit(d, t) /\ PortsTagged(d, t) /\ GroupsSent(d, t, lk, route, vs)
       /\ t.table1 = t3.table1
  BY <1>4, <1>10, <1>11, GroupsUpdatedFit
<1>13. RoutesSent(t, route)
  BY <1>11, <1>12 DEF RoutesSent
<1>14. \A e \in Switches \ DOMAIN route : SameRoute(s, t, e)
  BY <1>6, <1>8, <1>11, <1>12 DEF SameRoute
<1> QED
  BY <1>12, <1>13, <1>14 DEF Carries

-----------------------------------------------------------------------------
\* Changes of interest

\* What is left of the groups is still that.
LEMMA InterestRemovedFit ==
  ASSUME NEW d \in Switches, NEW s, Typed(d, s), Fit(d, s), NEW gone,
         NEW t, t = RemoveInterest(gone, s)
  PROVE  Fit(d, t) /\ t.table1 = s.table1
<1> DEFINE a == [k \in {k \in DOMAIN s.out : k[1] \notin gone} |-> s.out[k]]
<1>1. t = [s EXCEPT !.interest = @ \ gone,
                    !.installed = {i \in @ : i[2] \notin gone}, !.out = a]
  BY DEF RemoveInterest
<1>2. DOMAIN a \subseteq DOMAIN s.out /\ \A k \in DOMAIN a : a[k] = s.out[k]
  OBVIOUS
<1> HIDE DEF a
<1>3. /\ t.out = a /\ t.groups = s.groups /\ t.ids = s.ids
      /\ t.ports = s.ports /\ t.table1 = s.table1
  <2>1. Record(s)
    BY DEF Typed
  <2> QED
    BY <1>1, <2>1 DEF Record
<1>4. ASSUME GroupsFit(s) PROVE GroupsFit(t)
  BY <1>2, <1>3, <1>4 DEF GroupsFit
<1> QED
  BY <1>3, <1>4 DEF Fit, TaggedPort

\* The output groups of a virtual switch are numbered apart.
LEMMA NumberedApart ==
  ASSUME NEW D, IsFiniteSet(D), D \subseteq Nat, NEW x \in D
  PROVE  /\ Cardinality({z \in D : z <= x}) \in Nat \ {0}
         /\ \A y \in D : x # y =>
              Cardinality({z \in D : z <= x}) # Cardinality({z \in D : z <= y})
<1> DEFINE below(y) == {z \in D : z <= y}
<1>1. ASSUME NEW y \in D
      PROVE  IsFiniteSet(below(y)) /\ Cardinality(below(y)) \in Nat
  <2>1. below(y) \in SUBSET D
    OBVIOUS
  <2> HIDE DEF below
  <2> QED
    BY <2>1, FS_Subset, FS_CardinalityType
<1>2. x \in below(x)
  OBVIOUS
<1>3. ASSUME NEW a \in D, NEW b \in D, a < b
      PROVE  Cardinality(below(a)) # Cardinality(below(b))
  <2>1. below(a) \in SUBSET below(b)
    <3>1. a \in Nat /\ b \in Nat
      OBVIOUS
    <3>2. \A z \in Nat : z <= a => z <= b
      BY <1>3, <3>1
    <3> QED
      BY <3>2
  <2>2. b \in below(b) /\ b \notin below(a)
    BY <1>3
  <2> HIDE DEF below
  <2> QED
    BY <1>1, <2>1, <2>2, FS_Subset
<1>4. \A y \in D : x # y => x < y \/ y < x
  OBVIOUS
<1> HIDE DEF below
<1>5. Cardinality(below(x)) # 0
  BY <1>1, <1>2, FS_EmptySet
<1>6. \A y \in D : x # y => Cardinality(below(x)) # Cardinality(below(y))
  BY <1>3, <1>4
<1> QED
  BY <1>1, <1>5, <1>6 DEF below

\* A registration uses ids that no group has had.
LEMMA InterestRegisteredFit ==
  ASSUME NEW d \in Switches, NEW s, Typed(d, s), Fit(d, s), NEW v \in VSwitches,
         NEW t, t = RegisterInterest(v, s)
  PROVE  Fit(d, t) /\ t.table1 = s.table1
<1> DEFINE D == DOMAIN PortMap[v]
           below(k) == {z \in D : z <= k[2]}
           a == OutputIds(v, s)
           f == [i \in {s.ids + 1} |-> Flood(a)]
<1>1. t = [s EXCEPT !.interest = @ \cup {v}, !.installed = {i \in @ : i[2] # v},
                    !.ids = @ + IdsNeeded(v), !.out = a ++ @, !.groups = @ ++ f]
  BY DEF RegisterInterest
<1>2. DOMAIN f = {s.ids + 1}
  OBVIOUS
<1>3. s.ids \in Nat /\ IsFiniteSet(D) /\ D \subseteq Nat
  BY FlowRulesAssumption DEF Typed, TypedGroups
<1>4. /\ IdsNeeded(v) \in Nat \ {0}
      /\ DOMAIN a = {<<v, x>> : x \in D}
      /\ \A k \in DOMAIN a : /\ a[k].id \in 1 .. (s.ids + IdsNeeded(v))
                              /\ a[k].state = "no_rule"
  BY <1>3, OutputIdsType
<1>5. \A k \in DOMAIN a : a[k].id = s.ids + 1 + Cardinality(below(k))
  BY DEF OutputIds
<1>6. \A k \in DOMAIN a : k[2] \in D /\ k = <<v, k[2]>>
  BY <1>4
<1>7. \A k \in DOMAIN a : Cardinality(below(k)) \in Nat \ {0}
  <2>1. ASSUME NEW k \in DOMAIN a PROVE Cardinality(below(k)) \in Nat \ {0}
    <3>1. PICK x \in D : x = k[2]
      BY <1>6
    <3> HIDE DEF D, a
    <3>2. Cardinality({z \in D : z <= x}) \in Nat \ {0}
      BY <1>3, NumberedApart
    <3> QED
      BY <3>1, <3>2
  <2> QED
    BY <2>1
<1>8. \A k, l \in DOMAIN a : Cardinality(below(k)) = Cardinality(below(l)) => k = l
  <2>1. ASSUME NEW k \in DOMAIN a, NEW l \in DOMAIN a,
               Cardinality(below(k)) = Cardinality(below(l))
        PROVE  k = l
    <3>1. PICK x, y : x \in D /\ y \in D /\ x = k[2] /\ y = l[2]
      BY <1>6
    <3>2. Cardinality({z \in D : z <= x}) = Cardinality({z \in D : z <= y})
      BY <2>1, <3>1
    <3> HIDE DEF D, a, below
    <3>3. ASSUME x # y PROVE FALSE
      <4>1. \A z \in D : x # z =>
              Cardinality({u \in D : u <= x}) # Cardinality({u \in D : u <= z})
        BY <1>3, <3>1, NumberedApart
      <4> QED
        BY <3>1, <3>2, <3>3, <4>1
    <3> QED
      BY <1>6, <3>1, <3>3
  <2> QED
    BY <2>1
<1> HIDE DEF a, f, below, D
<1>9. /\ t.ids = s.ids + IdsNeeded(v) /\ t.out = a ++ s.out /\ t.groups = s.groups ++ f
      /\ t.ports = s.ports /\ t.table1 = s.table1
  <2>1. Record(s)
    BY DEF Typed
  <2> QED
    BY <1>1, <2>1 DEF Record
<1>10. /\ DOMAIN (a ++ s.out) = DOMAIN a \cup DOMAIN s.out
       /\ \A x \in DOMAIN a : (a ++ s.out)[x] = a[x]
       /\ \A x \in DOMAIN s.out \ DOMAIN a : (a ++ s.out)[x] = s.out[x]
       /\ DOMAIN (s.groups ++ f) = DOMAIN s.groups \cup DOMAIN f
       /\ \A x \in DOMAIN s.groups : (s.groups ++ f)[x] = s.groups[x]
  BY MergeFacts
<1>11. ASSUME GroupsFit(s) PROVE GroupsFit(t)
  <2>1. \A k \in DOMAIN a : t.out[k] = a[k] /\ t.out[k].id > s.ids + 1
    BY <1>3, <1>5, <1>7, <1>9, <1>10
  <2>2. \A k \in DOMAIN s.out \ DOMAIN a : t.out[k] = s.out[k] /\ t.out[k].id \in 1 .. s.ids
    BY <1>9, <1>10 DEF Typed, TypedGroups
  <2>3. \A k, l \in DOMAIN a : a[k].id = a[l].id => k = l
    BY <1>3, <1>5, <1>7, <1>8
  <2>4. \A k, l \in DOMAIN t.out : t.out[k].id = t.out[l].id => k = l
    BY <1>3, <1>9, <1>10, <1>11, <2>1, <2>2, <2>3 DEF GroupsFit
  <2>5. \A i : i \in DOMAIN t.groups <=> i \in DOMAIN s.groups \/ i = s.ids + 1
    BY <1>2, <1>9, <1>10
  <2>6. ASSUME NEW k \in DOMAIN t.out
        PROVE  IF t.out[k].state = "no_rule"
               THEN t.out[k].id \notin DOMAIN t.groups
               ELSE /\ t.out[k].id \in DOMAIN t.groups
                    /\ t.groups[t.out[k].id] = Bucket(k, t.out[k])
    <3>1. CASE k \in DOMAIN a
      <4>1. t.out[k].state = "no_rule"
        BY <1>4, <2>1, <3>1
      <4>2. t.out[k].id \notin DOMAIN s.groups /\ t.out[k].id # s.ids + 1
        BY <1>3, <1>11, <2>1, <3>1 DEF GroupsFit
      <4> QED
        BY <2>5, <4>1, <4>2
    <3>2. CASE k \notin DOMAIN a
      <4>1. k \in DOMAIN s.out /\ t.out[k] = s.out[k] /\ s.out[k].id \in 1 .. s.ids
        BY <1>9, <1>10, <2>2, <3>2
      <4>2. /\ s.out[k].id \in DOMAIN t.groups <=> s.out[k].id \in DOMAIN s.groups
            /\ s.out[k].id \in DOMAIN s.groups =>
                 t.groups[s.out[k].id] = s.groups[s.out[k].id]
        BY <1>3, <1>9, <1>10, <2>5, <4>1
      <4>3. IF s.out[k].state = "no_rule"
            THEN s.out[k].id \notin DOMAIN s.groups
            ELSE /\ s.out[k].id \in DOMAIN s.groups
                 /\ s.groups[s.out[k].id] = Bucket(k, s.out[k])
        BY <1>11, <4>1 DEF GroupsFit
      <4> QED
        BY <4>1, <4>2, <4>3
    <3> QED
      BY <3>1, <3>2
  <2>7. DOMAIN t.groups \subseteq 1 .. t.ids
    BY <1>3, <1>4, <1>9, <1>11, <2>5 DEF GroupsFit
  <2> QED
    BY <2>4, <2>6, <2>7 DEF GroupsFit
<1> QED
  BY <1>9, <1>11 DEF Fit, TaggedPort

-----------------------------------------------------------------------------
\* Loops

\* The record s of d sends on to f what is meant for e
Leads(d, s, e, f) ==
  /\ d # f /\ RouteKey(e) \in DOMAIN s.table1
  /\ LET p == s.table1[RouteKey(e)].port
     IN  Linked(Cables, d, p) /\ Peer(d, p)[1] = f

\* The switches of a loop each get from one of them what is meant for e
Loop(loop, s, e) == \A f \in loop : \E d \in loop : Leads(d, s[d], e, f)

NoLoop(on, s) ==
  \A e \in Switches : \A loop \in SUBSET on : Loop(loop, s, e) => loop = {}

LEMMA NoLoopMeaning == NoForwardingLoop <=> NoLoop(online, sw)
BY DEF NoForwardingLoop, NoLoop, Loop, Leads, Forwards

LEMMA SameLeads ==
  ASSUME NEW d, NEW s, NEW t, NEW e, SameRoute(s, t, e), NEW f
  PROVE  Leads(d, s, e, f) <=> Leads(d, t, e, f)
BY DEF Leads, SameRoute

\* No switch of a loop is further from e than the others.
LEMMA NoFurthest ==
  ASSUME NEW N \in Nat, NEW loop, NEW far,
         \A f \in loop : \E d \in loop : far[f] \in 0 .. N /\ far[f] < far[d]
  PROVE  loop = {}
<1> SUFFICES ASSUME loop # {} PROVE FALSE
  OBVIOUS
<1> DEFINE S == {N - far[f] : f \in loop}
<1>1. S \subseteq Nat /\ S # {}
  <2>1. \A f \in loop : far[f] \in 0 .. N
    OBVIOUS
  <2>2. \A n \in 0 .. N : N - n \in Nat
    OBVIOUS
  <2> QED
    BY <2>1, <2>2
<1>2. PICK n \in S : \A m \in S : n <= m
  <2> HIDE DEF S
  <2> QED
    BY <1>1, LeastNatural
<1>3. PICK f \in loop : n = N - far[f]
  BY <1>2
<1>4. PICK d \in loop : far[f] \in 0 .. N /\ far[f] < far[d]
  OBVIOUS
<1>5. far[d] \in 0 .. N /\ n <= N - far[d]
  BY <1>2
<1> QED
  BY <1>3, <1>4, <1>5

\* The records s of the switches old become the records t of the switches on:
\* the routes r over the links lk are sent, and no others change
Rerouted(lk, on, old, s, t, r) ==
  /\ lk \subseteq Cables /\ on \subseteq Switches
  /\ \A d \in on :
       /\ r[d] \in NextOf(lk, d) /\ RoutesSent(t[d], r[d])
       /\ \A e \in Switches \ DOMAIN r[d] : SameRoute(s[d], t[d], e)
       /\ RouteKey(d) \notin DOMAIN s[d].table1
       /\ d \notin old => s[d].table1 = Nothing

\* Routes that are sent never lead to a switch that has none to their end, so
\* that the routes that were left over would have to make a loop by themselves.
LEMMA NoNewLoop ==
  ASSUME NEW lk, NEW on, NEW old, NEW s, NEW t, NEW r,
         Rerouted(lk, on, old, s, t, r), NoLoop(old, s)
  PROVE  NoLoop(on, t)
<1> USE DEF Rerouted
<1> SUFFICES ASSUME NEW e \in Switches, NEW loop \in SUBSET on, Loop(loop, t, e)
             PROVE  loop = {}
  BY DEF NoLoop
<1> DEFINE N == Cardinality(Switches)
           far == [f \in loop |-> Dist(lk, f, e)]
<1>1. \A d \in on : DOMAIN r[d] = Reach(lk, d) \ {d}
  BY DEF NextOf
<1>2. ASSUME NEW d \in loop, e \in DOMAIN r[d], NEW f \in loop, Leads(d, t[d], e, f)
      PROVE  /\ f = e \/ e \in DOMAIN r[f]
             /\ Dist(lk, f, e) \in 0 .. N /\ Dist(lk, f, e) < Dist(lk, d, e)
  <2>1. t[d].table1[RouteKey(e)] = Out(r[d][e], Keep)
    BY <1>2 DEF RoutesSent
  <2>2. t[d].table1[RouteKey(e)].port = r[d][e]
    BY <2>1 DEF Out
  <2>3. f = Peer(d, r[d][e])[1]
    BY <1>2, <2>2 DEF Leads
  <2>4. d \in Switches /\ r[d] \in NextOf(lk, d)
    OBVIOUS
  <2>5. PICK rd : rd = r[d]
    OBVIOUS
  <2>6. rd \in NextOf(lk, d) /\ e \in DOMAIN rd /\ f = Peer(d, rd[e])[1]
    BY <1>2, <2>3, <2>4, <2>5
  <2>7. /\ e \in Reach(lk, f)
        /\ Dist(lk, f, e) \in 0 .. N /\ Dist(lk, f, e) < Dist(lk, d, e)
    BY <2>4, <2>6, RouteDescends
  <2> QED
    BY <1>1, <2>7
<1>3. ASSUME NEW d \in loop, NEW f, Leads(d, t[d], e, f), e \notin DOMAIN r[d]
      PROVE  Leads(d, s[d], e, f) /\ d # e /\ d \in old
  <2>1. SameRoute(s[d], t[d], e)
    BY <1>3
  <2>2. Leads(d, s[d], e, f)
    BY <1>3, <2>1, SameLeads
  <2>3. RouteKey(e) \in DOMAIN s[d].table1
    BY <2>2 DEF Leads
  <2> QED
    BY <2>2, <2>3, NothingIsEmpty
<1>4. ASSUME NEW f \in loop, f # e, e \notin DOMAIN r[f] PROVE FALSE
  <2> DEFINE left == {d \in loop \cap old : d # e /\ e \notin DOMAIN r[d]}
  <2>1. ASSUME NEW g \in loop, g # e, e \notin DOMAIN r[g]
        PROVE  \E d \in left : Leads(d, s[d], e, g)
    <3>1. PICK d \in loop : Leads(d, t[d], e, g)
      BY DEF Loop
    <3>2. e \notin DOMAIN r[d]
      BY <1>2, <2>1, <3>1
    <3>3. Leads(d, s[d], e, g) /\ d # e /\ d \in old
      BY <1>3, <3>1, <3>2
    <3> QED
      BY <3>2, <3>3
  <2>2. Loop(left, s, e)
    BY <2>1 DEF Loop
  <2>3. left \in SUBSET old
    OBVIOUS
  <2>4. \E d \in left : TRUE
    BY <1>4, <2>1
  <2> HIDE DEF left
  <2> QED
    BY <2>2, <2>3, <2>4 DEF NoLoop
<1>5. ASSUME NEW f \in loop
      PROVE  \E d \in loop : far[f] \in 0 .. N /\ far[f] < far[d]
  <2>1. PICK d \in loop : Leads(d, t[d], e, f)
    BY DEF Loop
  <2>2. e \in DOMAIN r[d]
    BY <1>3, <1>4, <2>1
  <2> QED
    BY <1>2, <2>1, <2>2
<1>6. N \in Nat
  BY FlowRulesAssumption, FS_CardinalityType
<1> HIDE DEF N, far
<1> QED
  BY <1>5, <1>6, NoFurthest

-----------------------------------------------------------------------------
\* The two ends of a handler

LEMMA RoutesAreNext ==
  ASSUME NEW lk, NEW r \in RoutesOver(lk), NEW d \in Switches
  PROVE  r[d] \in NextOf(lk, d)
<1>1. PICK x \in Routes : x[1] = lk /\ r = x[2]
  BY DEF RoutesOver
<1>2. PICK l \in SUBSET Cables : \E q : x = <<l, q>> /\ q[d] \in NextOf(l, d)
  BY <1>1 DEF Routes
<1> QED
  BY <1>1, <1>2

LEMMA NextType ==
  ASSUME NEW lk, NEW d, NEW route \in NextOf(lk, d)
  PROVE  DOMAIN route \subseteq Switches \ {d}
BY DEF NextOf, Reach

LEMMA CarriedSame ==
  ASSUME Carried, UNCHANGED <<online, sw, links, next, vstate>>
  PROVE  Carried'
<1>1. NoForwardingLoop'
  BY DEF Carried, NoForwardingLoop, Forwards
<1> QED
  BY <1>1 DEF Carried

\* A step after which every record is fit, and carries, as it is said here.
LEMMA CarriedAfter ==
  ASSUME Carried, NEW lk \in SUBSET Cables, NEW on \in SUBSET Switches,
         online' = on, links' = lk,
         \A d \in Switches : Fit(d, sw'[d]),
         \A d \in on : /\ Carries(d, sw'[d], lk, next'[d], vstate')
                       /\ next'[d] \in NextOf(lk, d),
         \A d \in on : \A e \in Switches \ DOMAIN next'[d] : SameRoute(sw[d], sw'[d], e),
         \A d \in Switches \ on : sw'[d].table1 = Nothing
  PROVE  Carried'
<1>1. NoLoop(online, sw)
  BY NoLoopMeaning DEF Carried
<1>2. PICK old, r, s, t : old = online /\ r = next' /\ s = sw /\ t = sw'
  OBVIOUS
<1>3. Rerouted(lk, on, old, s, t, r)
  BY <1>2 DEF Rerouted, Carries, Carried, Fit
<1>4. NoLoop(old, s)
  BY <1>1, <1>2
<1>5. NoLoop(on, t)
  BY <1>3, <1>4, NoNewLoop
<1>6. NoLoop(online, sw)'
  BY <1>2, <1>5, SMTT(30) DEF NoLoop, Loop, Leads
<1>7. NoForwardingLoop'
  BY <1>6, NoLoopMeaning, PTL
<1>8. /\ \A d \in Switches : Fit(d, sw[d])'
      /\ \A d \in on : (Carries(d, sw[d], links, next[d], vstate) /\ next[d] \in NextOf(links, d))'
  OBVIOUS
<1> QED
  BY <1>7, <1>8 DEF Carried

\* update_dynamic_rules of the switches whose records have changed.
LEMMA CarriedUpdate ==
  ASSUME IdsFit, IInv, Carried, NEW ds \in SUBSET online, NEW s, NEW vs,
         \A d \in ds : /\ Typed(d, s[d]) /\ Prepared(d, s[d], links)
                       /\ Fit(d, s[d]) /\ s[d].table1 = sw[d].table1,
         \A d \in Switches \ ds : s[d] = sw[d],
         \A v \in VSwitches : vs[v] # "down" => vstate[v] # "down",
         Update(ds, s, vs)
  PROVE  Carried'
<1>1. CASE Die("next")
  BY <1>1, CarriedSame DEF Die
<1>2. CASE /\ sw' = [d \in Switches |-> IF d \in ds
                       THEN UpdateDynamicRules(d, s[d], links, next[d], vs)
                       ELSE s[d]]
           /\ vstate' = vs
           /\ UNCHANGED <<online, links, next, fault>>
  <2>1. online \in SUBSET Switches /\ links \in SUBSET Cables
    BY DEF IInv, Settled, LinksOver
  <2>2. ASSUME NEW d \in online
        PROVE  next[d] \in NextOf(links, d) /\ DOMAIN next[d] \subseteq Switches \ {d}
    BY NextType DEF Carried
  <2>3. ASSUME NEW d \in ds
        PROVE  /\ Fit(d, sw'[d]) /\ Carries(d, sw'[d], links, next[d], vs)
               /\ \A e \in Switches \ DOMAIN next[d] : SameRoute(sw[d], sw'[d], e)
    <3>1. PICK q, t, route : q = s[d] /\ t = sw'[d] /\ route = next[d]
      OBVIOUS
    <3>2. d \in Switches /\ t = UpdateDynamicRules(d, q, links, route, vs)
      BY <1>2, <2>1, <3>1
    <3>3. /\ Typed(d, q) /\ Prepared(d, q, links) /\ Fit(d, q)
          /\ q.table1 = sw[d].table1 /\ DOMAIN route \subseteq Switches \ {d}
      BY <2>2, <3>1
    <3>4. /\ Fit(d, t) /\ Carries(d, t, links, route, vs)
          /\ \A e \in Switches \ DOMAIN route : SameRoute(q, t, e)
      BY <3>2, <3>3, UpdateCarries
    <3> QED
      BY <3>1, <3>3, <3>4 DEF SameRoute
  <2>4. ASSUME NEW d \in Switches \ ds
        PROVE  /\ sw'[d] = sw[d] /\ Fit(d, sw'[d])
               /\ d \in online => Carries(d, sw'[d], links, next[d], vs)
               /\ \A e : SameRoute(sw[d], sw'[d], e)
    <3>1. sw'[d] = sw[d]
      BY <1>2
    <3>2. d \in online => Carries(d, sw[d], links, next[d], vstate)
      BY DEF Carried
    <3>3. \A k \in DOMAIN sw[d].out : k[1] \in VSwitches
      BY Before DEF Typed, TypedGroups, TypedPorts
    <3>4. d \in online => Carries(d, sw[d], links, next[d], vs)
      BY <3>2, <3>3 DEF Carries, GroupsSent
    <3> QED
      BY <3>1, <3>4 DEF Carried, SameRoute
  <2>5. \A d \in Switches : Fit(d, sw'[d])
    BY <2>3, <2>4
  <2>6. \A d \in online : /\ Carries(d, sw'[d], links, next'[d], vstate')
                          /\ next'[d] \in NextOf(links, d)
    BY <1>2, <2>1, <2>2, <2>3, <2>4
  <2>7. \A d \in online : \A e \in Switches \ DOMAIN next'[d] : SameRoute(sw[d], sw'[d], e)
    BY <1>2, <2>1, <2>3, <2>4
  <2>8. \A d \in Switches \ online : sw'[d].table1 = Nothing
    BY <2>4 DEF Carried
  <2> QED
    BY <1>2, <2>1, <2>5, <2>6, <2>7, <2>8, CarriedAfter
<1> QED
  BY <1>1, <1>2 DEF Update

\* Hypervisor::calculate_routes with the switches on, the links lk and the
\* records s that a handler has made of them.
LEMMA CarriedRoutes ==
  ASSUME IdsFit, IInv, Carried, NEW on \in SUBSET Switches, NEW lk \in SUBSET Cables, NEW s,
         s = [d \in Switches |-> s[d]],
         \A d \in Switches : Typed(d, s[d]) /\ Fit(d, s[d]),
         \A d \in on : \E l : InStep(d, s[d], l),
         \A d \in on : s[d].table1 = sw[d].table1,
         \A d \in Switches \ on : s[d].table1 = Nothing,
         CalculateRoutes(on, lk, s)
  PROVE  Carried'
<1> DEFINE lost == {v \in VSwitches : vstate[v] # "down" /\ ~Ready(v, on, lk)}
           vs   == [v \in VSwitches |->
                      IF v \in lost THEN "down"
                      ELSE IF vstate[v] = "down" /\ Ready(v, on, lk) THEN "trying"
                      ELSE vstate[v]]
           left == [d \in on |-> RemoveInterest(lost, s[d])]
<1>1. ASSUME NEW d \in on
      PROVE  /\ Typed(d, left[d]) /\ Fit(d, left[d]) /\ Prepared(d, left[d], lk)
             /\ left[d].table1 = sw[d].table1
  <2>1. d \in Switches /\ Typed(d, s[d]) /\ Fit(d, s[d]) /\ s[d].table1 = sw[d].table1
    OBVIOUS
  <2>2. PICK l : InStep(d, s[d], l)
    OBVIOUS
  <2>3. PICK gone, q, t : gone = lost /\ q = s[d] /\ t = left[d]
    OBVIOUS
  <2>4. t = RemoveInterest(gone, q)
    BY <2>3
  <2> HIDE DEF left, lost
  <2>5. Typed(d, t) /\ \A old, new : InStep(d, q, old) => Prepared(d, t, new)
    BY <2>1, <2>3, <2>4, InterestRemoved
  <2>6. Fit(d, t) /\ t.table1 = q.table1
    BY <2>1, <2>3, <2>4, InterestRemovedFit
  <2> QED
    BY <2>1, <2>2, <2>3, <2>5, <2>6
<1>2. \/ Die("remove_interest")
      \/ \E routes \in RoutesOver(lk) :
           IF \E d \in on : NextThrows(d, left[d], routes[d], vs)
           THEN Die("next")
           ELSE /\ online' = on
                /\ links' = lk
                /\ next' = [d \in on |-> routes[d]]
                /\ vstate' = vs
                /\ sw' = [d \in on |-> UpdateDynamicRules(d, left[d], lk, routes[d], vs)] ++ s
                /\ UNCHANGED fault
  BY DEF CalculateRoutes
<1> HIDE DEF lost, vs, left
<1>3. CASE Die("remove_interest") \/ Die("next")
  BY <1>3, CarriedSame DEF Die
<1>4. ASSUME NEW r \in RoutesOver(lk),
             online' = on, links' = lk, next' = [d \in on |-> r[d]], vstate' = vs,
             sw' = [d \in on |-> UpdateDynamicRules(d, left[d], lk, r[d], vs)] ++ s
      PROVE  Carried'
  <2> DEFINE w == [d \in on |-> UpdateDynamicRules(d, left[d], lk, r[d], vs)]
  <2>1. ASSUME NEW d \in on
        PROVE  r[d] \in NextOf(lk, d) /\ DOMAIN r[d] \subseteq Switches \ {d}
    BY RoutesAreNext, NextType
  <2>2. ASSUME NEW d \in on
        PROVE  /\ Fit(d, w[d]) /\ Carries(d, w[d], lk, r[d], vs)
               /\ \A e \in Switches \ DOMAIN r[d] : SameRoute(sw[d], w[d], e)
    <3>1. PICK q, t, route : q = left[d] /\ t = w[d] /\ route = r[d]
      OBVIOUS
    <3>2. d \in Switches /\ t = UpdateDynamicRules(d, q, lk, route, vs)
      BY <3>1
    <3> HIDE DEF w
    <3>3. /\ Typed(d, q) /\ Prepared(d, q, lk) /\ Fit(d, q)
          /\ q.table1 = sw[d].table1 /\ DOMAIN route \subseteq Switches \ {d}
      BY <1>1, <2>1, <3>1
    <3>4. /\ Fit(d, t) /\ Carries(d, t, lk, route, vs)
          /\ \A e \in Switches \ DOMAIN route : SameRoute(q, t, e)
      BY <3>2, <3>3, UpdateCarries
    <3> QED
      BY <3>1, <3>3, <3>4 DEF SameRoute
  <2>3. DOMAIN w = on /\ DOMAIN s = Switches /\ sw' = w ++ s
    BY <1>4
  <2> HIDE DEF w
  <2>4. /\ \A d \in on : sw'[d] = w[d]
        /\ \A d \in Switches \ on : sw'[d] = s[d]
    BY <2>3 DEF ++
  <2>5. \A d \in on : next'[d] = r[d]
    BY <1>4
  <2>6. \A d \in Switches : Fit(d, sw'[d])
    BY <2>2, <2>4
  <2>7. \A d \in on : /\ Carries(d, sw'[d], lk, next'[d], vstate')
                      /\ next'[d] \in NextOf(lk, d)
    BY <1>4, <2>1, <2>2, <2>4, <2>5
  <2>8. \A d \in on : \A e \in Switches \ DOMAIN next'[d] : SameRoute(sw[d], sw'[d], e)
    BY <2>2, <2>4, <2>5
  <2>9. \A d \in Switches \ on : sw'[d].table1 = Nothing
    BY <2>4
  <2> QED
    BY <1>4, <2>6, <2>7, <2>8, <2>9, CarriedAfter
<1> QED
  BY <1>2, <1>3, <1>4

\* A step that changes nothing but the links.
LEMMA CarriedLinks ==
  ASSUME IdsFit, IInv, Carried, NEW lk \in SUBSET Cables, CalculateRoutes(online, lk, sw)
  PROVE  Carried'
<1>1. /\ sw = [d \in Switches |-> sw[d]]
      /\ \A d \in Switches : Typed(d, sw[d]) /\ Fit(d, sw[d])
      /\ \A d \in online : \E l : InStep(d, sw[d], l)
      /\ \A d \in Switches \ online : sw[d].table1 = Nothing
      /\ online \in SUBSET Switches
  BY Before DEF Carried
<1> QED
  BY <1>1, CarriedRoutes

-----------------------------------------------------------------------------
\* Handlers

LEMMA PortsFit ==
  ASSUME NEW d, NEW s, NEW t, Fit(d, s), t.table1 = s.table1, SameGroups(s, t),
         \A p \in DOMAIN t.ports :
           t.ports[p] # "no_rule" => p \in DOMAIN s.ports /\ t.ports[p] = s.ports[p]
  PROVE  Fit(d, t)
<1>1. GroupsFit(s) => GroupsFit(t)
  BY DEF GroupsFit, SameGroups
<1> QED
  BY <1>1 DEF Fit, TaggedPort

LEMMA OfflineFit ==
  ASSUME NEW d \in Switches, NEW groups, DOMAIN groups \subseteq 1 .. MaxGroups,
         GroupsSurvive \/ groups = Nothing
  PROVE  Typed(d, Offline(groups)) /\ Fit(d, Offline(groups))
         /\ Offline(groups).table1 = Nothing
<1>1. PICK t : t = Offline(groups)
  OBVIOUS
<1>2. /\ Typed(d, t) /\ Unused(t)
      /\ t.table1 = Nothing /\ t.out = Nothing /\ t.ids = 0 /\ t.groups = groups
  BY <1>1, OfflineType
<1>3. GroupsSurvive \/ GroupsFit(t)
  BY <1>2, NothingIsEmpty DEF GroupsFit
<1>4. Fit(d, t)
  BY <1>2, <1>3, NothingIsEmpty DEF Fit, Unused
<1> QED
  BY <1>1, <1>2, <1>4

LEMMA CarriedInit == Init => Carried
<1> SUFFICES ASSUME Init PROVE Carried
  OBVIOUS
<1>1. ASSUME NEW d \in Switches
      PROVE  Fit(d, sw[d]) /\ sw[d].table1 = Nothing
  <2>1. sw[d] = Offline(Nothing)
    BY DEF Init
  <2>2. PICK groups : groups = Nothing
    OBVIOUS
  <2>3. Fit(d, Offline(groups)) /\ Offline(groups).table1 = Nothing
    BY <2>2, NothingIsEmpty, OfflineFit
  <2> QED
    BY <2>1, <2>2, <2>3
<1>2. online = {}
  BY DEF Init
<1>3. NoForwardingLoop
  BY <1>2 DEF NoForwardingLoop
<1> QED
  BY <1>1, <1>2, <1>3 DEF Carried

LEMMA CarriedSwitchOnline ==
  ASSUME IdsFit, IInv, Carried, NEW d \in Switches, SwitchOnline(d)
  PROVE  Carried'
<1> DEFINE tab == [i \in {FromController} |-> Goto1]
           s == [sw EXCEPT ![d].table0 = tab]
<1>1. d \notin online /\ CalculateRoutes(online \cup {d}, links, s)
  BY DEF SwitchOnline
<1>2. /\ s = [e \in Switches |-> s[e]]
      /\ s[d] = [sw[d] EXCEPT !.table0 = tab]
      /\ \A e \in Switches \ {d} : s[e] = sw[e]
  BY Before
<1>3. DOMAIN tab = {FromController} /\ tab[FromController] = Goto1
  OBVIOUS
<1> HIDE DEF s, tab
<1>4. /\ Typed(d, s[d]) /\ Unused(s[d]) /\ \A l : InStep(d, s[d], l)
      /\ s[d].table1 = sw[d].table1 /\ SameGroups(sw[d], s[d])
  <2>1. PICK q, t : q = sw[d] /\ t = s[d]
    OBVIOUS
  <2>2. Typed(d, q) /\ Unused(q) /\ t = [q EXCEPT !.table0 = tab]
    BY <1>1, <1>2, <2>1, Before
  <2>3. /\ Typed(d, t) /\ Unused(t) /\ \A l : InStep(d, t, l)
        /\ t.table1 = q.table1 /\ t.out = q.out /\ t.ids = q.ids /\ t.groups = q.groups
    BY <1>3, <2>2, StaticRules
  <2> QED
    BY <2>1, <2>3 DEF SameGroups
<1>5. Fit(d, s[d])
  BY <1>4, NothingIsEmpty, PortsFit DEF Unused, Carried
<1>6. \A e \in Switches : Typed(e, s[e]) /\ Fit(e, s[e])
  BY <1>2, <1>4, <1>5, Before DEF Carried
<1>7. \A e \in online \cup {d} : \E l : InStep(e, s[e], l)
  BY <1>2, <1>4, Before
<1>8. /\ \A e \in online \cup {d} : s[e].table1 = sw[e].table1
      /\ \A e \in Switches \ (online \cup {d}) : s[e].table1 = Nothing
  BY <1>2, <1>4, Before DEF Carried
<1>9. online \cup {d} \in SUBSET Switches /\ links \in SUBSET Cables
  BY Before DEF LinksOver
<1> QED
  BY <1>1, <1>2, <1>6, <1>7, <1>8, <1>9, CarriedRoutes

LEMMA CarriedPortsAdded ==
  ASSUME IdsFit, IInv, Carried, NEW d \in Switches, NEW ps \in SUBSET Ports[d],
         PortsAdded(d, ps)
  PROVE  Carried'
<1> DEFINE new == [p \in ps |-> "no_rule"]
           s == [sw EXCEPT ![d].ports = new ++ @]
<1>1. d \in online /\ Update({d}, s, vstate)
  BY DEF PortsAdded
<1>2. /\ s[d] = WithPorts(sw[d], new ++ sw[d].ports)
      /\ \A e \in Switches \ {d} : s[e] = sw[e]
  BY Before DEF WithPorts
<1>3. DOMAIN new \subseteq Ports[d] /\ \A p \in DOMAIN new : new[p] = "no_rule"
  OBVIOUS
<1> HIDE DEF s, new
<1>4. Typed(d, s[d]) /\ Prepared(d, s[d], links) /\ Fit(d, s[d]) /\ s[d].table1 = sw[d].table1
  <2>1. PICK q, t : q = sw[d] /\ t = s[d]
    OBVIOUS
  <2>2. Typed(d, q) /\ PortsInStep(d, q, links) /\ Fit(d, q)
    BY <1>1, <2>1, Before DEF InStep, Carried
  <2>3. t = WithPorts(q, new ++ q.ports)
    BY <1>2, <2>1
  <2>4. /\ Typed(d, t) /\ \A lk : PortsInStep(d, q, lk) => Prepared(d, t, lk)
        /\ \A p \in DOMAIN t.ports :
             t.ports[p] # "no_rule" => p \in DOMAIN q.ports /\ t.ports[p] = q.ports[p]
        /\ t.table1 = q.table1 /\ t.out = q.out /\ t.ids = q.ids /\ t.groups = q.groups
    BY <1>3, <2>2, <2>3, NewPorts
  <2>5. Fit(d, t)
    BY <2>2, <2>4, PortsFit DEF SameGroups
  <2> QED
    BY <2>1, <2>2, <2>4, <2>5
<1>5. {d} \in SUBSET online
  BY <1>1
<1> QED
  BY <1>1, <1>2, <1>4, <1>5, CarriedUpdate

LEMMA CarriedPortErased ==
  ASSUME IdsFit, IInv, Carried, NEW e \in Flaky, PortErased(e)
  PROVE  Carried'
<1> DEFINE s == [sw EXCEPT ![e[1]].ports = [p \in DOMAIN @ \ {e[2]} |-> @[p]]]
<1>1. e \in erasing /\ Update({e[1]}, s, vstate)
  BY DEF PortErased
<1>2. PICK d \in online : d = e[1]
  BY <1>1 DEF IInv, Pending
<1>3. d \in Switches
  BY Before
<1> DEFINE left == [p \in DOMAIN sw[d].ports \ {e[2]} |-> sw[d].ports[p]]
<1>4. /\ s[d] = WithPorts(sw[d], left)
      /\ \A f \in Switches \ {d} : s[f] = sw[f]
  BY <1>2, <1>3, Before DEF WithPorts
<1>5. /\ DOMAIN left \subseteq DOMAIN sw[d].ports
      /\ \A p \in DOMAIN left : left[p] = sw[d].ports[p]
  OBVIOUS
<1> HIDE DEF s, left
<1>6. Typed(d, s[d]) /\ Prepared(d, s[d], links) /\ Fit(d, s[d]) /\ s[d].table1 = sw[d].table1
  <2>1. PICK q, t : q = sw[d] /\ t = s[d]
    OBVIOUS
  <2>2. Typed(d, q) /\ PortsInStep(d, q, links) /\ Fit(d, q)
    BY <1>3, <2>1, Before DEF InStep, Carried
  <2>3. /\ t = WithPorts(q, left) /\ DOMAIN left \subseteq DOMAIN q.ports
        /\ \A p \in DOMAIN left : left[p] = q.ports[p]
    BY <1>4, <1>5, <2>1
  <2>4. /\ Typed(d, t) /\ \A lk : PortsInStep(d, q, lk) => Prepared(d, t, lk)
        /\ t.ports = left
        /\ t.table1 = q.table1 /\ t.out = q.out /\ t.ids = q.ids /\ t.groups = q.groups
    BY <1>3, <2>2, <2>3, FewerPorts
  <2>5. Fit(d, t)
    BY <2>2, <2>3, <2>4, PortsFit DEF SameGroups
  <2> QED
    BY <2>1, <2>2, <2>4, <2>5
<1>7. {d} \in SUBSET online
  OBVIOUS
<1> QED
  BY <1>1, <1>2, <1>4, <1>6, <1>7, CarriedUpdate

LEMMA CarriedPortRemoved ==
  ASSUME IdsFit, IInv, Carried, NEW e \in Flaky, PortRemoved(e)
  PROVE  Carried'
<1>1. CASE UNCHANGED <<online, sw, links, next, vstate, fault>>
  BY <1>1, CarriedSame
<1>2. CASE CalculateRoutes(online, {c \in links : e \notin c}, sw)
  <2>1. {c \in links : e \notin c} \in SUBSET Cables
    BY Before DEF LinksOver
  <2> QED
    BY <1>2, <2>1, CarriedLinks
<1> QED
  BY <1>1, <1>2 DEF PortRemoved

LEMMA CarriedSwitchStopped ==
  ASSUME IdsFit, IInv, Carried, NEW d \in Switches, SwitchStopped(d)
  PROVE  Carried'
<1> DEFINE groups == IF GroupsSurvive THEN sw[d].groups ELSE Nothing
           s == [sw EXCEPT ![d] = Offline(IF GroupsSurvive THEN @.groups ELSE Nothing)]
<1>1. CalculateRoutes(online \ {d}, links, s)
  BY DEF SwitchStopped
<1>2. /\ s = [e \in Switches |-> s[e]]
      /\ s[d] = Offline(groups)
      /\ \A e \in Switches \ {d} : s[e] = sw[e]
  BY Before
<1>3. DOMAIN groups \subseteq 1 .. MaxGroups /\ (GroupsSurvive \/ groups = Nothing)
  <2>1. Typed(d, sw[d])
    BY Before
  <2> QED
    BY <2>1, NothingIsEmpty DEF Typed, TypedGroups
<1> HIDE DEF s, groups
<1>4. Typed(d, s[d]) /\ Fit(d, s[d]) /\ s[d].table1 = Nothing
  BY <1>2, <1>3, OfflineFit
<1>5. \A e \in Switches : Typed(e, s[e]) /\ Fit(e, s[e])
  BY <1>2, <1>4, Before DEF Carried
<1>6. \A e \in online \ {d} : \E l : InStep(e, s[e], l)
  BY <1>2, Before
<1>7. /\ \A e \in online \ {d} : s[e].table1 = sw[e].table1
      /\ \A e \in Switches \ (online \ {d}) : s[e].table1 = Nothing
  BY <1>2, <1>4, Before DEF Carried
<1>8. online \ {d} \in SUBSET Switches /\ links \in SUBSET Cables
  BY Before DEF LinksOver
<1> QED
  BY <1>1, <1>2, <1>5, <1>6, <1>7, <1>8, CarriedRoutes

LEMMA CarriedConnected ==
  ASSUME IdsFit, IInv, Carried, NEW v \in VSwitches, Connected(v)
  PROVE  Carried'
<1> DEFINE s == [d \in Switches |-> IF d \in Deps(v) THEN RegisterInterest(v, sw[d]) ELSE sw[d]]
           vs == [vstate EXCEPT ![v] = "connected"]
<1>1. /\ vstate[v] = "trying" /\ Update(Deps(v), s, vs)
      /\ \A d \in Deps(v) : sw[d].ids + IdsNeeded(v) <= MaxGroups
  BY DEF Connected
<1>2. Deps(v) \in SUBSET online
  BY <1>1, Before DEF Ready
<1>3. /\ \A d \in Deps(v) : s[d] = RegisterInterest(v, sw[d])
      /\ \A d \in Switches \ Deps(v) : s[d] = sw[d]
  BY <1>2, Before
<1>4. \A w \in VSwitches : vs[w] # "down" => vstate[w] # "down"
  BY <1>1, Before
<1> HIDE DEF s, vs
<1>5. ASSUME NEW d \in Deps(v)
      PROVE  Typed(d, s[d]) /\ Prepared(d, s[d], links) /\ Fit(d, s[d])
             /\ s[d].table1 = sw[d].table1
  <2>1. PICK q, t : q = sw[d] /\ t = s[d]
    OBVIOUS
  <2>2. /\ d \in Switches /\ Typed(d, q) /\ InStep(d, q, links) /\ Fit(d, q)
        /\ t = RegisterInterest(v, q) /\ q.ids + IdsNeeded(v) <= MaxGroups
    BY <1>1, <1>2, <1>3, <2>1, Before DEF Carried
  <2>3. Typed(d, t) /\ \A lk, new : InStep(d, q, lk) => Prepared(d, t, new)
    BY <2>2, InterestRegistered
  <2>4. Fit(d, t) /\ t.table1 = q.table1
    BY <2>2, InterestRegisteredFit
  <2> QED
    BY <2>1, <2>2, <2>3, <2>4
<1> QED
  BY <1>1, <1>2, <1>3, <1>4, <1>5, CarriedUpdate

LEMMA CarriedControllerLost ==
  ASSUME IdsFit, IInv, Carried, NEW v \in VSwitches, ControllerLost(v)
  PROVE  Carried'
<1> DEFINE s == [d \in Switches |-> IF d \in Deps(v) THEN RemoveInterest({v}, sw[d]) ELSE sw[d]]
           vs == [vstate EXCEPT ![v] = "trying"]
<1>1. vstate[v] = "connected" /\ Update(Deps(v), s, vs)
  BY DEF ControllerLost
<1>2. Deps(v) \in SUBSET online
  BY <1>1, Before DEF Ready
<1>3. /\ \A d \in Deps(v) : s[d] = RemoveInterest({v}, sw[d])
      /\ \A d \in Switches \ Deps(v) : s[d] = sw[d]
  BY <1>2, Before
<1>4. \A w \in VSwitches : vs[w] # "down" => vstate[w] # "down"
  BY <1>1, Before
<1> HIDE DEF s, vs
<1>5. ASSUME NEW d \in Deps(v)
      PROVE  Typed(d, s[d]) /\ Prepared(d, s[d], links) /\ Fit(d, s[d])
             /\ s[d].table1 = sw[d].table1
  <2>1. PICK gone, q, t : gone = {v} /\ q = sw[d] /\ t = s[d]
    OBVIOUS
  <2>2. /\ d \in Switches /\ Typed(d, q) /\ InStep(d, q, links) /\ Fit(d, q)
        /\ t = RemoveInterest(gone, q)
    BY <1>2, <1>3, <2>1, Before DEF Carried
  <2>3. Typed(d, t) /\ \A lk, new : InStep(d, q, lk) => Prepared(d, t, new)
    BY <2>2, InterestRemoved
  <2>4. Fit(d, t) /\ t.table1 = q.table1
    BY <2>2, InterestRemovedFit
  <2> QED
    BY <2>1, <2>2, <2>3, <2>4
<1> QED
  BY <1>1, <1>2, <1>3, <1>4, <1>5, CarriedUpdate

LEMMA CarriedNext ==
  ASSUME IdsFit, IInv, Carried, [Next]_vars
  PROVE  Carried'
<1>1. ASSUME NEW d \in Switches, PortDescription(d) PROVE Carried'
  BY <1>1, CarriedPortsAdded DEF PortDescription
<1>2. ASSUME NEW e \in Flaky, PortAdded(e) PROVE Carried'
  <2>1. e[1] \in Switches /\ {e[2]} \in SUBSET Ports[e[1]] /\ PortsAdded(e[1], {e[2]})
    BY <1>2, EndPort DEF PortAdded
  <2> QED
    BY <2>1, CarriedPortsAdded
<1>3. ASSUME NEW d \in Switches, SwitchStop(d) PROVE Carried'
  BY <1>3, CarriedSame DEF SwitchStop
<1>4. ASSUME NEW c \in Cables, LinkFound(c) PROVE Carried'
  <2>1. links \cup {c} \in SUBSET Cables /\ CalculateRoutes(online, links \cup {c}, sw)
    BY <1>4, Before DEF LinkFound, LinksOver
  <2> QED
    BY <2>1, CarriedLinks
<1>5. ASSUME NEW c \in Cables, CalculateRoutes(online, links \ {c}, sw) PROVE Carried'
  <2>1. links \ {c} \in SUBSET Cables
    BY Before DEF LinksOver
  <2> QED
    BY <1>5, <2>1, CarriedLinks
<1>6. ASSUME NEW c \in Cables, LinkLost(c) PROVE Carried'
  BY <1>5, <1>6 DEF LinkLost
<1>7. ASSUME NEW d \in Switches, NEW c \in Cables, StopLink(d, c) PROVE Carried'
  BY <1>5, <1>7 DEF StopLink
<1>8. CASE UNCHANGED vars
  BY <1>8, CarriedSame DEF vars
<1>9. CASE Next
  BY <1>1, <1>2, <1>3, <1>4, <1>6, <1>7, <1>9, CarriedSwitchOnline, CarriedSwitchStopped,
     CarriedPortRemoved, CarriedPortErased, CarriedConnected, CarriedControllerLost DEF Next
<1> QED
  BY <1>8, <1>9

-----------------------------------------------------------------------------
\* A packet on its way

\* What is done with a packet that matches one rule before all others.
LEMMA BestRule ==
  ASSUME NEW d, NEW in, NEW tag, NEW t, t = sw[d].table1,
         NEW k \in DOMAIN t, k.prio \in Nat,
         k.in \in {FromController, in}, Matches(tag, k.tag, k.fields),
         \A l \in DOMAIN t :
           l.in \in {FromController, in} /\ Matches(tag, l.tag, l.fields)
             => l = k \/ (l.prio \in Nat /\ l.prio < k.prio),
         NEW port, NEW after, t[k] = Out(port, after)
  PROVE  Table1(d, in, tag) = Leaves(d, port, IF after = Keep THEN tag ELSE after)
<1> DEFINE hits == {l \in DOMAIN t : /\ l.in \in {FromController, in}
                                     /\ Matches(tag, l.tag, l.fields)}
           best == CHOOSE l \in hits : \A m \in hits : l.prio >= m.prio
           rule == t[best]
<1>1. Table1(d, in, tag) = IF hits = {} THEN Lost
                           ELSE IF rule.kind = "tenant" THEN rule
                           ELSE Leaves(d, rule.port, IF rule.tag = Keep THEN tag ELSE rule.tag)
  BY DEF Table1
<1>2. k \in hits /\ \A l \in hits : l = k \/ (l.prio \in Nat /\ l.prio < k.prio)
  OBVIOUS
<1> HIDE DEF hits
<1>3. \A l \in hits : k.prio >= l.prio
  BY <1>2
<1>4. best \in hits /\ best.prio >= k.prio
  <2>1. \E l \in hits : \A m \in hits : l.prio >= m.prio
    BY <1>2, <1>3
  <2>2. best \in hits /\ \A m \in hits : best.prio >= m.prio
    BY <2>1
  <2> QED
    BY <1>2, <2>2
<1>5. best = k
  <2> HIDE DEF best
  <2> QED
    BY <1>2, <1>4
<1>6. rule = Out(port, after)
  BY <1>5
<1>7. rule.kind = "out" /\ rule.port = port /\ rule.tag = after
  BY <1>6 DEF Out
<1> HIDE DEF best, rule
<1> QED
  BY <1>1, <1>2, <1>7

\* The tags that name a port are matched by two rules only.
LEMMA FullTagMatch ==
  ASSUME IdsFit, NEW a \in Switches, NEW p \in Ports[a], NEW i \in Slices,
         NEW tag, tag = FullTags[<<a, p, i>>],
         NEW k \in Keys, Matches(tag, k.tag, k.fields)
  PROVE  k = RouteKey(a) \/ k = PortKey(a, p, i)
<1>1. /\ GetValue(tag, SwitchField) = Id[a] /\ GetValue(tag, PortField) = p
      /\ GetValue(tag, SliceField) = i /\ Id[a] \in 0 .. 126
  BY FieldsOfTag
<1>2. SwitchField \in Fields /\ PortField \in Fields /\ SliceField \in Fields
  BY DEF Fields
<1>3. ASSUME NEW q, NEW j \in Slices, k = SharedKey(q, j) PROVE FALSE
  <2>1. k.tag = SharedTags[j] /\ k.fields = Fields
    BY <1>3 DEF SharedKey, Key
  <2>2. PICK n, m : n = max_switch_id /\ m = max_port_id
    OBVIOUS
  <2>3. n = 127 /\ m = 15 /\ j \in 1 .. 14
    BY <2>2, SliceOfSharedTag DEF max_switch_id, max_port_id, SwitchField, PortField
  <2>4. n \in Wide /\ m \in Narrow /\ j \in Narrow
    BY <2>3 DEF Wide, Narrow
  <2>5. SharedTags[j] = FullTag(n, m, j)
    BY <2>2 DEF SharedTags, SharedTag
  <2>6. GetValue(SharedTags[j], SwitchField) = n
    BY <2>4, <2>5, FieldsOfFullTag
  <2>7. GetValue(SharedTags[j], SwitchField) = Id[a]
    BY <1>1, <1>2, <2>1 DEF Matches
  <2> QED
    BY <1>1, <2>3, <2>6, <2>7
<1>4. ASSUME NEW e \in Switches, k = RouteKey(e) PROVE e = a
  <2>1. k.tag = SwitchTags[e] /\ k.fields = {SwitchField}
    BY <1>4 DEF RouteKey, Key
  <2>2. GetValue(SwitchTags[e], SwitchField) = Id[a]
    BY <1>1, <2>1 DEF Matches
  <2>3. Id[e] = Id[a]
    BY <2>2, SwitchOfTag
  <2> QED
    BY <2>3, FlowRulesAssumption
<1>5. ASSUME NEW e \in Switches, NEW q \in Ports[e], NEW j \in Slices, k = PortKey(e, q, j)
      PROVE  e = a /\ q = p /\ j = i
  <2>1. k.tag = FullTags[<<e, q, j>>] /\ k.fields = Fields
    BY <1>5 DEF PortKey, Key
  <2>2. PICK u : u = FullTags[<<e, q, j>>]
    OBVIOUS
  <2>3. /\ GetValue(u, SwitchField) = Id[e] /\ GetValue(u, PortField) = q
        /\ GetValue(u, SliceField) = j
    BY <2>2, FieldsOfTag
  <2>4. Id[e] = Id[a] /\ q = p /\ j = i
    BY <1>1, <1>2, <2>1, <2>2, <2>3 DEF Matches
  <2> QED
    BY <2>4, FlowRulesAssumption
<1>6. \/ \E q \in PortNumbers : \E j \in Slices : k = SharedKey(q, j)
      \/ \E e \in Switches : k = RouteKey(e)
      \/ \E e \in Ends : \E j \in Slices : k = PortKey(e[1], e[2], j)
  BY DEF Keys
<1>7. ASSUME NEW e \in Ends, NEW j \in Slices, k = PortKey(e[1], e[2], j)
      PROVE  k = PortKey(a, p, i)
  <2>1. PICK f, q : f = e[1] /\ q = e[2]
    OBVIOUS
  <2>2. f \in Switches /\ q \in Ports[f]
    BY <2>1 DEF Ends
  <2>3. f = a /\ q = p /\ j = i
    BY <1>5, <1>7, <2>1, <2>2
  <2> QED
    BY <1>7, <2>1, <2>3
<1> QED
  BY <1>3, <1>4, <1>6, <1>7

\* What a switch does with a packet for the port p of switch a.
LEMMA AtDestination ==
  ASSUME IdsFit, IInv, Carried, NEW a \in online, NEW p \in DOMAIN sw[a].ports,
         NEW i \in Slices, NEW in
  PROVE  LET after == TagAfter(sw[a].ports[p], i)
         IN  Table1(a, in, FullTags[<<a, p, i>>])
               = Leaves(a, p, IF after = Keep THEN FullTags[<<a, p, i>>] ELSE after)
<1>1. PICK t, tag, k, after :
        /\ t = sw[a].table1 /\ tag = FullTags[<<a, p, i>>]
        /\ k = PortKey(a, p, i) /\ after = TagAfter(sw[a].ports[p], i)
  OBVIOUS
<1>2. a \in Switches /\ p \in Ports[a] /\ DOMAIN t \subseteq Keys
  BY <1>1, Before DEF Typed, TypedPorts, TypedTables
<1>3. k \in DOMAIN t /\ t[k] = Out(p, after)
  BY <1>1 DEF Carried, Carries, PortsTagged, TaggedPort
<1>4. RouteKey(a) \notin DOMAIN t
  BY <1>1, <1>2 DEF Carried, Fit
<1>5. /\ k.prio = 10 /\ k.in = FromController /\ k.tag = tag /\ k.fields = Fields
  BY <1>1 DEF PortKey, Key
<1>6. ASSUME NEW l \in DOMAIN t, Matches(tag, l.tag, l.fields)
      PROVE  l = k
  <2>1. l \in Keys
    BY <1>2
  <2>2. l = RouteKey(a) \/ l = PortKey(a, p, i)
    BY <1>1, <1>2, <1>6, <2>1, FullTagMatch
  <2> QED
    BY <1>1, <1>4, <2>2
<1>7. Matches(tag, k.tag, k.fields)
  BY <1>5 DEF Matches
<1>8. Table1(a, in, tag) = Leaves(a, p, IF after = Keep THEN tag ELSE after)
  <2>1. k.prio \in Nat /\ k.in \in {FromController, in}
    BY <1>5
  <2>2. \A l \in DOMAIN t :
          l.in \in {FromController, in} /\ Matches(tag, l.tag, l.fields)
            => l = k \/ (l.prio \in Nat /\ l.prio < k.prio)
    BY <1>6
  <2> QED
    BY <1>1, <1>3, <1>7, <2>1, <2>2, BestRule
<1> QED
  BY <1>1, <1>8

LEMMA OnTheWay ==
  ASSUME IdsFit, IInv, Carried, NEW a \in Switches, NEW p \in Ports[a], NEW i \in Slices,
         NEW d \in online, a \in DOMAIN next[d], NEW in
  PROVE  Table1(d, in, FullTags[<<a, p, i>>]) = Leaves(d, next[d][a], FullTags[<<a, p, i>>])
<1>1. PICK t, tag, k, port :
        /\ t = sw[d].table1 /\ tag = FullTags[<<a, p, i>>]
        /\ k = RouteKey(a) /\ port = next[d][a]
  OBVIOUS
<1>2. DOMAIN t \subseteq Keys
  BY <1>1, Before DEF Typed, TypedTables
<1>3. k \in DOMAIN t /\ t[k] = Out(port, Keep)
  BY <1>1 DEF Carried, Carries, RoutesSent
<1>4. /\ k.prio = 20 /\ k.in = FromController /\ k.tag = SwitchTags[a]
      /\ k.fields = {SwitchField}
  BY <1>1 DEF RouteKey, Key
<1>5. ASSUME NEW l \in DOMAIN t, Matches(tag, l.tag, l.fields)
      PROVE  l = k \/ l.prio = 10
  <2>1. l \in Keys
    BY <1>2
  <2>2. l = RouteKey(a) \/ l = PortKey(a, p, i)
    BY <1>1, <1>5, <2>1, FullTagMatch
  <2>3. PortKey(a, p, i).prio = 10
    BY DEF PortKey, Key
  <2> QED
    BY <1>1, <2>2, <2>3
<1>6. Matches(tag, k.tag, k.fields)
  <2>1. GetValue(tag, SwitchField) = Id[a]
    BY <1>1, FieldsOfTag
  <2>2. GetValue(SwitchTags[a], SwitchField) = Id[a]
    BY SwitchOfTag
  <2> QED
    BY <1>4, <2>1, <2>2 DEF Matches
<1>7. Table1(d, in, tag) = Leaves(d, port, IF Keep = Keep THEN tag ELSE Keep)
  <2>1. k.prio \in Nat /\ k.in \in {FromController, in}
    BY <1>4
  <2>2. \A l \in DOMAIN t :
          l.in \in {FromController, in} /\ Matches(tag, l.tag, l.fields)
            => l = k \/ (l.prio \in Nat /\ l.prio < k.prio)
    BY <1>4, <1>5
  <2>3. PICK after : after = Keep
    OBVIOUS
  <2>4. t[k] = Out(port, after)
    BY <1>3, <2>3
  <2>5. Table1(d, in, tag) = Leaves(d, port, IF after = Keep THEN tag ELSE after)
    BY <1>1, <1>3, <1>6, <2>1, <2>2, <2>4, BestRule
  <2> QED
    BY <2>3, <2>5
<1> QED
  BY <1>1, <1>7

\* A packet that leaves towards switch a comes in on a switch that is closer.
LEMMA HopOn ==
  ASSUME IdsFit, IInv, Carried, NEW a \in Switches, NEW p \in Ports[a], NEW i \in Slices,
         NEW tag, tag = FullTags[<<a, p, i>>],
         NEW f \in online, a \in DOMAIN next[f]
  PROVE  \E g \in online : \E in :
           /\ Hop(Leaves(f, next[f][a], tag)) = Table1(g, in, tag)
           /\ g # a => a \in DOMAIN next[g]
           /\ Dist(links, g, a) \in 0 .. Cardinality(Switches)
           /\ Dist(links, f, a) \in 0 .. Cardinality(Switches)
           /\ Dist(links, g, a) < Dist(links, f, a)
<1>1. PICK route, port, e : route = next[f] /\ port = route[a] /\ e = Peer(f, port)
  OBVIOUS
<1>2. f \in Switches /\ links \in SUBSET Cables /\ route \in NextOf(links, f)
  BY <1>1, Before DEF LinksOver, Carried
<1>3. PICK g, in : g = e[1] /\ in = e[2]
  OBVIOUS
<1>4. /\ Linked(links, f, port) /\ g \in Switches /\ a \in Reach(links, g)
      /\ Dist(links, g, a) \in 0 .. Cardinality(Switches)
      /\ Dist(links, f, a) \in 0 .. Cardinality(Switches)
      /\ Dist(links, g, a) < Dist(links, f, a)
  BY <1>1, <1>2, <1>3, RouteDescends
<1>5. PICK c \in links : <<f, port>> \in c
  BY <1>4 DEF Linked
<1>6. e \in c /\ e = <<g, in>> /\ c \in Cables
  BY <1>1, <1>2, <1>3, <1>5, PeerIsOther
<1>7. g \in online /\ in \in DOMAIN sw[g].ports /\ Linked(links, g, in)
  BY <1>3, <1>6, Before DEF LinksOver, Linked
<1>8. g # a => a \in DOMAIN next[g]
  BY <1>4, <1>7 DEF IInv, Settled, Routed
<1>9. Hop(Leaves(f, port, tag)) = Arrives(g, in, tag)
  <2>1. PICK at : at = Leaves(f, port, tag)
    OBVIOUS
  <2>2. at.kind = "wire" /\ at.sw = f /\ at.port = port /\ at.tag = tag
    BY <2>1 DEF Leaves
  <2>3. Linked(Cables, f, port)
    BY <1>5, <1>6 DEF Linked
  <2>4. Peer(at.sw, at.port) = e
    BY <1>1, <2>2
  <2>5. Hop(at) = Arrives(e[1], e[2], tag)
    BY <1>3, <1>7, <2>2, <2>3, <2>4 DEF Hop
  <2> QED
    BY <1>3, <2>1, <2>5
<1>10. Arrives(g, in, tag) = Table1(g, in, tag)
  <2>1. in \in DOMAIN sw[g].table0 /\ sw[g].table0[in] = Goto1
    BY <1>7, FirstTable
  <2>2. tag # NoTag /\ GetValue(tag, SliceField) # max_slice_id
    <3>1. tag \in Tags /\ GetValue(tag, SliceField) = i /\ i \in 1 .. 14
      BY FieldsOfTag
    <3>2. max_slice_id = 15
      BY DEF max_slice_id, SliceField
    <3>3. -1 \notin Tags
      BY TagRange
    <3> QED
      BY <3>1, <3>2, <3>3 DEF NoTag
  <2>3. Goto1.kind = "goto_1"
    BY DEF Goto1
  <2> QED
    BY <2>1, <2>2, <2>3 DEF Arrives
<1> QED
  BY <1>1, <1>4, <1>7, <1>8, <1>9, <1>10

\* The places j of a packet after up to m hops
Walked(j, m, start) ==
  j = [n \in 0 .. m |-> IF n = 0 THEN start ELSE Hop(j[n - 1])]

LEMMA JourneyIs ==
  ASSUME NEW start
  PROVE  LET N == Cardinality(Switches)
             j == Journey(start)
         IN  /\ N \in Nat /\ DOMAIN j = 0 .. N /\ j[0] = start
             /\ \A n \in 1 .. N : j[n] = Hop(j[n - 1])
<1> DEFINE N == Cardinality(Switches)
<1>1. N \in Nat
  BY FlowRulesAssumption, FS_CardinalityType
<1>2. \A m \in Nat : \E j : Walked(j, m, start)
  <2> DEFINE S == {m \in Nat : ~ \E j : Walked(j, m, start)}
  <2> SUFFICES ASSUME S # {} PROVE FALSE
    OBVIOUS
  <2>1. PICK m \in S : \A k \in S : m <= k
    <3>1. S \subseteq Nat
      OBVIOUS
    <3> HIDE DEF S
    <3> QED
      BY <3>1, LeastNatural
  <2>2. CASE m = 0
    <3> DEFINE j == [n \in 0 .. 0 |-> start]
    <3>1. Walked(j, 0, start)
      BY DEF Walked
    <3> QED
      BY <2>2, <3>1
  <2>3. CASE m # 0
    <3>1. m - 1 \in Nat /\ m - 1 \notin S
      BY <2>1, <2>3
    <3>2. PICK j : Walked(j, m - 1, start)
      BY <3>1
    <3> DEFINE l == [n \in 0 .. m |-> IF n = m THEN Hop(j[m - 1]) ELSE j[n]]
    <3>3. ASSUME NEW n \in 0 .. m PROVE l[n] = IF n = 0 THEN start ELSE Hop(l[n - 1])
      <4>1. CASE n = m
        <5>1. n # 0 /\ n - 1 \in 0 .. m /\ n - 1 # m
          BY <2>3, <4>1
        <5> QED
          BY <4>1, <5>1
      <4>2. CASE n # m
        <5>1. n \in 0 .. (m - 1) /\ (n # 0 => n - 1 \in 0 .. m /\ n - 1 # m)
          BY <4>2
        <5>2. j[n] = IF n = 0 THEN start ELSE Hop(j[n - 1])
          BY <3>2, <5>1 DEF Walked
        <5> QED
          BY <4>2, <5>1, <5>2
      <4> QED
        BY <4>1, <4>2
    <3>4. l = [n \in 0 .. m |-> l[n]]
      OBVIOUS
    <3> HIDE DEF l
    <3>5. Walked(l, m, start)
      BY <3>3, <3>4 DEF Walked
    <3> QED
      BY <2>1, <3>5
  <2> QED
    BY <2>2, <2>3
<1>3. Journey(start) = CHOOSE j : Walked(j, N, start)
  BY DEF Journey, Walked
<1>4. PICK j : j = Journey(start)
  OBVIOUS
<1>5. Walked(j, N, start)
  BY <1>1, <1>2, <1>3, <1>4
<1>6. j = [n \in 0 .. N |-> IF n = 0 THEN start ELSE Hop(j[n - 1])]
  BY <1>5 DEF Walked
<1>7. /\ DOMAIN j = 0 .. N /\ j[0] = start
      /\ \A n \in 1 .. N : j[n] = Hop(j[n - 1])
  BY <1>1, <1>6
<1> QED
  BY <1>1, <1>4, <1>7

\* A packet sent on a route to switch a gets there within as many hops as there
\* are switches.
LEMMA GetsThere ==
  ASSUME IdsFit, IInv, Carried, NEW a \in Switches, NEW p \in Ports[a], NEW i \in Slices,
         NEW tag, tag = FullTags[<<a, p, i>>],
         NEW final, \A in : Table1(a, in, tag) = final,
         NEW d \in online, a \in DOMAIN next[d],
         NEW j, j = Journey(Leaves(d, next[d][a], tag))
  PROVE  \E n \in DOMAIN j : j[n] = final
<1> DEFINE N == Cardinality(Switches)
           Under(n) == \E f \in online :
             /\ a \in DOMAIN next[f] /\ j[n] = Leaves(f, next[f][a], tag)
             /\ Dist(links, f, a) + n <= N
<1>1. /\ N \in Nat /\ DOMAIN j = 0 .. N /\ j[0] = Leaves(d, next[d][a], tag)
      /\ \A n \in 1 .. N : j[n] = Hop(j[n - 1])
  BY JourneyIs
<1> SUFFICES ASSUME \A n \in 0 .. N : j[n] # final PROVE FALSE
  BY <1>1
<1>2. \A f \in online : a \in DOMAIN next[f] =>
        /\ Dist(links, f, a) \in 1 .. N
        /\ \E g \in online : \E in :
             /\ Hop(Leaves(f, next[f][a], tag)) = Table1(g, in, tag)
             /\ g # a => a \in DOMAIN next[g]
             /\ Dist(links, g, a) \in 0 .. N
             /\ Dist(links, g, a) < Dist(links, f, a)
  <2> SUFFICES ASSUME NEW f \in online, a \in DOMAIN next[f]
               PROVE  /\ Dist(links, f, a) \in 1 .. N
                      /\ \E g \in online : \E in :
                           /\ Hop(Leaves(f, next[f][a], tag)) = Table1(g, in, tag)
                           /\ g # a => a \in DOMAIN next[g]
                           /\ Dist(links, g, a) \in 0 .. N
                           /\ Dist(links, g, a) < Dist(links, f, a)
    OBVIOUS
  <2>1. PICK g \in online : \E in :
          /\ Hop(Leaves(f, next[f][a], tag)) = Table1(g, in, tag)
          /\ g # a => a \in DOMAIN next[g]
          /\ Dist(links, g, a) \in 0 .. N
          /\ Dist(links, f, a) \in 0 .. N
          /\ Dist(links, g, a) < Dist(links, f, a)
    BY HopOn
  <2>2. Dist(links, f, a) \in 1 .. N
    BY <1>1, <2>1
  <2> QED
    BY <2>1, <2>2
<1>3. \A n \in 0 .. N : Under(n)
  <2> DEFINE S == {n \in 0 .. N : ~Under(n)}
  <2> SUFFICES ASSUME S # {} PROVE FALSE
    OBVIOUS
  <2>1. PICK n \in S : \A m \in S : n <= m
    <3>1. S \subseteq Nat
      OBVIOUS
    <3> HIDE DEF S
    <3> QED
      BY <3>1, LeastNatural
  <2>2. CASE n = 0
    <3>1. Dist(links, d, a) + 0 <= N
      BY <1>1, <1>2
    <3> QED
      BY <1>1, <2>1, <2>2, <3>1
  <2>3. CASE n # 0
    <3>1. n - 1 \in 0 .. N /\ n \in 1 .. N /\ n - 1 \notin S
      <4>1. n \in 0 .. N
        BY <2>1
      <4>2. n - 1 \in 0 .. N /\ n \in 1 .. N /\ ~ (n <= n - 1)
        BY <1>1, <2>3, <4>1, SMTT(30)
      <4> HIDE DEF S
      <4> QED
        BY <2>1, <4>2
    <3>2. PICK f \in online : /\ a \in DOMAIN next[f]
                              /\ j[n - 1] = Leaves(f, next[f][a], tag)
                              /\ Dist(links, f, a) + (n - 1) <= N
      BY <3>1
    <3>3. PICK g \in online :
            /\ \E in : Hop(Leaves(f, next[f][a], tag)) = Table1(g, in, tag)
            /\ g # a => a \in DOMAIN next[g]
            /\ Dist(links, g, a) \in 0 .. N /\ Dist(links, f, a) \in 1 .. N
            /\ Dist(links, g, a) < Dist(links, f, a)
      BY <1>2, <3>2
    <3>4. PICK in : j[n] = Table1(g, in, tag)
      BY <1>1, <3>1, <3>2, <3>3, ZenonT(60)
    <3>5. g # a
      BY <3>1, <3>4
    <3>6. j[n] = Leaves(g, next[g][a], tag)
      BY <3>3, <3>4, <3>5, OnTheWay
    <3>7. Dist(links, g, a) + n <= N
      BY <1>1, <3>1, <3>2, <3>3
    <3> QED
      BY <2>1, <3>3, <3>5, <3>6, <3>7
  <2> QED
    BY <2>2, <2>3
<1>4. PICK f \in online : a \in DOMAIN next[f] /\ Dist(links, f, a) + N <= N
  BY <1>1, <1>3
<1>5. Dist(links, f, a) \in 1 .. N
  BY <1>2, <1>4
<1> QED
  BY <1>1, <1>4, <1>5

\* The group of an output port, unless the switch kept groups from before.
LEMMA GroupIs ==
  ASSUME IInv, Carried, ~GroupsSurvive, NEW v \in VSwitches, vstate[v] = "connected",
         NEW x \in DOMAIN PortMap[v], NEW d \in Deps(v),
         NEW b, b = Bucket(<<v, x>>, Target(d, links, next[d], <<v, x>>))
  PROVE  ThroughGroup(v, x, d) = Leaves(d, b.port, b.tag)
<1>1. PICK k, s, o, t : k = <<v, x>> /\ s = sw[d] /\ o = s.out[k]
                        /\ t = Target(d, links, next[d], k)
  OBVIOUS
<1>2. d \in online /\ d \in Switches /\ v \in s.interest /\ Typed(d, s)
  BY <1>1, Before DEF Ready
<1>3. k \in DOMAIN s.out
  BY <1>1, <1>2 DEF OutKeys, Typed, TypedGroups
<1>4. o.state = t.state /\ o.port = t.port
  <2>1. GroupsSent(d, s, links, next[d], vstate)
    BY <1>1, <1>2 DEF Carried, Carries
  <2>2. k[1] = v
    BY <1>1
  <2> QED
    BY <1>1, <1>3, <2>1, <2>2 DEF GroupsSent
<1>5. o.state # "no_rule"
  <2>1. t.state # "no_rule"
    BY <1>1 DEF Target
  <2> QED
    BY <1>4, <2>1
<1>6. s.groups[o.id] = Bucket(k, o)
  <2>1. GroupsFit(s)
    BY <1>1, <1>2 DEF Carried, Fit
  <2> QED
    BY <1>1, <1>3, <1>5, <2>1 DEF GroupsFit
<1>7. Bucket(k, o) = Bucket(k, t)
  BY <1>4 DEF Bucket
<1> QED
  BY <1>1, <1>6, <1>7 DEF ThroughGroup

LEMMA Delivers ==
  ASSUME IdsFit, IInv, Carried, ~GroupsSurvive
  PROVE  Delivery
<1> SUFFICES ASSUME NEW v \in VSwitches, vstate[v] = "connected",
                    NEW x \in DOMAIN PortMap[v], NEW d \in Deps(v),
                    NEW e, e = PortMap[v][x], Usable(e),
                    NEW j, j = Journey(ThroughGroup(v, x, d))
             PROVE  \E n \in DOMAIN j :
                      j[n] = Leaves(e[1], e[2], IF Linked(links, e[1], e[2])
                                                THEN SharedTags[Slice[v]] ELSE NoTag)
  BY DEF Delivery
<1>1. PICK a, p : e = <<a, p>> /\ a \in Switches /\ p \in Ports[a]
  BY FlowRulesAssumption DEF Ends
<1>2. PICK i, tag, after, final :
        /\ i = Slice[v] /\ tag = FullTags[<<a, p, i>>]
        /\ after = (IF Linked(links, a, p) THEN SharedTags[i] ELSE NoTag)
        /\ final = Leaves(a, p, after)
  OBVIOUS
<1>3. PICK k, b : k = <<v, x>> /\ b = Bucket(k, Target(d, links, next[d], k))
  OBVIOUS
<1>4. /\ i \in Slices /\ a \in Deps(v) /\ a \in Reach(links, d)
      /\ a \in online /\ d \in online /\ p \in DOMAIN sw[a].ports
  <2>1. a \in Deps(v)
    <3>1. PortMap[v][x][1] = a
      BY <1>1
    <3> QED
      BY <3>1 DEF Deps
  <2>2. a \in Reach(links, d) /\ a \in online /\ d \in online
    BY <2>1, Before DEF Ready
  <2> QED
    BY <1>1, <1>2, <2>1, <2>2 DEF Slices, Usable
<1>5. TagAfter(sw[a].ports[p], i) = after /\ after # Keep
  <2>1. sw[a].ports[p] = PortState(a, sw[a], links, p)
    BY <1>4, Before DEF InStep, PortsInStep
  <2>2. sw[a].ports[p] = IF Linked(links, a, p) THEN "link_rule" ELSE "host_rule"
    BY <1>1, <2>1 DEF Usable, PortState
  <2>3. SharedTags[i] # Keep /\ NoTag # Keep
    <3>1. SharedTags[i] \in Tags
      BY <1>4, SliceOfSharedTag
    <3>2. -2 \notin Tags /\ -1 # -2
      BY TagRange
    <3> QED
      BY <3>1, <3>2 DEF NoTag, Keep
  <2> QED
    BY <1>2, <2>2, <2>3 DEF TagAfter
<1>6. \A in : Table1(a, in, tag) = final
  BY <1>2, <1>4, <1>5, AtDestination
<1>7. ThroughGroup(v, x, d) = Leaves(d, b.port, b.tag)
  BY <1>3, GroupIs
<1>8. PortMap[k[1]][k[2]] = <<a, p>> /\ k[1] = v
  BY <1>1, <1>3
<1>9. CASE a = d
  <2>1. Target(d, links, next[d], k) =
          [state |-> IF Linked(links, a, p) THEN "shared_link_rule" ELSE "host_rule",
           port |-> p]
    BY <1>8, <1>9 DEF Target
  <2>2. b = Out(p, after)
    BY <1>2, <1>3, <1>8, <2>1 DEF Bucket
  <2>3. ThroughGroup(v, x, d) = final
    BY <1>2, <1>7, <1>9, <2>2 DEF Out
  <2>4. 0 \in DOMAIN j /\ j[0] = final
    BY <2>3, JourneyIs
  <2> QED
    BY <1>1, <1>2, <2>4
<1>10. CASE a # d
  <2>1. Target(d, links, next[d], k) = [state |-> "switch_rule", port |-> next[d][a]]
    BY <1>8, <1>10 DEF Target
  <2>2. b = Out(next[d][a], tag)
    BY <1>2, <1>3, <1>8, <2>1 DEF Bucket
  <2>3. j = Journey(Leaves(d, next[d][a], tag))
    BY <1>7, <2>2 DEF Out
  <2>4. a \in DOMAIN next[d]
    BY <1>4, <1>10 DEF IInv, Settled, Routed
  <2>5. \E n \in DOMAIN j : j[n] = final
    BY <1>1, <1>2, <1>4, <1>6, <2>3, <2>4, GetsThere
  <2> QED
    BY <1>1, <1>2, <2>5
<1> QED
  BY <1>9, <1>10

-----------------------------------------------------------------------------
\* Theorems

(***************************************************************************)
(* After every handler the rules and groups in the switches are those of   *)
(* the links and routes of that moment: a rule for every port and slice,   *)
(* one for every route, and, unless groups are kept by a switch that was   *)
(* away, a bucket for every output group that goes where it should, if     *)
(* switch ids and ports fit into the tag, which the code does not see to.  *)
(***************************************************************************)
THEOREM RulesCarry == ASSUME IdsFit PROVE Spec => [](IInv /\ Carried)
<1>1. Init => IInv /\ Carried
  BY IInvInit, CarriedInit
<1>2. IInv /\ Carried /\ [Next]_vars => (IInv /\ Carried)'
  BY IInvNext, CarriedNext
<1> QED
  BY <1>1, <1>2, PTL DEF Spec

(***************************************************************************)
(* The routes in the switches, with those that were never deleted, form no *)
(* loop: a packet for another switch does not go round for ever, if switch *)
(* ids and ports fit into the tag.                                         *)
(***************************************************************************)
THEOREM NoLoops == ASSUME IdsFit PROVE Spec => []NoForwardingLoop
<1>1. IInv /\ Carried => NoForwardingLoop
  BY DEF Carried
<1> QED
  BY <1>1, RulesCarry, PTL

(***************************************************************************)
(* What a virtual switch sends to one of its ports arrives there, from any *)
(* of its switches and in any network, under two conditions that the code  *)
(* does not ensure: switch ids (below 127) and ports (at most 15) fit into *)
(* the fields of the tag, and a switch comes back without the groups it    *)
(* had (flow_rules_groups.cfg shows what happens else).                    *)
(***************************************************************************)
THEOREM Delivered == ASSUME IdsFit, ~GroupsSurvive PROVE Spec => []Delivery
<1>1. IInv /\ Carried => Delivery
  BY Delivers
<1> QED
  BY <1>1, RulesCarry, PTL
=============================================================================
