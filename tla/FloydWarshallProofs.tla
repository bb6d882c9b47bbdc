------------------------ MODULE FloydWarshallProofs ------------------------
(***************************************************************************)
(* The routes of calculate_routes never loop, for any number of switches   *)
(* and whatever links they have.                                           *)
(***************************************************************************)
EXTENDS FloydWarshall, FiniteSetTheorems, NaturalsInduction, WellFoundedInduction, TLAPS

\* The pairs this round of k has been through.
Visited(a, b) == a < i \/ (a = i /\ b < j)

\* A packet for b gets closer on the next switch ...
Descends(a, b) == Hop(a, b) = b \/ dist[Hop(a, b)][b] < dist[a][b]

\* ... or will do so once this round of k has reached that switch.
WillDescend(a, b) ==
  /\ ~Done
  /\ Visited(a, b)
  /\ ~Visited(Hop(a, b), b)
  /\ dist[Hop(a, b)][k] + dist[k][b] < dist[a][b]

SelfIsNear == \A a \in Switches : dist[a][a] <= 1

OthersAreApart == \A a, b \in Switches : a # b => dist[a][b] >= 1

HopIsSwitch ==
  \A a, b \in Switches : next[a][b] # None => Hop(a, b) \in Switches

OnTrack ==
  \A a, b \in Switches :
    a # b /\ Finite(a, b) => Descends(a, b) \/ WillDescend(a, b)

\* What this round has been through is no longer than the way over k.
RoundDone ==
  ~Done => \A a, b \in Switches :
             Visited(a, b) => dist[a][b] <= dist[a][k] + dist[k][b]

IInv ==
  /\ TypeOK
  /\ SelfIsNear
  /\ OthersAreApart
  /\ NextIffFinite
  /\ HopIsSwitch
  /\ OnTrack
  /\ RoundDone

-----------------------------------------------------------------------------
(***************************************************************************)
(* What a reset leaves behind, in Init and in Recalculate.                 *)
(***************************************************************************)
LEMMA DirectPortCorrect ==
  ASSUME NEW l \in Links, NEW a \in Switches, NEW b \in Switches
  PROVE  /\ DirectPort(l, a, b) \in Ports \cup {None}
         /\ DirectPort(l, a, b) # None <=> PortsTo(l, a, b) # {}
         /\ DirectPort(l, a, b) # None => l[a][DirectPort(l, a, b)] = b
  <1>1. CASE PortsTo(l, a, b) = {}
    BY <1>1 DEF DirectPort
  <1>2. CASE PortsTo(l, a, b) # {}
    <2>1. DirectPort(l, a, b) \in PortsTo(l, a, b)
      BY <1>2 DEF DirectPort
    <2>2. QED
      BY <1>2, <2>1, PortsAssumption DEF PortsTo
  <1>3. QED
    BY <1>1, <1>2

ResetState ==
  /\ link \in Links
  /\ dist = Distances(link)
  /\ next = Nexts(link)
  /\ k = 1 /\ i = 1 /\ j = 1

LEMMA ResetCorrect == ResetState => IInv
  <1> SUFFICES ASSUME ResetState PROVE IInv
    OBVIOUS
  <1> USE NAssumption, InfiniteAssumption DEF Switches, ResetState
  <1>1. ASSUME NEW a \in Switches, NEW b \in Switches
        PROVE  /\ dist[a][b] = DirectDistance(link, a, b)
               /\ next[a][b] = DirectPort(link, a, b)
               /\ dist[a][b] \in 0..Infinite
               /\ next[a][b] \in Ports \cup {None}
               /\ next[a][b] # None <=> PortsTo(link, a, b) # {}
               /\ next[a][b] # None => Hop(a, b) = b
    BY DirectPortCorrect DEF Distances, Nexts, DirectDistance, Hop
  <1>2. TypeOK
    <2>1. dist \in [Switches -> [Switches -> 0..Infinite]]
      BY <1>1 DEF Distances
    <2>2. next \in [Switches -> [Switches -> Ports \cup {None}]]
      BY <1>1 DEF Nexts
    <2>3. QED
      BY <2>1, <2>2 DEF TypeOK
  <1>3. SelfIsNear /\ OthersAreApart /\ NextIffFinite
    BY <1>1 DEF SelfIsNear, OthersAreApart, NextIffFinite, Finite, DirectDistance
  <1>4. HopIsSwitch
    BY <1>1 DEF HopIsSwitch
  <1>5. OnTrack
    BY <1>1, <1>3 DEF OnTrack, Descends, NextIffFinite
  <1>6. RoundDone
    BY DEF RoundDone, Visited
  <1>7. QED
    BY <1>2, <1>3, <1>4, <1>5, <1>6 DEF IInv

-----------------------------------------------------------------------------
(***************************************************************************)
(* The iterators: the pair <<i, j>> is visited, and a round that ends has  *)
(* visited every pair.                                                     *)
(***************************************************************************)
LEMMA AdvanceCorrect ==
  ASSUME TypeOK, ~Done, Advance
  PROVE  /\ k' \in 1..(N + 1) /\ i' \in Switches /\ j' \in Switches
         /\ \/ /\ k' = k /\ ~Done'
               /\ \A a, b \in Switches :
                    Visited(a, b)' <=> Visited(a, b) \/ (a = i /\ b = j)
            \/ /\ k' = k + 1
               /\ \A a, b \in Switches :
                    /\ ~Visited(a, b)'
                    /\ Visited(a, b) \/ (a = i /\ b = j)
  <1> USE NAssumption DEF Switches
  <1>1. k \in 1..N /\ i \in 1..N /\ j \in 1..N
    BY DEF TypeOK, Done
  <1>2. CASE j < N
    BY <1>1, <1>2 DEF Advance, Visited, Done
  <1>3. CASE ~(j < N) /\ i < N
    BY <1>1, <1>3 DEF Advance, Visited, Done
  <1>4. CASE ~(j < N) /\ ~(i < N)
    BY <1>1, <1>4 DEF Advance, Visited, Done
  <1>5. QED
    BY <1>2, <1>3, <1>4

(***************************************************************************)
(* An iteration that shortens a distance is about three different switches *)
(* and about distances that are known, so that the row and the column of k *)
(* do not change in its round.                                             *)
(***************************************************************************)
LEMMA ShorterCorrect ==
  ASSUME IInv, ~Done, Shorter
  PROVE  /\ i # j /\ i # k /\ j # k
         /\ Finite(i, k) /\ Finite(k, j)
         /\ dist[i][k] \in 1..Infinite
         /\ dist[i][k] + dist[k][j] \in 0..Infinite
         /\ dist[i][k] + dist[k][j] < Infinite
  <1> USE NAssumption, InfiniteAssumption
  <1>1. k \in Switches /\ i \in Switches /\ j \in Switches
    BY DEF IInv, TypeOK, Done, Switches
  <1>2. ASSUME NEW a \in Switches, NEW b \in Switches
        PROVE  dist[a][b] \in 0..Infinite
    BY DEF IInv, TypeOK
  <1>3. /\ dist[i][k] \in 0..Infinite /\ dist[k][j] \in 0..Infinite
        /\ dist[i][j] \in 0..Infinite
    BY <1>1, <1>2
  <1>4. i # k /\ j # k
    BY <1>3 DEF Shorter
  <1>5. dist[i][k] >= 1 /\ dist[k][j] >= 1
    BY <1>1, <1>4 DEF IInv, OthersAreApart
  <1>6. i # j
    <2>1. dist[i][i] <= 1
      BY <1>1 DEF IInv, SelfIsNear
    <2>2. QED
      BY <1>3, <1>5, <2>1 DEF Shorter
  <1>7. QED
    BY <1>3, <1>4, <1>5, <1>6 DEF Shorter, Finite

LEMMA KeepCorrect ==
  ASSUME IInv, Keep
  PROVE  IInv'
  <1> USE NAssumption, InfiniteAssumption
  <1>1. ~Done /\ ~Shorter /\ Advance /\ UNCHANGED <<link, dist, next>>
    BY DEF Keep
  <1>2. TypeOK
    BY DEF IInv
  <1>3. k \in Switches /\ i \in Switches /\ j \in Switches
    BY <1>1, <1>2 DEF TypeOK, Done, Switches
  <1>4. ASSUME NEW a \in Switches, NEW b \in Switches
        PROVE  dist[a][b] \in 0..Infinite
    BY <1>2 DEF TypeOK
  <1>5. dist[i][j] <= dist[i][k] + dist[k][j]
    BY <1>1, <1>3, <1>4 DEF Shorter
  <1>6. TypeOK'
    BY <1>1, <1>2, AdvanceCorrect DEF TypeOK
  <1>7. (SelfIsNear /\ OthersAreApart /\ NextIffFinite /\ HopIsSwitch)'
    BY <1>1 DEF IInv, SelfIsNear, OthersAreApart, NextIffFinite, HopIsSwitch,
                Finite, Hop
  <1>8. OnTrack'
    <2> SUFFICES ASSUME NEW a \in Switches, NEW b \in Switches,
                        a # b, Finite(a, b)'
                 PROVE  Descends(a, b)' \/ WillDescend(a, b)'
      BY DEF OnTrack
    <2>1. Finite(a, b) /\ Hop(a, b)' = Hop(a, b)
      BY <1>1 DEF Finite, Hop
    <2>2. PICK m \in Switches : m = Hop(a, b)
      BY <2>1 DEF IInv, NextIffFinite, HopIsSwitch
    <2>3. CASE Descends(a, b)
      BY <1>1, <2>1, <2>3 DEF Descends
    <2>4. CASE WillDescend(a, b) /\ m = i /\ b = j
      <3>1. dist[m][b] < dist[a][b]
        BY <1>3, <1>4, <1>5, <2>2, <2>4 DEF WillDescend
      <3>2. QED
        BY <1>1, <2>1, <2>2, <3>1 DEF Descends
    <2>5. CASE WillDescend(a, b) /\ ~(m = i /\ b = j)
      <3>1. Visited(a, b) /\ ~Visited(m, b)
        BY <2>2, <2>5 DEF WillDescend
      <3>2. k' = k /\ ~Done' /\ Visited(a, b)' /\ ~Visited(m, b)'
        BY <1>1, <1>2, <2>5, <3>1, AdvanceCorrect
      <3>3. dist[m][k] + dist[k][b] < dist[a][b]
        BY <2>2, <2>5 DEF WillDescend
      <3>4. ~Visited(Hop(a, b), b)'
        BY <2>1, <2>2, <3>2 DEF Visited
      <3>5. QED
        BY <1>1, <2>1, <2>2, <3>2, <3>3, <3>4 DEF WillDescend
    <2>6. QED
      BY <2>1, <2>3, <2>4, <2>5 DEF IInv, OnTrack
  <1>9. RoundDone'
    <2> SUFFICES ASSUME ~Done', NEW a \in Switches, NEW b \in Switches,
                        Visited(a, b)'
                 PROVE  (dist[a][b] <= dist[a][k] + dist[k][b])'
      BY DEF RoundDone
    <2>1. k' = k /\ (Visited(a, b) \/ (a = i /\ b = j))
      BY <1>1, <1>2, AdvanceCorrect
    <2>2. dist[a][b] <= dist[a][k] + dist[k][b]
      BY <1>1, <1>5, <2>1 DEF IInv, RoundDone
    <2>3. QED
      BY <1>1, <2>1, <2>2
  <1>10. QED
    BY <1>6, <1>7, <1>8, <1>9 DEF IInv

LEMMA RelaxCorrect ==
  ASSUME IInv, Relax
  PROVE  IInv'
  <1> USE NAssumption, InfiniteAssumption
  <1> DEFINE sum == dist[i][k] + dist[k][j]
  <1>1. /\ ~Done /\ Shorter /\ Advance /\ link' = link
        /\ dist' = [dist EXCEPT ![i][j] = sum]
        /\ next' = [next EXCEPT ![i][j] = next[i][k]]
    BY DEF Relax
  <1>2. TypeOK
    BY DEF IInv
  <1>3. k \in Switches /\ i \in Switches /\ j \in Switches
    BY <1>1, <1>2 DEF TypeOK, Done, Switches
  <1>4. ASSUME NEW a \in Switches, NEW b \in Switches
        PROVE  dist[a][b] \in 0..Infinite
    BY <1>2 DEF TypeOK
  <1>5. /\ i # j /\ i # k /\ j # k /\ Finite(i, k) /\ Finite(k, j)
        /\ dist[i][k] \in 1..Infinite
        /\ sum \in 0..Infinite /\ sum < Infinite
    BY <1>1, ShorterCorrect
  <1>6. ASSUME NEW a \in Switches, NEW b \in Switches
        PROVE  /\ dist'[a][b] = IF a = i /\ b = j THEN sum ELSE dist[a][b]
               /\ next'[a][b] = IF a = i /\ b = j THEN next[i][k]
                                                  ELSE next[a][b]
    BY <1>1, <1>2, <1>3 DEF TypeOK
  <1>7. /\ sum < dist[i][j]
        /\ \A a \in Switches : dist'[a][k] = dist[a][k]
        /\ \A b \in Switches : dist'[k][b] = dist[k][b]
    BY <1>1, <1>3, <1>5, <1>6 DEF Shorter
  <1>8. next[i][k] # None /\ next[i][k] \in Ports
    BY <1>2, <1>3, <1>5 DEF IInv, NextIffFinite, TypeOK
  <1> HIDE DEF sum
  <1>9. TypeOK'
    <2>1. dist' \in [Switches -> [Switches -> 0..Infinite]]
      BY <1>1, <1>2, <1>3, <1>5 DEF TypeOK
    <2>2. next' \in [Switches -> [Switches -> Ports \cup {None}]]
      BY <1>1, <1>2, <1>3, <1>8 DEF TypeOK
    <2>3. QED
      BY <1>1, <1>2, <2>1, <2>2, AdvanceCorrect DEF TypeOK
  <1>10. SelfIsNear'
    BY <1>5, <1>6 DEF IInv, SelfIsNear
  <1>11. OthersAreApart'
    <2>1. sum >= 1
      BY <1>3, <1>4, <1>5 DEF sum
    <2>2. QED
      BY <1>6, <2>1 DEF IInv, OthersAreApart
  <1>12. NextIffFinite'
    BY <1>5, <1>6, <1>8 DEF IInv, NextIffFinite, Finite
  <1>13. ASSUME NEW a \in Switches, NEW b \in Switches
         PROVE  Hop(a, b)' = IF a = i /\ b = j THEN Hop(i, k) ELSE Hop(a, b)
    BY <1>1, <1>6 DEF Hop
  <1>14. Hop(i, k) \in Switches
    BY <1>3, <1>8 DEF IInv, HopIsSwitch
  <1>15. HopIsSwitch'
    BY <1>6, <1>13, <1>14 DEF IInv, HopIsSwitch
  <1>16. OnTrack'
    <2> SUFFICES ASSUME NEW a \in Switches, NEW b \in Switches,
                        a # b, Finite(a, b)'
                 PROVE  Descends(a, b)' \/ WillDescend(a, b)'
      BY DEF OnTrack
    <2>1. CASE a = i /\ b = j
      <3>1. PICK h \in Switches : h = Hop(i, k)
        BY <1>14
      <3>2. h = k \/ dist[h][k] < dist[i][k]
        <4>1. Descends(i, k) \/ WillDescend(i, k)
          BY <1>3, <1>5 DEF IInv, OnTrack
        <4>2. dist[h][k] \in 0..Infinite /\ dist[k][k] \in 0..Infinite
          BY <1>3, <1>4
        <4>3. QED
          BY <1>5, <3>1, <4>1, <4>2 DEF Descends, WillDescend
      <3>3. Hop(a, b)' = h /\ dist'[a][b] = sum
        BY <1>6, <1>13, <2>1, <3>1
      <3>4. ASSUME dist'[h][b] < sum
            PROVE  Descends(a, b)'
        BY <3>3, <3>4 DEF Descends
      <3>5. CASE h = k
        <4>1. dist[k][j] < sum
          BY <1>3, <1>4, <1>5 DEF sum
        <4>2. QED
          BY <1>7, <2>1, <3>4, <3>5, <4>1
      <3>6. CASE dist[h][k] < dist[i][k]
        <4>1. h # i /\ dist[h][k] + dist[k][j] < sum
          BY <1>3, <1>4, <1>5, <3>6 DEF sum
        <4>2. ASSUME Visited(h, j)
              PROVE  Descends(a, b)'
          <5>1. dist[h][j] <= dist[h][k] + dist[k][j]
            BY <1>1, <1>3, <4>2 DEF IInv, RoundDone
          <5>2. dist'[h][b] < sum
            BY <1>3, <1>4, <1>5, <1>6, <2>1, <4>1, <5>1
          <5>3. QED
            BY <3>4, <5>2
        <4>3. CASE ~Visited(h, j)
          <5>1. k' = k /\ ~Done' /\ Visited(a, b)' /\ ~Visited(h, b)'
            BY <1>1, <1>2, <1>3, <2>1, <4>1, <4>3, AdvanceCorrect
          <5>2. ~Visited(Hop(a, b), b)'
            BY <3>3, <5>1 DEF Visited
          <5>3. dist'[h][k'] + dist'[k'][b] < dist'[a][b]
            BY <1>7, <2>1, <3>3, <4>1, <5>1
          <5>4. QED
            BY <3>3, <5>1, <5>2, <5>3 DEF WillDescend
        <4>4. QED
          BY <4>2, <4>3
      <3>7. QED
        BY <3>2, <3>5, <3>6
    <2>2. CASE ~(a = i /\ b = j)
      <3>1. /\ Finite(a, b) /\ dist'[a][b] = dist[a][b]
            /\ Hop(a, b)' = Hop(a, b)
        BY <1>6, <1>13, <2>2 DEF Finite
      <3>2. PICK m \in Switches : m = Hop(a, b)
        BY <3>1 DEF IInv, NextIffFinite, HopIsSwitch
      <3>3. ASSUME m = b \/ dist'[m][b] < dist[a][b]
            PROVE  Descends(a, b)'
        BY <3>1, <3>2, <3>3 DEF Descends
      <3>4. CASE Descends(a, b)
        <4>1. dist'[m][b] <= dist[m][b]
          BY <1>3, <1>4, <1>5, <1>6, <1>7
        <4>2. QED
          BY <1>4, <1>5, <1>6, <3>2, <3>3, <3>4, <4>1 DEF Descends
      <3>5. CASE WillDescend(a, b)
        <4>1. /\ Visited(a, b) /\ ~Visited(m, b)
              /\ dist[m][k] + dist[k][b] < dist[a][b]
          BY <3>2, <3>5 DEF WillDescend
        <4>2. CASE m = i /\ b = j
          BY <1>6, <3>3, <4>1, <4>2 DEF sum
        <4>3. CASE ~(m = i /\ b = j)
          <5>1. k' = k /\ ~Done' /\ Visited(a, b)' /\ ~Visited(m, b)'
            BY <1>1, <1>2, <4>1, <4>3, AdvanceCorrect
          <5>2. ~Visited(Hop(a, b), b)'
            BY <3>1, <3>2, <5>1 DEF Visited
          <5>3. dist'[m][k'] + dist'[k'][b] < dist'[a][b]
            BY <1>7, <3>1, <4>1, <5>1
          <5>4. QED
            BY <3>1, <3>2, <5>1, <5>2, <5>3 DEF WillDescend
        <4>4. QED
          BY <4>2, <4>3
      <3>6. QED
        BY <3>1, <3>4, <3>5 DEF IInv, OnTrack
    <2>3. QED
      BY <2>1, <2>2
  <1>17. RoundDone'
    <2> SUFFICES ASSUME ~Done', NEW a \in Switches, NEW b \in Switches,
                        Visited(a, b)'
                 PROVE  (dist[a][b] <= dist[a][k] + dist[k][b])'
      BY DEF RoundDone
    <2>1. k' = k /\ (Visited(a, b) \/ (a = i /\ b = j))
      BY <1>1, <1>2, AdvanceCorrect
    <2>2. dist'[a][b] <= dist[a][k] + dist[k][b]
      <3>1. CASE a = i /\ b = j
        BY <1>3, <1>4, <1>6, <3>1 DEF sum
      <3>2. CASE ~(a = i /\ b = j)
        BY <1>1, <1>6, <2>1, <3>2 DEF IInv, RoundDone
      <3>3. QED
        BY <3>1, <3>2
    <2>3. QED
      BY <1>7, <2>1, <2>2
  <1>18. QED
    BY <1>9, <1>10, <1>11, <1>12, <1>15, <1>16, <1>17 DEF IInv

-----------------------------------------------------------------------------
LEMMA InitCorrect == Init => IInv
  <1> SUFFICES ASSUME Init PROVE IInv
    OBVIOUS
  <1>1. link \in Links
    BY LeadsAssumption DEF Init, Links, Cablings
  <1>2. QED
    BY <1>1, ResetCorrect DEF Init, ResetState

LEMMA RecalculateResets ==
  ASSUME IInv, Recalculate
  PROVE  ResetState'
  <1>1. PICK s \in Switches, p \in Ports :
          \E t \in (Leads[s][p] \cup {None}) \ {link[s][p]} :
            link' = [link EXCEPT ![s][p] = t]
    BY DEF Recalculate
  <1>2. PICK t \in Leads[s][p] \cup {None} : link' = [link EXCEPT ![s][p] = t]
    BY <1>1
  <1>3. link \in Links
    BY DEF IInv, TypeOK
  <1>4. Leads[s][p] \subseteq Switches
    BY LeadsAssumption DEF Cablings
  <1>5. link' \in Links
    BY <1>2, <1>3, <1>4 DEF Links
  <1>6. QED
    BY <1>5 DEF Recalculate, ResetState

LEMMA RecalculateCorrect ==
  ASSUME IInv, Recalculate
  PROVE  IInv'
  <1>1. ResetState'
    BY RecalculateResets
  <1>2. QED
    BY <1>1, ResetCorrect, PTL

THEOREM IInvHolds == Spec => []IInv
  <1>1. IInv /\ [Next]_vars => IInv'
    <2> SUFFICES ASSUME IInv, [Next]_vars PROVE IInv'
      OBVIOUS
    <2>1. CASE Relax
      BY <2>1, RelaxCorrect
    <2>2. CASE Keep
      BY <2>2, KeepCorrect
    <2>3. CASE Recalculate
      BY <2>3, RecalculateCorrect
    <2>4. CASE UNCHANGED vars
      BY <2>4 DEF vars, IInv, TypeOK, SelfIsNear, OthersAreApart, NextIffFinite,
                  HopIsSwitch, OnTrack, RoundDone, Descends, WillDescend, Visited,
                  Finite, Hop, Done
    <2>5. QED
      BY <2>1, <2>2, <2>3, <2>4 DEF Next
  <1>2. QED
    BY <1>1, InitCorrect, PTL DEF Spec

-----------------------------------------------------------------------------
(***************************************************************************)
(* Distances stay in the range of the code and ports are ports.            *)
(***************************************************************************)
THEOREM TypeCorrect == Spec => []TypeOK
  <1>1. IInv => TypeOK
    BY DEF IInv
  <1>2. QED
    BY <1>1, IInvHolds, PTL

(***************************************************************************)
(* A finite distance always comes with a port: next.at in                  *)
(* update_dynamic_rules and get_next in calculate_routes find what they    *)
(* look for.                                                               *)
(***************************************************************************)
THEOREM NextIsKnown == Spec => []NextIffFinite
  <1>1. IInv => NextIffFinite
    BY DEF IInv
  <1>2. QED
    BY <1>1, IInvHolds, PTL

(***************************************************************************)
(* Following the routes that calculate_routes leaves behind, the distance  *)
(* to the destination goes down with every switch: no packet goes round in *)
(* circles.                                                                *)
(***************************************************************************)
THEOREM RoutesNeverLoop == Spec => []RoutesDescend
  <1>1. IInv => RoutesDescend
    BY DEF IInv, TypeOK, NextIffFinite, HopIsSwitch, OnTrack, RoutesDescend,
           Descends, WillDescend
  <1>2. QED
    BY <1>1, IInvHolds, PTL

-----------------------------------------------------------------------------
(***************************************************************************)
(* Walks over the links l, and how long they are.                          *)
(***************************************************************************)

\* A set of naturals that is not empty has a least element.
LEMMA LeastNatural ==
  ASSUME NEW S, S \subseteq Nat, S # {}
  PROVE  \E n \in S : \A m \in S : n <= m
  <1>1. PICK n \in S : \A m \in S : ~ (<<m, n>> \in OpToRel(<, Nat))
    BY NatLessThanWellFounded, WFMin
  <1>2. ASSUME NEW m \in S PROVE n <= m
    <2>1. <<m, n>> \in Nat \X Nat /\ <<m, n>>[1] = m /\ <<m, n>>[2] = n
      OBVIOUS
    <2>2. m < n => <<m, n>> \in OpToRel(<, Nat)
      BY <2>1 DEF OpToRel
    <2>3. ~ (m < n)
      BY <1>1, <2>2
    <2>4. m \in Nat /\ n \in Nat
      OBVIOUS
    <2>5. QED
      BY <2>3, <2>4
  <1>3. QED
    BY <1>2

\* The switches w of a walk of n links
Walk(l, w, n) ==
  /\ w \in [0 .. n -> Switches]
  /\ \A q \in 1 .. n : PortsTo(l, w[q - 1], w[q]) # {}

\* A walk of n links from a to b, over no switch after m in between
Way(l, a, b, n, m) ==
  \E w : /\ Walk(l, w, n) /\ w[0] = a /\ w[n] = b
         /\ \A q \in 1 .. (n - 1) : w[q] <= m

LEMMA PieceOfWalk ==
  ASSUME NEW l, NEW n \in Nat, NEW w, Walk(l, w, n),
         NEW s \in 0 .. n, NEW t \in 0 .. n, s <= t,
         NEW m, \A q \in (s + 1) .. (t - 1) : w[q] <= m
  PROVE  Way(l, w[s], w[t], t - s, m)
  <1> DEFINE v == [q \in 0 .. (t - s) |-> w[q + s]]
  <1>1. t - s \in Nat /\ (t - s) + s = t /\ 0 + s = s
    OBVIOUS
  <1>2. v \in [0 .. (t - s) -> Switches] /\ v[0] = w[s] /\ v[t - s] = w[t]
    BY <1>1 DEF Walk
  <1>3. ASSUME NEW q \in 1 .. (t - s)
        PROVE  PortsTo(l, v[q - 1], v[q]) # {}
    <2>1. q + s \in 1 .. n /\ (q + s) - 1 = (q - 1) + s /\ q - 1 \in 0 .. (t - s)
      OBVIOUS
    <2>2. v[q] = w[q + s] /\ v[q - 1] = w[(q + s) - 1]
      BY <2>1
    <2>3. QED
      BY <2>1, <2>2 DEF Walk
  <1>4. ASSUME NEW q \in 1 .. ((t - s) - 1) PROVE v[q] <= m
    <2>1. q + s \in (s + 1) .. (t - 1) /\ q \in 0 .. (t - s)
      OBVIOUS
    <2>2. QED
      BY <2>1
  <1> HIDE DEF v
  <1>5. Walk(l, v, t - s)
    BY <1>2, <1>3 DEF Walk
  <1>6. QED
    BY <1>2, <1>4, <1>5 DEF Way

LEMMA TwoWays ==
  ASSUME NEW l, NEW a, NEW b, NEW c, NEW s \in Nat, NEW t \in Nat,
         Way(l, a, c, s, N), Way(l, c, b, t, N)
  PROVE  Way(l, a, b, s + t, N)
  <1>1. PICK w : Walk(l, w, s) /\ w[0] = a /\ w[s] = c
    BY DEF Way
  <1>2. PICK u : Walk(l, u, t) /\ u[0] = c /\ u[t] = b
    BY DEF Way
  <1> DEFINE v == [q \in 0 .. (s + t) |-> IF q <= s THEN w[q] ELSE u[q - s]]
  <1>3. /\ v \in [0 .. (s + t) -> Switches]
        /\ \A q \in 0 .. s : v[q] = w[q]
        /\ \A q \in (s + 1) .. (s + t) : v[q] = u[q - s]
    BY <1>1, <1>2 DEF Walk
  <1>4. v[0] = a /\ v[s] = u[0] /\ v[s + t] = b
    <2>1. CASE t = 0
      BY <1>1, <1>2, <1>3, <2>1
    <2>2. CASE t # 0
      <3>1. s + t \in (s + 1) .. (s + t) /\ (s + t) - s = t
        BY <2>2
      <3>2. QED
        BY <1>1, <1>2, <1>3, <3>1
    <2>3. QED
      BY <2>1, <2>2
  <1> HIDE DEF v
  <1>5. ASSUME NEW q \in 1 .. (s + t) PROVE PortsTo(l, v[q - 1], v[q]) # {}
    <2>1. CASE q <= s
      <3>1. q \in 1 .. s /\ v[q - 1] = w[q - 1] /\ v[q] = w[q]
        BY <1>3, <2>1
      <3>2. QED
        BY <1>1, <3>1 DEF Walk
    <2>2. CASE q = s + 1
      <3>1. q - 1 = s /\ q - s = 1 /\ 1 \in 1 .. t /\ q \in (s + 1) .. (s + t) /\ 1 - 1 = 0
        BY <2>2
      <3>2. v[q - 1] = u[1 - 1] /\ v[q] = u[1]
        BY <1>3, <1>4, <3>1
      <3>3. QED
        BY <1>2, <3>1, <3>2 DEF Walk
    <2>3. CASE q > s + 1
      <3>1. /\ q - s \in 1 .. t /\ (q - 1) - s = (q - s) - 1
            /\ q \in (s + 1) .. (s + t) /\ q - 1 \in (s + 1) .. (s + t)
        BY <2>3
      <3>2. v[q - 1] = u[(q - s) - 1] /\ v[q] = u[q - s]
        BY <1>3, <3>1
      <3>3. QED
        BY <1>2, <3>1, <3>2 DEF Walk
    <2>4. QED
      BY <2>1, <2>2, <2>3
  <1>6. \A q \in 1 .. ((s + t) - 1) : v[q] <= N
    <2>1. \A q \in 1 .. ((s + t) - 1) : q \in 0 .. (s + t)
      OBVIOUS
    <2>2. \A x \in Switches : x <= N
      BY DEF Switches
    <2>3. QED
      BY <1>3, <2>1, <2>2
  <1>7. Walk(l, v, s + t)
    BY <1>3, <1>5 DEF Walk
  <1>8. QED
    BY <1>4, <1>6, <1>7 DEF Way

LEMMA OneLink ==
  ASSUME NEW l, NEW a \in Switches, NEW b \in Switches, PortsTo(l, a, b) # {}
  PROVE  Way(l, a, b, 1, N)
  <1> DEFINE w == [q \in 0 .. 1 |-> IF q = 0 THEN a ELSE b]
  <1>1. w \in [0 .. 1 -> Switches] /\ w[0] = a /\ w[1] = b
    OBVIOUS
  <1> HIDE DEF w
  <1>2. \A q \in 1 .. 1 : q = 1 /\ q - 1 = 0
    OBVIOUS
  <1>3. Walk(l, w, 1)
    BY <1>1, <1>2 DEF Walk
  <1>4. \A q \in 1 .. (1 - 1) : w[q] <= N
    OBVIOUS
  <1>5. QED
    BY <1>1, <1>3, <1>4 DEF Way

LEMMA NoLink ==
  ASSUME NEW l, NEW a \in Switches
  PROVE  Way(l, a, a, 0, N) /\ \A b, m : Way(l, a, b, 0, m) => b = a
  <1> DEFINE w == [q \in 0 .. 0 |-> a]
  <1>1. Walk(l, w, 0) /\ w[0] = a
    BY DEF Walk
  <1>2. \A q \in 1 .. (0 - 1) : w[q] <= N
    OBVIOUS
  <1> HIDE DEF w
  <1>3. QED
    BY <1>1, <1>2 DEF Way

\* A walk that meets no switch twice is shorter than there are switches.
LEMMA ShortWay ==
  ASSUME NEW l, NEW a, NEW b, NEW n \in Nat, Way(l, a, b, n, N)
  PROVE  \E m \in 0 .. (N - 1) : Way(l, a, b, m, N)
  <1> DEFINE S == {m \in Nat : Way(l, a, b, m, N)}
  <1>1. PICK m \in S : \A o \in S : m <= o
    <2>1. S \subseteq Nat /\ n \in S
      OBVIOUS
    <2> HIDE DEF S
    <2>2. QED
      BY <2>1, LeastNatural
  <1>2. PICK w : Walk(l, w, m) /\ w[0] = a /\ w[m] = b
    BY <1>1 DEF Way
  <1>3. \A x \in Switches : x <= N
    BY NAssumption DEF Switches
  <1>4. m < N
    <2> SUFFICES ASSUME ~ (m < N) PROVE FALSE
      OBVIOUS
    <2>1. IsFiniteSet(Switches) /\ Cardinality(Switches) = N
      <3>1. 1 <= N
        BY NAssumption
      <3>2. QED
        BY <3>1, NAssumption, FS_Interval DEF Switches
    <2>2. IsFiniteSet(0 .. m) /\ Cardinality(0 .. m) = m + 1
      BY <1>1, FS_Interval
    <2>3. w \in [0 .. m -> Switches]
      BY <1>2 DEF Walk
    <2>4. PICK x, y \in 0 .. m : x # y /\ w[x] = w[y]
      <3>1. N < Cardinality(0 .. m)
        BY <1>1, <2>2, NAssumption
      <3>2. QED
        BY <2>1, <2>2, <2>3, <3>1, FS_PigeonHole
    <2>5. PICK s, t \in 0 .. m : s < t /\ w[s] = w[t]
      <3>1. x < y \/ y < x
        BY <2>4
      <3>2. QED
        BY <2>4, <3>1
    <2>6. \A q \in 0 .. m : w[q] <= N
      BY <1>3, <2>3
    <2>7. Way(l, w[0], w[s], s - 0, N)
      <3>1. \A q \in (0 + 1) .. (s - 1) : w[q] <= N
        BY <2>6
      <3>2. 0 \in 0 .. m /\ 0 <= s
        BY <1>1
      <3>3. QED
        BY <1>1, <1>2, <3>1, <3>2, PieceOfWalk
    <2>8. Way(l, w[t], w[m], m - t, N)
      <3>1. \A q \in (t + 1) .. (m - 1) : w[q] <= N
        BY <2>6
      <3>2. m \in 0 .. m /\ t <= m
        BY <1>1
      <3>3. QED
        BY <1>1, <1>2, <3>1, <3>2, PieceOfWalk
    <2>9. s - 0 = s /\ s \in Nat /\ m - t \in Nat /\ s + (m - t) < m
      BY <1>1, <2>5
    <2>10. Way(l, a, b, s + (m - t), N)
      BY <1>2, <2>5, <2>7, <2>8, <2>9, TwoWays
    <2>11. s + (m - t) \in S
      BY <2>9, <2>10
    <2>12. QED
      BY <1>1, <2>9, <2>11
  <1>5. m \in 0 .. (N - 1)
    BY <1>1, <1>4, NAssumption
  <1>6. QED
    BY <1>1, <1>5

\* Where a walk w comes to x for the first and for the last time in between
Visits(w, n, x, s, t) ==
  /\ s \in 1 .. (n - 1) /\ t \in 1 .. (n - 1) /\ s <= t
  /\ w[s] = x /\ w[t] = x
  /\ \A q \in 1 .. (s - 1) : w[q] # x
  /\ \A q \in (t + 1) .. (n - 1) : w[q] # x

LEMMA FirstAndLast ==
  ASSUME NEW w, NEW n \in Nat, NEW x, NEW p \in 1 .. (n - 1), w[p] = x
  PROVE  \E s, t : Visits(w, n, x, s, t)
  <1> DEFINE S == {q \in 1 .. (n - 1) : w[q] = x}
             T == {n - q : q \in S}
  <1>1. S \subseteq Nat /\ S # {} /\ S \subseteq 1 .. (n - 1)
    OBVIOUS
  <1>2. T \subseteq Nat /\ T # {}
    <2>1. \A q \in 1 .. (n - 1) : n - q \in Nat
      OBVIOUS
    <2> HIDE DEF S
    <2>2. QED
      BY <1>1, <2>1
  <1>3. PICK s \in S : \A q \in S : s <= q
    <2> HIDE DEF S
    <2>1. QED
      BY <1>1, LeastNatural
  <1>4. PICK r \in T : \A o \in T : r <= o
    <2> HIDE DEF T
    <2>1. QED
      BY <1>2, LeastNatural
  <1>5. PICK t \in S : r = n - t
    OBVIOUS
  <1>6. \A q \in S : q <= t
    <2> SUFFICES ASSUME NEW q \in S PROVE q <= t
      OBVIOUS
    <2>1. n - t <= n - q
      BY <1>4, <1>5
    <2>2. q \in Nat /\ t \in Nat
      OBVIOUS
    <2>3. QED
      BY <2>1, <2>2
  <1>7. \A q \in 1 .. (s - 1) : w[q] # x
    <2> SUFFICES ASSUME NEW q \in 1 .. (s - 1), w[q] = x PROVE FALSE
      OBVIOUS
    <2>1. q \in S
      OBVIOUS
    <2>2. QED
      BY <1>3, <2>1
  <1>8. \A q \in (t + 1) .. (n - 1) : w[q] # x
    <2> SUFFICES ASSUME NEW q \in (t + 1) .. (n - 1), w[q] = x PROVE FALSE
      OBVIOUS
    <2>1. q \in S
      OBVIOUS
    <2>2. QED
      BY <1>6, <2>1
  <1>9. QED
    BY <1>3, <1>6, <1>7, <1>8 DEF Visits

-----------------------------------------------------------------------------
(***************************************************************************)
(* What is known of the distances while the loops run: each is that of a   *)
(* walk, and none is longer than a walk over the switches that the outer   *)
(* loop has been through, those up to Bound(a, b).                         *)
(***************************************************************************)
Bound(a, b) == IF ~Done /\ Visited(a, b) THEN k ELSE k - 1

Sound ==
  \A a, b \in Switches : a # b /\ Finite(a, b) => Way(link, a, b, dist[a][b], N)

Complete ==
  \A a, b \in Switches : \A n \in Nat :
    a # b /\ Way(link, a, b, n, Bound(a, b)) => dist[a][b] <= n

LEMMA FartherBound ==
  ASSUME NEW l, NEW a, NEW b, NEW n \in Nat, NEW m, NEW o,
         m \in Nat, o \in Nat, m <= o, Way(l, a, b, n, m)
  PROVE  Way(l, a, b, n, o)
  <1>1. PICK w : /\ Walk(l, w, n) /\ w[0] = a /\ w[n] = b
                 /\ \A q \in 1 .. (n - 1) : w[q] <= m
    BY DEF Way
  <1>2. ASSUME NEW q \in 1 .. (n - 1) PROVE w[q] <= o
    <2>1. w[q] \in Nat /\ w[q] <= m
      <3>1. q \in 0 .. n
        OBVIOUS
      <3>2. QED
        BY <1>1, <3>1, NAssumption DEF Walk, Switches
    <2>2. QED
      BY <2>1
  <1>3. QED
    BY <1>1, <1>2 DEF Way

LEMMA ResetDistances == ResetState => Sound /\ Complete
  <1> SUFFICES ASSUME ResetState PROVE Sound /\ Complete
    OBVIOUS
  <1>1. \A a, b \in Switches : dist[a][b] = DirectDistance(link, a, b)
    BY DEF ResetState, Distances
  <1>2. ASSUME NEW a \in Switches, NEW b \in Switches, a # b, Finite(a, b)
        PROVE  Way(link, a, b, dist[a][b], N)
    <2>1. PortsTo(link, a, b) # {} /\ dist[a][b] = 1
      BY <1>1, <1>2, InfiniteAssumption DEF DirectDistance, Finite
    <2>2. QED
      BY <2>1, OneLink
  <1>3. ASSUME NEW a \in Switches, NEW b \in Switches, NEW n \in Nat,
               a # b, Way(link, a, b, n, Bound(a, b))
        PROVE  dist[a][b] <= n
    <2>1. Bound(a, b) = 0
      BY NAssumption DEF ResetState, Bound, Visited, Switches
    <2>2. PICK w : /\ Walk(link, w, n) /\ w[0] = a /\ w[n] = b
                   /\ \A q \in 1 .. (n - 1) : w[q] <= 0
      BY <1>3, <2>1 DEF Way
    <2>3. n = 1
      <3>1. n # 0
        BY <1>3, <2>2
      <3>2. ASSUME n > 1 PROVE FALSE
        <4>1. 1 \in 1 .. (n - 1) /\ 1 \in 0 .. n
          BY <3>2
        <4>2. w[1] \in 1 .. N /\ w[1] <= 0
          BY <2>2, <4>1 DEF Walk, Switches
        <4>3. QED
          BY <4>2, NAssumption
      <3>3. QED
        BY <3>1, <3>2
    <2>4. PortsTo(link, a, b) # {}
      <3>1. 1 \in 1 .. 1 /\ 1 - 1 = 0
        OBVIOUS
      <3>2. QED
        BY <2>2, <2>3, <3>1 DEF Walk
    <2>5. dist[a][b] = 1
      BY <1>1, <2>4 DEF DirectDistance
    <2>6. QED
      BY <2>3, <2>5
  <1>4. QED
    BY <1>2, <1>3 DEF Sound, Complete

(***************************************************************************)
(* A walk from i to j over k goes to k and on from there; the ways to and  *)
(* from k have been through no switch after k - 1.                         *)
(***************************************************************************)
LEMMA OverOneMore ==
  ASSUME IInv, Complete, ~Done, i # j, NEW n \in Nat, Way(link, i, j, n, k)
  PROVE  dist[i][j] <= n \/ dist[i][k] + dist[k][j] <= n
  <1>1. k \in Switches /\ i \in Switches /\ j \in Switches /\ k \in Nat /\ k - 1 \in Nat
    BY NAssumption DEF IInv, TypeOK, Done, Switches
  <1>2. \A a, b \in Switches : dist[a][b] \in Nat
    BY InfiniteAssumption DEF IInv, TypeOK
  <1>3. PICK w : /\ Walk(link, w, n) /\ w[0] = i /\ w[n] = j
                 /\ \A q \in 1 .. (n - 1) : w[q] <= k
    BY DEF Way
  <1>4. \A q \in 0 .. n : w[q] \in Nat
    BY <1>3, NAssumption DEF Walk, Switches
  <1>5. ASSUME NEW a \in Switches, NEW b \in Switches, NEW o \in Nat, a # b,
               Way(link, a, b, o, k - 1)
        PROVE  dist[a][b] <= o
    <2>1. Bound(a, b) \in {k - 1, k} /\ k - 1 <= k
      BY <1>1 DEF Bound
    <2>2. Way(link, a, b, o, Bound(a, b))
      BY <1>1, <1>5, <2>1, FartherBound
    <2>3. QED
      BY <1>5, <2>2 DEF Complete
  <1>6. CASE \A q \in 1 .. (n - 1) : w[q] # k
    <2>1. \A q \in 1 .. (n - 1) : w[q] <= k - 1
      <3>1. ASSUME NEW q \in 1 .. (n - 1) PROVE w[q] <= k - 1
        <4>1. q \in 0 .. n
          OBVIOUS
        <4>2. w[q] \in Nat /\ w[q] <= k /\ w[q] # k
          BY <1>3, <1>4, <1>6, <4>1
        <4>3. QED
          BY <1>1, <4>2
      <3>2. QED
        BY <3>1
    <2>2. Way(link, i, j, n, k - 1)
      BY <1>3, <2>1 DEF Way
    <2>3. QED
      BY <1>1, <1>5, <2>2
  <1>7. CASE \E q \in 1 .. (n - 1) : w[q] = k
    <2>1. PICK s, t \in 1 .. (n - 1) :
            /\ s <= t /\ w[s] = k /\ w[t] = k
            /\ \A q \in 1 .. (s - 1) : w[q] # k
            /\ \A q \in (t + 1) .. (n - 1) : w[q] # k
      <3>1. PICK x : x = k
        OBVIOUS
      <3>2. PICK p \in 1 .. (n - 1) : w[p] = x
        BY <1>7, <3>1
      <3>3. PICK s, t : Visits(w, n, x, s, t)
        BY <3>2, FirstAndLast
      <3>4. QED
        BY <3>1, <3>3 DEF Visits
    <2>2. Way(link, i, k, s - 0, k - 1)
      <3>1. ASSUME NEW q \in (0 + 1) .. (s - 1) PROVE w[q] <= k - 1
        <4>1. q \in 1 .. (n - 1) /\ q \in 0 .. n /\ q \in 1 .. (s - 1)
          OBVIOUS
        <4>2. w[q] \in Nat /\ w[q] <= k /\ w[q] # k
          BY <1>3, <1>4, <2>1, <4>1
        <4>3. QED
          BY <1>1, <4>2
      <3>2. 0 \in 0 .. n /\ s \in 0 .. n /\ 0 <= s
        OBVIOUS
      <3>3. Way(link, w[0], w[s], s - 0, k - 1)
        BY <1>3, <3>1, <3>2, PieceOfWalk
      <3>4. QED
        BY <1>3, <2>1, <3>3
    <2>3. Way(link, k, j, n - t, k - 1)
      <3>1. ASSUME NEW q \in (t + 1) .. (n - 1) PROVE w[q] <= k - 1
        <4>1. q \in 1 .. (n - 1) /\ q \in 0 .. n
          OBVIOUS
        <4>2. w[q] \in Nat /\ w[q] <= k /\ w[q] # k
          BY <1>3, <1>4, <2>1, <4>1
        <4>3. QED
          BY <1>1, <4>2
      <3>2. n \in 0 .. n /\ t \in 0 .. n /\ t <= n
        OBVIOUS
      <3>3. Way(link, w[t], w[n], n - t, k - 1)
        BY <1>3, <3>1, <3>2, PieceOfWalk
      <3>4. QED
        BY <1>3, <2>1, <3>3
    <2>4. s - 0 = s /\ s \in Nat /\ n - t \in Nat /\ s + (n - t) <= n /\ s <= n /\ n - t <= n
      BY <2>1
    <2>5. /\ i # k => dist[i][k] <= s
          /\ k # j => dist[k][j] <= n - t
      BY <1>1, <1>5, <2>2, <2>3, <2>4
    <2>6. dist[i][k] \in Nat /\ dist[k][j] \in Nat /\ dist[i][j] \in Nat
      BY <1>1, <1>2
    <2>7. QED
      BY <2>4, <2>5, <2>6
  <1>8. QED
    BY <1>6, <1>7

\* One iteration takes k into the bound of the pair <<i, j>>.
LEMMA BoundMoves ==
  ASSUME TypeOK, ~Done, Advance
  PROVE  \A a, b \in Switches :
           Bound(a, b)' = IF a = i /\ b = j THEN k ELSE Bound(a, b)
  <1>1. k \in Nat /\ (k + 1) - 1 = k
    BY NAssumption DEF TypeOK
  <1>2. ASSUME NEW a \in Switches, NEW b \in Switches
        PROVE  Bound(a, b)' = IF a = i /\ b = j THEN k ELSE Bound(a, b)
    <2>1. CASE k' = k /\ ~Done' /\ (Visited(a, b)' <=> Visited(a, b) \/ (a = i /\ b = j))
      BY <2>1 DEF Bound
    <2>2. CASE k' = k + 1 /\ ~Visited(a, b)' /\ (Visited(a, b) \/ (a = i /\ b = j))
      BY <1>1, <2>2 DEF Bound
    <2>3. QED
      BY <2>1, <2>2, AdvanceCorrect
  <1>3. QED
    BY <1>2

LEMMA KeepDistances ==
  ASSUME IInv, Sound, Complete, Keep
  PROVE  (Sound /\ Complete)'
  <1>1. ~Done /\ ~Shorter /\ Advance /\ UNCHANGED <<link, dist, next>> /\ TypeOK
    BY DEF Keep, IInv
  <1>2. Sound'
    BY <1>1 DEF Sound, Finite
  <1>3. ASSUME NEW a \in Switches, NEW b \in Switches, NEW n \in Nat, a # b,
               Way(link, a, b, n, Bound(a, b)')
        PROVE  dist[a][b] <= n
    <2>1. CASE a = i /\ b = j
      <3>1. Way(link, i, j, n, k)
        BY <1>1, <1>3, <2>1, BoundMoves
      <3>2. dist[i][j] <= n \/ dist[i][k] + dist[k][j] <= n
        BY <1>1, <1>3, <2>1, <3>1, OverOneMore
      <3>3. /\ dist[i][j] \in Nat /\ dist[i][k] \in Nat /\ dist[k][j] \in Nat
            /\ dist[i][j] <= dist[i][k] + dist[k][j]
        <4>1. k \in Switches /\ i \in Switches /\ j \in Switches
          BY <1>1, NAssumption DEF TypeOK, Done, Switches
        <4>2. \A x, y \in Switches : dist[x][y] \in Nat
          BY <1>1, InfiniteAssumption DEF TypeOK
        <4>3. dist[i][j] \in Nat /\ dist[i][k] \in Nat /\ dist[k][j] \in Nat
          BY <4>1, <4>2
        <4>4. QED
          BY <1>1, <4>3 DEF Shorter
      <3>4. QED
        BY <2>1, <3>2, <3>3
    <2>2. CASE ~(a = i /\ b = j)
      <3>1. Way(link, a, b, n, Bound(a, b))
        BY <1>1, <1>3, <2>2, BoundMoves
      <3>2. QED
        BY <1>3, <3>1 DEF Complete
    <2>3. QED
      BY <2>1, <2>2
  <1>4. Complete'
    BY <1>1, <1>3 DEF Complete
  <1>5. QED
    BY <1>2, <1>4

LEMMA RelaxDistances ==
  ASSUME IInv, Sound, Complete, Relax
  PROVE  (Sound /\ Complete)'
  <1> DEFINE sum == dist[i][k] + dist[k][j]
  <1>1. /\ ~Done /\ Shorter /\ Advance /\ link' = link /\ TypeOK
        /\ dist' = [dist EXCEPT ![i][j] = sum]
    BY DEF Relax, IInv
  <1>2. k \in Switches /\ i \in Switches /\ j \in Switches
    BY <1>1, NAssumption DEF TypeOK, Done, Switches
  <1>3. \A a, b \in Switches : dist[a][b] \in Nat
    BY <1>1, InfiniteAssumption DEF TypeOK
  <1>4. i # j /\ i # k /\ j # k /\ Finite(i, k) /\ Finite(k, j)
    BY <1>1, ShorterCorrect
  <1>5. \A a, b \in Switches :
          dist'[a][b] = IF a = i /\ b = j THEN sum ELSE dist[a][b]
    BY <1>1, <1>2 DEF TypeOK
  <1>6. sum < dist[i][j] /\ sum \in Nat
    BY <1>1, <1>2, <1>3 DEF Shorter
  <1>7. Way(link, i, j, sum, N)
    <2>1. Way(link, i, k, dist[i][k], N) /\ Way(link, k, j, dist[k][j], N)
      BY <1>2, <1>4 DEF Sound
    <2>2. dist[i][k] \in Nat /\ dist[k][j] \in Nat
      BY <1>2, <1>3
    <2>3. QED
      BY <2>1, <2>2, TwoWays
  <1> HIDE DEF sum
  <1>8. Sound'
    <2>1. ASSUME NEW a \in Switches, NEW b \in Switches, a # b, dist'[a][b] < Infinite
          PROVE  Way(link, a, b, dist'[a][b], N)
      BY <1>5, <1>7, <2>1 DEF Sound, Finite
    <2>2. QED
      BY <1>1, <2>1 DEF Sound, Finite
  <1>9. ASSUME NEW a \in Switches, NEW b \in Switches, NEW n \in Nat, a # b,
               Way(link, a, b, n, Bound(a, b)')
        PROVE  dist'[a][b] <= n
    <2>1. CASE a = i /\ b = j
      <3>1. Way(link, i, j, n, k)
        BY <1>1, <1>9, <2>1, BoundMoves
      <3>2. dist[i][j] <= n \/ sum <= n
        BY <1>1, <1>9, <2>1, <3>1, OverOneMore DEF sum
      <3>3. dist'[a][b] = sum /\ dist[i][j] \in Nat
        BY <1>2, <1>3, <1>5, <2>1
      <3>4. QED
        BY <1>6, <3>2, <3>3
    <2>2. CASE ~(a = i /\ b = j)
      <3>1. Way(link, a, b, n, Bound(a, b))
        BY <1>1, <1>9, <2>2, BoundMoves
      <3>2. dist'[a][b] = dist[a][b]
        BY <1>5, <2>2
      <3>3. QED
        BY <1>9, <3>1, <3>2 DEF Complete
    <2>3. QED
      BY <2>1, <2>2
  <1>10. Complete'
    BY <1>1, <1>9 DEF Complete
  <1>11. QED
    BY <1>8, <1>10

LEMMA DistancesHold == Spec => [](IInv /\ Sound /\ Complete)
  <1>1. Init => Sound /\ Complete
    <2> SUFFICES ASSUME Init PROVE Sound /\ Complete
      OBVIOUS
    <2>1. link \in Links
      BY LeadsAssumption DEF Init, Links, Cablings
    <2>2. QED
      BY <2>1, ResetDistances DEF Init, ResetState
  <1>2. IInv /\ Sound /\ Complete /\ [Next]_vars => (Sound /\ Complete)'
    <2> SUFFICES ASSUME IInv, Sound, Complete, [Next]_vars PROVE (Sound /\ Complete)'
      OBVIOUS
    <2>1. CASE Relax
      BY <2>1, RelaxDistances
    <2>2. CASE Keep
      BY <2>2, KeepDistances
    <2>3. CASE Recalculate
      <3>1. ResetState'
        BY <2>3, RecalculateResets
      <3>2. QED
        BY <3>1, ResetDistances, PTL
    <2>4. CASE UNCHANGED vars
      BY <2>4 DEF vars, Sound, Complete, Finite, Bound, Visited, Done
    <2>5. QED
      BY <2>1, <2>2, <2>3, <2>4 DEF Next
  <1>3. QED
    BY <1>1, <1>2, IInvHolds, PTL DEF Spec

-----------------------------------------------------------------------------
(***************************************************************************)
(* When the loops are done.                                                *)
(***************************************************************************)
LEMMA DoneDistances ==
  ASSUME IInv, Sound, Complete, Done, NEW a \in Switches, NEW b \in Switches, a # b
  PROVE  /\ dist[a][b] \in 0 .. Infinite
         /\ Finite(a, b) => Way(link, a, b, dist[a][b], N) /\ dist[a][b] < N
         /\ \A n \in Nat : Way(link, a, b, n, N) => dist[a][b] <= n
  <1>1. dist[a][b] \in 0 .. Infinite
    BY DEF IInv, TypeOK
  <1>2. Bound(a, b) = N
    BY NAssumption DEF Bound, Done
  <1>3. \A n \in Nat : Way(link, a, b, n, N) => dist[a][b] <= n
    BY <1>2 DEF Complete
  <1>4. ASSUME Finite(a, b) PROVE Way(link, a, b, dist[a][b], N) /\ dist[a][b] < N
    <2>1. Way(link, a, b, dist[a][b], N)
      BY <1>4 DEF Sound
    <2>2. PICK m \in 0 .. (N - 1) : Way(link, a, b, m, N)
      BY <1>1, <2>1, InfiniteAssumption, ShortWay
    <2>3. m \in Nat /\ m < N
      BY NAssumption
    <2>4. dist[a][b] <= m
      BY <1>3, <2>2, <2>3
    <2>5. QED
      BY <1>1, <2>1, <2>3, <2>4, NAssumption, InfiniteAssumption
  <1>5. QED
    BY <1>1, <1>3, <1>4

\* The reference definition: the sets f of switches up to m links from a
Around(f, a, m) ==
  f = [n \in 0 .. m |->
         IF n = 0 THEN {a} ELSE f[n - 1] \cup UNION {Neighbours(c) : c \in f[n - 1]}]

LEMMA AroundExists ==
  ASSUME NEW a, NEW m \in Nat
  PROVE  \E f : Around(f, a, m)
  <1> DEFINE S == {n \in Nat : ~ \E f : Around(f, a, n)}
  <1> SUFFICES ASSUME S # {} PROVE FALSE
    OBVIOUS
  <1>1. PICK n \in S : \A o \in S : n <= o
    <2>1. S \subseteq Nat
      OBVIOUS
    <2> HIDE DEF S
    <2>2. QED
      BY <2>1, LeastNatural
  <1>2. CASE n = 0
    <2> DEFINE f == [o \in 0 .. 0 |-> {a}]
    <2>1. Around(f, a, 0)
      BY DEF Around
    <2>2. QED
      BY <1>2, <2>1
  <1>3. CASE n # 0
    <2>1. n - 1 \in Nat /\ n - 1 \notin S
      BY <1>1, <1>3
    <2>2. PICK f : Around(f, a, n - 1)
      BY <2>1
    <2> DEFINE Grown(s) == s \cup UNION {Neighbours(c) : c \in s}
               g == [o \in 0 .. n |-> IF o = n THEN Grown(f[n - 1]) ELSE f[o]]
    <2>3. ASSUME NEW o \in 0 .. n PROVE g[o] = IF o = 0 THEN {a} ELSE Grown(g[o - 1])
      <3>1. CASE o = n
        <4>1. o # 0 /\ o - 1 \in 0 .. n /\ o - 1 # n
          BY <1>3, <3>1
        <4> HIDE DEF Grown
        <4>2. QED
          BY <3>1, <4>1
      <3>2. CASE o # n
        <4>1. o \in 0 .. (n - 1) /\ (o # 0 => o - 1 \in 0 .. n /\ o - 1 # n)
          BY <3>2
        <4>2. f[o] = IF o = 0 THEN {a} ELSE Grown(f[o - 1])
          BY <2>2, <4>1 DEF Around
        <4> HIDE DEF Grown
        <4>3. QED
          BY <3>2, <4>1, <4>2
      <3>3. QED
        BY <3>1, <3>2
    <2>4. g = [o \in 0 .. n |-> g[o]]
      OBVIOUS
    <2> HIDE DEF g
    <2>5. Around(g, a, n)
      BY <2>3, <2>4 DEF Around
    <2>6. QED
      BY <1>1, <2>5
  <1>4. QED
    BY <1>2, <1>3

LEMMA AroundIsWays ==
  ASSUME NEW a \in Switches, NEW f, Around(f, a, N)
  PROVE  \A n \in 0 .. N :
           /\ f[n] \subseteq Switches
           /\ \A b \in Switches : b \in f[n] <=> \E m \in 0 .. n : Way(link, a, b, m, N)
  <1> DEFINE Right(n) ==
               /\ f[n] \subseteq Switches
               /\ \A b \in Switches : b \in f[n] <=> \E m \in 0 .. n : Way(link, a, b, m, N)
             S == {n \in 0 .. N : ~ Right(n)}
  <1> SUFFICES ASSUME S # {} PROVE FALSE
    OBVIOUS
  <1>1. PICK n \in S : \A o \in S : n <= o
    <2>1. S \subseteq Nat
      OBVIOUS
    <2> HIDE DEF S
    <2>2. QED
      BY <2>1, LeastNatural
  <1>2. n \in 0 .. N /\ ~ Right(n)
    OBVIOUS
  <1>3. \A o \in 0 .. N :
          f[o] = IF o = 0 THEN {a} ELSE f[o - 1] \cup UNION {Neighbours(c) : c \in f[o - 1]}
    BY DEF Around
  <1>4. CASE n = 0
    <2>1. f[0] = {a}
      BY <1>2, <1>3, <1>4
    <2>2. \A m \in 0 .. 0 : m = 0
      OBVIOUS
    <2>3. Right(0)
      BY <2>1, <2>2, NoLink
    <2>4. QED
      BY <1>2, <1>4, <2>3
  <1>5. CASE n # 0
    <2>1. n - 1 \in 0 .. N /\ n - 1 \notin S /\ n \in Nat /\ n - 1 \in Nat
      BY <1>1, <1>5, NAssumption
    <2>2. Right(n - 1)
      BY <2>1
    <2>3. f[n] = f[n - 1] \cup UNION {Neighbours(c) : c \in f[n - 1]}
      BY <1>2, <1>3, <1>5
    <2>4. f[n] \subseteq Switches
      BY <2>2, <2>3 DEF Neighbours
    <2>5. ASSUME NEW b \in Switches, b \in f[n]
          PROVE  \E m \in 0 .. n : Way(link, a, b, m, N)
      <3>1. CASE b \in f[n - 1]
        <4>1. PICK m \in 0 .. (n - 1) : Way(link, a, b, m, N)
          BY <2>2, <3>1
        <4>2. m \in 0 .. n
          BY <2>1
        <4>3. QED
          BY <4>1, <4>2
      <3>2. CASE b \notin f[n - 1]
        <4>1. PICK c \in f[n - 1] : b \in Neighbours(c)
          BY <2>3, <2>5, <3>2
        <4>2. c \in Switches
          BY <2>2
        <4>3. PICK m \in 0 .. (n - 1) : Way(link, a, c, m, N)
          BY <2>2, <4>2
        <4>4. Way(link, c, b, 1, N)
          BY <4>1, <4>2, OneLink DEF Neighbours
        <4>5. Way(link, a, b, m + 1, N)
          BY <4>3, <4>4, TwoWays
        <4>6. m + 1 \in 0 .. n
          BY <2>1
        <4>7. QED
          BY <4>5, <4>6
      <3>3. QED
        BY <3>1, <3>2
    <2>6. ASSUME NEW b \in Switches, NEW m \in 0 .. n, Way(link, a, b, m, N)
          PROVE  b \in f[n]
      <3>1. CASE m <= n - 1
        <4>1. m \in 0 .. (n - 1)
          BY <2>1, <3>1
        <4>2. QED
          BY <2>2, <2>3, <2>6, <4>1
      <3>2. CASE ~ (m <= n - 1)
        <4>1. m = n
          BY <2>1, <3>2
        <4>2. PICK w : /\ Walk(link, w, n) /\ w[0] = a /\ w[n] = b
          BY <2>6, <4>1 DEF Way
        <4>3. \A q \in 0 .. n : w[q] \in Switches
          BY <4>2 DEF Walk
        <4>4. 0 \in 0 .. n /\ n - 1 \in 0 .. n /\ 0 <= n - 1 /\ (n - 1) - 0 = n - 1 /\ n \in 1 .. n
          BY <2>1
        <4>5. \A q \in (0 + 1) .. ((n - 1) - 1) : w[q] <= N
          BY <4>3 DEF Switches
        <4>6. Way(link, w[0], w[n - 1], (n - 1) - 0, N)
          BY <2>1, <4>2, <4>4, <4>5, PieceOfWalk
        <4>7. Way(link, a, w[n - 1], n - 1, N)
          BY <4>2, <4>4, <4>6
        <4>8. w[n - 1] \in f[n - 1]
          <5>1. n - 1 \in 0 .. (n - 1)
            BY <2>1
          <5>2. QED
            BY <2>2, <4>3, <4>4, <4>7, <5>1
        <4>9. b \in Neighbours(w[n - 1])
          BY <2>6, <4>2, <4>4 DEF Walk, Neighbours
        <4>10. QED
          BY <2>3, <4>8, <4>9
      <3>3. QED
        BY <3>1, <3>2
    <2>7. Right(n)
      BY <2>4, <2>5, <2>6
    <2>8. QED
      BY <1>2, <2>7
  <1>6. QED
    BY <1>4, <1>5

\* While every link has both ends, a walk can be walked back.
LEMMA WayBack ==
  ASSUME BothEnds, NEW a, NEW b, NEW n \in Nat, Way(link, a, b, n, N)
  PROVE  Way(link, b, a, n, N)
  <1>1. PICK w : Walk(link, w, n) /\ w[0] = a /\ w[n] = b
    BY DEF Way
  <1> DEFINE v == [q \in 0 .. n |-> w[n - q]]
  <1>2. v \in [0 .. n -> Switches] /\ v[0] = b /\ v[n] = a
    <2>1. n - 0 = n /\ n - n = 0 /\ 0 \in 0 .. n /\ n \in 0 .. n
          /\ \A q \in 0 .. n : n - q \in 0 .. n
      OBVIOUS
    <2>2. QED
      BY <1>1, <2>1 DEF Walk
  <1>3. ASSUME NEW q \in 1 .. n PROVE PortsTo(link, v[q - 1], v[q]) # {}
    <2>1. /\ n - q \in 0 .. n /\ (n - q) + 1 \in 1 .. n /\ n - (q - 1) = (n - q) + 1
          /\ ((n - q) + 1) - 1 = n - q /\ q \in 0 .. n /\ q - 1 \in 0 .. n /\ (n - q) + 1 \in 0 .. n
      OBVIOUS
    <2>2. v[q - 1] = w[(n - q) + 1] /\ v[q] = w[n - q]
      BY <2>1
    <2>3. PortsTo(link, w[n - q], w[(n - q) + 1]) # {}
      BY <1>1, <2>1 DEF Walk
    <2>4. w[n - q] \in Switches /\ w[(n - q) + 1] \in Switches
      BY <1>1, <2>1 DEF Walk
    <2>5. QED
      BY <2>2, <2>3, <2>4 DEF BothEnds, Neighbours
  <1>4. \A q \in 1 .. (n - 1) : v[q] <= N
    <2>1. \A q \in 1 .. (n - 1) : q \in 0 .. n
      OBVIOUS
    <2>2. \A x \in Switches : x <= N
      BY NAssumption DEF Switches
    <2>3. QED
      BY <1>2, <2>1, <2>2
  <1> HIDE DEF v
  <1>5. QED
    BY <1>2, <1>3, <1>4 DEF Way, Walk

\* Every path is shorter than "infinite": topology::infinite is 10000, and a
\* VLAN tag can tell at most 128 switches apart
InfiniteIsFar == N <= Infinite

(***************************************************************************)
(* The three loops compute the lengths of the shortest paths, whatever     *)
(* links have one end only, for any number of switches below infinite.     *)
(***************************************************************************)
THEOREM DistancesShortest == ASSUME InfiniteIsFar PROVE Spec => []DistancesAreShortest
  <1>1. ASSUME IInv, Sound, Complete PROVE DistancesAreShortest
    <2> SUFFICES ASSUME Done, NEW a \in Switches, NEW b \in Switches, a # b
                 PROVE  dist[a][b] = ShortestPath(a, b)
      BY DEF DistancesAreShortest
    <2> DEFINE within  == CHOOSE f : Around(f, a, N)
               lengths == {n \in 0 .. N : b \in within[n]}
    <2>1. ShortestPath(a, b) =
            IF lengths = {} THEN Infinite
            ELSE CHOOSE n \in lengths : \A m \in lengths : n <= m
      BY DEF ShortestPath, Around
    <2>2. Around(within, a, N)
      BY AroundExists, NAssumption
    <2> HIDE DEF within
    <2>3. \A n \in 0 .. N : n \in lengths <=> \E m \in 0 .. n : Way(link, a, b, m, N)
      BY <2>2, AroundIsWays
    <2>4. /\ dist[a][b] \in 0 .. Infinite
          /\ Finite(a, b) => Way(link, a, b, dist[a][b], N) /\ dist[a][b] < N
          /\ \A n \in Nat : Way(link, a, b, n, N) => dist[a][b] <= n
      BY <1>1, DoneDistances
    <2>5. lengths \subseteq 0 .. N /\ lengths \subseteq Nat
      OBVIOUS
    <2> HIDE DEF lengths
    <2>6. Finite(a, b) => dist[a][b] \in lengths
      <3> SUFFICES ASSUME Finite(a, b) PROVE dist[a][b] \in lengths
        OBVIOUS
      <3>1. dist[a][b] \in 0 .. N /\ dist[a][b] \in 0 .. dist[a][b]
        BY <2>4, NAssumption, InfiniteAssumption
      <3>2. QED
        BY <2>3, <2>4, <3>1
    <2>7. CASE lengths = {}
      <3>1. dist[a][b] = Infinite
        BY <2>4, <2>6, <2>7, InfiniteAssumption DEF Finite
      <3>2. QED
        BY <2>1, <2>7, <3>1
    <2>8. CASE lengths # {}
      <3>1. PICK o : o = CHOOSE n \in lengths : \A m \in lengths : n <= m
        OBVIOUS
      <3>2. o \in lengths /\ \A m \in lengths : o <= m
        <4>1. \E l \in lengths : \A m \in lengths : l <= m
          BY <2>5, <2>8, LeastNatural
        <4>2. QED
          BY <3>1, <4>1
      <3>3. PICK m \in 0 .. o : Way(link, a, b, m, N)
        BY <2>3, <2>5, <3>2
      <3>4. o \in 0 .. N /\ m \in Nat /\ m <= o /\ dist[a][b] <= m
        BY <2>4, <2>5, <3>2, <3>3, NAssumption
      <3>5. dist[a][b] = o
        <4>1. CASE Finite(a, b)
          BY <2>4, <2>6, <3>2, <3>4, <4>1, NAssumption, InfiniteAssumption
        <4>2. CASE ~Finite(a, b)
          BY <2>4, <3>4, <4>2, NAssumption, InfiniteAssumption DEF Finite, InfiniteIsFar
        <4>3. QED
          BY <4>1, <4>2
      <3>6. QED
        BY <2>1, <2>8, <3>1, <3>5
    <2>9. QED
      BY <2>7, <2>8
  <1>2. QED
    BY <1>1, DistancesHold, PTL

(***************************************************************************)
(* One test of check_online covers all routes that update_dynamic_rules    *)
(* takes, while every link has both its ends: what one switch reaches,     *)
(* each of them reaches.                                                   *)
(***************************************************************************)
THEOREM OneTestCoversAll == ASSUME InfiniteIsFar PROVE Spec => []OneTestSuffices
  <1>1. ASSUME IInv, Sound, Complete PROVE OneTestSuffices
    <2> SUFFICES ASSUME Done, BothEnds,
                        NEW a \in Switches, NEW b \in Switches, NEW c \in Switches,
                        Finite(a, b), Finite(a, c), b # c
                 PROVE  next[b][c] # None
      BY DEF OneTestSuffices
    <2>1. ASSUME NEW x \in Switches, Finite(a, x)
          PROVE  \E n \in Nat : Way(link, a, x, n, N)
      <3>1. CASE a = x
        BY <3>1, NoLink
      <3>2. CASE a # x
        <4>1. dist[a][x] \in Nat /\ Way(link, a, x, dist[a][x], N)
          BY <1>1, <2>1, <3>2, DoneDistances, InfiniteAssumption
        <4>2. QED
          BY <4>1
      <3>3. QED
        BY <3>1, <3>2
    <2>2. PICK s \in Nat : Way(link, a, b, s, N)
      BY <2>1
    <2>3. PICK t \in Nat : Way(link, a, c, t, N)
      BY <2>1
    <2>4. Way(link, b, c, s + t, N) /\ s + t \in Nat
      BY <2>2, <2>3, WayBack, TwoWays
    <2>5. PICK m \in 0 .. (N - 1) : Way(link, b, c, m, N)
      BY <2>4, ShortWay
    <2>6. m \in Nat /\ m < N
      BY NAssumption
    <2>7. dist[b][c] <= m /\ dist[b][c] \in 0 .. Infinite
      BY <1>1, <2>5, <2>6, DoneDistances
    <2>8. Finite(b, c)
      BY <2>6, <2>7, NAssumption, InfiniteAssumption DEF Finite, InfiniteIsFar
    <2>9. QED
      BY <1>1, <2>8 DEF IInv, NextIffFinite
  <1>2. QED
    BY <1>1, DistancesHold, PTL
=============================================================================
