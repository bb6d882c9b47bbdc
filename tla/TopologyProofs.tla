--------------------------- MODULE TopologyProofs ---------------------------
(***************************************************************************)
(* What Topology promises, for every network: a discovered link is held    *)
(* by the ports it joins and by nothing else, its timer runs while a port  *)
(* holds it, and the ports of a switch are in step with what the switch    *)
(* sent.  None of the three follows from the types alone: the invariant    *)
(* also says which port a link can be held by, what the messages that wait *)
(* can be about, which ports are known once they are handled, and that no  *)
(* port of a switch is known while completions of its last connection      *)
(* wait.                                                                   *)
(***************************************************************************)
EXTENDS Topology, TLAPS

-----------------------------------------------------------------------------
\* Links

\* A port holds a link that exists, that has this port as the end on its
\* switch, and that is timed
Held(lk, ls) ==
  \A e \in Ends :
    lk[e] # NoLink =>
      /\ lk[e] \in DOMAIN ls
      /\ PortAt(ls[lk[e]], SwitchOf[e]) = e
      /\ ls[lk[e]].armed \/ ls[lk[e]].fired

Linked(lk, ls) ==
  /\ lk \in [Ends -> LinkIds \cup {NoLink}]
  /\ DOMAIN ls \subseteq LinkIds
  /\ \A l \in DOMAIN ls : ls[l] \in DiscoveredLink
  /\ Held(lk, ls)

\* Only its timer tells link d from link c
SameLink(d, c) == d.one = c.one /\ d.other = c.other /\ d.late = c.late

\* A link joins the ends of a cable
OverCables(ls) == \A l \in DOMAIN ls : {ls[l].one, ls[l].other} \in Cables

-----------------------------------------------------------------------------
\* Messages

Adds(m, e) ==
  \/ m.kind = "port_desc" /\ e \in m.ports
  \/ m.kind = "port_added" /\ e = m.port

Deletes(m, e) == m.kind = "port_deleted" /\ e = m.port

\* Port e is known after the first k messages of q, if P are known before
KnownAfter(q, P, e, k) ==
  \/ e \in P /\ \A j \in 1 .. k : ~Deletes(q[j], e)
  \/ \E i \in 1 .. k : /\ Adds(q[i], e)
                       /\ \A j \in i + 1 .. k : ~Deletes(q[j], e)

\* What switch s sends is about its own ports, and about its cables
About(m, s) ==
  /\ m.kind = "port_desc" => m.ports \subseteq PortsOf(s)
  /\ m.kind # "port_desc" => m.port \in PortsOf(s)
  /\ m.kind = "packet_in" => {m.port, m.from} \in Cables

FromSwitches ==
  \A s \in Switches : \A i \in 1 .. Len(inbox[s]) :
    s \in up /\ About(inbox[s][i], s)

\* A switch that described its ports: those it has will be known once its
\* messages are handled, and so will the port of a packet when it is handled,
\* unless the packet is ahead of the description
InStep(s) ==
  /\ \A e \in PortsOf(s) \cap present :
       KnownAfter(inbox[s], ports, e, Len(inbox[s]))
  /\ \A i \in 1 .. Len(inbox[s]) :
       /\ inbox[s][i].kind = "packet_in"
       /\ \A j \in i + 1 .. Len(inbox[s]) : inbox[s][j].kind # "port_desc"
       => KnownAfter(inbox[s], ports, inbox[s][i].port, i - 1)

\* A packet that switch s received before it stopped
LatePacket(c, s) ==
  c.kind = "packet_in" =>
    /\ c.port \in PortsOf(s)
    /\ {c.port, c.from} \in Cables
    /\ c.described => c.known

\* While a completion of a switch that stopped waits, the connection that
\* follows, if there is one, has no ports yet: what the old one finds is no
\* news of a port that somebody looks at
LateCompletions ==
  \A s \in Switches :
    late[s] # NoCompletion =>
      /\ PortsOf(s) \cap ports = {}
      /\ LatePacket(late[s], s)

\* The inductive invariant
IInv ==
  /\ TypeOK
  /\ Held(link, links)
  /\ OverCables(links)
  /\ BothEnds
  /\ FromSwitches
  /\ \A s \in reported : InStep(s)
  /\ LateCompletions
-----------------------------------------------------------------------------
\* Links are stored at their own ends, and removed from both

LEMMA EndsOfLink ==
  ASSUME TopologyAssumption, NEW d \in DiscoveredLink, NEW e \in Ends,
         PortAt(d, SwitchOf[e]) = e
  PROVE  /\ e \in {d.one, d.other}
         /\ SwitchOf[e] \in {SwitchOf[d.one], SwitchOf[d.other]}
BY DEF PortAt, DiscoveredLink

LEMMA ResetCovers ==
  ASSUME TypeOK, Held(link, links), NEW e \in Ends, link[e] # NoLink
  PROVE  e \in ResetPorts(links[link[e]])
<1> DEFINE d == links[link[e]]
<1>1. d \in DiscoveredLink /\ e \in ports /\ SwitchOf[e] \in up
  BY DEF TypeOK
<1>2. PortAt(d, SwitchOf[e]) = e
  BY DEF Held
<1>3. SwitchOf[e] \in {SwitchOf[d.one], SwitchOf[d.other]}
  BY <1>1, <1>2, EndsOfLink, TopologyAssumption
<1> HIDE DEF d
<1>4. e \in ResetPorts(d)
  BY <1>1, <1>2, <1>3 DEF ResetPorts
<1> QED
  BY <1>4 DEF d

LEMMA ResetPortsAreEnds ==
  ASSUME NEW d
  PROVE  ResetPorts(d) \subseteq {d.one, d.other} \cap ports
BY DEF ResetPorts, PortAt

LEMMA StoreEffect ==
  ASSUME NEW lk, NEW ls, Linked(lk, ls), Store(lk, ls)
  PROVE  /\ Linked(link', links') /\ link' = lk
         /\ DOMAIN links' \subseteq DOMAIN ls
         /\ \A l \in DOMAIN links' : links'[l] = ls[l]
<1> DEFINE alive == {l \in DOMAIN ls : \/ ls[l].armed \/ ls[l].fired
                                       \/ \E e \in Ends : lk[e] = l}
           kept == [l \in alive |-> ls[l]]
<1>1. link' = lk /\ links' = kept
  BY DEF Store
<1>2. /\ DOMAIN kept \subseteq DOMAIN ls
      /\ \A l \in DOMAIN kept : kept[l] = ls[l]
      /\ \A e \in Ends : lk[e] \in DOMAIN ls => lk[e] \in DOMAIN kept
  OBVIOUS
<1> HIDE DEF kept
<1>3. Held(lk, kept)
  BY <1>2 DEF Linked, Held
<1>4. Linked(lk, kept)
  BY <1>2, <1>3 DEF Linked
<1> QED
  BY <1>1, <1>2, <1>4

LEMMA ClearEffect ==
  ASSUME TypeOK, NEW X
  PROVE  /\ Clear(link, X) \in [Ends -> LinkIds \cup {NoLink}]
         /\ \A e \in Ends :
              Clear(link, X)[e] = IF e \in X THEN NoLink ELSE link[e]
BY DEF Clear, TypeOK

\* What stopping and erasing leaves is still stored as it should be
LEMMA StopLinksEffect ==
  ASSUME TypeOK, Held(link, links), NEW stopped, NEW gone,
         StopLinks(stopped, gone)
  PROVE  /\ Linked(link', links')
         /\ link' = Clear(link, gone \cup
                            UNION {ResetPorts(links[l]) : l \in stopped})
         /\ DOMAIN links' \subseteq DOMAIN links
         /\ \A l \in DOMAIN links' : SameLink(links'[l], links[l])
<1> DEFINE X == gone \cup UNION {ResetPorts(links[l]) : l \in stopped}
           lk == Clear(link, X)
           ls == Cancel(links, stopped)
<1>1. Store(lk, ls)
  BY DEF StopLinks
<1>2. /\ lk \in [Ends -> LinkIds \cup {NoLink}]
      /\ \A e \in Ends : lk[e] = IF e \in X THEN NoLink ELSE link[e]
  BY ClearEffect
<1>3. DOMAIN ls = DOMAIN links
  BY DEF Cancel
<1>4. ASSUME NEW l \in DOMAIN links
      PROVE  /\ ls[l] \in DiscoveredLink /\ SameLink(ls[l], links[l])
             /\ l \notin stopped => ls[l] = links[l]
  <2>1. links[l] \in DiscoveredLink
    BY DEF TypeOK
  <2>2. ls[l] = IF l \in stopped THEN [links[l] EXCEPT !.armed = FALSE]
                ELSE links[l]
    BY DEF Cancel
  <2> QED
    BY <2>1, <2>2 DEF DiscoveredLink, SameLink
<1>5. ASSUME NEW e \in Ends, lk[e] # NoLink
      PROVE  /\ lk[e] \in DOMAIN ls
             /\ PortAt(ls[lk[e]], SwitchOf[e]) = e
             /\ ls[lk[e]].armed \/ ls[lk[e]].fired
  <2>1. lk[e] = link[e] /\ e \notin X
    BY <1>2, <1>5
  <2>2. link[e] \in DOMAIN links /\ e \in ResetPorts(links[link[e]])
    BY <1>5, <2>1, ResetCovers DEF TypeOK
  <2>3. link[e] \notin stopped
    BY <2>1, <2>2
  <2> QED
    BY <1>3, <1>4, <1>5, <2>1, <2>2, <2>3 DEF Held
<1> HIDE DEF lk, ls
<1>6. Linked(lk, ls)
  BY <1>2, <1>3, <1>4, <1>5 DEF Linked, Held, TypeOK
<1> QED
  BY <1>1, <1>3, <1>4, <1>6, StoreEffect DEF lk

\* Removing links from a set of ports keeps both ends together when no link
\* that is stored at both is held inside and outside the set
LEMMA ClearKeepsBothEnds ==
  ASSUME TypeOK, BothEnds, NEW X, link' = Clear(link, X),
         DOMAIN links' \subseteq DOMAIN links,
         \A l \in DOMAIN links' : SameLink(links'[l], links[l]),
         OneCablePerEnd /\ BetweenSwitches =>
           \A l \in DOMAIN links :
             ~links[l].late => Holders(l) \cap X = {} \/ Holders(l) \subseteq X
  PROVE  BothEnds'
<1> SUFFICES ASSUME OneCablePerEnd, BetweenSwitches, NEW l \in DOMAIN links'
             PROVE  IF links'[l].late THEN Holders(l)' \subseteq {links'[l].other}
                    ELSE Holders(l)' \in {{}, {links'[l].one, links'[l].other}}
  BY DEF BothEnds, OneCablePerEnd, BetweenSwitches
<1>1. \A e \in Ends : link'[e] = IF e \in X THEN NoLink ELSE link[e]
  BY ClearEffect
<1>2. l # NoLink
  BY DEF TypeOK, LinkIds, NoLink
<1>3. Holders(l)' = Holders(l) \ X
  BY <1>1, <1>2 DEF Holders
<1>4. IF links[l].late THEN Holders(l) \subseteq {links[l].other}
      ELSE Holders(l) \in {{}, {links[l].one, links[l].other}}
  BY DEF BothEnds
<1>5. l \in DOMAIN links /\ SameLink(links'[l], links[l])
  OBVIOUS
<1>6. CASE links[l].late
  BY <1>3, <1>4, <1>5, <1>6 DEF SameLink
<1>7. CASE ~links[l].late
  <2>1. Holders(l) \cap X = {} \/ Holders(l) \subseteq X
    BY <1>5, <1>7
  <2> QED
    BY <1>3, <1>4, <1>5, <1>7, <2>1 DEF SameLink
<1> QED
  BY <1>6, <1>7

\* With one cable per end, two links that have an end in common join the same
\* ends, and a link that is held at all its ends is all they hold
LEMMA HeldLinks ==
  ASSUME TypeOK, Held(link, links), OverCables(links), BothEnds,
         OneCablePerEnd, BetweenSwitches,
         NEW l \in DOMAIN links, ~links[l].late, Holders(l) # {}
  PROVE  /\ Holders(l) = {links[l].one, links[l].other}
         /\ Holders(l) = ResetPorts(links[l])
         /\ \A k \in DOMAIN links :
              Holders(l) \cap {links[k].one, links[k].other} # {}
                => Holders(l) = {links[k].one, links[k].other}
<1>1. Holders(l) = {links[l].one, links[l].other}
  BY DEF BothEnds
<1>2. Holders(l) \subseteq ResetPorts(links[l])
  <2>1. l # NoLink
    BY DEF TypeOK, LinkIds, NoLink
  <2> QED
    BY <2>1, ResetCovers DEF Holders
<1>3. ResetPorts(links[l]) \subseteq {links[l].one, links[l].other}
  BY ResetPortsAreEnds
<1>4. ASSUME NEW k \in DOMAIN links,
             Holders(l) \cap {links[k].one, links[k].other} # {}
      PROVE  Holders(l) = {links[k].one, links[k].other}
  <2>1. /\ {links[l].one, links[l].other} \in Cables
        /\ {links[k].one, links[k].other} \in Cables
    BY DEF OverCables
  <2> QED
    BY <1>1, <1>4, <2>1 DEF OneCablePerEnd
<1> QED
  BY <1>1, <1>2, <1>3, <1>4

\* Ports that are erased, and the links they hold stopped
LEMMA ErasingPorts ==
  ASSUME TypeOK, Held(link, links), OverCables(links), BothEnds,
         NEW gone \in SUBSET Ends, StopLinks(LinksAt(gone \cap ports), gone)
  PROVE  /\ Linked(link', links') /\ OverCables(links') /\ BothEnds'
         /\ \A e \in Ends : link'[e] # NoLink => e \in ports \ gone
<1> DEFINE stopped == LinksAt(gone \cap ports)
           X == gone \cup UNION {ResetPorts(links[l]) : l \in stopped}
<1>1. /\ Linked(link', links')
      /\ link' = Clear(link, X)
      /\ DOMAIN links' \subseteq DOMAIN links
      /\ \A l \in DOMAIN links' : SameLink(links'[l], links[l])
  BY StopLinksEffect
<1>2. \A e \in Ends : link'[e] # NoLink => e \in ports \ gone
  BY <1>1, ClearEffect DEF TypeOK
<1>3. OverCables(links')
  BY <1>1 DEF OverCables, SameLink
<1>4. ASSUME OneCablePerEnd, BetweenSwitches, NEW l \in DOMAIN links,
             ~links[l].late, Holders(l) \cap X # {}
      PROVE  Holders(l) \subseteq X
  <2>1. /\ Holders(l) = ResetPorts(links[l])
        /\ \A k \in DOMAIN links :
             Holders(l) \cap {links[k].one, links[k].other} # {}
               => Holders(l) = {links[k].one, links[k].other}
    BY <1>4, HeldLinks
  <2>2. PICK e \in Ends : link[e] = l /\ e \in X
    BY <1>4 DEF Holders
  <2>3. l # NoLink
    BY DEF TypeOK, LinkIds, NoLink
  <2>4. CASE e \in gone
    <3>1. l \in stopped
      BY <2>2, <2>3, <2>4 DEF LinksAt, TypeOK
    <3> QED
      BY <2>1, <3>1
  <2>5. CASE e \notin gone
    <3>1. PICK k \in stopped : e \in ResetPorts(links[k])
      BY <2>2, <2>5
    <3>2. PICK f \in gone \cap ports : link[f] = k /\ k # NoLink
      BY DEF LinksAt
    <3>3. k \in DOMAIN links /\ f \in Ends
      BY <3>2 DEF TypeOK
    <3>4. e \in {links[k].one, links[k].other}
      BY <3>1, ResetPortsAreEnds
    <3>5. Holders(l) = {links[k].one, links[k].other}
      BY <2>1, <2>2, <3>3, <3>4 DEF Holders
    <3>6. f \in Holders(l)
      <4>1. f \in ResetPorts(links[k])
        BY <3>2, <3>3, ResetCovers
      <4> QED
        BY <3>5, <4>1, ResetPortsAreEnds
    <3>7. k = l
      BY <3>2, <3>6 DEF Holders
    <3> QED
      BY <2>1, <3>1, <3>7
  <2> QED
    BY <2>4, <2>5
<1> HIDE DEF X
<1>5. BothEnds'
  BY <1>1, <1>4, ClearKeepsBothEnds
<1> QED
  BY <1>1, <1>2, <1>3, <1>5

\* A link that times out, removed from the ports of its ends
LEMMA TimingOut ==
  ASSUME TypeOK, Held(link, links), OverCables(links), BothEnds,
         NEW l \in DOMAIN links,
         Store(Clear(link, ResetPorts(links[l])),
               [links EXCEPT ![l].armed = FALSE, ![l].fired = FALSE])
  PROVE  /\ Linked(link', links') /\ OverCables(links') /\ BothEnds'
         /\ \A e \in Ends : link'[e] # NoLink => e \in ports
<1> DEFINE X == ResetPorts(links[l])
           lk == Clear(link, X)
           ls == [links EXCEPT ![l].armed = FALSE, ![l].fired = FALSE]
<1>1. /\ lk \in [Ends -> LinkIds \cup {NoLink}]
      /\ \A e \in Ends : lk[e] = IF e \in X THEN NoLink ELSE link[e]
  BY ClearEffect
<1>2. DOMAIN ls = DOMAIN links /\ \A k \in DOMAIN links \ {l} : ls[k] = links[k]
  OBVIOUS
<1>3. ls[l] \in DiscoveredLink /\ SameLink(ls[l], links[l])
  <2>1. links[l] \in DiscoveredLink
    BY DEF TypeOK
  <2>2. ls[l] = [[links[l] EXCEPT !.armed = FALSE] EXCEPT !.fired = FALSE]
    OBVIOUS
  <2> QED
    BY <2>1, <2>2 DEF DiscoveredLink, SameLink
<1>4. Store(lk, ls)
  OBVIOUS
<1> HIDE DEF lk, ls
<1>5. ASSUME NEW e \in Ends, lk[e] # NoLink
      PROVE  lk[e] = link[e] /\ link[e] # l /\ e \in ports
  <2>1. lk[e] = link[e] /\ e \notin X
    BY <1>1, <1>5
  <2> QED
    BY <1>5, <2>1, ResetCovers DEF TypeOK
<1>6. Linked(lk, ls)
  <2>1. Held(lk, ls)
    BY <1>2, <1>5 DEF Held
  <2> QED
    BY <1>1, <1>2, <1>3, <2>1 DEF Linked, TypeOK
<1>7. /\ Linked(link', links') /\ link' = lk
      /\ DOMAIN links' \subseteq DOMAIN ls
      /\ \A k \in DOMAIN links' : links'[k] = ls[k]
  BY <1>4, <1>6, StoreEffect
<1>8. /\ DOMAIN links' \subseteq DOMAIN links
      /\ \A k \in DOMAIN links' : SameLink(links'[k], links[k])
  BY <1>2, <1>3, <1>7 DEF SameLink
<1>9. OverCables(links')
  BY <1>8 DEF OverCables, SameLink
<1>10. ASSUME OneCablePerEnd, BetweenSwitches, NEW k \in DOMAIN links,
              ~links[k].late, Holders(k) \cap X # {}
       PROVE  Holders(k) \subseteq X
  <2>1. X \subseteq {links[l].one, links[l].other} \cap ports
    BY ResetPortsAreEnds
  <2>2. Holders(k) = {links[l].one, links[l].other}
    BY <1>10, <2>1, HeldLinks
  <2>3. \A e \in Holders(k) : e \in ports /\ SwitchOf[e] \in up
    <3>1. k # NoLink
      BY DEF TypeOK, LinkIds, NoLink
    <3> QED
      BY <3>1 DEF TypeOK, Holders
  <2>4. \A e, f \in {links[l].one, links[l].other} :
          SwitchOf[e] = SwitchOf[f] => e = f
    BY <1>10 DEF OverCables, BetweenSwitches
  <2> QED
    BY <2>2, <2>3, <2>4 DEF ResetPorts, PortAt
<1>11. BothEnds'
  <2>1. link' = Clear(link, X)
    BY <1>7 DEF lk
  <2> HIDE DEF X
  <2> QED
    BY <1>8, <1>10, <2>1, ClearKeepsBothEnds
<1> QED
  BY <1>5, <1>7, <1>9, <1>11
\* A new link takes its ports from links of the same ports: from one that a
\* stopped switch found, as the port that met the packet had none
LEMMA NewLinkKeepsBothEnds ==
  ASSUME TypeOK, OverCables(links), BothEnds,
         NEW d \in DiscoveredLink, {d.one, d.other} \in Cables,
         link[d.one] = NoLink,
         NEW l \in LinkIds \ DOMAIN links,
         DOMAIN links' \subseteq DOMAIN links \cup {l},
         \A k \in DOMAIN links' : links'[k] = IF k = l THEN d ELSE links[k],
         \A e \in Ends \ {d.one, d.other} : link'[e] = link[e],
         \A e \in Ends : link'[e] \in {l, NoLink, link[e]},
         OneCablePerEnd /\ BetweenSwitches =>
           IF d.late THEN Holders(l)' \subseteq {d.other}
           ELSE Holders(l)' \in {{}, {d.one, d.other}}
  PROVE  BothEnds'
<1> SUFFICES ASSUME OneCablePerEnd, BetweenSwitches, NEW k \in DOMAIN links'
             PROVE  IF links'[k].late THEN Holders(k)' \subseteq {links'[k].other}
                    ELSE Holders(k)' \in {{}, {links'[k].one, links'[k].other}}
  BY DEF BothEnds, OneCablePerEnd, BetweenSwitches
<1>1. CASE k = l
  BY <1>1
<1>2. CASE k # l
  <2>1. k \in DOMAIN links /\ links'[k] = links[k] /\ k # NoLink
    BY <1>2 DEF TypeOK, LinkIds, NoLink
  <2>2. Holders(k)' \subseteq Holders(k)
    BY <1>2, <2>1 DEF Holders
  <2>3. CASE links[k].late
    BY <2>1, <2>2, <2>3 DEF BothEnds
  <2>4. CASE ~links[k].late
    <3>1. /\ Holders(k) \in {{}, {links[k].one, links[k].other}}
          /\ {links[k].one, links[k].other} \in Cables
      BY <2>1, <2>4 DEF BothEnds, OverCables
    <3>2. d.one \in Ends /\ d.one \notin Holders(k)
      BY <2>1 DEF Holders, DiscoveredLink
    <3>3. Holders(k) \cap {d.one, d.other} = {}
      BY <3>1, <3>2 DEF OneCablePerEnd
    <3>4. Holders(k)' = Holders(k)
      BY <2>2, <3>3 DEF Holders
    <3> QED
      BY <2>1, <2>4, <3>1, <3>4
  <2> QED
    BY <2>3, <2>4
<1> QED
  BY <1>1, <1>2

\* A link that is found: stored at both its ports, or at none of them
LEMMA AddingLink ==
  ASSUME TopologyAssumption, TypeOK, Held(link, links), OverCables(links),
         BothEnds,
         NEW m, m.port \in ports, m.from \in Ends,
         {m.port, m.from} \in Cables, link[m.port] = NoLink,
         NEW l \in LinkIds \ DOMAIN links,
         Store(AddLink(Discovered(m), l),
               [k \in DOMAIN links \cup {l} |->
                  IF k = l THEN Discovered(m) ELSE links[k]])
  PROVE  /\ Linked(link', links') /\ OverCables(links') /\ BothEnds'
         /\ \A e \in Ends : link'[e] # NoLink => e \in ports
<1> DEFINE d == Discovered(m)
           p == PortAt(d, SwitchOf[d.other])
           lk == AddLink(d, l)
           ls == [k \in DOMAIN links \cup {l} |->
                    IF k = l THEN d ELSE links[k]]
<1>1. /\ d \in DiscoveredLink /\ d.one = m.port /\ d.other = m.from
      /\ d.armed /\ ~d.late /\ m.port \in Ends
  BY DEF Discovered, DiscoveredLink, TypeOK
<1>2. /\ DOMAIN ls = DOMAIN links \cup {l} /\ ls[l] = d
      /\ \A k \in DOMAIN links : ls[k] = links[k]
  OBVIOUS
<1>3. /\ PortAt(d, SwitchOf[d.one]) = d.one
      /\ p \in {d.one, d.other} /\ p \in Ends
      /\ PortAt(d, SwitchOf[p]) = p
  BY <1>1 DEF PortAt
<1>4. /\ link \in [Ends -> LinkIds \cup {NoLink}] /\ l # NoLink
      /\ \A e \in Ends : link[e] # l
  BY DEF TypeOK, LinkIds, NoLink
<1>5. \/ /\ p \in ports
         /\ lk \in [Ends -> LinkIds \cup {NoLink}]
         /\ \A e \in Ends : lk[e] = IF e \in {d.one, p} THEN l ELSE link[e]
      \/ /\ p \notin ports
         /\ lk = Clear(link, ResetPorts(d))
         /\ lk \in [Ends -> LinkIds \cup {NoLink}]
         /\ \A e \in Ends : lk[e] = link[e] \/ lk[e] = NoLink
  <2>1. CASE p \in ports
    <3>1. lk = [link EXCEPT ![d.one] = l, ![p] = l]
      BY <1>3, <2>1 DEF AddLink
    <3> HIDE DEF d, p, lk
    <3> QED
      BY <1>1, <1>3, <1>4, <2>1, <3>1
  <2>2. CASE p \notin ports
    <3>1. lk = Clear(link, ResetPorts(d))
      BY <2>2 DEF AddLink
    <3> HIDE DEF d, p, lk
    <3> QED
      BY <2>2, <3>1, ClearEffect
  <2> QED
    BY <2>1, <2>2
<1>6. Store(lk, ls)
  OBVIOUS
<1> HIDE DEF d, p, lk, ls
<1>7. Linked(lk, ls)
  <2>1. Held(lk, ls)
    <3> SUFFICES ASSUME NEW e \in Ends, lk[e] # NoLink
                 PROVE  /\ lk[e] \in DOMAIN ls
                        /\ PortAt(ls[lk[e]], SwitchOf[e]) = e
                        /\ ls[lk[e]].armed \/ ls[lk[e]].fired
      BY DEF Held
    <3>1. CASE lk[e] = link[e]
      BY <1>2, <3>1 DEF Held
    <3>2. CASE lk[e] = l /\ e \in {d.one, p}
      BY <1>1, <1>2, <1>3, <3>2
    <3> QED
      BY <1>5, <3>1, <3>2
  <2> QED
    BY <1>1, <1>2, <1>5, <2>1 DEF Linked, TypeOK
<1>8. /\ Linked(link', links') /\ link' = lk
      /\ DOMAIN links' \subseteq DOMAIN ls
      /\ \A k \in DOMAIN links' : links'[k] = ls[k]
  BY <1>6, <1>7, StoreEffect
<1>9. \A e \in Ends : link'[e] # NoLink => e \in ports
  BY <1>1, <1>5, <1>8 DEF TypeOK
<1>10. OverCables(links')
  BY <1>1, <1>2, <1>8 DEF OverCables
<1>11. \A e \in Ends \ {d.one, d.other} : link'[e] = link[e]
  <2>1. ResetPorts(d) \subseteq {d.one, d.other}
    BY ResetPortsAreEnds
  <2> QED
    BY <1>3, <1>5, <1>8, <2>1, ClearEffect
<1>12. OneCablePerEnd /\ BetweenSwitches => p = d.other
  <2>1. SwitchOf[d.one] = SwitchOf[d.other] /\ BetweenSwitches
          => d.one = d.other
    BY <1>1 DEF BetweenSwitches
  <2> QED
    BY <2>1 DEF p, PortAt
<1>13. BothEnds'
  <2>1. OneCablePerEnd /\ BetweenSwitches =>
          Holders(l)' \in {{}, {d.one, d.other}}
    BY <1>1, <1>3, <1>4, <1>5, <1>8, <1>12 DEF Holders
  <2>2. /\ {d.one, d.other} \in Cables /\ link[d.one] = NoLink
        /\ \A e \in Ends : link'[e] \in {l, NoLink, link[e]}
    BY <1>1, <1>5, <1>8
  <2> QED
    BY <1>1, <1>2, <1>8, <1>11, <2>1, <2>2, NewLinkKeepsBothEnds
<1> QED
  BY <1>8, <1>9, <1>10, <1>13

\* A link that a stopped switch finds: stored at the other switch alone
LEMMA AddingLateLink ==
  ASSUME TopologyAssumption, TypeOK, Held(link, links), OverCables(links),
         BothEnds,
         NEW m, m.port \in Ends \ ports, m.from \in Ends,
         {m.port, m.from} \in Cables,
         NEW l \in LinkIds \ DOMAIN links,
         Store(AddLinkLate(DiscoveredLate(m), l),
               [k \in DOMAIN links \cup {l} |->
                  IF k = l THEN DiscoveredLate(m) ELSE links[k]])
  PROVE  /\ Linked(link', links') /\ OverCables(links') /\ BothEnds'
         /\ \A e \in Ends : link'[e] # NoLink => e \in ports
<1> DEFINE d == DiscoveredLate(m)
           p == PortAt(d, SwitchOf[d.other])
           lk == AddLinkLate(d, l)
           ls == [k \in DOMAIN links \cup {l} |->
                    IF k = l THEN d ELSE links[k]]
<1>1. /\ d \in DiscoveredLink /\ d.one = m.port /\ d.other = m.from
      /\ d.armed /\ d.late
  BY DEF DiscoveredLate, Discovered, DiscoveredLink
<1>2. /\ DOMAIN ls = DOMAIN links \cup {l} /\ ls[l] = d
      /\ \A k \in DOMAIN links : ls[k] = links[k]
  OBVIOUS
<1>3. /\ p \in {d.one, d.other} /\ p \in Ends
      /\ PortAt(d, SwitchOf[p]) = p
  BY <1>1 DEF PortAt
<1>4. /\ link \in [Ends -> LinkIds \cup {NoLink}] /\ l # NoLink
      /\ \A e \in Ends : link[e] # l
  BY DEF TypeOK, LinkIds, NoLink
<1>5. \/ /\ p \in ports
         /\ lk \in [Ends -> LinkIds \cup {NoLink}]
         /\ \A e \in Ends : lk[e] = IF e = p THEN l ELSE link[e]
      \/ /\ p \notin ports
         /\ lk = Clear(link, ResetPorts(d))
         /\ lk \in [Ends -> LinkIds \cup {NoLink}]
         /\ \A e \in Ends : lk[e] = link[e] \/ lk[e] = NoLink
  <2>1. CASE p \in ports
    <3>1. lk = [link EXCEPT ![p] = l]
      BY <2>1 DEF AddLinkLate
    <3> HIDE DEF d, p, lk
    <3> QED
      BY <1>1, <1>3, <1>4, <2>1, <3>1
  <2>2. CASE p \notin ports
    <3>1. lk = Clear(link, ResetPorts(d))
      BY <2>2 DEF AddLinkLate
    <3> HIDE DEF d, p, lk
    <3> QED
      BY <2>2, <3>1, ClearEffect
  <2> QED
    BY <2>1, <2>2
<1>6. Store(lk, ls)
  OBVIOUS
<1> HIDE DEF d, p, lk, ls
<1>7. Linked(lk, ls)
  <2>1. Held(lk, ls)
    <3> SUFFICES ASSUME NEW e \in Ends, lk[e] # NoLink
                 PROVE  /\ lk[e] \in DOMAIN ls
                        /\ PortAt(ls[lk[e]], SwitchOf[e]) = e
                        /\ ls[lk[e]].armed \/ ls[lk[e]].fired
      BY DEF Held
    <3>1. CASE lk[e] = link[e]
      BY <1>2, <3>1 DEF Held
    <3>2. CASE lk[e] = l /\ e = p
      BY <1>1, <1>2, <1>3, <3>2
    <3> QED
      BY <1>5, <3>1, <3>2
  <2> QED
    BY <1>1, <1>2, <1>5, <2>1 DEF Linked, TypeOK
<1>8. /\ Linked(link', links') /\ link' = lk
      /\ DOMAIN links' \subseteq DOMAIN ls
      /\ \A k \in DOMAIN links' : links'[k] = ls[k]
  BY <1>6, <1>7, StoreEffect
<1>9. \A e \in Ends : link'[e] # NoLink => e \in ports
  BY <1>1, <1>5, <1>8 DEF TypeOK
<1>10. OverCables(links')
  BY <1>1, <1>2, <1>8 DEF OverCables
<1>11. \A e \in Ends \ {d.one, d.other} : link'[e] = link[e]
  <2>1. ResetPorts(d) \subseteq {d.one, d.other}
    BY ResetPortsAreEnds
  <2> QED
    BY <1>3, <1>5, <1>8, <2>1, ClearEffect
<1>12. OneCablePerEnd /\ BetweenSwitches => p = d.other
  <2>1. SwitchOf[d.one] = SwitchOf[d.other] /\ BetweenSwitches
          => d.one = d.other
    BY <1>1 DEF BetweenSwitches
  <2> QED
    BY <2>1 DEF p, PortAt
<1>13. BothEnds'
  <2>1. OneCablePerEnd /\ BetweenSwitches => Holders(l)' \subseteq {d.other}
    BY <1>1, <1>3, <1>4, <1>5, <1>8, <1>12 DEF Holders
  <2>2. /\ {d.one, d.other} \in Cables /\ link[d.one] = NoLink
        /\ \A e \in Ends : link'[e] \in {l, NoLink, link[e]}
    BY <1>1, <1>5, <1>8 DEF TypeOK
  <2> QED
    BY <1>1, <1>2, <1>8, <1>11, <2>1, <2>2, NewLinkKeepsBothEnds
<1> QED
  BY <1>8, <1>9, <1>10, <1>13

-----------------------------------------------------------------------------
\* Messages in the order of what they tell about

LEMMA KnownAppend ==
  ASSUME NEW S, NEW q \in Seq(S), NEW m \in S, NEW P, NEW e,
         NEW k \in 0 .. Len(q), KnownAfter(q, P, e, k)
  PROVE  KnownAfter(Append(q, m), P, e, k)
<1>1. \A i \in 1 .. k : Append(q, m)[i] = q[i]
  OBVIOUS
<1> DEFINE r == Append(q, m)
<1> HIDE DEF r
<1>2. \A i \in 1 .. k : r[i] = q[i]
  BY <1>1 DEF r
<1>3. KnownAfter(r, P, e, k)
  <2>1. CASE e \in P /\ \A j \in 1 .. k : ~Deletes(q[j], e)
    BY <1>2, <2>1 DEF KnownAfter
  <2>2. ASSUME NEW i \in 1 .. k, Adds(q[i], e),
               \A j \in i + 1 .. k : ~Deletes(q[j], e)
        PROVE  KnownAfter(r, P, e, k)
    <3>1. \A j \in i + 1 .. k : j \in 1 .. k
      OBVIOUS
    <3> QED
      BY <1>2, <2>2, <3>1 DEF KnownAfter
  <2> QED
    BY <2>1, <2>2 DEF KnownAfter
<1> QED
  BY <1>3 DEF r

LEMMA KnownLast ==
  ASSUME NEW S, NEW q \in Seq(S), NEW m \in S, NEW P, NEW e,
         Adds(m, e) \/ (KnownAfter(q, P, e, Len(q)) /\ ~Deletes(m, e))
  PROVE  KnownAfter(Append(q, m), P, e, Len(q) + 1)
<1> DEFINE r == Append(q, m)
           n == Len(q)
<1>1. n \in Nat /\ r[n + 1] = m /\ \A i \in 1 .. n : r[i] = q[i]
  OBVIOUS
<1> HIDE DEF r, n
<1>2. CASE Adds(m, e)
  <2>1. n + 1 \in 1 .. n + 1 /\ \A j \in n + 1 + 1 .. n + 1 : FALSE
    BY <1>1
  <2>2. KnownAfter(r, P, e, n + 1)
    BY <1>1, <1>2, <2>1 DEF KnownAfter
  <2> QED
    BY <2>2 DEF r, n
<1>3. CASE KnownAfter(q, P, e, n) /\ ~Deletes(m, e)
  <2>1. CASE e \in P /\ \A j \in 1 .. n : ~Deletes(q[j], e)
    <3>1. \A j \in 1 .. n + 1 : j \in 1 .. n \/ j = n + 1
      BY <1>1
    <3>2. KnownAfter(r, P, e, n + 1)
      BY <1>1, <1>3, <2>1, <3>1 DEF KnownAfter
    <3> QED
      BY <3>2 DEF r, n
  <2>2. ASSUME NEW i \in 1 .. n, Adds(q[i], e),
               \A j \in i + 1 .. n : ~Deletes(q[j], e)
        PROVE  KnownAfter(r, P, e, n + 1)
    <3>1. /\ i \in 1 .. n + 1
          /\ \A j \in i + 1 .. n + 1 :
               (j \in i + 1 .. n /\ j \in 1 .. n) \/ j = n + 1
      BY <1>1
    <3> QED
      BY <1>1, <1>3, <2>2, <3>1 DEF KnownAfter
  <2> QED
    BY <1>3, <2>1, <2>2 DEF KnownAfter, r, n
<1> QED
  BY <1>2, <1>3 DEF n

LEMMA KnownTail ==
  ASSUME NEW S, NEW q \in Seq(S), q # << >>, NEW P, NEW Q, NEW e,
         Adds(Head(q), e) \/ (e \in P /\ ~Deletes(Head(q), e)) => e \in Q,
         NEW k \in 1 .. Len(q), KnownAfter(q, P, e, k)
  PROVE  KnownAfter(Tail(q), Q, e, k - 1)
<1> DEFINE r == Tail(q)
           h == Head(q)
           n == Len(q)
<1>1. n \in Nat /\ h = q[1] /\ \A i \in 1 .. n - 1 : r[i] = q[i + 1]
  OBVIOUS
<1>2. KnownAfter(q, P, e, k) /\ k \in 1 .. n
  OBVIOUS
<1>3. Adds(h, e) \/ (e \in P /\ ~Deletes(h, e)) => e \in Q
  OBVIOUS
<1> HIDE DEF r, h, n
<1>4. KnownAfter(r, Q, e, k - 1)
  <2>1. CASE e \in P /\ \A j \in 1 .. k : ~Deletes(q[j], e)
    <3>1. 1 \in 1 .. k /\ \A j \in 1 .. k - 1 : j + 1 \in 1 .. k /\ j \in 1 .. n - 1
      BY <1>1, <1>2
    <3> QED
      BY <1>1, <1>3, <2>1, <3>1 DEF KnownAfter
  <2>2. ASSUME NEW i \in 1 .. k, Adds(q[i], e),
               \A j \in i + 1 .. k : ~Deletes(q[j], e)
        PROVE  KnownAfter(r, Q, e, k - 1)
    <3>1. CASE i = 1
      <4>1. e \in Q
        BY <1>1, <1>3, <2>2, <3>1
      <4>2. \A j \in 1 .. k - 1 : j + 1 \in i + 1 .. k /\ j \in 1 .. n - 1
        BY <1>1, <1>2, <3>1
      <4> QED
        BY <1>1, <2>2, <4>1, <4>2 DEF KnownAfter
    <3>2. CASE i # 1
      <4>1. /\ i - 1 \in 1 .. k - 1 /\ i - 1 \in 1 .. n - 1 /\ (i - 1) + 1 = i
            /\ \A j \in (i - 1) + 1 .. k - 1 :
                 j + 1 \in i + 1 .. k /\ j \in 1 .. n - 1
        BY <1>1, <1>2, <3>2
      <4>2. Adds(r[i - 1], e)
        BY <1>1, <2>2, <4>1
      <4>3. \A j \in (i - 1) + 1 .. k - 1 : ~Deletes(r[j], e)
        BY <1>1, <2>2, <4>1
      <4> QED
        BY <4>1, <4>2, <4>3 DEF KnownAfter
    <3> QED
      BY <3>1, <3>2
  <2> QED
    BY <1>2, <2>1, <2>2 DEF KnownAfter
<1> QED
  BY <1>4 DEF r

LEMMA KnownSame ==
  ASSUME NEW q, NEW P, NEW Q, NEW e, e \in P => e \in Q, NEW k,
         KnownAfter(q, P, e, k)
  PROVE  KnownAfter(q, Q, e, k)
BY DEF KnownAfter
LEMMA Sending ==
  ASSUME TypeOK, FromSwitches, NEW s \in up, NEW m \in Messages, About(m, s),
         Sends(s, m), UNCHANGED up
  PROVE  /\ inbox' \in [Switches -> Seq(Messages)]
         /\ inbox'[s] = Append(inbox[s], m)
         /\ \A t \in Switches \ {s} : inbox'[t] = inbox[t]
         /\ FromSwitches'
<1>1. inbox \in [Switches -> Seq(Messages)] /\ s \in Switches
  BY DEF TypeOK
<1>2. inbox[s] \in Seq(Messages) /\ Append(inbox[s], m) \in Seq(Messages)
  BY <1>1
<1>3. /\ inbox' \in [Switches -> Seq(Messages)]
      /\ inbox'[s] = Append(inbox[s], m)
      /\ \A t \in Switches \ {s} : inbox'[t] = inbox[t]
  BY <1>1, <1>2 DEF Sends
<1>4. FromSwitches'
  <2> SUFFICES ASSUME NEW t \in Switches, NEW i \in 1 .. Len(inbox'[t])
               PROVE  t \in up /\ About(inbox'[t][i], t)
    BY DEF FromSwitches, About
  <2>1. CASE t # s
    BY <1>3, <2>1 DEF FromSwitches
  <2>2. CASE t = s
    <3> DEFINE q == inbox[s]
               r == Append(q, m)
    <3>1. /\ q \in Seq(Messages) /\ i \in 1 .. Len(r) /\ inbox'[t] = r
      BY <1>2, <1>3, <2>2
    <3>2. (i \in 1 .. Len(q) /\ r[i] = q[i]) \/ r[i] = m
      BY <3>1
    <3>3. CASE i \in 1 .. Len(q) /\ r[i] = q[i]
      BY <1>1, <2>2, <3>1, <3>3 DEF FromSwitches
    <3>4. CASE r[i] = m
      BY <2>2, <3>1, <3>4
    <3> QED
      BY <3>2, <3>3, <3>4
  <2> QED
    BY <2>1, <2>2
<1> QED
  BY <1>3, <1>4

\* The switch that sends: what it sends tells about the ports that change, a
\* packet comes from a port it has, and the description names all its ports
LEMMA SenderInStep ==
  ASSUME TypeOK, NEW s \in up, NEW m \in Messages,
         inbox'[s] = Append(inbox[s], m), UNCHANGED ports,
         InStep(s) \/ m.kind = "port_desc",
         \A e \in PortsOf(s) \cap present' :
           Adds(m, e) \/ (InStep(s) /\ e \in present /\ ~Deletes(m, e)),
         m.kind = "packet_in" => m.port \in PortsOf(s) \cap present
  PROVE  InStep(s)'
<1> DEFINE q == inbox[s]
           r == Append(q, m)
           n == Len(q)
<1>1. q \in Seq(Messages)
  BY DEF TypeOK
<1>2. n \in Nat /\ Len(r) = n + 1 /\ r[n + 1] = m
      /\ \A i \in 1 .. n : r[i] = q[i]
  BY <1>1
<1>3. ASSUME NEW e \in PortsOf(s) \cap present'
      PROVE  KnownAfter(r, ports, e, Len(r))
  <2>1. Adds(m, e) \/ (KnownAfter(q, ports, e, n) /\ ~Deletes(m, e))
    BY <1>3 DEF InStep
  <2>2. KnownAfter(r, ports, e, n + 1)
    BY <1>1, <2>1, KnownLast
  <2> QED
    BY <1>2, <2>2
<1>4. ASSUME NEW i \in 1 .. Len(r), r[i].kind = "packet_in",
             \A j \in i + 1 .. Len(r) : r[j].kind # "port_desc"
      PROVE  KnownAfter(r, ports, r[i].port, i - 1)
  <2>1. CASE i = n + 1
    <3>1. m.kind = "packet_in" /\ m.port \in PortsOf(s) \cap present
      BY <1>2, <1>4, <2>1
    <3>2. KnownAfter(q, ports, m.port, n)
      BY <3>1 DEF InStep
    <3>3. KnownAfter(r, ports, m.port, n)
      <4>1. n \in 0 .. Len(q)
        BY <1>2
      <4> QED
        BY <1>1, <3>2, <4>1, KnownAppend
    <3> QED
      BY <1>2, <2>1, <3>3
  <2>2. CASE i # n + 1
    <3>1. i \in 1 .. n /\ r[i] = q[i] /\ n + 1 \in i + 1 .. Len(r)
          /\ i - 1 \in 0 .. n
      BY <1>2, <2>2
    <3>2. m.kind # "port_desc"
      BY <1>2, <1>4, <3>1
    <3>3. \A j \in i + 1 .. n : q[j].kind # "port_desc"
      <4>1. \A j \in i + 1 .. n : j \in 1 .. n /\ j \in i + 1 .. Len(r)
        BY <1>2, <3>1
      <4> QED
        BY <1>2, <1>4, <4>1
    <3>4. KnownAfter(q, ports, q[i].port, i - 1)
      BY <1>4, <3>1, <3>2, <3>3 DEF InStep
    <3>5. KnownAfter(r, ports, q[i].port, i - 1)
      BY <1>1, <3>1, <3>4, KnownAppend
    <3> QED
      BY <3>1, <3>5
  <2> QED
    BY <2>1, <2>2
<1>5. inbox'[s] = r /\ ports' = ports
  OBVIOUS
<1> HIDE DEF q, r, n
<1> QED
  BY <1>3, <1>4, <1>5 DEF InStep, PortsOf, KnownAfter, Adds, Deletes

\* A switch that does nothing, none of whose ports appears or is forgotten
LEMMA OthersInStep ==
  ASSUME FromSwitches, NEW s \in Switches, InStep(s), inbox'[s] = inbox[s],
         \A e \in PortsOf(s) : /\ e \in present' => e \in present
                               /\ e \in ports => e \in ports'
  PROVE  InStep(s)'
<1>1. ASSUME NEW e \in PortsOf(s) \cap present'
      PROVE  KnownAfter(inbox'[s], ports', e, Len(inbox'[s]))
  <2>1. KnownAfter(inbox[s], ports, e, Len(inbox[s]))
    BY <1>1 DEF InStep
  <2> QED
    BY <2>1, KnownSame
<1>2. ASSUME NEW i \in 1 .. Len(inbox[s]), inbox[s][i].kind = "packet_in",
             \A j \in i + 1 .. Len(inbox[s]) : inbox[s][j].kind # "port_desc"
      PROVE  KnownAfter(inbox'[s], ports', inbox[s][i].port, i - 1)
  <2>1. KnownAfter(inbox[s], ports, inbox[s][i].port, i - 1)
    BY <1>2 DEF InStep
  <2>2. inbox[s][i].port \in PortsOf(s)
    BY <1>2 DEF FromSwitches, About
  <2> QED
    BY <2>1, <2>2, KnownSame
<1> QED
  BY <1>1, <1>2 DEF InStep, PortsOf, KnownAfter, Adds, Deletes

\* The switch whose first message is handled
LEMMA HandledInStep ==
  ASSUME TypeOK, NEW s \in Switches, InStep(s), inbox[s] # << >>,
         inbox'[s] = Tail(inbox[s]), UNCHANGED present,
         \A e \in Ends : \/ Adds(Head(inbox[s]), e)
                         \/ e \in ports /\ ~Deletes(Head(inbox[s]), e)
                         => e \in ports',
         FromSwitches
  PROVE  InStep(s)'
<1> DEFINE q == inbox[s]
           r == Tail(q)
           n == Len(q)
           Q == ports'
<1>1. q \in Seq(Messages) /\ q # << >>
  BY DEF TypeOK
<1>2. n \in Nat \ {0} /\ Len(r) = n - 1 /\ \A i \in 1 .. n - 1 : r[i] = q[i + 1]
  BY <1>1
<1>3. ASSUME NEW e \in PortsOf(s), NEW k \in 1 .. n, KnownAfter(q, ports, e, k)
      PROVE  KnownAfter(r, Q, e, k - 1)
  <2>1. Adds(Head(q), e) \/ (e \in ports /\ ~Deletes(Head(q), e)) => e \in Q
    BY DEF PortsOf
  <2> HIDE DEF q, Q
  <2> QED
    BY <1>1, <1>3, <2>1, KnownTail
<1>4. ASSUME NEW e \in PortsOf(s) \cap present
      PROVE  KnownAfter(r, Q, e, Len(r))
  <2>1. KnownAfter(q, ports, e, n) /\ n \in 1 .. n
    BY <1>2, <1>4 DEF InStep
  <2> QED
    BY <1>2, <1>3, <2>1
<1>5. ASSUME NEW i \in 1 .. Len(r), r[i].kind = "packet_in",
             \A j \in i + 1 .. Len(r) : r[j].kind # "port_desc"
      PROVE  KnownAfter(r, Q, r[i].port, i - 1)
  <2>1. /\ i + 1 \in 1 .. n /\ i \in 1 .. n /\ r[i] = q[i + 1]
        /\ (i + 1) - 1 = i
    BY <1>2, <1>5
  <2>2. \A j \in (i + 1) + 1 .. n : q[j].kind # "port_desc"
    <3> SUFFICES ASSUME NEW j \in (i + 1) + 1 .. n
                 PROVE  q[j].kind # "port_desc"
      OBVIOUS
    <3>1. j - 1 \in i + 1 .. Len(r) /\ j - 1 \in 1 .. n - 1 /\ (j - 1) + 1 = j
      BY <1>2, <1>5
    <3> QED
      BY <1>2, <1>5, <3>1
  <2>3. KnownAfter(q, ports, q[i + 1].port, i)
    <3>1. KnownAfter(q, ports, q[i + 1].port, (i + 1) - 1)
      BY <1>5, <2>1, <2>2 DEF InStep
    <3> QED
      BY <2>1, <3>1
  <2>4. q[i + 1].port \in PortsOf(s)
    BY <1>5, <2>1 DEF FromSwitches, About
  <2> QED
    BY <1>3, <2>1, <2>3, <2>4
<1>6. inbox'[s] = r /\ ports' = Q /\ present' = present
  OBVIOUS
<1> HIDE DEF q, r, n, Q
<1>7. \A e \in PortsOf(s) \cap present' :
        KnownAfter(inbox'[s], ports', e, Len(inbox'[s]))
  BY <1>4, <1>6
<1>8. \A i \in 1 .. Len(inbox'[s]) :
        /\ inbox'[s][i].kind = "packet_in"
        /\ \A j \in i + 1 .. Len(inbox'[s]) : inbox'[s][j].kind # "port_desc"
        => KnownAfter(inbox'[s], ports', inbox'[s][i].port, i - 1)
  BY <1>5, <1>6
<1> QED
  BY <1>7, <1>8 DEF InStep, PortsOf, KnownAfter, Adds, Deletes
-----------------------------------------------------------------------------
\* The steps

LEMMA LinkedNow ==
  ASSUME TypeOK, Held(link, links)
  PROVE  Linked(link, links) /\ \A e \in Ends : link[e] # NoLink => e \in ports
BY DEF TypeOK, Linked

\* The links as IInv wants them after a step
LinksAfter ==
  /\ Linked(link', links') /\ OverCables(links') /\ BothEnds'
  /\ \A e \in Ends : link'[e] # NoLink => e \in ports'

LEMMA LinksUntouched ==
  ASSUME IInv, UNCHANGED <<link, links>>, ports \subseteq ports'
  PROVE  LinksAfter
BY LinkedNow DEF IInv, LinksAfter, Linked, Held, PortAt, OverCables, BothEnds,
   OneCablePerEnd, BetweenSwitches, Holders

LEMMA LateUntouched ==
  ASSUME IInv, late' = late,
         \A e \in ports' \ ports : late[SwitchOf[e]] = NoCompletion
  PROVE  LateCompletions' /\ late' \in [Switches -> Completions]
<1>1. TypeOK /\ LateCompletions
  BY DEF IInv
<1>2. late' \in [Switches -> Completions]
  BY <1>1 DEF TypeOK
<1>3. ASSUME NEW s \in Switches, late[s] # NoCompletion
      PROVE  PortsOf(s) \cap ports' = {} /\ LatePacket(late[s], s)
  BY <1>1, <1>3 DEF LateCompletions, PortsOf
<1> QED
  BY <1>2, <1>3 DEF LateCompletions, PortsOf, LatePacket

LEMMA NewPosition ==
  ASSUME LinksAfter, FromSwitches',
         LateCompletions', late' \in [Switches -> Completions],
         \A s \in reported' : InStep(s)',
         wiring' \subseteq Cables,
         \A c, d \in wiring' : c = d \/ c \cap d = {},
         present' \subseteq Ends,
         reported' \subseteq up', up' \subseteq Switches,
         inbox' \in [Switches -> Seq(Messages)],
         ports' \subseteq {e \in Ends : SwitchOf[e] \in up'},
         fault' \in {"none", "in_port", "modulo", "second_stop"}
  PROVE  IInv'
<1>1. Held(link', links') /\ OverCables(links') /\ BothEnds'
  BY DEF LinksAfter, Linked
<1>2. \A e \in Ends : link'[e] # NoLink => link'[e] \in DOMAIN links'
  BY <1>1 DEF Held
<1>3. TypeOK'
  BY <1>2 DEF TypeOK, LinksAfter, Linked, LinkIds, NoLink, Messages,
     DiscoveredLink, Completions
<1>4. Held(link, links)' /\ OverCables(links)'
  BY <1>1 DEF Held, OverCables, PortAt
<1> QED
  BY <1>1, <1>3, <1>4 DEF IInv

\* A message is sent by switch s
LEMMA SendPreserves ==
  ASSUME IInv, NEW s \in up, NEW m \in Messages, About(m, s), Sends(s, m),
         UNCHANGED <<wiring, up, late, ports, link, links, fault>>,
         fault = "none",
         present' \subseteq Ends,
         reported' \subseteq reported \cup {s},
         s \in reported' =>
           /\ InStep(s) \/ m.kind = "port_desc"
           /\ \A e \in PortsOf(s) \cap present' :
                Adds(m, e) \/ (InStep(s) /\ e \in present /\ ~Deletes(m, e)),
         m.kind = "packet_in" => m.port \in PortsOf(s) \cap present,
         \A e \in Ends \ PortsOf(s) : e \in present' => e \in present
  PROVE  IInv'
<1>1. /\ TypeOK /\ FromSwitches /\ \A t \in reported : InStep(t)
      /\ s \in Switches
  BY DEF IInv, TypeOK
<1>2. /\ inbox' \in [Switches -> Seq(Messages)]
      /\ inbox'[s] = Append(inbox[s], m)
      /\ \A t \in Switches \ {s} : inbox'[t] = inbox[t]
      /\ FromSwitches'
  BY <1>1, Sending
<1>3. ASSUME NEW t \in reported'
      PROVE  InStep(t)'
  <2>1. CASE t = s
    BY <1>1, <1>2, <1>3, <2>1, SenderInStep
  <2>2. CASE t # s
    <3>1. t \in reported /\ t \in Switches /\ InStep(t)
      BY <1>1, <1>3, <2>2 DEF TypeOK
    <3>2. \A e \in PortsOf(t) : e \in Ends \ PortsOf(s)
      BY <2>2 DEF PortsOf
    <3> QED
      BY <1>1, <1>2, <2>2, <3>1, <3>2, OthersInStep
  <2> QED
    BY <2>1, <2>2
<1>4. LinksAfter
  BY LinksUntouched
<1>5. LateCompletions' /\ late' \in [Switches -> Completions]
  BY LateUntouched
<1> QED
  BY <1>1, <1>2, <1>3, <1>4, <1>5, NewPosition DEF TypeOK

\* Nothing is sent or handled and no known port is forgotten
LEMMA QuietPreserves ==
  ASSUME IInv, fault = "none",
         UNCHANGED <<reported, inbox, ports>>,
         wiring' \subseteq Cables,
         \A c, d \in wiring' : c = d \/ c \cap d = {},
         present' \subseteq Ends,
         \A e \in Ends : e \in present' =>
           e \in present \/ SwitchOf[e] \notin reported,
         up \subseteq up', up' \subseteq Switches,
         LinksAfter, LateCompletions', late' \in [Switches -> Completions],
         fault' \in {"none", "in_port", "modulo", "second_stop"}
  PROVE  IInv'
<1>1. TypeOK /\ FromSwitches /\ \A t \in reported : InStep(t)
  BY DEF IInv
<1>2. FromSwitches'
  BY <1>1 DEF FromSwitches, About
<1>3. ASSUME NEW t \in reported'
      PROVE  InStep(t)'
  <2>1. t \in Switches /\ InStep(t)
    BY <1>1, <1>3 DEF TypeOK
  <2>2. \A e \in PortsOf(t) : e \in present' => e \in present
    BY <1>3 DEF PortsOf
  <2> QED
    BY <1>1, <2>1, <2>2, OthersInStep
<1> QED
  BY <1>1, <1>2, <1>3, NewPosition DEF TypeOK

LEMMA PortStatusPreserves ==
  ASSUME TopologyAssumption, IInv, fault = "none", NEW e \in Ends,
         PortAppears(e) \/ PortDisappears(e)
  PROVE  IInv'
<1> DEFINE s == SwitchOf[e]
<1>1. /\ present' \subseteq Ends /\ s \in Switches
      /\ UNCHANGED <<wiring, up, reported, late, ports, link, links, fault>>
      /\ \A f \in Ends \ {e} : f \in present' => f \in present
  BY DEF IInv, TypeOK, TopologyAssumption, PortAppears, PortDisappears,
     PortStatus
<1>2. CASE s \in up
  <2>1. PICK m \in [kind : {"port_added", "port_deleted"}, port : Ends] :
          /\ Sends(s, m)
          /\ m.port = e
          /\ m.kind = "port_deleted" => e \notin present'
    <3>1. CASE PortAppears(e)
      BY <1>2, <3>1 DEF PortAppears, PortStatus
    <3>2. CASE PortDisappears(e)
      BY <1>2, <3>2 DEF PortDisappears, PortStatus
    <3> QED
      BY <3>1, <3>2
  <2>2. m \in Messages /\ About(m, s) /\ m.kind # "packet_in"
    BY <2>1 DEF Messages, About, PortsOf
  <2>3. ASSUME NEW f \in PortsOf(s) \cap present'
        PROVE  Adds(m, f) \/ (f \in present /\ ~Deletes(m, f))
    <3>1. f \in Ends
      BY DEF PortsOf
    <3>2. CASE f = e
      BY <2>1, <2>3, <3>2 DEF Adds
    <3>3. CASE f # e
      BY <1>1, <2>1, <2>3, <3>1, <3>3 DEF Deletes
    <3> QED
      BY <3>2, <3>3
  <2>4. s \in reported' => InStep(s)
    BY <1>1 DEF IInv
  <2>5. \A f \in Ends \ PortsOf(s) : f \in present' => f \in present
    BY <1>1 DEF PortsOf
  <2> HIDE DEF s
  <2> QED
    BY <1>1, <1>2, <2>1, <2>2, <2>3, <2>4, <2>5, SendPreserves
<1>3. CASE s \notin up
  <2>1. UNCHANGED inbox
    BY <1>3 DEF PortAppears, PortDisappears, PortStatus
  <2>2. LinksAfter
    BY <1>1, LinksUntouched
  <2>3. s \notin reported
    BY <1>3 DEF IInv, TypeOK
  <2>4. LateCompletions' /\ late' \in [Switches -> Completions]
    BY <1>1, LateUntouched
  <2> QED
    BY <1>1, <2>1, <2>2, <2>3, <2>4, QuietPreserves DEF IInv, TypeOK
<1> QED
  BY <1>2, <1>3

LEMMA ReportPortsPreserves ==
  ASSUME TopologyAssumption, IInv, fault = "none", NEW s \in Switches,
         ReportPorts(s)
  PROVE  IInv'
<1> DEFINE m == [kind |-> "port_desc", ports |-> PortsOf(s) \cap present]
<1>1. /\ s \in up /\ Sends(s, m) /\ reported' = reported \cup {s}
      /\ UNCHANGED <<wiring, present, up, late, ports, link, links, fault>>
  BY DEF ReportPorts
<1>2. m \in Messages /\ About(m, s) /\ m.kind = "port_desc"
  BY DEF Messages, About, PortsOf
<1>3. \A e \in PortsOf(s) \cap present' : Adds(m, e)
  BY <1>1 DEF Adds
<1>4. present' \subseteq Ends
  BY <1>1 DEF IInv, TypeOK
<1> HIDE DEF m
<1> QED
  BY <1>1, <1>2, <1>3, <1>4, SendPreserves

LEMMA SendDiscoveryPreserves ==
  ASSUME TopologyAssumption, IInv, fault = "none", NEW e \in Ends,
         SendDiscovery(e)
  PROVE  IInv'
<1>1. PICK f \in Ends :
        /\ Delivers(e, f)
        /\ Sends(SwitchOf[f], Packet(e, f))
        /\ UNCHANGED <<wiring, present, up, reported, late, ports, link,
                       links, fault>>
  BY DEF SendDiscovery
<1> DEFINE s == SwitchOf[f]
           m == Packet(e, f)
<1>2. s \in up /\ f \in present /\ {e, f} \in Cables /\ {f, e} = {e, f}
  BY <1>1 DEF Delivers, IInv, TypeOK
<1>3. /\ m \in Messages /\ About(m, s)
      /\ m.kind = "packet_in" /\ m.port = f /\ f \in PortsOf(s)
  BY <1>2 DEF Messages, About, PortsOf, Packet
<1>4. \A g : ~Deletes(m, g)
  BY <1>3 DEF Deletes
<1>5. s \in reported => InStep(s)
  BY DEF IInv
<1>6. present' \subseteq Ends
  BY <1>1 DEF IInv, TypeOK
<1>7. Sends(s, m)
  BY <1>1
<1> HIDE DEF s, m
<1> QED
  BY <1>1, <1>2, <1>3, <1>4, <1>5, <1>6, <1>7, SendPreserves

LEMMA NetworkPreserves ==
  ASSUME TopologyAssumption, IInv, fault = "none", NetworkStep
  PROVE  IInv'
<1>1. ASSUME NEW c \in Cables, Plug(c) \/ Cut(c)
      PROVE  IInv'
  <2>1. UNCHANGED <<present, up, reported, inbox, late, ports, link, links,
                    fault>>
    BY <1>1 DEF Plug, Cut
  <2>2. /\ wiring' \subseteq Cables
        /\ \A b, d \in wiring' : b = d \/ b \cap d = {}
    <3>1. CASE Plug(c)
      BY <1>1, <3>1 DEF Plug, IInv, TypeOK
    <3>2. CASE Cut(c)
      BY <1>1, <3>2 DEF Cut, IInv, TypeOK
    <3> QED
      BY <1>1, <3>1, <3>2
  <2>3. LinksAfter
    BY <2>1, LinksUntouched
  <2>4. /\ present' \subseteq Ends /\ up' \subseteq Switches
        /\ up \subseteq up' /\ fault' = "none"
    BY <2>1 DEF IInv, TypeOK
  <2>5. LateCompletions' /\ late' \in [Switches -> Completions]
    BY <2>1, LateUntouched
  <2> QED
    BY <2>1, <2>2, <2>3, <2>4, <2>5, QuietPreserves
<1> QED
  BY <1>1, PortStatusPreserves, ReportPortsPreserves DEF NetworkStep

\* The next packet of a switch whose description is handled is in step
LEMMA DescribedPortsAreKnown ==
  IInv => UnknownPortOnlyAtStart
<1> SUFFICES ASSUME IInv
             PROVE  UnknownPortOnlyAtStart
  OBVIOUS
<1>1. TypeOK /\ LateCompletions /\ \A t \in reported : InStep(t)
  BY DEF IInv
<1>2. ASSUME NEW s \in up, Described(s), NextIsPacket(s)
      PROVE  Head(inbox[s]).port \in ports
  <2> DEFINE q == inbox[s]
  <2>1. q \in Seq(Messages) /\ q # << >>
    BY <1>1, <1>2 DEF TypeOK, NextIsPacket
  <2>2. 1 \in 1 .. Len(q) /\ Head(q) = q[1] /\ DOMAIN q = 1 .. Len(q)
        /\ 1 - 1 = 0 /\ Len(q) \in Nat
    BY <2>1
  <2>3. \A j \in 1 + 1 .. Len(q) : q[j].kind # "port_desc"
    BY <1>2, <2>2 DEF Described
  <2>4. KnownAfter(q, ports, q[1].port, 0)
    BY <1>1, <1>2, <2>2, <2>3 DEF InStep, Described, NextIsPacket
  <2>5. 1 .. 0 = {}
    OBVIOUS
  <2> QED
    BY <2>2, <2>4, <2>5 DEF KnownAfter
<1>3. ASSUME NEW s \in Switches, late[s].kind = "packet_in",
             late[s].described
      PROVE  late[s].known
  <2>1. late[s] # NoCompletion
    BY <1>3 DEF NoCompletion
  <2>2. LatePacket(late[s], s)
    BY <1>1, <2>1 DEF LateCompletions
  <2> QED
    BY <1>3, <2>2, Zenon DEF LatePacket
<1> QED
  BY <1>2, <1>3 DEF UnknownPortOnlyAtStart

\* HandleNetworkError forgets a switch and all it sent
LEMMA NetworkErrorPreserves ==
  ASSUME TopologyAssumption, IInv, fault = "none", NEW s \in Switches,
         HandleNetworkError(s)
  PROVE  IInv'
<1>1. TypeOK /\ FromSwitches /\ \A t \in reported : InStep(t)
  BY DEF IInv
<1>2. /\ StopLinks(LinksAt(PortsOf(s)), PortsOf(s))
      /\ up' = up \ {s} /\ reported' = reported \ {s}
      /\ ports' = ports \ PortsOf(s)
      /\ inbox' = [inbox EXCEPT ![s] = << >>]
      /\ s \in up
      /\ UNCHANGED <<wiring, present, fault>>
  BY DEF HandleNetworkError, DropInput
<1>3. PortsOf(s) \subseteq Ends
  BY DEF PortsOf
<1>4. LinksAt(PortsOf(s)) = LinksAt(PortsOf(s) \cap ports)
  BY <1>1, <1>3 DEF LinksAt, TypeOK
<1>5. LinksAfter
  <2>1. StopLinks(LinksAt(PortsOf(s) \cap ports), PortsOf(s))
    BY <1>2, <1>4
  <2> QED
    BY <1>1, <1>2, <1>3, <2>1, ErasingPorts DEF IInv, LinksAfter
<1>6. /\ inbox' \in [Switches -> Seq(Messages)]
      /\ inbox'[s] = << >>
      /\ \A t \in Switches \ {s} : inbox'[t] = inbox[t]
  <2>1. << >> \in Seq(Messages)
    OBVIOUS
  <2> QED
    BY <1>1, <1>2, <2>1 DEF TypeOK
<1>7. FromSwitches'
  <2> SUFFICES ASSUME NEW t \in Switches, NEW i \in 1 .. Len(inbox'[t])
               PROVE  t \in up' /\ About(inbox'[t][i], t)
    BY DEF FromSwitches, About
  <2>1. t # s
    BY <1>6
  <2> QED
    BY <1>1, <1>2, <1>6, <2>1 DEF FromSwitches
<1>8. ASSUME NEW t \in reported'
      PROVE  InStep(t)'
  <2>1. t # s /\ t \in Switches /\ InStep(t)
    BY <1>1, <1>2, <1>8 DEF TypeOK
  <2>2. \A e \in PortsOf(t) : e \notin PortsOf(s)
    BY <2>1 DEF PortsOf
  <2> QED
    BY <1>1, <1>2, <1>6, <2>1, <2>2, OthersInStep
<1>9. LateCompletions' /\ late' \in [Switches -> Completions]
  <2>1. PICK c \in Completions :
          Completed(s, c) /\ late' = [late EXCEPT ![s] = c]
    BY DEF HandleNetworkError
  <2>2. LatePacket(c, s)
    <3> SUFFICES ASSUME c.kind = "packet_in"
                 PROVE  /\ c.port \in PortsOf(s) /\ {c.port, c.from} \in Cables
                        /\ c.described => c.known
      BY DEF LatePacket
    <3>1. NextIsPacket(s) /\ c = ReadOf(s, Head(inbox[s]))
      BY <2>1 DEF Completed, NoCompletion
    <3> DEFINE m == Head(inbox[s])
    <3>2. /\ c.port = m.port /\ c.from = m.from
          /\ c.known = (m.port \in ports) /\ c.described = Described(s)
      BY <3>1 DEF ReadOf
    <3>3. About(m, s) /\ m.kind = "packet_in"
      <4>1. inbox[s] \in Seq(Messages) /\ inbox[s] # << >>
        BY <1>1, <3>1 DEF TypeOK, NextIsPacket
      <4>2. 1 \in 1 .. Len(inbox[s]) /\ m = inbox[s][1]
        BY <4>1
      <4> QED
        BY <1>1, <3>1, <4>2 DEF FromSwitches, NextIsPacket
    <3>4. Described(s) => m.port \in ports
      BY <1>2, <3>1, DescribedPortsAreKnown DEF IInv, UnknownPortOnlyAtStart
    <3> QED
      BY <3>2, <3>3, <3>4 DEF About
  <2>3. late' \in [Switches -> Completions] /\ late'[s] = c
        /\ \A t \in Switches \ {s} : late'[t] = late[t]
    BY <1>1, <2>1 DEF TypeOK
  <2>4. PortsOf(s) \cap ports' = {} /\ ports' \subseteq ports
    BY <1>2
  <2>5. LateCompletions
    BY DEF IInv
  <2> QED
    <3> SUFFICES ASSUME NEW t \in Switches, late'[t] # NoCompletion
                 PROVE  PortsOf(t) \cap ports' = {} /\ LatePacket(late'[t], t)
      BY <2>3 DEF LateCompletions, PortsOf, LatePacket
    <3>1. CASE t = s
      BY <2>2, <2>3, <2>4, <3>1
    <3>2. CASE t # s
      BY <2>3, <2>4, <2>5, <3>2 DEF LateCompletions
    <3> QED
      BY <3>1, <3>2
<1>10. /\ reported' \subseteq up' /\ up' \subseteq Switches
       /\ ports' \subseteq {e \in Ends : SwitchOf[e] \in up'}
       /\ present' \subseteq Ends
  BY <1>1, <1>2 DEF TypeOK, PortsOf
<1>11. /\ wiring' \subseteq Cables
       /\ \A c, d \in wiring' : c = d \/ c \cap d = {}
       /\ fault' \in {"none", "in_port", "modulo", "second_stop"}
  BY <1>1, <1>2 DEF TypeOK
<1> QED
  BY <1>5, <1>6, <1>7, <1>8, <1>9, <1>10, <1>11, NewPosition
\* The timers of links
LEMMA TimerPreserves ==
  ASSUME TopologyAssumption, IInv, fault = "none", NEW l \in DOMAIN links,
         Expire(l) \/ HandleTimeout(l)
  PROVE  IInv'
<1>1. TypeOK /\ Held(link, links) /\ OverCables(links) /\ BothEnds
  BY DEF IInv
<1>2. UNCHANGED <<wiring, present, up, reported, inbox, late, ports, fault>>
  BY DEF Expire, HandleTimeout
<1>3. LinksAfter
  <2>1. CASE HandleTimeout(l)
    <3>1. Store(Clear(link, ResetPorts(links[l])),
                [links EXCEPT ![l].armed = FALSE, ![l].fired = FALSE])
      BY <2>1 DEF HandleTimeout
    <3> QED
      BY <1>1, <1>2, <3>1, TimingOut DEF LinksAfter
  <2>2. CASE Expire(l)
    <3>1. /\ links' = [links EXCEPT ![l].armed = FALSE, ![l].fired = TRUE]
          /\ link' = link
      BY <2>2 DEF Expire
    <3>2. links[l] \in DiscoveredLink
      BY <1>1 DEF TypeOK
    <3>3. links'[l] = [[links[l] EXCEPT !.armed = FALSE] EXCEPT !.fired = TRUE]
      BY <3>1
    <3>4. /\ DOMAIN links' = DOMAIN links
          /\ \A k \in DOMAIN links \ {l} : links'[k] = links[k]
      BY <3>1
    <3>5. /\ links'[l] \in DiscoveredLink /\ links'[l].fired
          /\ SameLink(links'[l], links[l])
      BY <3>2, <3>3 DEF DiscoveredLink, SameLink
    <3>6. \A k \in DOMAIN links : SameLink(links'[k], links[k])
      BY <3>4, <3>5 DEF SameLink
    <3>7. Held(link', links')
      BY <1>1, <3>1, <3>4, <3>5, <3>6 DEF Held, PortAt, SameLink
    <3>8. Linked(link', links')
      BY <1>1, <3>1, <3>4, <3>5, <3>7 DEF Linked, TypeOK
    <3>9. OverCables(links')
      BY <1>1, <3>4, <3>6 DEF OverCables, SameLink
    <3>10. BothEnds'
      BY <1>1, <3>1, <3>4, <3>6
      DEF BothEnds, Holders, OneCablePerEnd, BetweenSwitches, SameLink
    <3>11. \A e \in Ends : link'[e] # NoLink => e \in ports'
      BY <1>1, <1>2, <3>1 DEF TypeOK
    <3> QED
      BY <3>8, <3>9, <3>10, <3>11 DEF LinksAfter
  <2> QED
    BY <2>1, <2>2
<1>4. /\ wiring' \subseteq Cables
      /\ \A c, d \in wiring' : c = d \/ c \cap d = {}
      /\ present' \subseteq Ends /\ present' = present
      /\ up \subseteq up' /\ up' \subseteq Switches
      /\ fault' = "none"
  BY <1>1, <1>2 DEF TypeOK
<1>5. LateCompletions' /\ late' \in [Switches -> Completions]
  BY <1>2, LateUntouched
<1> QED
  BY <1>2, <1>3, <1>4, <1>5, QuietPreserves

LEMMA ConnectPreserves ==
  ASSUME TopologyAssumption, IInv, fault = "none", NEW s \in Switches,
         Connect(s) \/ SendDiscoveryWithoutPorts(s)
  PROVE  IInv'
<1>1. /\ UNCHANGED <<wiring, present, reported, inbox, late, ports, link,
                     links>>
      /\ up \subseteq up' /\ up' \subseteq Switches
      /\ fault' \in {"none", "modulo"}
  BY DEF Connect, SendDiscoveryWithoutPorts, IInv, TypeOK
<1>2. LinksAfter
  BY <1>1, LinksUntouched
<1>3. /\ wiring' \subseteq Cables
      /\ \A c, d \in wiring' : c = d \/ c \cap d = {}
      /\ present' \subseteq Ends /\ present' = present
  BY <1>1 DEF IInv, TypeOK
<1>4. LateCompletions' /\ late' \in [Switches -> Completions]
  BY <1>1, LateUntouched
<1> QED
  BY <1>1, <1>2, <1>3, <1>4, QuietPreserves

\* What completed before a switch stopped
LEMMA LatePreserves ==
  ASSUME TopologyAssumption, IInv, fault = "none", NEW s \in Switches,
         HandleLate(s)
  PROVE  IInv'
<1>1. /\ TypeOK /\ LateCompletions /\ Held(link, links)
      /\ OverCables(links) /\ BothEnds
  BY DEF IInv
<1>2. /\ HandleLatePacket(s) \/ HandleLateError(s)
      /\ late' = [late EXCEPT ![s] = NoCompletion]
      /\ UNCHANGED <<wiring, present, up, reported, inbox, ports>>
  BY DEF HandleLate
<1>3. late' \in [Switches -> Completions]
  BY <1>1, <1>2 DEF TypeOK, Completions, NoCompletion
<1>4. LateCompletions'
  <2>1. \A t \in Switches : late'[t] # NoCompletion => late'[t] = late[t]
    BY <1>1, <1>2 DEF TypeOK
  <2> QED
    BY <1>1, <1>2, <2>1 DEF LateCompletions, PortsOf, LatePacket
<1>5. fault' \in {"none", "in_port", "modulo", "second_stop"}
  BY <1>2 DEF HandleLatePacket, HandleLateError
<1>6. LinksAfter
  <2>1. CASE UNCHANGED <<link, links>>
    BY <1>2, <2>1, LinksUntouched
  <2>2. CASE ~UNCHANGED <<link, links>>
    <3> DEFINE m == late[s]
    <3>1. /\ m.kind = "packet_in"
          /\ \E l \in LinkIds : CreateLink(l, DiscoveredLate(m),
                                      AddLinkLate(DiscoveredLate(m), l))
      BY <1>2, <2>2 DEF HandleLatePacket, HandleLateError
    <3>2. /\ m \in Completions /\ m # NoCompletion
      BY <1>1, <3>1 DEF TypeOK, NoCompletion
    <3>3. /\ m.port \in Ends \ ports /\ m.from \in Ends
          /\ {m.port, m.from} \in Cables
      BY <1>1, <3>1, <3>2 
      DEF LateCompletions, LatePacket, Completions, PortsOf
    <3> HIDE DEF m
    <3>4. PICK l \in LinkIds \ DOMAIN links :
            Store(AddLinkLate(DiscoveredLate(m), l),
                  [k \in DOMAIN links \cup {l} |->
                     IF k = l THEN DiscoveredLate(m) ELSE links[k]])
      BY <3>1 DEF CreateLink
    <3>5. /\ Linked(link', links') /\ OverCables(links') /\ BothEnds'
          /\ \A e \in Ends : link'[e] # NoLink => e \in ports
      BY <1>1, <3>3, <3>4, AddingLateLink
    <3> QED
      BY <1>2, <3>5 DEF LinksAfter
  <2> QED
    BY <2>1, <2>2
<1>7. /\ wiring' \subseteq Cables
      /\ \A c, d \in wiring' : c = d \/ c \cap d = {}
      /\ present' \subseteq Ends /\ present' = present
      /\ up \subseteq up' /\ up' \subseteq Switches
  BY <1>1, <1>2 DEF TypeOK
<1> QED
  BY <1>2, <1>3, <1>4, <1>5, <1>6, <1>7, QuietPreserves

\* The links and the known ports after each kind of message
LEMMA MessageEffect ==
  ASSUME IInv, NEW s \in up, NEW m \in Messages, About(m, s),
         \/ HandlePortDesc(s, m) \/ HandlePortAdded(s, m)
         \/ HandlePortDeleted(s, m) \/ HandlePacketInUnknownPort(s, m)
         \/ HandlePacketInRefresh(s, m) \/ HandlePacketInNewLink(s, m),
         fault = "none", TopologyAssumption
  PROVE  /\ LinksAfter
         /\ ports' \subseteq ports \cup PortsOf(s)
         /\ ports \ ports' \subseteq PortsOf(s)
         /\ \A e \in Ends :
              Adds(m, e) \/ (e \in ports /\ ~Deletes(m, e)) => e \in ports'
         /\ fault' \in {"none", "in_port"}
<1>1. TypeOK /\ Held(link, links) /\ OverCables(links) /\ BothEnds
  BY DEF IInv
<1>2. m.kind # "port_desc" => m.port \in Ends /\ m.port \in PortsOf(s)
  BY DEF About, PortsOf
<1>3. CASE HandlePortDesc(s, m)
  <2>1. /\ m.kind = "port_desc" /\ ports' = ports \cup m.ports
        /\ UNCHANGED <<link, links, fault>> /\ m.ports \subseteq PortsOf(s)
    BY <1>3 DEF HandlePortDesc, About
  <2>2. LinksAfter
    BY <2>1, LinksUntouched
  <2> QED
    BY <2>1, <2>2 DEF Adds, Deletes
<1>4. CASE HandlePortAdded(s, m)
  <2>1. /\ m.kind = "port_added" /\ ports' = ports \cup {m.port}
        /\ UNCHANGED <<link, links, fault>>
    BY <1>4 DEF HandlePortAdded
  <2>2. LinksAfter
    BY <2>1, LinksUntouched
  <2> QED
    BY <1>2, <2>1, <2>2 DEF Adds, Deletes
<1>5. CASE HandlePortDeleted(s, m)
  <2>1. /\ m.kind = "port_deleted" /\ ports' = ports \ {m.port}
        /\ StopLinks(LinksAt({m.port} \cap ports), {m.port})
        /\ fault' = fault
    BY <1>5 DEF HandlePortDeleted
  <2>2. {m.port} \in SUBSET Ends
    BY <1>2, <2>1
  <2>3. LinksAfter
    BY <1>1, <2>1, <2>2, ErasingPorts DEF LinksAfter
  <2> QED
    BY <1>2, <2>1, <2>3 DEF Adds, Deletes
<1>6. CASE HandlePacketInUnknownPort(s, m)
  <2>1. /\ m.kind = "packet_in" /\ m.port \notin ports
        /\ fault' = "in_port" /\ UNCHANGED <<ports, link, links>>
    BY <1>6 DEF HandlePacketInUnknownPort
  <2>2. LinksAfter
    BY <2>1, LinksUntouched
  <2> QED
    BY <2>1, <2>2 DEF Adds, Deletes
<1>7. CASE HandlePacketInRefresh(s, m)
  <2> DEFINE l == link[m.port]
  <2>1. /\ m.kind = "packet_in" /\ m.port \in ports /\ l # NoLink
        /\ links' = [links EXCEPT ![l].armed = TRUE]
        /\ UNCHANGED <<ports, link, fault>>
    BY <1>7 DEF HandlePacketInRefresh
  <2>2. l \in DOMAIN links /\ links[l] \in DiscoveredLink
    BY <1>1, <1>2, <2>1 DEF TypeOK
  <2> HIDE DEF l
  <2>3. links'[l] = [links[l] EXCEPT !.armed = TRUE]
    BY <2>1, <2>2
  <2>4. /\ DOMAIN links' = DOMAIN links
        /\ \A k \in DOMAIN links \ {l} : links'[k] = links[k]
    BY <2>1
  <2>5. /\ links'[l] \in DiscoveredLink /\ links'[l].armed
        /\ SameLink(links'[l], links[l])
    BY <2>2, <2>3 DEF DiscoveredLink, SameLink
  <2>6. \A k \in DOMAIN links : SameLink(links'[k], links[k])
    BY <2>4, <2>5 DEF SameLink
  <2>7. Held(link', links')
    BY <1>1, <2>1, <2>4, <2>5, <2>6 DEF Held, PortAt, SameLink
  <2>8. Linked(link', links')
    BY <1>1, <2>1, <2>4, <2>5, <2>7 DEF Linked, TypeOK
  <2>9. OverCables(links')
    BY <1>1, <2>4, <2>6 DEF OverCables, SameLink
  <2>10. BothEnds'
    BY <1>1, <2>1, <2>4, <2>6
    DEF BothEnds, Holders, OneCablePerEnd, BetweenSwitches, SameLink
  <2>11. \A e \in Ends : link'[e] # NoLink => e \in ports'
    BY <1>1, <2>1 DEF TypeOK
  <2> QED
    BY <2>1, <2>8, <2>9, <2>10, <2>11 DEF LinksAfter, Adds, Deletes
<1>8. CASE HandlePacketInNewLink(s, m)
  <2>1. /\ m.kind = "packet_in" /\ m.port \in ports /\ link[m.port] = NoLink
        /\ UNCHANGED <<ports, fault>>
    BY <1>8 DEF HandlePacketInNewLink
  <2>2. m.from \in Ends /\ {m.port, m.from} \in Cables
    BY <2>1 DEF About, Messages
  <2>3. LinksAfter
    <3>1. CASE SwitchOf[m.from] \notin up
      <4>1. UNCHANGED <<link, links>>
        BY <1>8, <3>1 DEF HandlePacketInNewLink
      <4> QED
        BY <2>1, <4>1, LinksUntouched
    <3>2. CASE SwitchOf[m.from] \in up
      <4>1. PICK l \in LinkIds \ DOMAIN links :
              Store(AddLink(Discovered(m), l),
                    [k \in DOMAIN links \cup {l} |->
                       IF k = l THEN Discovered(m) ELSE links[k]])
        BY <1>8, <3>2 DEF HandlePacketInNewLink, CreateLink
      <4>2. /\ Linked(link', links') /\ OverCables(links') /\ BothEnds'
            /\ \A e \in Ends : link'[e] # NoLink => e \in ports
        BY <1>1, <2>1, <2>2, <4>1, AddingLink
      <4> QED
        BY <2>1, <4>2 DEF LinksAfter
    <3> QED
      BY <3>1, <3>2
  <2> QED
    BY <2>1, <2>3 DEF Adds, Deletes
<1> QED
  BY <1>3, <1>4, <1>5, <1>6, <1>7, <1>8

LEMMA MessagePreserves ==
  ASSUME TopologyAssumption, IInv, fault = "none", NEW s \in Switches,
         HandleMessage(s)
  PROVE  IInv'
<1> DEFINE q == inbox[s]
           r == Tail(q)
           n == Len(q)
           m == Head(q)
<1>1. TypeOK /\ FromSwitches /\ \A t \in reported : InStep(t)
  BY DEF IInv
<1>2. /\ q # << >> /\ inbox' = [inbox EXCEPT ![s] = r]
      /\ late[s] = NoCompletion
      /\ UNCHANGED <<wiring, present, up, reported, late>>
      /\ \/ HandlePortDesc(s, m) \/ HandlePortAdded(s, m)
         \/ HandlePortDeleted(s, m) \/ HandlePacketInUnknownPort(s, m)
         \/ HandlePacketInRefresh(s, m) \/ HandlePacketInNewLink(s, m)
  BY DEF HandleMessage
<1>3. q \in Seq(Messages) /\ inbox \in [Switches -> Seq(Messages)]
  BY <1>1 DEF TypeOK
<1>4. /\ n \in Nat \ {0} /\ m = q[1] /\ m \in Messages
      /\ r \in Seq(Messages) /\ Len(r) = n - 1
      /\ \A i \in 1 .. n - 1 : r[i] = q[i + 1]
  BY <1>2, <1>3
<1>5. /\ inbox' \in [Switches -> Seq(Messages)] /\ inbox'[s] = r
      /\ \A t \in Switches \ {s} : inbox'[t] = inbox[t]
  BY <1>2, <1>3, <1>4
<1>6. s \in up /\ About(m, s)
  BY <1>1, <1>4 DEF FromSwitches
<1>7. /\ LinksAfter
      /\ ports' \subseteq ports \cup PortsOf(s)
      /\ ports \ ports' \subseteq PortsOf(s)
      /\ \A e \in Ends :
           Adds(m, e) \/ (e \in ports /\ ~Deletes(m, e)) => e \in ports'
      /\ fault' \in {"none", "in_port"}
  <2> HIDE DEF m
  <2> QED
    BY <1>2, <1>4, <1>6, MessageEffect
<1>8. FromSwitches'
  <2> SUFFICES ASSUME NEW t \in Switches, NEW i \in 1 .. Len(inbox'[t])
               PROVE  t \in up /\ About(inbox'[t][i], t)
    BY <1>2 DEF FromSwitches, About
  <2>1. CASE t # s
    BY <1>1, <1>5, <2>1 DEF FromSwitches
  <2>2. CASE t = s
    <3>1. inbox'[t] = r
      BY <1>5, <2>2
    <3>2. i \in 1 .. Len(r)
      BY <3>1
    <3> HIDE DEF r, n
    <3>3. i \in 1 .. n - 1 /\ i + 1 \in 1 .. n
      BY <1>4, <3>2
    <3>4. inbox'[t][i] = q[i + 1]
      BY <1>4, <3>1, <3>3
    <3> QED
      BY <1>1, <2>2, <3>3, <3>4 DEF FromSwitches, n
  <2> QED
    BY <2>1, <2>2
<1>9. ASSUME NEW t \in reported'
      PROVE  InStep(t)'
  <2>1. t \in Switches /\ InStep(t)
    BY <1>1, <1>2, <1>9 DEF TypeOK
  <2>2. CASE t = s
    BY <1>1, <1>2, <1>5, <1>7, <2>1, <2>2, HandledInStep
  <2>3. CASE t # s
    <3>1. \A e \in PortsOf(t) : e \notin PortsOf(s)
      BY <2>3 DEF PortsOf
    <3> QED
      BY <1>1, <1>2, <1>5, <1>7, <2>1, <2>3, <3>1, OthersInStep
  <2> QED
    BY <2>2, <2>3
<1>10. LateCompletions' /\ late' \in [Switches -> Completions]
  <2>1. \A e \in ports' \ ports : late[SwitchOf[e]] = NoCompletion
    BY <1>2, <1>7 DEF PortsOf
  <2> QED
    BY <1>2, <2>1, LateUntouched
<1>11. /\ wiring' \subseteq Cables
       /\ \A c, d \in wiring' : c = d \/ c \cap d = {}
       /\ present' \subseteq Ends
       /\ reported' \subseteq up' /\ up' \subseteq Switches
       /\ ports' \subseteq {e \in Ends : SwitchOf[e] \in up'}
       /\ fault' \in {"none", "in_port", "modulo", "second_stop"}
  BY <1>1, <1>2, <1>6, <1>7 DEF TypeOK, PortsOf
<1> QED
  BY <1>5, <1>7, <1>8, <1>9, <1>10, <1>11, NewPosition

-----------------------------------------------------------------------------
\* The invariant, and what follows from it

\* The inductive invariant holds of every execution, on any network.
THEOREM InductiveInvariant == Spec => []IInv
<1>1. ASSUME TopologyAssumption, Init
      PROVE  IInv
  <2>1. /\ wiring = {} /\ present = Ends /\ up = {} /\ reported = {}
        /\ inbox = [s \in Switches |-> << >>] /\ ports = {}
        /\ late = [s \in Switches |-> NoCompletion]
        /\ link = [e \in Ends |-> NoLink] /\ links = << >>
        /\ fault = "none"
    BY <1>1 DEF Init
  <2>2. DOMAIN links = {}
    BY <2>1
  <2>3. \A s \in Switches : inbox[s] = << >> /\ Len(inbox[s]) = 0
    BY <2>1
  <2>4. inbox \in [Switches -> Seq(Messages)]
    BY <2>1
  <2>5. link \in [Ends -> LinkIds \cup {NoLink}]
    BY <2>1
  <2>6. TypeOK
    BY <2>1, <2>2, <2>4, <2>5 DEF TypeOK, Completions, NoCompletion
  <2>7. Held(link, links) /\ OverCables(links) /\ BothEnds
    BY <2>1, <2>2 DEF Held, OverCables, BothEnds
  <2>8. FromSwitches
    BY <2>3 DEF FromSwitches
  <2>9. LateCompletions /\ \A s \in reported : InStep(s)
    BY <2>1 DEF LateCompletions
  <2> QED
    BY <2>6, <2>7, <2>8, <2>9 DEF IInv
<1>2. ASSUME TopologyAssumption, IInv, [Next]_vars
      PROVE  IInv'
  <2>1. CASE fault = "none" /\ NetworkStep
    BY <1>2, <2>1, NetworkPreserves
  <2>2. CASE fault = "none" /\ HypervisorStep
    BY <1>2, <2>2, ConnectPreserves, NetworkErrorPreserves,
       MessagePreserves, LatePreserves, SendDiscoveryPreserves, TimerPreserves
    DEF HypervisorStep
  <2>3. CASE UNCHANGED vars
    <3>1. /\ UNCHANGED <<wiring, present, up, reported, inbox, late, ports>>
          /\ UNCHANGED <<link, links, fault>>
      BY <2>3 DEF vars
    <3>2. LinksAfter
      BY <1>2, <3>1, LinksUntouched
    <3>3. FromSwitches'
      BY <1>2, <3>1 DEF IInv, FromSwitches, About, PortsOf
    <3>4. ASSUME NEW t \in reported'
          PROVE  InStep(t)'
      BY <1>2, <3>1, <3>4, OthersInStep DEF IInv, TypeOK
    <3>5. TypeOK'
      BY <1>2, <3>1 DEF IInv, TypeOK
    <3>6. LateCompletions'
      BY <1>2, <3>1, LateUntouched
    <3> QED
      BY <3>2, <3>3, <3>4, <3>5, <3>6, NewPosition DEF TypeOK
  <2> QED
    BY <1>2, <2>1, <2>2, <2>3 DEF Next
<1> QED
  BY <1>1, <1>2, TopologyAssumption, PTL DEF Spec

\* Every variable keeps its type: among others a port that holds a link is
\* known, on a switch that is connected, and the link exists (Port::link).
THEOREM TypeCorrect == Spec => []TypeOK
<1>1. IInv => TypeOK
  BY DEF IInv
<1> QED
  BY <1>1, InductiveInvariant, PTL

\* Where a port has one cable at most and cables join two switches, a link is
\* stored at both its ports or at none, and one that a switch found when it
\* had stopped at most at the other switch, until the second stop of one switch
\* removes another (DiscoveredLink::stop, add_link).
THEOREM StoredAtBothEnds == Spec => []BothEnds
<1>1. IInv => BothEnds
  BY DEF IInv
<1> QED
  BY <1>1, InductiveInvariant, PTL

\* A link that a port holds is timed, whatever is plugged where.
THEOREM LinksAreTimed == Spec => []HeldLinksAreTimed
<1>1. IInv => HeldLinksAreTimed
  <2> SUFFICES ASSUME IInv, NEW l \in DOMAIN links, Holders(l) # {}
               PROVE  links[l].armed \/ links[l].fired
    BY DEF HeldLinksAreTimed
  <2>1. l # NoLink
    BY DEF IInv, TypeOK, LinkIds, NoLink
  <2>2. PICK e \in Ends : link[e] = l
    BY DEF Holders
  <2> QED
    BY <2>1, <2>2 DEF IInv, Held
<1> QED
  BY <1>1, InductiveInvariant, PTL

\* A connection whose port description is handled brings no packet of a port
\* that PhysicalSwitch::ports does not have, not even one that is handled after
\* the switch stopped.
THEOREM UnknownPortsAtStartOnly == Spec => []UnknownPortOnlyAtStart
BY DescribedPortsAreKnown, InductiveInvariant, PTL
=============================================================================
