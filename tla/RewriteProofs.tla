--------------------------- MODULE RewriteProofs ----------------------------
(***************************************************************************)
(* The controllers share the group ids and the tables of the physical      *)
(* switches and never meet there: no id is given twice, each entry has its *)
(* other copy, and a message changes what is its sender's alone, for any   *)
(* switches, ports, tables and messages.  The second half shows that each  *)
(* controller is left with an OpenFlow switch of its own (VirtualTable),   *)
(* if its messages name tables it was told of and port numbers do not meet.*)
(***************************************************************************)
EXTENDS Rewrite, FiniteSetTheorems, NaturalsInduction, WellFoundedInduction, TLAPS

\* The group ids that were given to v on s
IdsOf(s, v) == Range(group_id_map[s][v])

TenantTables == {t + 2 : t \in ToSet(Tables)}

\* Where entries of controllers are, whatever tables these add to
EntryTables == IF AddsTold THEN TenantTables ELSE 0..255

Metas(v) == {m.entry.meta : m \in FlowMods[v]}

\* f and h are the two copies of an entry of v: they differ in the bit, and in
\* groups of the hypervisor (those of R) at most.
Paired(R, f, h, v, u, b) ==
  /\ f.meta = AddToMatch(b, v, u) /\ h.meta = AddToMatch(1 - b, v, u)
  /\ f.table = h.table /\ f.prio = h.prio /\ f.in = h.in
  /\ GroupsOfEntry(f) \ R = GroupsOfEntry(h) \ R

\* Of the entries F, f is one of v: it uses v's group ids (those of I) and no
\* others but the hypervisor's, and its other copy is there.
IsOf(R, I, F, f, v, u, b) ==
  /\ GroupsOfEntry(f) \subseteq R \cup I
  /\ \E h \in F : Paired(R, f, h, v, u, b)

FlowsFit(R, I, F) ==
  \A f \in F :
    /\ f.table \in EntryTables
    /\ \E v \in VSwitches : \E u \in Metas(v), b \in {0, 1} :
         IsOf(R, I[v], F, f, v, u, b)

IdsApart ==
  \A s \in Switches :
    /\ next_id[s] \in Nat /\ FirstId[s] <= next_id[s]
    /\ \A v \in VSwitches : \A g \in DOMAIN group_id_map[s][v] :
         /\ group_id_map[s][v][g] \in FirstId[s]..(next_id[s] - 1)
         /\ \A w \in VSwitches : \A h \in DOMAIN group_id_map[s][w] :
              group_id_map[s][v][g] = group_id_map[s][w][h] => v = w /\ g = h

ReservedStay ==
  \A s \in Switches : Reserved(s) \subseteq DOMAIN device[s].groups

EntriesFit ==
  \A s \in Switches :
    FlowsFit(Reserved(s), [v \in VSwitches |-> IdsOf(s, v)], device[s].flows)

IInv == IdsApart /\ ReservedStay /\ EntriesFit

-----------------------------------------------------------------------------
(***************************************************************************)
(* The metadata of the copies                                              *)
(***************************************************************************)
\* What a message with metadata x says of the user's fields holds for u.
Within(x, u) ==
  \A y \in DOMAIN x \ {"bit", "vs"} : y \in DOMAIN u /\ x[y] = u[y]

\* A copy matches on the bit, the virtual switch and what its message names.
LEMMA MetaOfCopy ==
  ASSUME NEW a, NEW v, NEW x, NEW b, NEW w, NEW u
  PROVE  /\ AddToMatch(a, v, x).bit = a /\ AddToMatch(a, v, x).vs = v
         /\ /\ DOMAIN AddToMatch(a, v, x) \subseteq DOMAIN AddToMatch(b, w, u)
            /\ \A y \in DOMAIN AddToMatch(a, v, x) :
                 AddToMatch(a, v, x)[y] = AddToMatch(b, w, u)[y]
            <=> a = b /\ v = w /\ Within(x, u)
         /\ AddToMatch(a, v, x) = AddToMatch(b, w, u)
            <=> a = b /\ v = w /\ Within(x, u) /\ Within(u, x)
  <1> DEFINE f == AddToMatch(a, v, x)
             g == AddToMatch(b, w, u)
  <1>1. /\ DOMAIN f = {"bit", "vs"} \cup DOMAIN x
        /\ f["bit"] = a /\ f["vs"] = v
        /\ \A y \in DOMAIN x \ {"bit", "vs"} : f[y] = x[y]
        /\ f = [y \in DOMAIN f |-> f[y]]
    BY DEF AddToMatch
  <1>2. /\ DOMAIN g = {"bit", "vs"} \cup DOMAIN u
        /\ g["bit"] = b /\ g["vs"] = w
        /\ \A y \in DOMAIN u \ {"bit", "vs"} : g[y] = u[y]
        /\ g = [y \in DOMAIN g |-> g[y]]
    BY DEF AddToMatch
  <1>3. f.bit = a /\ f.vs = v
    BY DEF AddToMatch
  <1> HIDE DEF f, g
  <1>4. DOMAIN f \subseteq DOMAIN g /\ (\A y \in DOMAIN f : f[y] = g[y])
        <=> a = b /\ v = w /\ Within(x, u)
    BY <1>1, <1>2 DEF Within
  <1>5. DOMAIN g \subseteq DOMAIN f /\ (\A y \in DOMAIN g : g[y] = f[y])
        <=> b = a /\ w = v /\ Within(u, x)
    BY <1>1, <1>2 DEF Within
  <1>6. f = g <=> /\ DOMAIN f \subseteq DOMAIN g /\ (\A y \in DOMAIN f : f[y] = g[y])
                  /\ DOMAIN g \subseteq DOMAIN f /\ (\A y \in DOMAIN g : g[y] = f[y])
    BY <1>1, <1>2
  <1>7. QED
    BY <1>3, <1>4, <1>5, <1>6 DEF f, g

\* A message covers an entry, or takes its place, exactly if its other copy
\* does so with the other copy of the entry.
LEMMA CopiesAgree ==
  ASSUME NEW R, NEW m, NEW n, NEW v, NEW x, NEW a \in {0, 1},
         NEW f, NEW h, NEW w, NEW u, NEW b \in {0, 1},
         Paired(R, m, n, v, x, a), Paired(R, f, h, w, u, b)
  PROVE  /\ SameEntry(m, f) <=> SameEntry(n, h)
         /\ Covers(m, f) <=> Covers(n, h)
         /\ SameEntry(m, f) \/ Covers(m, f) => a = b /\ v = w
  <1>1. 1 - a = 1 - b <=> a = b
    OBVIOUS
  <1>2. /\ m.meta = f.meta <=> n.meta = h.meta
        /\ m.meta = f.meta => a = b /\ v = w
    <2>1. m.meta = f.meta <=> a = b /\ v = w /\ Within(x, u) /\ Within(u, x)
      BY MetaOfCopy DEF Paired
    <2>2. n.meta = h.meta
          <=> 1 - a = 1 - b /\ v = w /\ Within(x, u) /\ Within(u, x)
      BY MetaOfCopy DEF Paired
    <2>3. QED
      BY <1>1, <2>1, <2>2
  <1>3. /\ Covers(m, f)
           <=> /\ m.table \in {f.table, AllTables} /\ m.in \in {AnyPort, f.in}
               /\ a = b /\ v = w /\ Within(x, u)
        /\ Covers(n, h)
           <=> /\ n.table \in {h.table, AllTables} /\ n.in \in {AnyPort, h.in}
               /\ 1 - a = 1 - b /\ v = w /\ Within(x, u)
    BY MetaOfCopy DEF Covers, Paired
  <1>4. QED
    BY <1>1, <1>2, <1>3 DEF SameEntry, Paired

LEMMA PairedBack ==
  ASSUME NEW R, NEW f, NEW h, NEW v, NEW u, NEW b \in {0, 1},
         Paired(R, f, h, v, u, b)
  PROVE  1 - b \in {0, 1} /\ Paired(R, h, f, v, u, 1 - b)
  <1>1. 1 - b \in {0, 1} /\ 1 - (1 - b) = b
    OBVIOUS
  <1>2. QED
    BY <1>1 DEF Paired

-----------------------------------------------------------------------------
(***************************************************************************)
(* The two messages that a flow_mod becomes, m for packets without a group *)
(* and n for those with one                                                *)
(***************************************************************************)
Messages(R, I, m, n, v, x) ==
  /\ v \in VSwitches /\ x \in Metas(v)
  /\ Paired(R, m, n, v, x, 0)
  /\ GroupsOfEntry(m) \subseteq R \cup I[v]
  /\ GroupsOfEntry(n) \subseteq R \cup I[v]

SameOfOthers(v, F, G) ==
  \A w \in VSwitches \ {v} : {f \in F : f.meta.vs = w} = {f \in G : f.meta.vs = w}

\* Either copy has a twin in the same place.
LEMMA TwinsAgree ==
  ASSUME NEW R, NEW I, NEW m, NEW n, NEW v, NEW x, Messages(R, I, m, n, v, x),
         NEW f, NEW h, NEW w, NEW u, NEW b \in {0, 1}, Paired(R, f, h, w, u, b)
  PROVE  /\ SameEntry(m, f) <=> SameEntry(n, h)
         /\ SameEntry(n, f) <=> SameEntry(m, h)
         /\ Covers(m, f) <=> Covers(n, h)
         /\ Covers(n, f) <=> Covers(m, h)
         /\ SameEntry(m, f) \/ Covers(m, f) => b = 0 /\ v = w
         /\ SameEntry(n, f) \/ Covers(n, f) => b = 1 /\ v = w
         /\ f.meta.vs = w
  <1>1. Paired(R, m, n, v, x, 0) /\ Paired(R, n, m, v, x, 1)
    BY PairedBack DEF Messages
  <1>2. f.meta.vs = w
    BY MetaOfCopy DEF Paired
  <1>3. QED
    BY <1>1, <1>2, CopiesAgree

LEMMA AddKeeps ==
  ASSUME NEW R, NEW I, NEW m, NEW n, NEW v, NEW x, Messages(R, I, m, n, v, x),
         NEW F, FlowsFit(R, I, F), m.table \in EntryTables,
         NEW G, G = {f \in {f \in F : ~ SameEntry(m, f)} \cup {m} :
                       ~ SameEntry(n, f)} \cup {n}
  PROVE  FlowsFit(R, I, G) /\ SameOfOthers(v, F, G)
  <1>1. /\ Paired(R, m, n, v, x, 0) /\ Paired(R, n, m, v, x, 1)
        /\ v \in VSwitches /\ x \in Metas(v)
    BY PairedBack DEF Messages
  <1>2. ~ SameEntry(n, m)
    BY <1>1, TwinsAgree
  <1>3. m \in G /\ n \in G /\ n.table \in EntryTables
    BY <1>1, <1>2 DEF Paired
  <1>4. IsOf(R, I[v], G, m, v, x, 0) /\ IsOf(R, I[v], G, n, v, x, 1)
    BY <1>1, <1>3 DEF IsOf, Messages
  <1>5. ASSUME NEW f \in F, f \in G
        PROVE  \E w \in VSwitches : \E u \in Metas(w), b \in {0, 1} :
                 IsOf(R, I[w], G, f, w, u, b)
    <2>1. CASE f = m \/ f = n
      BY <1>1, <1>4, <2>1
    <2>2. CASE f # m /\ f # n
      <3>1. ~ SameEntry(m, f) /\ ~ SameEntry(n, f)
        BY <1>5, <2>2
      <3>2. PICK w \in VSwitches : \E u \in Metas(w), b \in {0, 1} :
               IsOf(R, I[w], F, f, w, u, b)
        BY <1>5 DEF FlowsFit
      <3>3. PICK u \in Metas(w), b \in {0, 1} : IsOf(R, I[w], F, f, w, u, b)
        BY <3>2
      <3>4. PICK h \in F : Paired(R, f, h, w, u, b)
        BY <3>3 DEF IsOf
      <3>5. h \in G
        BY <3>1, <3>4, TwinsAgree
      <3>6. IsOf(R, I[w], G, f, w, u, b)
        BY <3>3, <3>4, <3>5 DEF IsOf
      <3>7. QED
        BY <3>6
    <2>3. QED
      BY <2>1, <2>2
  <1>6. \A f \in G : f \in F \/ f = m \/ f = n
    OBVIOUS
  <1>7. FlowsFit(R, I, G)
    <2> SUFFICES ASSUME NEW f \in G
                 PROVE  /\ f.table \in EntryTables
                        /\ \E w \in VSwitches : \E u \in Metas(w), b \in {0, 1} :
                             IsOf(R, I[w], G, f, w, u, b)
      BY DEF FlowsFit
    <2>1. CASE f \in F
      BY <1>5, <2>1 DEF FlowsFit
    <2>2. CASE f = m \/ f = n
      BY <1>1, <1>3, <1>4, <2>2
    <2>3. QED
      BY <1>6, <2>1, <2>2
  <1>8. SameOfOthers(v, F, G)
    <2>1. m.meta.vs = v /\ n.meta.vs = v
      BY <1>1, TwinsAgree
    <2>2. ASSUME NEW f \in F, SameEntry(m, f) \/ SameEntry(n, f)
          PROVE  f.meta.vs = v
      <3>1. f.meta = m.meta \/ f.meta = n.meta
        BY <2>2 DEF SameEntry
      <3>2. QED
        BY <2>1, <3>1
    <2>3. QED
      BY <1>6, <2>1, <2>2 DEF SameOfOthers
  <1>9. QED
    BY <1>7, <1>8

LEMMA DeleteKeeps ==
  ASSUME NEW R, NEW I, NEW m, NEW n, NEW v, NEW x, Messages(R, I, m, n, v, x),
         NEW F, FlowsFit(R, I, F),
         NEW G, G = {f \in {f \in F : ~ Covers(m, f)} : ~ Covers(n, f)}
  PROVE  FlowsFit(R, I, G) /\ SameOfOthers(v, F, G)
  <1>1. ASSUME NEW f \in F
        PROVE  /\ f.table \in EntryTables
               /\ f \notin G => f.meta.vs = v
               /\ f \in G => \E w \in VSwitches : \E u \in Metas(w), b \in {0, 1} :
                               IsOf(R, I[w], G, f, w, u, b)
    <2>1. PICK w \in VSwitches : \E u \in Metas(w), b \in {0, 1} :
             IsOf(R, I[w], F, f, w, u, b)
      BY DEF FlowsFit
    <2>2. PICK u \in Metas(w), b \in {0, 1} : IsOf(R, I[w], F, f, w, u, b)
      BY <2>1
    <2>3. PICK h \in F : Paired(R, f, h, w, u, b)
      BY <2>2 DEF IsOf
    <2>4. (f \in G <=> h \in G) /\ (f \notin G => f.meta.vs = v)
      BY <2>3, TwinsAgree
    <2>5. f \in G => IsOf(R, I[w], G, f, w, u, b)
      BY <2>2, <2>3, <2>4 DEF IsOf
    <2>6. QED
      BY <2>4, <2>5 DEF FlowsFit
  <1>2. G \subseteq F
    OBVIOUS
  <1>3. FlowsFit(R, I, G)
    BY <1>1, <1>2 DEF FlowsFit
  <1>4. SameOfOthers(v, F, G)
    BY <1>1, <1>2 DEF SameOfOthers
  <1>5. QED
    BY <1>3, <1>4

Changed(m, f) == IF Covers(m, f) THEN WithInstructions(f, m) ELSE f

\* What both messages make of an entry
Twice(m, n, f) == Changed(n, Changed(m, f))

\* At most one of the messages covers an entry.
LEMMA TwiceCorrect ==
  ASSUME NEW R, NEW I, NEW m, NEW n, NEW v, NEW x, Messages(R, I, m, n, v, x),
         NEW f, NEW h, NEW w, NEW u, NEW b \in {0, 1}, Paired(R, f, h, w, u, b),
         GroupsOfEntry(f) \subseteq R \cup I[w]
  PROVE  /\ Twice(m, n, f).table = f.table
         /\ Twice(m, n, f).meta.vs = f.meta.vs
         /\ Twice(m, n, f) = f \/ f.meta.vs = v
         /\ GroupsOfEntry(Twice(m, n, f)) \subseteq R \cup I[w]
         /\ Paired(R, Twice(m, n, f), Twice(m, n, h), w, u, b)
  <1>1. /\ Covers(m, f) <=> Covers(n, h)
        /\ Covers(n, f) <=> Covers(m, h)
        /\ Covers(m, f) => b = 0 /\ v = w
        /\ Covers(n, f) => b = 1 /\ v = w
        /\ f.meta.vs = w
    BY TwinsAgree
  <1>2. \A p, q : /\ WithInstructions(p, q).table = p.table
                  /\ WithInstructions(p, q).prio = p.prio
                  /\ WithInstructions(p, q).in = p.in
                  /\ WithInstructions(p, q).meta = p.meta
                  /\ GroupsOfEntry(WithInstructions(p, q)) = GroupsOfEntry(q)
    BY DEF WithInstructions, GroupsOfEntry
  <1>3. \A p, q, r : Covers(r, WithInstructions(p, q)) <=> Covers(r, p)
    BY <1>2 DEF Covers
  <1>4. GroupsOfEntry(m) \ R = GroupsOfEntry(n) \ R
    BY DEF Messages, Paired
  <1>5. GroupsOfEntry(m) \subseteq R \cup I[v] /\ GroupsOfEntry(n) \subseteq R \cup I[v]
    BY DEF Messages
  <1> HIDE DEF Messages
  <1>6. CASE Covers(m, f)
    <2>1. ~ Covers(n, f) /\ ~ Covers(m, h) /\ Covers(n, h) /\ v = w
      BY <1>1, <1>6
    <2>2. Twice(m, n, f) = WithInstructions(f, m)
      BY <1>3, <1>6, <2>1 DEF Twice, Changed
    <2>3. Twice(m, n, h) = WithInstructions(h, n)
      BY <2>1 DEF Twice, Changed
    <2>4. QED
      BY <1>1, <1>2, <1>4, <1>5, <2>1, <2>2, <2>3 DEF Paired
  <1>7. CASE Covers(n, f)
    <2>1. ~ Covers(m, f) /\ Covers(m, h) /\ ~ Covers(n, h) /\ v = w
      BY <1>1, <1>7
    <2>2. Twice(m, n, f) = WithInstructions(f, n)
      BY <1>7, <2>1 DEF Twice, Changed
    <2>3. Twice(m, n, h) = WithInstructions(h, m)
      BY <1>3, <2>1 DEF Twice, Changed
    <2>4. QED
      BY <1>1, <1>2, <1>4, <1>5, <2>1, <2>2, <2>3 DEF Paired
  <1>8. CASE ~ Covers(m, f) /\ ~ Covers(n, f)
    <2>1. Twice(m, n, f) = f /\ Twice(m, n, h) = h
      BY <1>1, <1>8 DEF Twice, Changed
    <2>2. QED
      BY <2>1
  <1>9. QED
    BY <1>6, <1>7, <1>8

LEMMA ModifyKeeps ==
  ASSUME NEW R, NEW I, NEW m, NEW n, NEW v, NEW x, Messages(R, I, m, n, v, x),
         NEW F, FlowsFit(R, I, F),
         NEW G, G = {Twice(m, n, f) : f \in F}
  PROVE  FlowsFit(R, I, G) /\ SameOfOthers(v, F, G)
  <1>1. ASSUME NEW f \in F
        PROVE  /\ Twice(m, n, f).table \in EntryTables
               /\ Twice(m, n, f).meta.vs = f.meta.vs
               /\ Twice(m, n, f) = f \/ f.meta.vs = v
               /\ \E w \in VSwitches : \E u \in Metas(w), b \in {0, 1} :
                    IsOf(R, I[w], G, Twice(m, n, f), w, u, b)
    <2>1. PICK w \in VSwitches : \E u \in Metas(w), b \in {0, 1} :
             IsOf(R, I[w], F, f, w, u, b)
      BY DEF FlowsFit
    <2>2. PICK u \in Metas(w), b \in {0, 1} : IsOf(R, I[w], F, f, w, u, b)
      BY <2>1
    <2>3. PICK h \in F : Paired(R, f, h, w, u, b)
      BY <2>2 DEF IsOf
    <2>4. /\ Twice(m, n, f).table = f.table
          /\ Twice(m, n, f).meta.vs = f.meta.vs
          /\ Twice(m, n, f) = f \/ f.meta.vs = v
          /\ GroupsOfEntry(Twice(m, n, f)) \subseteq R \cup I[w]
          /\ Paired(R, Twice(m, n, f), Twice(m, n, h), w, u, b)
      BY <2>2, <2>3, TwiceCorrect DEF IsOf
    <2>5. Twice(m, n, h) \in G
      BY <2>3
    <2>6. IsOf(R, I[w], G, Twice(m, n, f), w, u, b)
      BY <2>4, <2>5 DEF IsOf
    <2>7. QED
      BY <2>4, <2>6 DEF FlowsFit
  <1>2. FlowsFit(R, I, G)
    BY <1>1, ZenonT(60) DEF FlowsFit
  <1>3. SameOfOthers(v, F, G)
    BY <1>1 DEF SameOfOthers
  <1>4. QED
    BY <1>2, <1>3

\* Both messages are refused or neither is: what they differ in is always there.
LEMMA FlowModsKeep ==
  ASSUME NEW R, NEW I, NEW m, NEW n, NEW v, NEW x, Messages(R, I, m, n, v, x),
         NEW d, FlowsFit(R, I, d.flows), R \subseteq DOMAIN d.groups,
         NEW c \in {"add", "modify", "delete"},
         c = "add" => m.table \in EntryTables,
         NEW e, e = FlowMod(FlowMod(d, c, m), c, n)
  PROVE  /\ e.groups = d.groups
         /\ FlowsFit(R, I, e.flows) /\ SameOfOthers(v, d.flows, e.flows)
  <1> DEFINE there == GroupsOfEntry(m) \subseteq DOMAIN d.groups
  <1>1. there <=> GroupsOfEntry(n) \subseteq DOMAIN d.groups
    BY DEF Messages, Paired
  <1>2. e.groups = d.groups
    BY DEF FlowMod
  <1>3. CASE c = "delete"
    <2>1. e.flows = {f \in {f \in d.flows : ~ Covers(m, f)} : ~ Covers(n, f)}
      BY <1>3 DEF FlowMod
    <2>2. QED
      BY <1>2, <2>1, DeleteKeeps
  <1>4. CASE c # "delete" /\ ~ there
    <2>1. e.flows = d.flows
      BY <1>1, <1>4 DEF FlowMod
    <2>2. QED
      BY <1>2, <2>1 DEF SameOfOthers
  <1>5. CASE c = "modify" /\ there
    <2>1. e.flows = {Changed(n, f) : f \in {Changed(m, f) : f \in d.flows}}
      BY <1>1, <1>5 DEF FlowMod, Changed
    <2>2. e.flows = {Twice(m, n, f) : f \in d.flows}
      BY <2>1 DEF Twice
    <2>3. QED
      BY <1>2, <2>2, ModifyKeeps
  <1>6. CASE c = "add" /\ there
    <2>1. e.flows = {f \in {f \in d.flows : ~ SameEntry(m, f)} \cup {m} :
                       ~ SameEntry(n, f)} \cup {n}
      BY <1>1, <1>6 DEF FlowMod
    <2>2. QED
      BY <1>2, <1>6, <2>1, AddKeeps
  <1>7. QED
    BY <1>3, <1>4, <1>5, <1>6

LEMMA MoreIds ==
  ASSUME NEW R, NEW I, NEW J, NEW F, FlowsFit(R, I, F),
         \A w \in VSwitches : I[w] \subseteq J[w]
  PROVE  FlowsFit(R, J, F)
  BY DEF FlowsFit, IsOf

-----------------------------------------------------------------------------
(***************************************************************************)
(* A group_mod for the group g of v: with the group go only entries of v,  *)
(* both copies of each.                                                    *)
(***************************************************************************)
OtherGroupsStay(g, d, e) ==
  \A h : h # g => /\ h \in DOMAIN d.groups <=> h \in DOMAIN e.groups
                  /\ h \in DOMAIN d.groups => e.groups[h] = d.groups[h]

LEMMA GroupModKeeps ==
  ASSUME NEW R, NEW I, NEW v \in VSwitches, NEW g \in Nat, g \notin R,
         \A w \in VSwitches : w # v => g \notin I[w],
         NEW d, FlowsFit(R, I, d.flows),
         NEW c, NEW buckets, NEW e, e = GroupMod(d, c, g, buckets)
  PROVE  /\ OtherGroupsStay(g, d, e)
         /\ FlowsFit(R, I, e.flows) /\ SameOfOthers(v, d.flows, e.flows)
  <1> DEFINE gone == {g} \cap DOMAIN d.groups
             stay == {f \in d.flows : GroupsOfEntry(f) \cap gone = {}}
  <1>1. FlowsFit(R, I, stay) /\ SameOfOthers(v, d.flows, stay)
    <2>1. ASSUME NEW f \in d.flows
          PROVE  /\ f.table \in EntryTables
                 /\ f \notin stay => f.meta.vs = v
                 /\ f \in stay => \E w \in VSwitches : \E u \in Metas(w), b \in {0, 1} :
                                    IsOf(R, I[w], stay, f, w, u, b)
      <3>1. PICK w \in VSwitches : \E u \in Metas(w), b \in {0, 1} :
               IsOf(R, I[w], d.flows, f, w, u, b)
        BY DEF FlowsFit
      <3>2. PICK u \in Metas(w), b \in {0, 1} : IsOf(R, I[w], d.flows, f, w, u, b)
        BY <3>1
      <3>3. PICK h \in d.flows : Paired(R, f, h, w, u, b)
        BY <3>2 DEF IsOf
      <3>4. f \in stay <=> h \in stay
        BY <3>3 DEF Paired
      <3>5. f \notin stay => f.meta.vs = v
        <4>1. f.meta.vs = w
          BY <3>3, MetaOfCopy DEF Paired
        <4>2. QED
          BY <3>2, <4>1 DEF IsOf
      <3>6. f \in stay => IsOf(R, I[w], stay, f, w, u, b)
        BY <3>2, <3>3, <3>4 DEF IsOf
      <3>7. QED
        BY <3>5, <3>6 DEF FlowsFit
    <2>2. stay \subseteq d.flows
      OBVIOUS
    <2> HIDE DEF stay
    <2>3. QED
      BY <2>1, <2>2 DEF FlowsFit, SameOfOthers
  <1>2. e = d \/ e.flows = d.flows \/ e.flows = stay
    BY DEF GroupMod, DeleteGroups, AllGroups
  <1>3. e = d \/ OtherGroupsStay(g, d, e)
    <2>1. CASE c = "delete"
      <3>1. e = d \/ (/\ DOMAIN e.groups = DOMAIN d.groups \ gone
                      /\ \A h \in DOMAIN e.groups : e.groups[h] = d.groups[h])
        BY <2>1 DEF GroupMod, DeleteGroups, AllGroups
      <3>2. QED
        BY <3>1 DEF OtherGroupsStay
    <2>2. CASE c # "delete"
      <3>1. e = d \/ (/\ DOMAIN e.groups = DOMAIN d.groups \cup {g}
                      /\ \A h \in DOMAIN d.groups : h # g => e.groups[h] = d.groups[h])
        BY <2>2 DEF GroupMod
      <3>2. QED
        BY <3>1 DEF OtherGroupsStay
    <2>3. QED
      BY <2>1, <2>2
  <1>4. OtherGroupsStay(g, d, d) /\ SameOfOthers(v, d.flows, d.flows)
    BY DEF OtherGroupsStay, SameOfOthers
  <1> HIDE DEF stay
  <1>5. QED
    BY <1>1, <1>2, <1>3, <1>4

-----------------------------------------------------------------------------
(***************************************************************************)
(* The ids that a message is given                                         *)
(***************************************************************************)
\* Groups with the places where they are named first
Placed(groups) ==
  /\ IsFiniteSet(DOMAIN groups)
  /\ \A g \in DOMAIN groups : groups[g] \in Nat
  /\ \A g, h \in DOMAIN groups : groups[g] = groups[h] => g = h

LEMMA RanksDiffer ==
  ASSUME NEW S, IsFiniteSet(S), NEW p, \A g \in S : p[g] \in Nat,
         \A g, h \in S : p[g] = p[h] => g = h,
         NEW g \in S, NEW h \in S, p[g] < p[h]
  PROVE  Cardinality({q \in S : p[q] < p[g]}) < Cardinality({q \in S : p[q] < p[h]})
  <1> DEFINE below(q) == {o \in S : p[o] < p[q]}
  <1>1. IsFiniteSet(below(h)) /\ below(g) \subseteq below(h)
    BY FS_Subset
  <1>2. g \in below(h) /\ g \notin below(g)
    BY DEF below
  <1>3. IsFiniteSet(below(g)) /\ Cardinality(below(g)) \in Nat
        /\ Cardinality(below(h)) \in Nat
    BY <1>1, FS_Subset, FS_CardinalityType
  <1>4. Cardinality(below(g)) <= Cardinality(below(h))
        /\ (Cardinality(below(g)) = Cardinality(below(h)) => below(g) = below(h))
    BY <1>1, FS_Subset
  <1> HIDE DEF below
  <1>5. Cardinality(below(g)) < Cardinality(below(h))
    BY <1>2, <1>3, <1>4
  <1>6. QED
    BY <1>5 DEF below

\* r is the map and the next id after the new groups got different ids
Given(map, next, groups, r) ==
  /\ r.next \in Nat /\ next <= r.next
  /\ DOMAIN r.map = DOMAIN map \cup DOMAIN groups
  /\ \A g \in DOMAIN map : r.map[g] = map[g]
  /\ \A g \in DOMAIN groups \ DOMAIN map : r.map[g] \in next..(r.next - 1)
  /\ \A g, h \in DOMAIN groups \ DOMAIN map : r.map[g] = r.map[h] => g = h

LEMMA WithIdsCorrect ==
  ASSUME NEW map, NEW next \in Nat, NEW groups, Placed(groups),
         NEW r, r = WithIds(map, next, groups)
  PROVE  Given(map, next, groups, r)
  <1> DEFINE fresh    == DOMAIN groups \ DOMAIN map
             below(g) == {h \in fresh : groups[h] < groups[g]}
  <1>1. IsFiniteSet(fresh) /\ Cardinality(fresh) \in Nat
    BY FS_Subset, FS_CardinalityType DEF Placed
  <1>2. /\ r.next = next + Cardinality(fresh)
        /\ DOMAIN r.map = DOMAIN map \cup fresh
        /\ \A g \in DOMAIN map : r.map[g] = map[g]
        /\ \A g \in fresh : r.map[g] = next + Cardinality(below(g))
    BY DEF WithIds
  <1>3. \A g \in fresh : groups[g] \in Nat
    BY DEF Placed
  <1>4. \A g, h \in fresh : groups[g] = groups[h] => g = h
    BY DEF Placed
  <1>5. ASSUME NEW g \in fresh
        PROVE  Cardinality(below(g)) \in Nat /\ Cardinality(below(g)) < Cardinality(fresh)
    <2>1. below(g) \subseteq fresh /\ g \notin below(g)
      BY <1>3
    <2>2. IsFiniteSet(below(g)) /\ Cardinality(below(g)) \in Nat
          /\ Cardinality(below(g)) <= Cardinality(fresh)
          /\ (Cardinality(below(g)) = Cardinality(fresh) => below(g) = fresh)
      BY <1>1, <2>1, FS_Subset, FS_CardinalityType
    <2> HIDE DEF below, fresh
    <2>3. QED
      BY <1>1, <2>1, <2>2
  <1>6. ASSUME NEW g \in fresh, NEW h \in fresh, groups[g] < groups[h]
        PROVE  Cardinality(below(g)) < Cardinality(below(h))
    <2> HIDE DEF fresh
    <2>1. QED
      BY <1>1, <1>3, <1>4, <1>6, RanksDiffer, SMTT(30)
  <1> HIDE DEF below
  <1>7. \A g, h \in fresh : r.map[g] = r.map[h] => g = h
    <2> SUFFICES ASSUME NEW g \in fresh, NEW h \in fresh, g # h
                 PROVE  r.map[g] # r.map[h]
      OBVIOUS
    <2>1. groups[g] \in Nat /\ groups[h] \in Nat /\ groups[g] # groups[h]
      BY <1>3, <1>4
    <2>2. groups[g] < groups[h] \/ groups[h] < groups[g]
      BY <2>1
    <2>3. Cardinality(below(g)) # Cardinality(below(h))
          /\ Cardinality(below(g)) \in Nat /\ Cardinality(below(h)) \in Nat
      BY <1>5, <1>6, <2>2
    <2> HIDE DEF fresh
    <2>4. QED
      BY <1>2, <2>3
  <1>8. \A g \in fresh : r.map[g] \in next..(r.next - 1)
    <2> HIDE DEF fresh
    <2>1. QED
      BY <1>1, <1>2, <1>5
  <1>9. QED
    BY <1>1, <1>2, <1>7, <1>8 DEF Given

\* A set of naturals that is not empty has a least element.
LEMMA LeastNatural ==
  ASSUME NEW S, S \subseteq Nat, S # {}
  PROVE  \E n \in S : \A m \in S : n <= m
  <1>1. PICK n \in S : \A m \in S : ~ (<<m, n>> \in OpToRel(<, Nat))
    BY NatLessThanWellFounded, WFMin
  <1>2. ASSUME NEW m \in S PROVE n <= m
    <2>1. <<m, n>> \in Nat \X Nat /\ <<m, n>>[1] = m /\ <<m, n>>[2] = n
      OBVIOUS
    <2>2. m < n => <<m, n>> \in OpToRel(<, Nat)
      BY <2>1 DEF OpToRel
    <2>3. ~ (m < n)
      BY <1>1, <2>2
    <2>4. m \in Nat /\ n \in Nat
      OBVIOUS
    <2>5. QED
      BY <2>3, <2>4
  <1>3. QED
    BY <1>2

LEMMA MinIsMember ==
  ASSUME NEW S, S \subseteq Nat, S # {}
  PROVE  Min(S) \in S
  BY LeastNatural DEF Min

\* No two groups are named first in one place, and a message that is not refused
\* is looked at to its end.
LEMMA GroupsAskedCorrect ==
  ASSUME NEW v, NEW length \in Nat, NEW actions, DOMAIN actions = 1..length,
         \A n \in 1..length : actions[n] \in Action
  PROVE  /\ Placed(GroupsAsked(v, actions))
         /\ ~ Refused(v, actions) =>
              \A n \in 1..length : actions[n].kind = "group" =>
                actions[n].id \in DOMAIN GroupsAsked(v, actions)
  <1> DEFINE seen  == {n \in DOMAIN actions :
                         \A o \in 1..n : ~ UnknownOutput(v, actions[o])}
             named == {n \in seen : actions[n].kind = "group"}
             at(g) == {n \in seen : actions[n].kind = "group" /\ actions[n].id = g}
             asked == GroupsIn({actions[n] : n \in seen})
  <1>1. /\ DOMAIN GroupsAsked(v, actions) = asked
        /\ \A g \in asked : GroupsAsked(v, actions)[g] = Min(at(g))
    BY DEF GroupsAsked
  <1>2. asked = {actions[n].id : n \in named}
    BY DEF GroupsIn
  <1>3. IsFiniteSet(named) /\ named \subseteq Nat
    <2>1. named \subseteq 1..length /\ IsFiniteSet(1..length)
      BY FS_Interval
    <2>2. QED
      BY <2>1, FS_Subset
  <1>4. IsFiniteSet(asked)
    <2> DEFINE id == [n \in named |-> actions[n].id]
    <2>1. id \in Surjection(named, asked)
      BY <1>2 DEF Surjection
    <2>2. QED
      BY <1>3, <2>1, FS_Surjection
  <1>5. ASSUME NEW g \in asked
        PROVE  Min(at(g)) \in at(g) /\ Min(at(g)) \in Nat
    <2>1. at(g) \subseteq Nat /\ at(g) # {}
      BY <1>2, <1>3
    <2>2. QED
      BY <2>1, MinIsMember
  <1>6. \A g, h \in asked : Min(at(g)) = Min(at(h)) => g = h
    BY <1>5
  <1>7. ASSUME ~ Refused(v, actions), NEW n \in 1..length, actions[n].kind = "group"
        PROVE  actions[n].id \in asked
    <2>1. \A o \in 1..length : ~ UnknownOutput(v, actions[o])
      BY <1>7 DEF Refused, ToSet
    <2>2. n \in named
      BY <1>7, <2>1
    <2>3. QED
      BY <1>2, <2>2
  <1> HIDE DEF asked, at
  <1>8. QED
    BY <1>1, <1>4, <1>5, <1>6, <1>7 DEF Placed

LEMMA SwitchOfTenant ==
  ASSUME NEW v \in VSwitches, NEW s \in ToSet(Dependent[v])
  PROVE  s \in Switches
  BY DEF Switches

\* A message is pushed to switches of its virtual switch only.
LEMMA PushedToOwn ==
  ASSUME NEW v, NEW port
  PROVE  DOMAIN MatchPorts(v, port) \subseteq ToSet(Dependent[v])
  BY DEF MatchPorts, ToSet

LEMMA ReservedFirst ==
  ASSUME NEW s \in Switches
  PROVE  /\ FirstId[s] \in Nat
         /\ \A r \in Reserved(s) : r \in Nat /\ r < FirstId[s]
  <1>1. PICK v \in VSwitches : s \in ToSet(Dependent[v])
    BY DEF Switches
  <1>2. FirstId[s] \in Nat \ {0}
    BY <1>1, RewriteAssumption
  <1>3. ASSUME NEW o \in Outputs(s)
        PROVE  OutputId[s][o[1]][o[2]] \in 1..(FirstId[s] - 1)
    <2>1. PICK w \in VSwitches : /\ s \in ToSet(Dependent[w])
                                 /\ \E p \in DOMAIN OutputId[s][w] : o = <<w, p>>
      BY DEF Outputs, Tenants
    <2>2. QED
      BY <2>1, RewriteAssumption
  <1>4. QED
    BY <1>2, <1>3 DEF Reserved

\* What a message that asks for the groups on the switches leaves of the maps
Asked(v, switches, groups) ==
  \A s \in Switches : \A w \in VSwitches :
    /\ DOMAIN group_id_map[s][w] \subseteq DOMAIN group_id_map[s][w]'
    /\ \A g \in DOMAIN group_id_map[s][w] :
         group_id_map[s][w]'[g] = group_id_map[s][w][g]
    /\ w # v => group_id_map[s][w]' = group_id_map[s][w]
    /\ s \in switches /\ w = v => DOMAIN groups \subseteq DOMAIN group_id_map[s][w]'

LEMMA AskIdsCorrect ==
  ASSUME IdsApart, NEW v \in VSwitches, NEW switches, NEW groups, Placed(groups),
         AskIds(v, switches, groups)
  PROVE  IdsApart' /\ Asked(v, switches, groups)
  <1> DEFINE new(s) == WithIds(group_id_map[s][v], next_id[s], groups)
  <1>1. ASSUME NEW s \in Switches
        PROVE  /\ next_id'[s] = IF s \in switches THEN new(s).next ELSE next_id[s]
               /\ \A w \in VSwitches :
                    group_id_map'[s][w] = IF s \in switches /\ w = v THEN new(s).map
                                          ELSE group_id_map[s][w]
    BY DEF AskIds
  <1>2. ASSUME NEW s \in Switches
        PROVE  /\ new(s).next \in Nat /\ next_id[s] <= new(s).next
               /\ DOMAIN new(s).map = DOMAIN group_id_map[s][v] \cup DOMAIN groups
               /\ \A g \in DOMAIN group_id_map[s][v] :
                    new(s).map[g] = group_id_map[s][v][g]
               /\ \A g \in DOMAIN groups \ DOMAIN group_id_map[s][v] :
                    new(s).map[g] \in next_id[s]..(new(s).next - 1)
               /\ \A g, h \in DOMAIN groups \ DOMAIN group_id_map[s][v] :
                    new(s).map[g] = new(s).map[h] => g = h
    <2>1. PICK r, map, next : /\ r = new(s) /\ r = WithIds(map, next, groups)
                              /\ map = group_id_map[s][v] /\ next = next_id[s]
      OBVIOUS
    <2>2. next \in Nat
      BY <2>1 DEF IdsApart
    <2>3. Given(map, next, groups, r)
      BY <2>1, <2>2, WithIdsCorrect
    <2> HIDE DEF new
    <2>4. QED
      BY <2>1, <2>3 DEF Given
  <1> HIDE DEF new
  <1>3. Asked(v, switches, groups)
    BY <1>1, <1>2 DEF Asked
  <1>4. ASSUME NEW s \in Switches
        PROVE  /\ next_id'[s] \in Nat /\ FirstId[s] <= next_id'[s]
               /\ \A w \in VSwitches : \A g \in DOMAIN group_id_map'[s][w] :
                    /\ group_id_map'[s][w][g] \in FirstId[s]..(next_id'[s] - 1)
                    /\ \A o \in VSwitches : \A h \in DOMAIN group_id_map'[s][o] :
                         group_id_map'[s][w][g] = group_id_map'[s][o][h]
                           => w = o /\ g = h
    <2>1. FirstId[s] \in Nat
      BY ReservedFirst
    <2>2. /\ next_id[s] \in Nat /\ FirstId[s] <= next_id[s]
          /\ \A w \in VSwitches : \A g \in DOMAIN group_id_map[s][w] :
               /\ group_id_map[s][w][g] \in FirstId[s]..(next_id[s] - 1)
               /\ \A o \in VSwitches : \A h \in DOMAIN group_id_map[s][o] :
                    group_id_map[s][w][g] = group_id_map[s][o][h] => w = o /\ g = h
      BY DEF IdsApart
    <2>3. CASE s \notin switches
      <3>1. next_id'[s] = next_id[s]
            /\ \A w \in VSwitches : group_id_map'[s][w] = group_id_map[s][w]
        BY <1>1, <2>3
      <3>2. QED
        BY <2>2, <3>1
    <2>4. CASE s \in switches
      <3>1. next_id'[s] \in Nat /\ next_id[s] <= next_id'[s]
            /\ next_id'[s] = new(s).next
        BY <1>1, <1>2, <2>4
      <3> DEFINE map(w) == group_id_map'[s][w]
                 old(w) == group_id_map[s][w]
      <3>2. ASSUME NEW w \in VSwitches, NEW g \in DOMAIN map(w)
            PROVE  \/ /\ g \in DOMAIN old(w) /\ map(w)[g] = old(w)[g]
                      /\ map(w)[g] \in FirstId[s]..(next_id[s] - 1)
                   \/ /\ w = v /\ g \in DOMAIN groups \ DOMAIN old(v)
                      /\ map(w)[g] = new(s).map[g]
                      /\ map(w)[g] \in next_id[s]..(next_id'[s] - 1)
        BY <1>1, <1>2, <2>2, <2>4, <3>1
      <3>3. \A w, o \in VSwitches : \A g \in DOMAIN old(w), h \in DOMAIN old(o) :
              old(w)[g] = old(o)[h] => w = o /\ g = h
        BY <2>2
      <3>4. \A g, h \in DOMAIN groups \ DOMAIN old(v) :
              new(s).map[g] = new(s).map[h] => g = h
        BY <1>2
      <3>5. next_id[s] \in Nat /\ next_id'[s] \in Nat /\ FirstId[s] \in Nat
        BY <2>1, <2>2, <3>1
      <3> HIDE DEF map, old
      <3>6. ASSUME NEW w \in VSwitches, NEW g \in DOMAIN map(w)
            PROVE  map(w)[g] \in FirstId[s]..(next_id'[s] - 1)
        BY <2>1, <2>2, <3>1, <3>2
      <3>7. ASSUME NEW w \in VSwitches, NEW g \in DOMAIN map(w),
                   NEW o \in VSwitches, NEW h \in DOMAIN map(o),
                   map(w)[g] = map(o)[h]
            PROVE  w = o /\ g = h
        <4>1. CASE g \in DOMAIN old(w) /\ map(w)[g] = old(w)[g]
                   /\ map(w)[g] \in FirstId[s]..(next_id[s] - 1)
          <5>1. ~ map(o)[h] \in next_id[s]..(next_id'[s] - 1)
            BY <3>7, <3>5, <4>1
          <5>2. h \in DOMAIN old(o) /\ map(o)[h] = old(o)[h]
            BY <3>2, <3>7, <5>1
          <5>3. old(w)[g] = old(o)[h]
            BY <3>7, <4>1, <5>2
          <5>4. g \in DOMAIN old(w) /\ h \in DOMAIN old(o)
            BY <4>1, <5>2
          <5>5. QED
            BY <3>3, <5>3, <5>4
        <4>2. CASE /\ w = v /\ g \in DOMAIN groups \ DOMAIN old(v)
                   /\ map(w)[g] = new(s).map[g]
                   /\ map(w)[g] \in next_id[s]..(next_id'[s] - 1)
          <5>1. o = v /\ h \in DOMAIN groups \ DOMAIN old(v)
                /\ map(o)[h] = new(s).map[h]
            <6>1. ~ map(o)[h] \in FirstId[s]..(next_id[s] - 1)
              BY <3>7, <3>5, <4>2
            <6>2. QED
              BY <3>2, <3>7, <6>1
          <5>2. QED
            BY <3>7, <3>4, <4>2, <5>1
        <4>3. QED
          BY <3>2, <4>1, <4>2
      <3>8. QED
        BY <2>1, <2>2, <3>1, <3>6, <3>7 DEF map
    <2>5. QED
      BY <2>3, <2>4
  <1>5. IdsApart'
    BY <1>4 DEF IdsApart
  <1>6. QED
    BY <1>3, <1>5

-----------------------------------------------------------------------------
(***************************************************************************)
(* What the rewriting of one switch makes of an entry                      *)
(***************************************************************************)
\* The action is known to the virtual switch, and its group has been asked for.
Ready(v, map, a) ==
  /\ a \in Action /\ ~ UnknownOutput(v, a)
  /\ a.kind = "group" => a.id \in DOMAIN map

LEMMA OutputIsReserved ==
  ASSUME NEW v \in VSwitches, NEW s \in ToSet(Dependent[v]),
         NEW p \in PortsOf[v] \cup {Flood}
  PROVE  OutputId[s][v][p] \in Reserved(s)
  <1>1. DOMAIN OutputId[s][v] = PortsOf[v] \cup {Flood}
    BY RewriteAssumption
  <1>2. <<v, p>> \in Outputs(s)
    BY <1>1 DEF Outputs, Tenants
  <1>3. <<v, p>>[1] = v /\ <<v, p>>[2] = p
    OBVIOUS
  <1>4. QED
    BY <1>2, <1>3 DEF Reserved

\* An output becomes a group of the hypervisor, a group one of v's.
LEMMA ActionRewritten ==
  ASSUME NEW v \in VSwitches, NEW s \in ToSet(Dependent[v]), NEW map,
         NEW a, Ready(v, map, a)
  PROVE  /\ a.kind = "none" => RewriteAction(s, v, map, a) = NoAction
         /\ a.kind = "output" =>
              \E g \in Reserved(s) : RewriteAction(s, v, map, a) = Group(g)
         /\ a.kind = "group" =>
              \E g \in Range(map) : RewriteAction(s, v, map, a) = Group(g)
         /\ a.kind \in {"none", "output", "group"}
  <1>1. a.kind \in {"none", "output", "group"}
    BY DEF Ready, Action, NoAction
  <1>2. CASE a.kind = "none"
    BY <1>2 DEF RewriteAction
  <1>3. CASE a.kind = "output"
    <2>1. a.id \in PortsOf[v] \cup {Controller, Flood}
      BY <1>3 DEF Ready, UnknownOutput
    <2>2. CASE a.id = Controller
      BY <1>3, <2>2 DEF RewriteAction, Reserved
    <2>3. CASE a.id # Controller
      <3>1. OutputId[s][v][a.id] \in Reserved(s)
        BY <2>1, <2>3, OutputIsReserved
      <3>2. QED
        BY <1>3, <2>3, <3>1 DEF RewriteAction
    <2>4. QED
      BY <1>3, <2>2, <2>3
  <1>4. CASE a.kind = "group"
    BY <1>4 DEF Ready, RewriteAction, Range
  <1>5. QED
    BY <1>1, <1>2, <1>3, <1>4

LEMMA GroupsInSet ==
  /\ GroupsIn({NoAction}) = {}
  /\ \A g : GroupsIn({Group(g)}) = {g}
  /\ \A S, T : GroupsIn(S \cup T) = GroupsIn(S) \cup GroupsIn(T)
  <1>1. NoAction.kind = "none"
    BY DEF NoAction
  <1>2. GroupsIn({NoAction}) = {}
    BY <1>1 DEF GroupsIn
  <1>3. ASSUME NEW g PROVE GroupsIn({Group(g)}) = {g}
    <2>1. Group(g).kind = "group" /\ Group(g).id = g
      BY DEF Group
    <2>2. QED
      BY <2>1 DEF GroupsIn
  <1>4. ASSUME NEW S, NEW T
        PROVE  GroupsIn(S \cup T) = GroupsIn(S) \cup GroupsIn(T)
    BY DEF GroupsIn
  <1>5. QED
    BY <1>2, <1>3, <1>4

LEMMA GroupsOfAction ==
  ASSUME NEW v \in VSwitches, NEW s \in ToSet(Dependent[v]), NEW map,
         NEW a, Ready(v, map, a)
  PROVE  /\ GroupsIn({RewriteAction(s, v, map, a)}) \subseteq Reserved(s) \cup Range(map)
         /\ a.kind = "output" =>
              GroupsIn({RewriteAction(s, v, map, a)}) \subseteq Reserved(s)
         /\ a.kind = "none" => GroupsIn({RewriteAction(s, v, map, a)}) = {}
  BY ActionRewritten, GroupsInSet

\* The copies of an entry differ in the bit and in an output group at most.
LEMMA CopiesPaired ==
  ASSUME NEW v \in VSwitches, NEW s \in ToSet(Dependent[v]), NEW map,
         NEW m, NEW in, m.write \in ActionSet,
         \A a \in {m.apply, m.write.group, m.write.output} : Ready(v, map, a),
         NEW p, p = Copy(s, v, map, m, in, 0),
         NEW q, q = Copy(s, v, map, m, in, 1)
  PROVE  /\ Paired(Reserved(s), p, q, v, m.meta, 0)
         /\ GroupsOfEntry(p) \subseteq Reserved(s) \cup Range(map)
         /\ GroupsOfEntry(q) \subseteq Reserved(s) \cup Range(map)
         /\ p.table = (m.table + 2) % 256
  <1> DEFINE groups(a) == GroupsIn({RewriteAction(s, v, map, a)})
             R == Reserved(s)
  <1>1. /\ p.meta = AddToMatch(0, v, m.meta) /\ q.meta = AddToMatch(1, v, m.meta)
        /\ p.table = (m.table + 2) % 256 /\ q.table = p.table
        /\ p.prio = q.prio /\ p.in = q.in
        /\ p.apply = RewriteAction(s, v, map, m.apply) /\ q.apply = p.apply
    BY DEF Copy
  <1>2. /\ p.write.output = NoAction /\ q.write.output = NoAction
        /\ q.write.group = RewriteAction(s, v, map, m.write.group)
        /\ p.write.group = IF HasGroup(m.write)
                           THEN RewriteAction(s, v, map, m.write.group)
                           ELSE RewriteAction(s, v, map, m.write.output)
    BY DEF Copy, SetWithOutput, SetWithoutOutput, NoActions
  <1>3. \A f : GroupsOfEntry(f) = GroupsIn({f.apply}) \cup GroupsIn({f.write.output})
                                  \cup GroupsIn({f.write.group})
    BY DEF GroupsOfEntry, GroupsIn
  <1>4. /\ GroupsOfEntry(q) = groups(m.apply) \cup groups(m.write.group)
        /\ GroupsOfEntry(p) = groups(m.apply) \cup
             (IF HasGroup(m.write) THEN groups(m.write.group)
              ELSE groups(m.write.output))
    BY <1>1, <1>2, <1>3, GroupsInSet, ZenonT(60)
  <1>5. /\ groups(m.apply) \subseteq R \cup Range(map)
        /\ groups(m.write.group) \subseteq R \cup Range(map)
        /\ groups(m.write.output) \subseteq R
    <2>1. m.write.output.kind \in {"none", "output"}
      BY DEF ActionSet, Action, NoAction
    <2>2. QED
      BY <2>1, GroupsOfAction
  <1>6. ~ HasGroup(m.write) => groups(m.write.group) = {}
    <2>1. NoAction.kind = "none"
      BY DEF NoAction
    <2>2. QED
      BY <2>1, GroupsOfAction DEF HasGroup
  <1> HIDE DEF groups
  <1>7. GroupsOfEntry(p) \ R = GroupsOfEntry(q) \ R
    BY <1>4, <1>5, <1>6
  <1>8. 1 - 0 = 1
    OBVIOUS
  <1>9. QED
    BY <1>1, <1>4, <1>5, <1>7, <1>8 DEF Paired

-----------------------------------------------------------------------------
(***************************************************************************)
(* The steps: each keeps the invariant and is about one tenant.            *)
(***************************************************************************)
\* Nothing of the other tenants, and no group of the hypervisor, is touched.
OneTenant(v) ==
  \A s \in Switches :
    /\ SameOfOthers(v, device[s].flows, device'[s].flows)
    /\ \A w \in VSwitches \ {v} : group_id_map'[s][w] = group_id_map[s][w]
    /\ \A g \in DOMAIN device[s].groups \cup DOMAIN device'[s].groups :
         \/ g \in IdsOf(s, v)'
         \/ /\ g \in DOMAIN device[s].groups \cap DOMAIN device'[s].groups
            /\ device'[s].groups[g] = device[s].groups[g]

NewIds(s) == [w \in VSwitches |-> IdsOf(s, w)']

LEMMA InitCorrect == Init => IInv
  <1> SUFFICES ASSUME Init PROVE IInv
    OBVIOUS
  <1>1. IdsApart
    <2> SUFFICES ASSUME NEW s \in Switches
                 PROVE  /\ next_id[s] \in Nat /\ FirstId[s] <= next_id[s]
                        /\ \A v \in VSwitches : DOMAIN group_id_map[s][v] = {}
      BY DEF IdsApart
    <2>1. next_id[s] = FirstId[s] /\ FirstId[s] \in Nat
      BY ReservedFirst DEF Init
    <2>2. \A v \in VSwitches : group_id_map[s][v] = <<>>
      BY DEF Init
    <2>3. DOMAIN <<>> = {}
      OBVIOUS
    <2>4. QED
      BY <2>1, <2>2, <2>3
  <1>2. ReservedStay
    BY DEF Init, ReservedStay, Registered
  <1>3. EntriesFit
    BY DEF Init, EntriesFit, FlowsFit
  <1>4. QED
    BY <1>1, <1>2, <1>3 DEF IInv

\* The entries fit the new ids, too, until they are changed.
LEMMA EntriesFitNewIds ==
  ASSUME IInv, NEW v \in VSwitches, NEW switches, NEW groups,
         Asked(v, switches, groups), NEW s \in Switches
  PROVE  FlowsFit(Reserved(s), NewIds(s), device[s].flows)
  <1> DEFINE I == [w \in VSwitches |-> IdsOf(s, w)]
  <1>1. FlowsFit(Reserved(s), I, device[s].flows)
    BY DEF IInv, EntriesFit
  <1>2. \A w \in VSwitches : I[w] \subseteq NewIds(s)[w]
    BY DEF Asked, IdsOf, Range, NewIds
  <1>3. PICK J, F : J = NewIds(s) /\ F = device[s].flows
    OBVIOUS
  <1>4. PICK K : K = I
    OBVIOUS
  <1>5. QED
    BY <1>1, <1>2, <1>3, <1>4, MoreIds

\* Ids may be given without a change of the tables.
LEMMA OnlyAsked ==
  ASSUME IInv, NEW v \in VSwitches, NEW switches, NEW groups, Placed(groups),
         AskIds(v, switches, groups), UNCHANGED device
  PROVE  IInv' /\ OneTenant(v)
  <1>1. IdsApart' /\ Asked(v, switches, groups)
    BY AskIdsCorrect DEF IInv
  <1>2. ReservedStay'
    BY DEF IInv, ReservedStay
  <1>3. EntriesFit'
    <2> SUFFICES ASSUME NEW s \in Switches
                 PROVE  FlowsFit(Reserved(s), NewIds(s), device'[s].flows)
      BY DEF EntriesFit, NewIds
    <2>1. FlowsFit(Reserved(s), NewIds(s), device[s].flows)
      BY <1>1, EntriesFitNewIds
    <2>2. QED
      BY <2>1
  <1>4. OneTenant(v)
    BY <1>1 DEF OneTenant, Asked, SameOfOthers
  <1>5. QED
    BY <1>1, <1>2, <1>3, <1>4 DEF IInv

\* What is left to show of a message that is pushed: each switch on its own
LEMMA PushedCorrect ==
  ASSUME IInv, NEW v \in VSwitches, NEW switches, NEW groups, Placed(groups),
         AskIds(v, switches, groups),
         \A s \in Switches :
           /\ FlowsFit(Reserved(s), NewIds(s), device'[s].flows)
           /\ SameOfOthers(v, device[s].flows, device'[s].flows)
           /\ \A g \in DOMAIN device[s].groups \cup DOMAIN device'[s].groups :
                \/ g \in IdsOf(s, v)'
                \/ /\ g \in DOMAIN device[s].groups \cap DOMAIN device'[s].groups
                   /\ device'[s].groups[g] = device[s].groups[g]
  PROVE  IInv' /\ OneTenant(v)
  <1>1. IdsApart' /\ Asked(v, switches, groups)
    BY AskIdsCorrect DEF IInv
  <1>2. ReservedStay'
    <2> SUFFICES ASSUME NEW s \in Switches, NEW r \in Reserved(s)
                 PROVE  r \in DOMAIN device'[s].groups
      BY DEF ReservedStay
    <2>1. r \in DOMAIN device[s].groups
      BY DEF IInv, ReservedStay
    <2>2. r \notin IdsOf(s, v)'
      <3>1. \A g \in IdsOf(s, v)' : g \in FirstId[s]..(next_id'[s] - 1)
        BY <1>1 DEF IdsApart, IdsOf, Range
      <3>2. FirstId[s] \in Nat /\ r \in Nat /\ r < FirstId[s]
        BY ReservedFirst
      <3>3. QED
        BY <3>1, <3>2
    <2>3. QED
      BY <2>1, <2>2
  <1>3. EntriesFit'
    BY DEF EntriesFit, NewIds
  <1>4. OneTenant(v)
    BY <1>1 DEF OneTenant, Asked
  <1>5. QED
    BY <1>1, <1>2, <1>3, <1>4 DEF IInv

LEMMA FlowModCorrect ==
  ASSUME IInv, NEW v \in VSwitches, NEW msg \in FlowMods[v],
         HandleFlowMod(v, msg.command, msg.entry)
  PROVE  IInv' /\ OneTenant(v)
  <1> DEFINE m       == msg.entry
             ports   == MatchPorts(v, m.in)
             pushed  == DOMAIN ports
             actions == <<m.apply, m.write.group, m.write.output>>
             groups  == GroupsAsked(v, actions)
             map(s)  == group_id_map'[s][v]
             c       == msg.command
  <1>1. /\ m.apply \in Action /\ m.write \in ActionSet
        /\ m.write.group \in Action /\ m.write.output \in Action
        /\ c \in {"add", "modify", "delete"}
    <2>1. m \in Entries
      BY MessageAssumption
    <2>2. m.apply \in Action /\ m.write \in ActionSet
      BY <2>1 DEF Entries
    <2>3. QED
      BY <2>2, MessageAssumption DEF ActionSet
  <1>7. m.table \in 0..255
    <2>1. m \in Entries
      BY MessageAssumption
    <2>2. QED
      BY <2>1 DEF Entries
  <1>8. c = "add" /\ AddsTold => m.table \in ToSet(Tables)
    BY DEF AddsTold
  <1>2. /\ Placed(groups)
        /\ ~ Refused(v, actions) =>
             \A a \in {m.apply, m.write.group, m.write.output} :
               a.kind = "group" => a.id \in DOMAIN groups
    <2>1. DOMAIN actions = 1..3 /\ \A n \in 1..3 : actions[n] \in Action
      BY <1>1
    <2>2. PICK acts : acts = actions
      OBVIOUS
    <2>3. DOMAIN acts = 1..3 /\ \A n \in 1..3 : acts[n] \in Action
      BY <2>1, <2>2
    <2>4. /\ Placed(GroupsAsked(v, acts))
          /\ ~ Refused(v, acts) =>
               \A n \in 1..3 : acts[n].kind = "group" =>
                 acts[n].id \in DOMAIN GroupsAsked(v, acts)
      BY <2>3, GroupsAskedCorrect
    <2>5. actions[1] = m.apply /\ actions[2] = m.write.group
          /\ actions[3] = m.write.output
      OBVIOUS
    <2> HIDE DEF actions, m
    <2>6. QED
      BY <2>2, <2>4, <2>5
  <1>3. CASE UNCHANGED vars
    <2>1. IInv'
      BY <1>3 DEF IInv, IdsApart, ReservedStay, EntriesFit, IdsOf, vars
    <2>2. OneTenant(v)
      BY <1>3 DEF OneTenant, SameOfOthers, vars
    <2>3. QED
      BY <2>1, <2>2
  <1>4. CASE AskIds(v, FirstOf(v, pushed), groups) /\ UNCHANGED device
    <2>1. PICK sw, gs : sw = FirstOf(v, pushed) /\ gs = groups
      OBVIOUS
    <2> HIDE DEF pushed, groups
    <2>2. Placed(gs) /\ AskIds(v, sw, gs) /\ UNCHANGED device
      BY <1>2, <1>4, <2>1
    <2>3. QED
      BY <2>2, OnlyAsked
  <1>5. CASE /\ ~ Refused(v, actions)
             /\ AskIds(v, pushed, groups)
             /\ device' = [s \in Switches |->
                  IF s \notin pushed THEN device[s]
                  ELSE FlowMod(FlowMod(device[s], c, Copy(s, v, map(s), m, ports[s], 0)),
                               c, Copy(s, v, map(s), m, ports[s], 1))]
    <2>1. Asked(v, pushed, groups)
      <3> HIDE DEF pushed, groups
      <3>1. QED
        BY <1>2, <1>5, AskIdsCorrect DEF IInv
    <2>2. ASSUME NEW s \in Switches
          PROVE  /\ FlowsFit(Reserved(s), NewIds(s), device'[s].flows)
                 /\ SameOfOthers(v, device[s].flows, device'[s].flows)
                 /\ device'[s].groups = device[s].groups
      <3>1. FlowsFit(Reserved(s), NewIds(s), device[s].flows)
        <4> HIDE DEF pushed, groups
        <4>1. QED
          BY <2>1, EntriesFitNewIds
      <3>2. CASE s \notin pushed
        <4>1. device'[s] = device[s]
          BY <1>5, <3>2
        <4>2. QED
          BY <3>1, <4>1 DEF SameOfOthers
      <3>3. CASE s \in pushed
        <4>1. s \in ToSet(Dependent[v])
          BY <3>3, PushedToOwn
        <4>2. PICK d, e, I, p, q, own, in :
                /\ d = device[s] /\ e = device'[s] /\ I = NewIds(s)
                /\ own = map(s) /\ in = ports[s]
                /\ p = Copy(s, v, own, m, in, 0)
                /\ q = Copy(s, v, own, m, in, 1)
          BY SMTT(30)
        <4>3. e = FlowMod(FlowMod(d, c, p), c, q)
          BY <1>5, <3>3, <4>2
        <4>4. \A a \in {m.apply, m.write.group, m.write.output} : Ready(v, own, a)
          <5>1. DOMAIN groups \subseteq DOMAIN own
            <6> HIDE DEF pushed, groups
            <6>1. QED
              BY <2>1, <3>3, <4>2 DEF Asked
          <5>2. \A a \in {m.apply, m.write.group, m.write.output} :
                  ~ UnknownOutput(v, a)
            BY <1>5 DEF Refused, ToSet
          <5> HIDE DEF groups, actions
          <5>3. QED
            BY <1>1, <1>2, <1>5, <5>1, <5>2 DEF Ready
        <4>5. I[v] = Range(own)
          BY <4>2 DEF NewIds, IdsOf
        <4> HIDE DEF pushed, groups, actions, ports, map
        <4>6. /\ Paired(Reserved(s), p, q, v, m.meta, 0)
              /\ GroupsOfEntry(p) \subseteq Reserved(s) \cup Range(own)
              /\ GroupsOfEntry(q) \subseteq Reserved(s) \cup Range(own)
              /\ p.table = (m.table + 2) % 256
          <5>1. m.write \in ActionSet
            BY <1>1
          <5> HIDE DEF m, c
          <5>2. QED
            BY <4>1, <4>2, <4>4, <5>1, CopiesPaired
        <4>7. m.meta \in Metas(v)
          BY DEF Metas
        <4>8. Messages(Reserved(s), I, p, q, v, m.meta)
          BY <4>5, <4>6, <4>7 DEF Messages
        <4>9. c = "add" => p.table \in EntryTables
          <5>1. CASE AddsTold
            <6>1. ASSUME c = "add"
                  PROVE  m.table \in 0..252 /\ m.table \in ToSet(Tables)
              BY <1>8, <5>1, <6>1, MessageAssumption
            <6>2. c = "add" => p.table = m.table + 2
              BY <4>6, <6>1
            <6>3. QED
              BY <5>1, <6>1, <6>2 DEF EntryTables, TenantTables
          <5>2. CASE ~ AddsTold
            <6>1. QED
              BY <1>7, <4>6, <5>2 DEF EntryTables
          <5>3. QED
            BY <5>1, <5>2
        <4>10. Reserved(s) \subseteq DOMAIN d.groups
          BY <4>2 DEF IInv, ReservedStay
        <4>11. FlowsFit(Reserved(s), I, d.flows)
          BY <3>1, <4>2
        <4>12. /\ e.groups = d.groups /\ FlowsFit(Reserved(s), I, e.flows)
               /\ SameOfOthers(v, d.flows, e.flows)
          <5>1. PICK x, R : x = m.meta /\ R = Reserved(s)
            OBVIOUS
          <5> HIDE DEF m
          <5>2. Messages(R, I, p, q, v, x) /\ FlowsFit(R, I, d.flows)
                /\ R \subseteq DOMAIN d.groups
            BY <4>8, <4>10, <4>11, <5>1
          <5> HIDE DEF c
          <5>3. QED
            BY <1>1, <4>3, <4>9, <5>1, <5>2, FlowModsKeep
        <4>13. QED
          BY <4>2, <4>12
      <3>4. QED
        BY <3>2, <3>3
    <2>3. PICK sw, gs : sw = pushed /\ gs = groups
      OBVIOUS
    <2> HIDE DEF pushed, groups
    <2>4. Placed(gs) /\ AskIds(v, sw, gs)
      BY <1>2, <1>5, <2>3
    <2>5. QED
      BY <2>2, <2>4, PushedCorrect
  <1>6. QED
    BY <1>3, <1>4, <1>5 DEF HandleFlowMod

LEMMA BucketActions ==
  ASSUME NEW g \in Nat, NEW buckets \in Seq(ActionSet),
         NEW actions, actions = ActionsOf(g, buckets),
         NEW length, length = 2 * Len(buckets) + 1
  PROVE  /\ length \in Nat /\ DOMAIN actions = 1..length
         /\ \A n \in 1..length : actions[n] \in Action
         /\ 1 \in 1..length /\ actions[1] = Group(g)
         /\ \A i \in DOMAIN buckets :
              /\ 2 * i \in 1..length /\ actions[2 * i] = buckets[i].group
              /\ 2 * i + 1 \in 1..length /\ actions[2 * i + 1] = buckets[i].output
              /\ buckets[i] \in ActionSet
  <1>1. /\ Len(buckets) \in Nat /\ DOMAIN buckets = 1..Len(buckets)
        /\ \A i \in 1..Len(buckets) : buckets[i] \in ActionSet
    OBVIOUS
  <1>2. length \in Nat /\ DOMAIN actions = 1..length /\ 1 \in 1..length
    BY <1>1 DEF ActionsOf
  <1>3. actions[1] = Group(g) /\ Group(g) \in Action
    BY <1>2 DEF ActionsOf, Group, Action
  <1>4. ASSUME NEW n \in 1..length, n # 1
        PROVE  actions[n] \in Action
    <2>1. n \in Nat /\ n <= 2 * Len(buckets) + 1 /\ n > 1
      BY <1>2, <1>4
    <2>2. n \div 2 \in 1..Len(buckets)
      BY <1>1, <2>1
    <2>3. buckets[n \div 2].group \in Action /\ buckets[n \div 2].output \in Action
      BY <1>1, <2>2 DEF ActionSet
    <2>4. actions[n] \in {buckets[n \div 2].group, buckets[n \div 2].output}
      BY <1>2, <1>4 DEF ActionsOf
    <2>5. QED
      BY <2>3, <2>4
  <1>5. ASSUME NEW i \in DOMAIN buckets
        PROVE  /\ 2 * i \in 1..length /\ actions[2 * i] = buckets[i].group
               /\ 2 * i + 1 \in 1..length /\ actions[2 * i + 1] = buckets[i].output
    <2>1. PICK p, q : p = 2 * i /\ q = 2 * i + 1
      OBVIOUS
    <2>2. /\ p \in 1..length /\ q \in 1..length /\ p # 1 /\ q # 1
          /\ p % 2 = 0 /\ p \div 2 = i /\ q % 2 # 0 /\ q \div 2 = i
      <3>1. i \in Nat /\ 1 <= i /\ i <= Len(buckets)
        BY <1>1
      <3>2. p \in 1..length /\ q \in 1..length /\ p # 1 /\ q # 1
        BY <1>1, <2>1, <3>1
      <3>3. (2 * i) % 2 = 0 /\ (2 * i) \div 2 = i
        BY <3>1
      <3>4. (2 * i + 1) % 2 = 1 /\ (2 * i + 1) \div 2 = i
        BY <3>1
      <3>5. QED
        BY <2>1, <3>2, <3>3, <3>4
    <2>3. \A n \in 1..length : n # 1 =>
            actions[n] = IF n % 2 = 0 THEN buckets[n \div 2].group ELSE buckets[n \div 2].output
      BY DEF ActionsOf
    <2>4. actions[p] = buckets[i].group /\ actions[q] = buckets[i].output
      BY <2>2, <2>3
    <2>5. QED
      BY <2>1, <2>2, <2>4
  <1>6. QED
    BY <1>1, <1>2, <1>3, <1>4, <1>5

LEMMA GroupModCorrect ==
  ASSUME IInv, NEW v \in VSwitches, NEW msg \in GroupMods[v],
         HandleGroupMod(v, msg.command, msg.group, msg.buckets)
  PROVE  IInv' /\ OneTenant(v)
  <1> DEFINE g        == msg.group
             buckets  == msg.buckets
             switches == ToSet(Dependent[v])
             actions  == ActionsOf(g, buckets)
             length   == 2 * Len(buckets) + 1
             groups   == GroupsAsked(v, actions)
             map(s)   == group_id_map'[s][v]
             sets(s)  == [i \in DOMAIN buckets |->
                            IF HasGroup(buckets[i])
                            THEN SetWithoutOutput(s, v, map(s), buckets[i])
                            ELSE SetWithOutput(s, v, map(s), buckets[i])]
  <1>1. g \in Nat /\ buckets \in Seq(ActionSet)
    BY MessageAssumption
  <1>2. /\ DOMAIN actions = 1..length /\ length \in Nat
        /\ \A n \in 1..length : actions[n] \in Action
        /\ 1 \in 1..length /\ actions[1] = Group(g)
    BY <1>1, BucketActions
  <1>3. /\ Placed(groups)
        /\ ~ Refused(v, actions) => g \in DOMAIN groups
    <2>1. PICK acts, l : acts = actions /\ l = length
      OBVIOUS
    <2>2. Group(g).kind = "group" /\ Group(g).id = g
      BY DEF Group
    <2> HIDE DEF actions, length
    <2>3. /\ l \in Nat /\ DOMAIN acts = 1..l /\ \A n \in 1..l : acts[n] \in Action
          /\ 1 \in 1..l /\ acts[1] = Group(g)
      BY <1>2, <2>1
    <2>4. /\ Placed(GroupsAsked(v, acts))
          /\ ~ Refused(v, acts) =>
               \A n \in 1..l : acts[n].kind = "group" =>
                 acts[n].id \in DOMAIN GroupsAsked(v, acts)
      BY <2>3, GroupsAskedCorrect
    <2>5. QED
      BY <2>1, <2>2, <2>3, <2>4
  <1>4. CASE AskIds(v, FirstOf(v, switches), groups) /\ UNCHANGED device
    <2>1. PICK sw, gs : sw = FirstOf(v, switches) /\ gs = groups
      OBVIOUS
    <2> HIDE DEF switches, groups
    <2>2. Placed(gs) /\ AskIds(v, sw, gs) /\ UNCHANGED device
      BY <1>3, <1>4, <2>1
    <2>3. QED
      BY <2>2, OnlyAsked
  <1>5. CASE /\ ~ Refused(v, actions)
             /\ AskIds(v, switches, groups)
             /\ device' = [s \in Switches |->
                  IF s \notin switches THEN device[s]
                  ELSE GroupMod(device[s], msg.command, map(s)[g], sets(s))]
    <2> HIDE DEF groups, switches, actions, sets
    <2>1. Asked(v, switches, groups) /\ IdsApart'
      BY <1>3, <1>5, AskIdsCorrect DEF IInv
    <2>2. ASSUME NEW s \in Switches
          PROVE  /\ FlowsFit(Reserved(s), NewIds(s), device'[s].flows)
                 /\ SameOfOthers(v, device[s].flows, device'[s].flows)
                 /\ \A h \in DOMAIN device[s].groups \cup DOMAIN device'[s].groups :
                      \/ h \in IdsOf(s, v)'
                      \/ /\ h \in DOMAIN device[s].groups \cap DOMAIN device'[s].groups
                         /\ device'[s].groups[h] = device[s].groups[h]
      <3>1. FlowsFit(Reserved(s), NewIds(s), device[s].flows)
        BY <2>1, EntriesFitNewIds
      <3>2. CASE s \notin switches
        <4>1. device'[s] = device[s]
          BY <1>5, <3>2
        <4>2. QED
          BY <3>1, <4>1 DEF SameOfOthers
      <3>3. CASE s \in switches
        <4>1. g \in DOMAIN map(s)
          BY <1>3, <1>5, <2>1, <3>3 DEF Asked
        <4>2. /\ map(s)[g] \in FirstId[s]..(next_id'[s] - 1)
              /\ \A w \in VSwitches : w # v => map(s)[g] \notin IdsOf(s, w)'
          BY <2>1, <4>1 DEF IdsApart, IdsOf, Range
        <4>3. map(s)[g] \in Nat /\ map(s)[g] \notin Reserved(s)
          BY <4>2, ReservedFirst
        <4>4. map(s)[g] \in IdsOf(s, v)'
          BY <4>1 DEF IdsOf, Range
        <4>5. PICK d, e, I, R, id, bs :
                /\ d = device[s] /\ e = device'[s] /\ I = NewIds(s)
                /\ R = Reserved(s) /\ id = map(s)[g] /\ bs = sets(s)
          OBVIOUS
        <4> HIDE DEF map
        <4>6. e = GroupMod(d, msg.command, id, bs)
          BY <1>5, <3>3, <4>5
        <4>7. /\ id \in Nat /\ id \notin R /\ FlowsFit(R, I, d.flows)
              /\ \A w \in VSwitches : w # v => id \notin I[w]
          BY <3>1, <4>2, <4>3, <4>5 DEF NewIds
        <4>8. /\ OtherGroupsStay(id, d, e)
              /\ FlowsFit(R, I, e.flows) /\ SameOfOthers(v, d.flows, e.flows)
          BY <4>6, <4>7, GroupModKeeps
        <4>9. \A h \in DOMAIN d.groups \cup DOMAIN e.groups :
                \/ h = id
                \/ /\ h \in DOMAIN d.groups \cap DOMAIN e.groups
                   /\ e.groups[h] = d.groups[h]
          BY <4>8 DEF OtherGroupsStay
        <4>10. QED
          BY <4>4, <4>5, <4>8, <4>9
      <3>4. QED
        BY <3>2, <3>3
    <2>3. PICK sw, gs : sw = switches /\ gs = groups
      OBVIOUS
    <2>4. Placed(gs) /\ AskIds(v, sw, gs)
      BY <1>3, <1>5, <2>3
    <2>5. QED
      BY <2>2, <2>4, PushedCorrect
  <1>6. QED
    BY <1>4, <1>5 DEF HandleGroupMod

LEMMA PacketOutCorrect ==
  ASSUME IInv, NEW v \in VSwitches, NEW port, NEW a \in PacketOuts[v],
         HandlePacketOut(v, port, a)
  PROVE  IInv' /\ OneTenant(v)
  <1>1. PICK acts, sw, gs : /\ acts = <<a>> /\ sw = {PacketOutSwitch(v, port)}
                            /\ gs = GroupsAsked(v, acts)
    OBVIOUS
  <1>2. a \in Action
    BY MessageAssumption
  <1>3. 1 \in Nat /\ DOMAIN acts = 1..1 /\ \A n \in 1..1 : acts[n] \in Action
    BY <1>1, <1>2
  <1>4. Placed(gs)
    BY <1>1, <1>3, GroupsAskedCorrect
  <1>5. AskIds(v, sw, gs) /\ UNCHANGED device
    BY <1>1 DEF HandlePacketOut
  <1>6. QED
    BY <1>4, <1>5, OnlyAsked

-----------------------------------------------------------------------------
(***************************************************************************)
(* The theorems                                                            *)
(***************************************************************************)
LEMMA NextCorrect ==
  ASSUME IInv, Next
  PROVE  IInv' /\ \E v \in VSwitches : OneTenant(v)
  BY FlowModCorrect, GroupModCorrect, PacketOutCorrect DEF Next

\* The inductive invariant holds whatever the controllers send.
THEOREM IInvHolds == Spec => []IInv
  <1>1. Init => IInv
    BY InitCorrect
  <1>2. IInv /\ [Next]_vars => IInv'
    <2> SUFFICES ASSUME IInv, [Next]_vars PROVE IInv'
      OBVIOUS
    <2>1. CASE Next
      BY <2>1, NextCorrect
    <2>2. CASE UNCHANGED vars
      BY <2>2 DEF IInv, IdsApart, ReservedStay, EntriesFit, IdsOf, vars
    <2>3. QED
      BY <2>1, <2>2
  <1>3. QED
    BY <1>1, <1>2, PTL DEF Spec

\* get_rewritten_group_id never gives two groups of a switch one id, whoever
\* asks, and every entry of a controller is in a tenants' table with the other
\* copy that handle_flow_mod pushes beside it, if controllers add entries only
\* to tables they were told of.
THEOREM TypeCorrect ==
  ASSUME AddsTold
  PROVE  Spec => []TypeOK
  <1>1. IInv => TypeOK
    <2> SUFFICES ASSUME IInv, NEW s \in Switches
                 PROVE  \A f \in device[s].flows :
                          /\ f.table \in {t + 2 : t \in ToSet(Tables)}
                          /\ \E h \in device[s].flows :
                               /\ h.meta = AddToMatch(1 - f.meta.bit, f.meta.vs, f.meta)
                               /\ <<h.table, h.prio, h.in>> = <<f.table, f.prio, f.in>>
      BY DEF IInv, IdsApart, TypeOK
    <2> TAKE f \in device[s].flows
    <2>1. f.table \in {t + 2 : t \in ToSet(Tables)}
      BY DEF IInv, EntriesFit, FlowsFit, EntryTables, TenantTables
    <2>2. PICK w \in VSwitches : \E u \in Metas(w), b \in {0, 1} :
            \E h \in device[s].flows : Paired(Reserved(s), f, h, w, u, b)
      BY DEF IInv, EntriesFit, FlowsFit, IsOf
    <2>3. PICK u \in Metas(w), b \in {0, 1}, h \in device[s].flows :
            Paired(Reserved(s), f, h, w, u, b)
      BY <2>2
    <2>4. h.meta = AddToMatch(1 - f.meta.bit, f.meta.vs, f.meta)
      <3>1. f.meta.bit = b /\ f.meta.vs = w
        BY <2>3, MetaOfCopy DEF Paired
      <3>2. AddToMatch(1 - b, w, AddToMatch(b, w, u)) = AddToMatch(1 - b, w, u)
        BY DEF AddToMatch
      <3>3. QED
        BY <2>3, <3>1, <3>2 DEF Paired
    <2>5. QED
      BY <2>1, <2>3, <2>4 DEF Paired
  <1>2. QED
    BY <1>1, IInvHolds, PTL

\* A message of a controller changes entries, groups and group ids of that
\* controller only: no message of one tenant is noticed by another one, or by
\* the groups that the hypervisor set up when the tenants registered.  (Its
\* rules in tables 0 and 1, which an entry for table 254 or 255 joins, are not
\* in Rewrite.)
THEOREM TenantsApart == Spec => [][\E v \in VSwitches : OneTenant(v)]_vars
  <1>1. IInv /\ [Next]_vars => [\E v \in VSwitches : OneTenant(v)]_vars
    BY NextCorrect
  <1>2. QED
    BY <1>1, IInvHolds, PTL DEF Spec

-----------------------------------------------------------------------------
(***************************************************************************)
(* What a tenant recognises of the actions, sets, entries and groups that  *)
(* its messages became is what it sent, and a physical switch changes it   *)
(* as a switch of the tenant's own would.                                  *)
(***************************************************************************)

\* The actions that name no group but those of S
Acts(S) == {NoAction} \cup {Group(g) : g \in S}

\* The groups of a controller whose ids are in G
Names(map, G) == {g \in DOMAIN map : map[g] \in G}

\* Each group has an id of its own, which the hypervisor does not use.
MapFits(s, map) ==
  /\ \A g \in DOMAIN map : map[g] \in Nat \ Reserved(s)
  /\ \A g, h \in DOMAIN map : map[g] = map[h] => g = h

LEMMA Fields ==
  /\ NoAction.kind = "none" /\ NoAction.id = 0
  /\ \A p : Output(p).kind = "output" /\ Output(p).id = p
  /\ \A g : Group(g).kind = "group" /\ Group(g).id = g
  /\ NoActions.output = NoAction /\ NoActions.group = NoAction
  BY DEF NoAction, Output, Group, NoActions

LEMMA ActionForms ==
  ASSUME NEW a \in Action
  PROVE  /\ a.kind = "none" => a = NoAction
         /\ a.kind = "output" => a = Output(a.id)
         /\ a.kind = "group" => a = Group(a.id)
         /\ a.kind \in {"none", "output", "group"} /\ a.id \in Nat
  BY Fields DEF Action, NoAction, Output, Group

LEMMA OutputsBack ==
  ASSUME NEW v \in VSwitches, NEW s \in ToSet(Dependent[v])
  PROVE  /\ DOMAIN OutputOf[s][v] \subseteq Reserved(s) \ {0}
         /\ \A p \in PortsOf[v] \cup {Flood} :
              /\ OutputId[s][v][p] \in DOMAIN OutputOf[s][v]
              /\ OutputOf[s][v][OutputId[s][v][p]] = p
  <1> DEFINE ids == OutputId[s][v]
  <1>1. s \in Switches /\ v \in Tenants(s)
    BY SwitchOfTenant DEF Tenants
  <1>2. OutputOf[s][v] = AntiFunction(ids)
    BY <1>1 DEF OutputOf
  <1>3. /\ DOMAIN ids = PortsOf[v] \cup {Flood}
        /\ \A p, q \in DOMAIN ids : ids[p] = ids[q] => p = q
        /\ \A p \in DOMAIN ids : ids[p] \in 1..(FirstId[s] - 1)
    BY RewriteAssumption
  <1>4. \A p \in DOMAIN ids : ids[p] \in Reserved(s) \ {0}
    <2>1. \A p \in DOMAIN ids : ids[p] \in Reserved(s)
      BY <1>3, OutputIsReserved
    <2>2. FirstId[s] \in Nat
      BY <1>1, ReservedFirst
    <2> HIDE DEF ids
    <2>3. QED
      BY <1>3, <2>1, <2>2
  <1> HIDE DEF ids
  <1>5. /\ DOMAIN AntiFunction(ids) = {ids[p] : p \in DOMAIN ids}
        /\ \A p \in DOMAIN ids : AntiFunction(ids)[ids[p]] = p
    <2>1. \A p \in DOMAIN ids : ids[p] \in Range(ids)
      BY DEF Range
    <2>2. QED
      BY <1>3, <2>1 DEF AntiFunction, Inverse, Range
  <1>6. QED
    BY <1>2, <1>3, <1>4, <1>5 DEF ids

\* What rewrite_action_list and rewrite_action_set make of an action is
\* recognised as that action, and names groups of its tenant or of the
\* hypervisor only.
THEOREM OriginalOfRewritten ==
  ASSUME NEW v \in VSwitches, NEW s \in ToSet(Dependent[v]),
         NEW map, MapFits(s, map), NEW a, Ready(v, map, a)
  PROVE  /\ Original(s, v, map, RewriteAction(s, v, map, a)) = a
         /\ RewriteAction(s, v, map, a) \in Acts(Reserved(s) \cup Range(map))
  <1>1. a \in Action
    BY DEF Ready
  <1>2. RewriteAction(s, v, map, a) \in Acts(Reserved(s) \cup Range(map))
    BY ActionRewritten DEF Acts
  <1>3. CASE a.kind = "none"
    <2>1. a = NoAction /\ RewriteAction(s, v, map, a) = NoAction
      BY <1>1, <1>3, ActionForms DEF RewriteAction
    <2>2. QED
      BY <1>2, <2>1, Fields DEF Original
  <1>4. CASE a.kind = "output"
    <2>1. a = Output(a.id) /\ a.id \in PortsOf[v] \cup {Controller, Flood}
      BY <1>1, <1>4, ActionForms DEF Ready, UnknownOutput
    <2>2. CASE a.id = Controller
      <3>1. RewriteAction(s, v, map, a) = Group(0)
        BY <1>4, <2>2 DEF RewriteAction
      <3>2. QED
        BY <1>2, <2>1, <2>2, <3>1, Fields DEF Original
    <2>3. CASE a.id # Controller
      <3>1. PICK id : id = OutputId[s][v][a.id]
        OBVIOUS
      <3>2. RewriteAction(s, v, map, a) = Group(id)
        BY <1>4, <2>3, <3>1 DEF RewriteAction
      <3>3. id \in DOMAIN OutputOf[s][v] /\ OutputOf[s][v][id] = a.id /\ id # 0
        BY <2>1, <2>3, <3>1, OutputsBack
      <3>4. Original(s, v, map, Group(id)) = Output(a.id)
        BY <3>3, Fields DEF Original
      <3>5. QED
        BY <1>2, <2>1, <3>2, <3>4
    <2>4. QED
      BY <2>2, <2>3
  <1>5. CASE a.kind = "group"
    <2>1. a = Group(a.id) /\ a.id \in DOMAIN map
      BY <1>1, <1>5, ActionForms DEF Ready
    <2>2. PICK id : id = map[a.id]
      OBVIOUS
    <2>3. RewriteAction(s, v, map, a) = Group(id)
      BY <1>5, <2>2 DEF RewriteAction
    <2>4. id \notin Reserved(s) /\ {g \in DOMAIN map : map[g] = id} = {a.id}
      BY <2>1, <2>2 DEF MapFits
    <2>5. id \notin DOMAIN OutputOf[s][v] /\ id # 0
      BY <2>4, OutputsBack DEF Reserved
    <2>6. Original(s, v, map, Group(id)) = Group(a.id)
      BY <2>4, <2>5, Fields DEF Original
    <2>7. QED
      BY <1>2, <2>1, <2>3, <2>6
  <1>6. QED
    BY <1>1, <1>3, <1>4, <1>5, ActionForms

\* A recognised action names the groups that its rewritten form does.
LEMMA OriginalNames ==
  ASSUME NEW v \in VSwitches, NEW s \in ToSet(Dependent[v]),
         NEW map, MapFits(s, map), NEW a \in Acts(Reserved(s) \cup Range(map))
  PROVE  /\ GroupsIn({Original(s, v, map, a)}) = Names(map, GroupsIn({a}))
         /\ Original(s, v, map, a).kind # "group" =>
              GroupsIn({Original(s, v, map, a)}) = {}
  <1> DEFINE o == Original(s, v, map, a)
  <1>1. GroupsIn({o}) = IF o.kind = "group" THEN {o.id} ELSE {}
    BY DEF GroupsIn
  <1>2. CASE a = NoAction
    <2>1. o = NoAction
      BY <1>2, Fields DEF Original
    <2>2. QED
      BY <1>2, <2>1, GroupsInSet DEF Names
  <1>3. CASE \E id \in Reserved(s) : a = Group(id)
    <2>1. PICK id \in Reserved(s) : a = Group(id)
      BY <1>3
    <2>2. Names(map, {id}) = {}
      BY DEF Names, MapFits
    <2>3. {g \in DOMAIN map : map[g] = id} = {}
      BY DEF MapFits
    <2>4. \E p : o = Output(p)
      BY <2>1, <2>3, Fields DEF Original
    <2>5. QED
      BY <1>1, <2>1, <2>2, <2>4, Fields, GroupsInSet
  <1>4. CASE \E id \in Range(map) : a = Group(id)
    <2>1. PICK g \in DOMAIN map : a = Group(map[g])
      BY <1>4 DEF Range
    <2>2. PICK id : id = map[g]
      OBVIOUS
    <2>3. id \notin Reserved(s) /\ {h \in DOMAIN map : map[h] = id} = {g}
      BY <2>2 DEF MapFits
    <2>4. id \notin DOMAIN OutputOf[s][v] /\ id # 0
      BY <2>3, OutputsBack DEF Reserved
    <2>5. o = Group(g)
      BY <2>1, <2>2, <2>3, <2>4, Fields DEF Original
    <2>6. Names(map, {id}) = {g}
      BY <2>3 DEF Names
    <2>7. QED
      BY <1>1, <2>1, <2>2, <2>5, <2>6, Fields, GroupsInSet
  <1>5. QED
    BY <1>1, <1>2, <1>3, <1>4 DEF Acts

\* An action set with the group or the output that its rewritten form stands for
SetNormal(set) ==
  IF HasGroup(set) THEN [set EXCEPT !.output = NoAction] ELSE set

SetRewritten(s, v, map, set) ==
  IF HasGroup(set) THEN SetWithoutOutput(s, v, map, set)
  ELSE SetWithOutput(s, v, map, set)

SetFits(S, set) == set.output = NoAction /\ set.group \in Acts(S)

LEMMA SetForms ==
  ASSUME NEW set \in ActionSet
  PROVE  /\ set = [output |-> set.output, group |-> set.group]
         /\ set.output \in Action /\ set.group \in Action
         /\ set.output.kind # "group" /\ set.group.kind # "output"
         /\ ~ HasGroup(set) => set.group = NoAction
         /\ SetNormal(set) = IF HasGroup(set)
                             THEN [output |-> NoAction, group |-> set.group]
                             ELSE [output |-> set.output, group |-> NoAction]
  <1>1. set \in [output : Action, group : Action]
    BY DEF ActionSet
  <1>2. set = [output |-> set.output, group |-> set.group]
    BY <1>1
  <1>3. [set EXCEPT !.output = NoAction] = [output |-> NoAction, group |-> set.group]
    BY <1>1
  <1>4. QED
    BY <1>1, <1>2, <1>3 DEF ActionSet, HasGroup, SetNormal

LEMMA SetOfRewritten ==
  ASSUME NEW v \in VSwitches, NEW s \in ToSet(Dependent[v]),
         NEW map, MapFits(s, map), NEW set \in ActionSet,
         Ready(v, map, set.group), Ready(v, map, set.output)
  PROVE  /\ OriginalSet(s, v, map, SetRewritten(s, v, map, set)) = SetNormal(set)
         /\ SetFits(Reserved(s) \cup Range(map), SetRewritten(s, v, map, set))
  <1>1. /\ SetRewritten(s, v, map, set).output = NoAction
        /\ SetRewritten(s, v, map, set).group =
             RewriteAction(s, v, map, IF HasGroup(set) THEN set.group ELSE set.output)
    BY DEF SetRewritten, SetWithOutput, SetWithoutOutput, NoActions
  <1>2. PICK a, b : /\ a = IF HasGroup(set) THEN set.group ELSE set.output
                    /\ b = RewriteAction(s, v, map, a)
    OBVIOUS
  <1>3. Original(s, v, map, b) = a /\ b \in Acts(Reserved(s) \cup Range(map))
    BY <1>2, OriginalOfRewritten
  <1>4. OriginalSet(s, v, map, SetRewritten(s, v, map, set)) =
          IF a.kind = "group" THEN [NoActions EXCEPT !.group = a]
          ELSE [NoActions EXCEPT !.output = a]
    BY <1>1, <1>2, <1>3 DEF OriginalSet
  <1>5. a.kind = "group" <=> HasGroup(set)
    <2>1. set.group \in Action
      BY SetForms
    <2>2. HasGroup(set) => set.group.kind = "group"
      BY <2>1, SetForms, ActionForms DEF HasGroup
    <2>3. QED
      BY <1>2, <2>2, SetForms
  <1>6. /\ [NoActions EXCEPT !.group = a] = [output |-> NoAction, group |-> a]
        /\ [NoActions EXCEPT !.output = a] = [output |-> a, group |-> NoAction]
    BY DEF NoActions
  <1>7. OriginalSet(s, v, map, SetRewritten(s, v, map, set)) = SetNormal(set)
    BY <1>2, <1>4, <1>5, <1>6, SetForms
  <1>8. QED
    BY <1>1, <1>2, <1>3, <1>7 DEF SetFits

GroupsOfSet(set)   == GroupsIn({set.output, set.group})
GroupOfBucket(set) == GroupsIn({Executed(set)})

\* A recognised set names the groups that its rewritten form does, executed or
\* not.
LEMMA OriginalSetNames ==
  ASSUME NEW v \in VSwitches, NEW s \in ToSet(Dependent[v]),
         NEW map, MapFits(s, map),
         NEW set, SetFits(Reserved(s) \cup Range(map), set)
  PROVE  /\ GroupsOfSet(OriginalSet(s, v, map, set)) = Names(map, GroupsOfSet(set))
         /\ GroupOfBucket(OriginalSet(s, v, map, set)) = Names(map, GroupOfBucket(set))
  <1>1. PICK a, b : a = set.group /\ b = Original(s, v, map, a)
    OBVIOUS
  <1>2. set.output = NoAction /\ a \in Acts(Reserved(s) \cup Range(map))
    BY <1>1 DEF SetFits
  <1>3. GroupsIn({b}) = Names(map, GroupsIn({a}))
    BY <1>1, <1>2, OriginalNames
  <1>4. Executed(set) = a
    BY <1>1, <1>2 DEF Executed
  <1>5. PICK o : o = OriginalSet(s, v, map, set)
    OBVIOUS
  <1>6. /\ b.kind = "group" => o.group = b /\ o.output = NoAction
        /\ b.kind # "group" => o.output = b /\ o.group = NoAction
    BY <1>1, <1>5 DEF OriginalSet, NoActions
  <1>7. Executed(o) = b
    BY <1>6, Fields DEF Executed
  <1>8. GroupsOfSet(o) = GroupsIn({b})
    <2>1. GroupsOfSet(o) = GroupsIn({o.output}) \cup GroupsIn({o.group})
      BY DEF GroupsIn, GroupsOfSet
    <2>2. QED
      BY <1>6, <2>1, GroupsInSet
  <1>9. GroupsOfSet(set) = GroupsIn({a})
    <2>1. GroupsOfSet(set) = GroupsIn({set.output}) \cup GroupsIn({set.group})
      BY DEF GroupsIn, GroupsOfSet
    <2>2. QED
      BY <1>1, <1>2, <2>1, GroupsInSet
  <1>10. QED
    BY <1>3, <1>4, <1>5, <1>7, <1>8, <1>9 DEF GroupOfBucket

LEMMA UserOfCopy ==
  ASSUME NEW u \in Metadata, NEW b, NEW v
  PROVE  /\ UserFields(AddToMatch(b, v, u)) = u
         /\ UserFields(WithBit(b, u)) = u /\ UserFields(u) = u
         /\ DOMAIN u \cap {"bit", "vs"} = {}
  <1>1. DOMAIN u \subseteq {"user", "high"} /\ u = [x \in DOMAIN u |-> u[x]]
    BY DEF Metadata
  <1>2. DOMAIN u \cap {"bit", "vs"} = {}
    BY <1>1
  <1>3. UserFields(AddToMatch(b, v, u)) = u
    BY <1>1, <1>2 DEF UserFields, AddToMatch
  <1>4. UserFields(WithBit(b, u)) = u
    BY <1>1, <1>2 DEF UserFields, WithBit
  <1>5. UserFields(u) = u
    BY <1>1, <1>2 DEF UserFields
  <1>6. QED
    BY <1>2, <1>3, <1>4, <1>5

\* An entry of v for packets without a group, as copies on s are: it names the
\* groups of S only.
EntryFits(s, v, S, f) ==
  /\ f.table \in TenantTables
  /\ f.in \in {AnyPort} \cup Range(PortMap[v][s])
  /\ \E u \in Metadata : f.meta = AddToMatch(0, v, u)
  /\ f.apply \in Acts(S) /\ SetFits(S, f.write)

PortSeen(s, v, in) == IF in = AnyPort THEN AnyPort ELSE PortOf[v][s][in]

LEMMA PortsBack ==
  ASSUME NEW v \in VSwitches, NEW s \in ToSet(Dependent[v]), IsInjective(PortMap[v][s])
  PROVE  /\ \A port : OnSwitch(v, s, port) =>
              /\ PortAt(v, s, port) \in {AnyPort} \cup Range(PortMap[v][s])
              /\ PortSeen(s, v, PortAt(v, s, port)) = port
         /\ \A in \in {AnyPort} \cup Range(PortMap[v][s]) :
              /\ OnSwitch(v, s, PortSeen(s, v, in))
              /\ PortAt(v, s, PortSeen(s, v, in)) = in
              /\ PortSeen(s, v, in) = AnyPort => in = AnyPort
  <1>1. PICK map : map = PortMap[v][s]
    OBVIOUS
  <1>2. PortOf[v][s] = AntiFunction(map)
    BY <1>1 DEF PortOf
  <1>3. AnyPort \notin DOMAIN map /\ AnyPort \notin Range(map)
    <2>1. AnyPort \notin Nat
      BY DEF AnyPort
    <2>2. QED
      BY <1>1, <2>1, PortAssumption
  <1>4. \A p \in DOMAIN map : map[p] \in Range(map) /\ AntiFunction(map)[map[p]] = p
    <2>1. \A p, q \in DOMAIN map : map[p] = map[q] => p = q
      BY <1>1 DEF IsInjective
    <2>2. \A p \in DOMAIN map : map[p] \in Range(map)
      BY DEF Range
    <2>3. QED
      BY <2>1, <2>2 DEF AntiFunction, Inverse
  <1>5. \A in \in Range(map) : \E p \in DOMAIN map : in = map[p]
    BY DEF Range
  <1>6. \A in \in Range(map) : /\ AntiFunction(map)[in] \in DOMAIN map
                               /\ map[AntiFunction(map)[in]] = in
    BY <1>4, <1>5
  <1>7. \A port : OnSwitch(v, s, port) <=> port \in {AnyPort} \cup DOMAIN map
    BY <1>1 DEF OnSwitch
  <1>8. \A port : PortAt(v, s, port) = IF port = AnyPort THEN AnyPort ELSE map[port]
    BY <1>1 DEF PortAt
  <1>9. \A in : PortSeen(s, v, in) = IF in = AnyPort THEN AnyPort ELSE AntiFunction(map)[in]
    BY <1>2 DEF PortSeen
  <1>10. /\ \A port : OnSwitch(v, s, port) =>
              /\ PortAt(v, s, port) \in {AnyPort} \cup Range(map)
              /\ PortSeen(s, v, PortAt(v, s, port)) = port
         /\ \A in \in {AnyPort} \cup Range(map) :
              /\ OnSwitch(v, s, PortSeen(s, v, in))
              /\ PortAt(v, s, PortSeen(s, v, in)) = in
              /\ PortSeen(s, v, in) = AnyPort => in = AnyPort
    BY <1>3, <1>4, <1>6, <1>7, <1>8, <1>9
  <1>11. QED
    BY <1>1, <1>10

LEMMA TablesBack ==
  /\ \A t \in 0..252 : /\ (t + 2) % 256 = t + 2 /\ (t + 2 - 2) % 256 = t
                       /\ t + 2 # AllTables /\ t # AllTables /\ t + 2 # NoTable
  /\ \A t \in ToSet(Tables) : t \in 0..252
  <1>1. \A t \in ToSet(Tables) : t \in 0..252
    BY MessageAssumption
  <1>2. ASSUME NEW t \in 0..252
        PROVE  /\ (t + 2) % 256 = t + 2 /\ (t + 2 - 2) % 256 = t
               /\ t + 2 # AllTables /\ t # AllTables /\ t + 2 # NoTable
    BY DEF AllTables, NoTable
  <1>3. QED
    BY <1>1, <1>2

\* A modify or delete message changes the same of an entry and of what is seen
\* of it.
LEMMA InstructionsBack ==
  ASSUME NEW s, NEW v, NEW map, NEW f, NEW p
  PROVE  OriginalEntry(s, v, map, WithInstructions(f, p)) =
           WithInstructions(OriginalEntry(s, v, map, f), OriginalEntry(s, v, map, p))
  BY DEF OriginalEntry, WithInstructions

LEMMA EntryGroups ==
  /\ \A f : GroupsOfEntry(f) = GroupsIn({f.apply}) \cup GroupsOfSet(f.write)
  /\ \A map, G, H : Names(map, G \cup H) = Names(map, G) \cup Names(map, H)
  <1>2. \A f : GroupsOfEntry(f) = GroupsIn({f.apply}) \cup GroupsOfSet(f.write)
    BY DEF GroupsOfEntry, GroupsIn, GroupsOfSet
  <1>3. \A map, G, H : Names(map, G \cup H) = Names(map, G) \cup Names(map, H)
    BY DEF Names
  <1>4. QED
    BY <1>2, <1>3

LEMMA EntryNames ==
  ASSUME NEW v \in VSwitches, NEW s \in ToSet(Dependent[v]),
         NEW map, MapFits(s, map),
         NEW f, EntryFits(s, v, Reserved(s) \cup Range(map), f)
  PROVE  GroupsOfEntry(OriginalEntry(s, v, map, f)) = Names(map, GroupsOfEntry(f))
  <1>1. PICK a, b : a = f.apply /\ b = Original(s, v, map, a)
    OBVIOUS
  <1>2. PICK set : set = f.write
    OBVIOUS
  <1>3. PICK o : o = OriginalSet(s, v, map, set)
    OBVIOUS
  <1>4. OriginalEntry(s, v, map, f).apply = b /\ OriginalEntry(s, v, map, f).write = o
    BY <1>1, <1>2, <1>3 DEF OriginalEntry
  <1>5. GroupsIn({b}) = Names(map, GroupsIn({a}))
    BY <1>1, OriginalNames DEF EntryFits
  <1>6. GroupsOfSet(o) = Names(map, GroupsOfSet(set))
    <2>1. SetFits(Reserved(s) \cup Range(map), set)
      BY <1>2 DEF EntryFits
    <2>2. QED
      BY <1>3, <2>1, OriginalSetNames
  <1>7. PICK e : e = OriginalEntry(s, v, map, f)
    OBVIOUS
  <1>8. GroupsOfEntry(e) = GroupsIn({b}) \cup GroupsOfSet(o)
    <2>1. e.apply = b /\ e.write = o
      BY <1>4, <1>7
    <2>2. QED
      BY <2>1, EntryGroups
  <1>9. GroupsOfEntry(f) = GroupsIn({a}) \cup GroupsOfSet(set)
    BY <1>1, <1>2, EntryGroups
  <1>10. QED
    <2>1. PICK G, H : G = GroupsIn({a}) /\ H = GroupsOfSet(set)
      OBVIOUS
    <2>2. Names(map, G \cup H) = Names(map, G) \cup Names(map, H)
      BY EntryGroups
    <2>3. QED
      BY <1>5, <1>6, <1>7, <1>8, <1>9, <2>1, <2>2

LEMMA NormalForm ==
  ASSUME NEW m \in Entries
  PROVE  /\ m.write \in ActionSet /\ m.apply \in Action
         /\ m.meta \in Metadata /\ m.wmeta \in Metadata
         /\ Virtual!Normal(m) =
              [table |-> m.table, prio |-> m.prio, in |-> m.in, meta |-> m.meta,
               apply |-> m.apply, clear |-> m.clear, write |-> SetNormal(m.write),
               wmeta |-> m.wmeta, goto |-> m.goto]
  <1>1. m.write \in ActionSet /\ m.apply \in Action
        /\ m.meta \in Metadata /\ m.wmeta \in Metadata
    BY DEF Entries
  <1>2. m = [table |-> m.table, prio |-> m.prio, in |-> m.in, meta |-> m.meta,
             apply |-> m.apply, clear |-> m.clear, write |-> m.write,
             wmeta |-> m.wmeta, goto |-> m.goto]
    BY DEF Entries
  <1>3. m.write.group # NoAction =>
          [m EXCEPT !.write.output = NoAction] =
            [table |-> m.table, prio |-> m.prio, in |-> m.in, meta |-> m.meta,
             apply |-> m.apply, clear |-> m.clear,
             write |-> [m.write EXCEPT !.output = NoAction],
             wmeta |-> m.wmeta, goto |-> m.goto]
    BY <1>2
  <1>4. Virtual!Normal(m) = IF m.write.group # NoAction
                            THEN [m EXCEPT !.write.output = NoAction] ELSE m
    BY DEF Virtual!Normal, Virtual!NoAction, NoAction
  <1>5. QED
    BY <1>1, <1>2, <1>3, <1>4 DEF SetNormal, HasGroup

\* The message names tables of the virtual switch.
NamesTables(m) ==
  m.table \in ToSet(Tables) /\ m.goto \in ToSet(Tables) \cup {NoTable}

AllReady(v, map, m) ==
  \A a \in {m.apply, m.write.group, m.write.output} : Ready(v, map, a)

\* What is seen of the first copy of a message's entry is that entry.
LEMMA EntryOfRewritten ==
  ASSUME NEW v \in VSwitches, NEW s \in ToSet(Dependent[v]), IsInjective(PortMap[v][s]),
         NEW map, MapFits(s, map), NEW m \in Entries,
         NamesTables(m),
         OnSwitch(v, s, m.in),
         AllReady(v, map, m),
         NEW p, p = Copy(s, v, map, m, PortAt(v, s, m.in), 0)
  PROVE  /\ OriginalEntry(s, v, map, p) = Virtual!Normal(m)
         /\ EntryFits(s, v, Reserved(s) \cup Range(map), p)
  <1>1. /\ p.table = (m.table + 2) % 256 /\ p.prio = m.prio
        /\ p.in = PortAt(v, s, m.in) /\ p.meta = AddToMatch(0, v, m.meta)
        /\ p.apply = RewriteAction(s, v, map, m.apply) /\ p.clear = m.clear
        /\ p.write = SetRewritten(s, v, map, m.write)
        /\ p.wmeta \in {WithBit(1, m.wmeta), WithBit(0, m.wmeta), m.wmeta}
        /\ p.goto = IF m.goto = NoTable THEN NoTable ELSE (m.goto + 2) % 256
    BY DEF Copy, SetRewritten
  <1>2. /\ m.write \in ActionSet /\ m.meta \in Metadata /\ m.wmeta \in Metadata
    BY NormalForm
  <1>3. /\ Original(s, v, map, p.apply) = m.apply
        /\ p.apply \in Acts(Reserved(s) \cup Range(map))
    <2>1. PICK a : a = m.apply
      OBVIOUS
    <2>2. Ready(v, map, a)
      BY <2>1 DEF AllReady
    <2>3. p.apply = RewriteAction(s, v, map, a)
      BY <1>1, <2>1
    <2>4. /\ Original(s, v, map, RewriteAction(s, v, map, a)) = a
          /\ RewriteAction(s, v, map, a) \in Acts(Reserved(s) \cup Range(map))
      BY <2>2, OriginalOfRewritten
    <2>5. QED
      BY <2>1, <2>3, <2>4
  <1>4. /\ OriginalSet(s, v, map, p.write) = SetNormal(m.write)
        /\ SetFits(Reserved(s) \cup Range(map), p.write)
    <2>1. PICK set : set = m.write
      OBVIOUS
    <2>2. set \in ActionSet /\ Ready(v, map, set.group) /\ Ready(v, map, set.output)
      BY <1>2, <2>1 DEF AllReady
    <2>3. p.write = SetRewritten(s, v, map, set)
      BY <1>1, <2>1
    <2>4. /\ OriginalSet(s, v, map, SetRewritten(s, v, map, set)) = SetNormal(set)
          /\ SetFits(Reserved(s) \cup Range(map), SetRewritten(s, v, map, set))
      BY <2>2, SetOfRewritten
    <2>5. QED
      BY <2>1, <2>3, <2>4
  <1>5. /\ (IF p.in = AnyPort THEN AnyPort ELSE PortOf[v][s][p.in]) = m.in
        /\ p.in \in {AnyPort} \cup Range(PortMap[v][s])
    BY <1>1, PortsBack DEF PortSeen
  <1>6. /\ UserFields(p.meta) = m.meta /\ UserFields(p.wmeta) = m.wmeta
    <2>1. PICK u, w : u = m.meta /\ w = m.wmeta
      OBVIOUS
    <2>2. u \in Metadata /\ w \in Metadata /\ p.meta = AddToMatch(0, v, u)
          /\ p.wmeta \in {WithBit(1, w), WithBit(0, w), w}
      BY <1>1, <1>2, <2>1
    <2>3. UserFields(p.meta) = u
      BY <2>2, UserOfCopy
    <2>4. UserFields(p.wmeta) = w
      BY <2>2, UserOfCopy
    <2>5. QED
      BY <2>1, <2>3, <2>4
  <1>7. /\ p.table = m.table + 2 /\ (p.table - 2) % 256 = m.table
        /\ (IF p.goto = NoTable THEN NoTable ELSE (p.goto - 2) % 256) = m.goto
    <2>1. m.table \in 0..252 /\ (m.goto # NoTable => m.goto \in 0..252)
      BY TablesBack DEF NamesTables
    <2>2. PICK t, g : t = m.table /\ g = m.goto
      OBVIOUS
    <2>3. p.table = t + 2 /\ (p.table - 2) % 256 = t
      BY <1>1, <2>1, <2>2, TablesBack
    <2>4. CASE g = NoTable
      BY <1>1, <2>2, <2>3, <2>4
    <2>5. CASE g # NoTable
      <3>1. g \in 0..252
        BY <2>1, <2>2, <2>5
      <3>2. p.goto = g + 2 /\ g + 2 # NoTable /\ (g + 2 - 2) % 256 = g
        BY <1>1, <2>2, <2>5, <3>1, TablesBack
      <3>3. PICK h : h = p.goto
        OBVIOUS
      <3>4. h - 2 = g /\ g % 256 = g
        BY <3>1, <3>2, <3>3
      <3>5. h # NoTable /\ (h - 2) % 256 = g
        BY <3>2, <3>3, <3>4
      <3>6. QED
        BY <2>2, <2>3, <3>3, <3>5
    <2>6. QED
      BY <2>4, <2>5
  <1>8. OriginalEntry(s, v, map, p) = Virtual!Normal(m)
    BY <1>1, <1>3, <1>4, <1>5, <1>6, <1>7, NormalForm DEF OriginalEntry
  <1>9. p.table \in TenantTables
    BY <1>7 DEF TenantTables, NamesTables
  <1>10. QED
    BY <1>1, <1>2, <1>3, <1>4, <1>5, <1>8, <1>9 DEF EntryFits

LEMMA SeenFields ==
  ASSUME NEW v \in VSwitches, NEW s \in ToSet(Dependent[v]), IsInjective(PortMap[v][s]),
         NEW map, NEW S, NEW f, EntryFits(s, v, S, f),
         NEW o, o = OriginalEntry(s, v, map, f)
  PROVE  /\ o.table \in 0..252 /\ f.table = o.table + 2
         /\ o.prio = f.prio
         /\ OnSwitch(v, s, o.in) /\ f.in = PortAt(v, s, o.in) /\ o.in = PortSeen(s, v, f.in)
         /\ o.in = AnyPort <=> f.in = AnyPort
         /\ o.meta \in Metadata /\ f.meta = AddToMatch(0, v, o.meta)
  <1>1. /\ o.table = (f.table - 2) % 256 /\ o.prio = f.prio
        /\ o.in = PortSeen(s, v, f.in) /\ o.meta = UserFields(f.meta)
    BY DEF OriginalEntry, PortSeen
  <1>2. o.table \in 0..252 /\ f.table = o.table + 2
    <2>1. PICK t \in ToSet(Tables) : f.table = t + 2
      BY DEF EntryFits, TenantTables
    <2>2. t \in 0..252 /\ (t + 2 - 2) % 256 = t
      BY TablesBack
    <2>3. QED
      BY <1>1, <2>1, <2>2
  <1>3. /\ OnSwitch(v, s, o.in) /\ f.in = PortAt(v, s, o.in)
        /\ o.in = AnyPort => f.in = AnyPort
    <2>1. PICK in : in = f.in
      OBVIOUS
    <2>2. in \in {AnyPort} \cup Range(PortMap[v][s])
      BY <2>1 DEF EntryFits
    <2>3. QED
      BY <1>1, <2>1, <2>2, PortsBack
  <1>4. f.in = AnyPort => o.in = AnyPort
    BY <1>1 DEF PortSeen
  <1>5. o.meta \in Metadata /\ f.meta = AddToMatch(0, v, o.meta)
    <2>1. PICK u \in Metadata : f.meta = AddToMatch(0, v, u)
      BY DEF EntryFits
    <2>2. o.meta = u
      BY <1>1, <2>1, UserOfCopy
    <2>3. QED
      BY <2>1, <2>2
  <1>6. QED
    BY <1>1, <1>2, <1>3, <1>4, <1>5

\* A message's copy covers an entry, or takes its place, exactly if the message
\* does so with what is seen of the entry.
LEMMA CoversBack ==
  ASSUME NEW v \in VSwitches, NEW s \in ToSet(Dependent[v]), IsInjective(PortMap[v][s]),
         NEW map, NEW S, NEW p, EntryFits(s, v, S, p), NEW f, EntryFits(s, v, S, f)
  PROVE  /\ Covers(p, f) <=> Covers(OriginalEntry(s, v, map, p), OriginalEntry(s, v, map, f))
         /\ SameEntry(p, f)
            <=> SameEntry(OriginalEntry(s, v, map, p), OriginalEntry(s, v, map, f))
  <1>1. PICK n : n = OriginalEntry(s, v, map, p)
    OBVIOUS
  <1>2. PICK o : o = OriginalEntry(s, v, map, f)
    OBVIOUS
  <1>3. /\ n.table \in 0..252 /\ p.table = n.table + 2 /\ n.prio = p.prio
        /\ OnSwitch(v, s, n.in) /\ p.in = PortAt(v, s, n.in) /\ n.in = PortSeen(s, v, p.in)
        /\ n.in = AnyPort <=> p.in = AnyPort
        /\ n.meta \in Metadata /\ p.meta = AddToMatch(0, v, n.meta)
    BY <1>1, SeenFields
  <1>4. /\ o.table \in 0..252 /\ f.table = o.table + 2 /\ o.prio = f.prio
        /\ OnSwitch(v, s, o.in) /\ f.in = PortAt(v, s, o.in) /\ o.in = PortSeen(s, v, f.in)
        /\ o.in = AnyPort <=> f.in = AnyPort
        /\ o.meta \in Metadata /\ f.meta = AddToMatch(0, v, o.meta)
    BY <1>2, SeenFields
  <1>5. /\ p.table = f.table <=> n.table = o.table
        /\ p.table # AllTables /\ n.table # AllTables
    <2>1. PICK t, r : t = n.table /\ r = o.table
      OBVIOUS
    <2>2. t \in 0..252 /\ r \in 0..252 /\ p.table = t + 2 /\ f.table = r + 2
      BY <1>3, <1>4, <2>1
    <2>3. t + 2 = r + 2 <=> t = r
      BY <2>2
    <2>4. t + 2 # AllTables /\ t # AllTables
      BY <2>2, TablesBack
    <2>5. QED
      BY <2>1, <2>2, <2>3, <2>4
  <1>6. /\ p.in = f.in <=> n.in = o.in
    BY <1>3, <1>4
  <1>7. /\ p.meta = f.meta <=> n.meta = o.meta
        /\ (DOMAIN p.meta \subseteq DOMAIN f.meta /\ \A x \in DOMAIN p.meta : p.meta[x] = f.meta[x])
           <=> (DOMAIN n.meta \subseteq DOMAIN o.meta /\ \A x \in DOMAIN n.meta : n.meta[x] = o.meta[x])
    <2>1. PICK x, y, a, b : x = n.meta /\ y = o.meta /\ a = p.meta /\ b = f.meta
      OBVIOUS
    <2>2. x \in Metadata /\ y \in Metadata /\ a = AddToMatch(0, v, x) /\ b = AddToMatch(0, v, y)
      BY <1>3, <1>4, <2>1
    <2>3. a = b => x = y
      <3>1. UserFields(a) = x /\ UserFields(b) = y
        BY <2>2, UserOfCopy
      <3>2. QED
        BY <3>1
    <2>4. DOMAIN x \cap {"bit", "vs"} = {}
      BY <2>2, UserOfCopy
    <2>5. (DOMAIN a \subseteq DOMAIN b /\ \A z \in DOMAIN a : a[z] = b[z]) <=> Within(x, y)
      BY <2>2, MetaOfCopy
    <2>6. Within(x, y) <=> (DOMAIN x \subseteq DOMAIN y /\ \A z \in DOMAIN x : x[z] = y[z])
      BY <2>4 DEF Within
    <2>7. QED
      BY <2>1, <2>2, <2>3, <2>5, <2>6
  <1>8. Covers(p, f) <=> Covers(n, o)
    BY <1>3, <1>5, <1>6, <1>7 DEF Covers
  <1>9. SameEntry(p, f) <=> SameEntry(n, o)
    BY <1>3, <1>4, <1>5, <1>6, <1>7 DEF SameEntry
  <1>10. QED
    BY <1>1, <1>2, <1>8, <1>9

\* The entries of v for packets without a group
OwnOf(v, F) == {f \in F : f.meta.vs = v /\ f.meta.bit = 0}

\* What a message makes of the entries, if its groups are there
Applied(c, m, F) ==
  IF c = "delete" THEN {f \in F : ~ Covers(m, f)}
  ELSE IF c = "modify" THEN {Changed(m, f) : f \in F}
  ELSE {f \in F : ~ SameEntry(m, f)} \cup {m}

Taken(c, m, there) == c = "delete" \/ GroupsOfEntry(m) \subseteq there

LEMMA FlowModForm ==
  ASSUME NEW d, NEW c, NEW m
  PROVE  /\ FlowMod(d, c, m).groups = d.groups
         /\ FlowMod(d, c, m).flows =
              IF Taken(c, m, DOMAIN d.groups) THEN Applied(c, m, d.flows) ELSE d.flows
  BY DEF FlowMod, Taken, Applied, Changed

\* The second copy leaves the entries for packets without a group alone.
LEMMA OwnFlows ==
  ASSUME NEW v, NEW c, NEW p, NEW q, NEW x, NEW F,
         p.meta = AddToMatch(0, v, x), q.meta = AddToMatch(1, v, x)
  PROVE  /\ OwnOf(v, Applied(c, p, F)) = Applied(c, p, OwnOf(v, F))
         /\ OwnOf(v, Applied(c, q, F)) = OwnOf(v, F)
  <1>1. p.meta.vs = v /\ p.meta.bit = 0 /\ q.meta.bit = 1 /\ 1 # 0
        /\ "bit" \in DOMAIN q.meta /\ q.meta.bit = q.meta["bit"]
    BY DEF AddToMatch
  <1>2. \A f, m : Changed(m, f).meta = f.meta
    BY DEF Changed, WithInstructions
  <1>3. \A f : f.meta.bit = 0 => ~ Covers(q, f) /\ ~ SameEntry(q, f)
    <2> SUFFICES ASSUME NEW f, f.meta.bit = 0
                 PROVE  ~ Covers(q, f) /\ ~ SameEntry(q, f)
      OBVIOUS
    <2>1. f.meta["bit"] = 0 /\ q.meta["bit"] = 1
      BY <1>1
    <2>2. QED
      BY <1>1, <2>1 DEF Covers, SameEntry
  <1>4. \A f : f.meta.bit = 0 => Changed(q, f) = f
    BY <1>3 DEF Changed
  <1>5. OwnOf(v, Applied(c, p, F)) = Applied(c, p, OwnOf(v, F))
    <2>1. CASE c = "delete"
      BY <2>1 DEF Applied, OwnOf
    <2>2. CASE c = "modify"
      BY <1>2, <2>2 DEF Applied, OwnOf
    <2>3. CASE c # "delete" /\ c # "modify"
      BY <1>1, <2>3 DEF Applied, OwnOf
    <2>4. QED
      BY <2>1, <2>2, <2>3
  <1>6. OwnOf(v, Applied(c, q, F)) = OwnOf(v, F)
    <2>1. CASE c = "delete"
      BY <1>3, <2>1 DEF Applied, OwnOf
    <2>2. CASE c = "modify"
      BY <1>2, <1>4, <2>2 DEF Applied, OwnOf
    <2>3. CASE c # "delete" /\ c # "modify"
      BY <1>1, <1>3, <2>3 DEF Applied, OwnOf
    <2>4. QED
      BY <2>1, <2>2, <2>3
  <1>7. QED
    BY <1>5, <1>6

SeenOf(s, v, map, F) == {OriginalEntry(s, v, map, f) : f \in F}

AllFit(s, v, S, F) == \A f \in F : EntryFits(s, v, S, f)
OwnFit(s, v, S, F) == AllFit(s, v, S, OwnOf(v, F))

LEMMA SeenApplied ==
  ASSUME NEW v \in VSwitches, NEW s \in ToSet(Dependent[v]), IsInjective(PortMap[v][s]),
         NEW map, NEW S, NEW p, EntryFits(s, v, S, p),
         NEW F, AllFit(s, v, S, F), NEW c
  PROVE  /\ SeenOf(s, v, map, Applied(c, p, F)) =
              Applied(c, OriginalEntry(s, v, map, p), SeenOf(s, v, map, F))
         /\ AllFit(s, v, S, Applied(c, p, F))
  <1> DEFINE o(f) == OriginalEntry(s, v, map, f)
  <1>1. \A f \in F : /\ Covers(p, f) <=> Covers(o(p), o(f))
                     /\ SameEntry(p, f) <=> SameEntry(o(p), o(f))
    BY CoversBack DEF AllFit
  <1>2. \A f \in F : o(Changed(p, f)) = Changed(o(p), o(f))
    BY <1>1, InstructionsBack DEF Changed
  <1>3. \A f \in F : EntryFits(s, v, S, Changed(p, f))
    BY DEF AllFit, EntryFits, Changed, WithInstructions
  <1> HIDE DEF o
  <1>4. {o(f) : f \in Applied(c, p, F)} = Applied(c, o(p), {o(f) : f \in F})
    <2>1. CASE c = "delete"
      BY <1>1, <2>1 DEF Applied
    <2>2. CASE c = "modify"
      BY <1>2, <2>2 DEF Applied
    <2>3. CASE c # "delete" /\ c # "modify"
      BY <1>1, <2>3 DEF Applied
    <2>4. QED
      BY <2>1, <2>2, <2>3
  <1>5. AllFit(s, v, S, Applied(c, p, F))
    BY <1>3 DEF AllFit, Applied
  <1>6. QED
    BY <1>4, <1>5 DEF o, SeenOf

LEMMA EntryWithin ==
  ASSUME NEW s, NEW v, NEW S, NEW f, EntryFits(s, v, S, f)
  PROVE  GroupsOfEntry(f) \subseteq S
  <1>1. \A a \in Acts(S) : GroupsIn({a}) \subseteq S
    BY GroupsInSet DEF Acts
  <1>2. f.apply \in Acts(S) /\ f.write.group \in Acts(S) /\ f.write.output \in Acts(S)
    BY DEF EntryFits, SetFits, Acts
  <1>3. GroupsOfEntry(f) = GroupsIn({f.apply}) \cup GroupsIn({f.write.output})
                           \cup GroupsIn({f.write.group})
    BY DEF GroupsOfEntry, GroupsIn
  <1>4. QED
    BY <1>1, <1>2, <1>3

\* The groups of a tenant are there exactly if it sees them.
LEMMA NamesThere ==
  ASSUME NEW R, NEW map, NEW d, R \subseteq DOMAIN d.groups,
         NEW G, G \subseteq R \cup Range(map)
  PROVE  G \subseteq DOMAIN d.groups <=> Names(map, G) \subseteq GroupsThere(map, d)
  BY DEF Names, GroupsThere, Range

\* The table that a tenant recognises
Seen(s, v, map, d) ==
  [flows |-> FlowsSeen(s, v, map, d), groups |-> GroupsSeen(s, v, map, d)]

\* handle_flow_mod pushes two copies of an entry to a switch: what the tenant
\* recognises there changes as its own message would change it.
THEOREM SeenFlowMod ==
  ASSUME NEW v \in VSwitches, NEW s \in ToSet(Dependent[v]), IsInjective(PortMap[v][s]),
         NEW map, MapFits(s, map),
         NEW S, S = Reserved(s) \cup Range(map), NEW d, OwnFit(s, v, S, d.flows),
         Reserved(s) \subseteq DOMAIN d.groups,
         NEW p, EntryFits(s, v, S, p),
         NEW q, NEW x, Paired(Reserved(s), p, q, v, x, 0),
         NEW c, NEW e, e = FlowMod(FlowMod(d, c, p), c, q)
  PROVE  /\ Seen(s, v, map, e) = FlowMod(Seen(s, v, map, d), c, OriginalEntry(s, v, map, p))
         /\ e.groups = d.groups /\ OwnFit(s, v, S, e.flows)
  <1> DEFINE there == DOMAIN d.groups
             seen  == FlowsSeen(s, v, map, d)
             own   == OwnOf(v, d.flows)
  <1>1. PICK n, mid : n = OriginalEntry(s, v, map, p) /\ mid = FlowMod(d, c, p)
    OBVIOUS
  <1>2. PICK old : old = Seen(s, v, map, d)
    OBVIOUS
  <1>3. old.flows = seen /\ old.groups = GroupsSeen(s, v, map, d)
        /\ DOMAIN old.groups = GroupsThere(map, d)
    BY <1>2 DEF Seen, GroupsSeen
  <1>4. mid.groups = d.groups /\ e.groups = d.groups
    BY <1>1, FlowModForm
  <1>5. \A t : FlowsSeen(s, v, map, t) = SeenOf(s, v, map, OwnOf(v, t.flows))
    BY DEF FlowsSeen, SeenOf, OwnOf
  <1>6. Taken(c, q, there) <=> Taken(c, p, there)
    BY DEF Taken, Paired
  <1>7. Taken(c, n, GroupsThere(map, d)) <=> Taken(c, p, there)
    <2>1. PICK G, H, R : G = GroupsOfEntry(p) /\ H = GroupsOfEntry(n) /\ R = Reserved(s)
      OBVIOUS
    <2>2. H = Names(map, G) /\ G \subseteq R \cup Range(map)
      BY <1>1, <2>1, EntryNames, EntryWithin
    <2>3. R \subseteq DOMAIN d.groups
      BY <2>1
    <2>4. G \subseteq DOMAIN d.groups <=> Names(map, G) \subseteq GroupsThere(map, d)
      BY <2>2, <2>3, NamesThere
    <2>5. QED
      BY <2>1, <2>2, <2>4 DEF Taken
  <1>8. FlowMod(old, c, n).flows = IF Taken(c, p, there) THEN Applied(c, n, seen) ELSE seen
    BY <1>3, <1>7, FlowModForm
  <1>9. FlowsSeen(s, v, map, e) = FlowMod(old, c, n).flows /\ OwnFit(s, v, S, e.flows)
    <2>1. CASE ~ Taken(c, p, there)
      <3>1. mid.flows = d.flows /\ e.flows = d.flows
        BY <1>1, <1>4, <1>6, <2>1, FlowModForm
      <3>2. FlowsSeen(s, v, map, e) = seen
        BY <1>5, <3>1
      <3>3. QED
        BY <1>8, <2>1, <3>1, <3>2
    <2>2. CASE Taken(c, p, there)
      <3>1. mid.flows = Applied(c, p, d.flows) /\ e.flows = Applied(c, q, mid.flows)
        BY <1>1, <1>4, <1>6, <2>2, FlowModForm
      <3>2. OwnOf(v, e.flows) = Applied(c, p, own)
        <4>1. p.meta = AddToMatch(0, v, x) /\ q.meta = AddToMatch(1, v, x)
          <5>1. 1 - 0 = 1
            OBVIOUS
          <5>2. QED
            BY <5>1 DEF Paired
        <4>2. QED
          BY <3>1, <4>1, OwnFlows
      <3>3. PICK F : F = own
        OBVIOUS
      <3>4. AllFit(s, v, S, F)
        BY <3>3 DEF OwnFit
      <3> HIDE DEF own
      <3>5. /\ SeenOf(s, v, map, Applied(c, p, F)) =
                  Applied(c, OriginalEntry(s, v, map, p), SeenOf(s, v, map, F))
            /\ AllFit(s, v, S, Applied(c, p, F))
        BY <3>4, SeenApplied
      <3>6. seen = SeenOf(s, v, map, F)
        BY <1>5, <3>3 DEF own
      <3>7. FlowsSeen(s, v, map, e) = Applied(c, n, seen) /\ OwnFit(s, v, S, e.flows)
        BY <1>1, <1>5, <3>2, <3>3, <3>5, <3>6 DEF OwnFit
      <3>8. QED
        BY <1>8, <2>2, <3>7
    <2>3. QED
      BY <2>1, <2>2
  <1>10. GroupsSeen(s, v, map, e) = old.groups
    BY <1>3, <1>4 DEF GroupsSeen, GroupsThere
  <1>11. FlowMod(old, c, n) = [flows |-> FlowMod(old, c, n).flows, groups |-> old.groups]
    BY DEF FlowMod
  <1>12. QED
    BY <1>1, <1>2, <1>4, <1>9, <1>10, <1>11 DEF Seen

BucketsFit(S, buckets) == \A b \in ToSet(buckets) : SetFits(S, b)

BucketsSeen(s, v, map, buckets) ==
  [i \in DOMAIN buckets |-> OriginalSet(s, v, map, buckets[i])]

LEMMA BucketGroups ==
  ASSUME NEW buckets
  PROVE  GroupsOfBuckets(buckets) = UNION {GroupOfBucket(buckets[i]) : i \in DOMAIN buckets}
  BY DEF GroupsOfBuckets, GroupOfBucket, GroupsIn, ToSet

LEMMA BucketsNames ==
  ASSUME NEW v \in VSwitches, NEW s \in ToSet(Dependent[v]), NEW map, MapFits(s, map),
         NEW buckets, BucketsFit(Reserved(s) \cup Range(map), buckets)
  PROVE  GroupsOfBuckets(BucketsSeen(s, v, map, buckets)) = Names(map, GroupsOfBuckets(buckets))
  <1>1. PICK seen : seen = BucketsSeen(s, v, map, buckets)
    OBVIOUS
  <1>2. DOMAIN seen = DOMAIN buckets
        /\ \A i \in DOMAIN buckets : seen[i] = OriginalSet(s, v, map, buckets[i])
    BY <1>1 DEF BucketsSeen
  <1>3. ASSUME NEW i \in DOMAIN buckets
        PROVE  GroupOfBucket(seen[i]) = Names(map, GroupOfBucket(buckets[i]))
    <2>1. PICK set : set = buckets[i]
      OBVIOUS
    <2>2. SetFits(Reserved(s) \cup Range(map), set)
      BY <2>1 DEF BucketsFit, ToSet
    <2>3. GroupOfBucket(OriginalSet(s, v, map, set)) = Names(map, GroupOfBucket(set))
      BY <2>2, OriginalSetNames
    <2>4. QED
      BY <1>2, <2>1, <2>3
  <1>4. GroupsOfBuckets(seen) = UNION {GroupOfBucket(seen[i]) : i \in DOMAIN buckets}
    BY <1>2, BucketGroups
  <1>5. GroupsOfBuckets(seen) = UNION {Names(map, GroupOfBucket(buckets[i])) : i \in DOMAIN buckets}
    BY <1>3, <1>4
  <1>6. Names(map, UNION {GroupOfBucket(buckets[i]) : i \in DOMAIN buckets})
        = UNION {Names(map, GroupOfBucket(buckets[i])) : i \in DOMAIN buckets}
    BY DEF Names
  <1>7. QED
    BY <1>1, <1>5, <1>6, BucketGroups

BucketsRewritten(s, v, map, buckets) ==
  [i \in DOMAIN buckets |-> SetRewritten(s, v, map, buckets[i])]

LEMMA BucketsOfRewritten ==
  ASSUME NEW v \in VSwitches, NEW s \in ToSet(Dependent[v]), NEW map, MapFits(s, map),
         NEW buckets,
         \A i \in DOMAIN buckets : /\ buckets[i] \in ActionSet
                                   /\ Ready(v, map, buckets[i].group)
                                   /\ Ready(v, map, buckets[i].output)
  PROVE  /\ BucketsSeen(s, v, map, BucketsRewritten(s, v, map, buckets))
              = Virtual!NormalBuckets(buckets)
         /\ BucketsFit(Reserved(s) \cup Range(map), BucketsRewritten(s, v, map, buckets))
  <1>1. PICK bs : bs = BucketsRewritten(s, v, map, buckets)
    OBVIOUS
  <1>2. DOMAIN bs = DOMAIN buckets
        /\ \A i \in DOMAIN buckets : bs[i] = SetRewritten(s, v, map, buckets[i])
    BY <1>1 DEF BucketsRewritten
  <1>3. ASSUME NEW i \in DOMAIN buckets
        PROVE  /\ OriginalSet(s, v, map, bs[i]) = SetNormal(buckets[i])
               /\ SetFits(Reserved(s) \cup Range(map), bs[i])
    <2>1. PICK set : set = buckets[i]
      OBVIOUS
    <2>2. set \in ActionSet /\ Ready(v, map, set.group) /\ Ready(v, map, set.output)
      BY <2>1
    <2>3. QED
      BY <1>2, <2>1, <2>2, SetOfRewritten
  <1>4. Virtual!NormalBuckets(buckets) = [i \in DOMAIN buckets |-> SetNormal(buckets[i])]
    BY DEF Virtual!NormalBuckets, Virtual!NoAction, SetNormal, HasGroup, NoAction
  <1>5. BucketsSeen(s, v, map, bs) = [i \in DOMAIN buckets |-> OriginalSet(s, v, map, bs[i])]
    BY <1>2 DEF BucketsSeen
  <1>6. [i \in DOMAIN buckets |-> OriginalSet(s, v, map, bs[i])]
          = [i \in DOMAIN buckets |-> SetNormal(buckets[i])]
    BY <1>3
  <1>7. BucketsFit(Reserved(s) \cup Range(map), bs)
    BY <1>2, <1>3 DEF BucketsFit, ToSet
  <1>8. QED
    BY <1>1, <1>4, <1>5, <1>6, <1>7

LEMMA BucketsWithin ==
  ASSUME NEW S, NEW buckets, BucketsFit(S, buckets)
  PROVE  GroupsOfBuckets(buckets) \subseteq S
  <1>1. ASSUME NEW i \in DOMAIN buckets PROVE GroupOfBucket(buckets[i]) \subseteq S
    <2>1. PICK set : set = buckets[i]
      OBVIOUS
    <2>2. set.output = NoAction /\ set.group \in Acts(S)
      BY <2>1 DEF BucketsFit, SetFits, ToSet
    <2>3. GroupOfBucket(set) = GroupsIn({set.group})
      BY <2>2 DEF GroupOfBucket, Executed
    <2>4. QED
      BY <2>1, <2>2, <2>3, GroupsInSet DEF Acts
  <1>2. QED
    BY <1>1, BucketGroups

\* The groups of a tenant name its groups and the hypervisor's, and those of
\* nobody else name them.
OwnGroupsFit(S, ids, groups) ==
  /\ \A id \in ids \cap DOMAIN groups : BucketsFit(S, groups[id])
  /\ \A h \in DOMAIN groups \ ids : GroupsOfBuckets(groups[h]) \cap ids = {}

LEMMA SeenGroups ==
  ASSUME NEW s, NEW v, NEW map, NEW d
  PROVE  /\ DOMAIN GroupsSeen(s, v, map, d) = GroupsThere(map, d)
         /\ GroupsSeen(s, v, map, d) =
              [g \in GroupsThere(map, d) |-> BucketsSeen(s, v, map, d.groups[map[g]])]
         /\ GroupsThere(map, d) = {g \in DOMAIN map : map[g] \in DOMAIN d.groups}
  BY DEF GroupsSeen, GroupsThere, BucketsSeen

LEMMA SeenChained ==
  ASSUME NEW v \in VSwitches, NEW s \in ToSet(Dependent[v]), NEW map, MapFits(s, map),
         NEW S, S = Reserved(s) \cup Range(map),
         NEW d, OwnGroupsFit(S, Range(map), d.groups),
         NEW old, old.groups = GroupsSeen(s, v, map, d), NEW g \in DOMAIN map
  PROVE  Chained(d, map[g]) <=> Chained(old, g)
  <1>1. \A h \in DOMAIN map : map[h] \in Range(map) /\ (map[h] = map[g] => h = g)
    BY DEF MapFits, Range
  <1>2. ASSUME NEW h \in GroupsThere(map, d)
        PROVE  g \in GroupsOfBuckets(old.groups[h])
               <=> map[g] \in GroupsOfBuckets(d.groups[map[h]])
    <2>1. PICK bs : bs = d.groups[map[h]]
      OBVIOUS
    <2>2. old.groups[h] = BucketsSeen(s, v, map, bs)
      BY <2>1, SeenGroups
    <2>3. BucketsFit(Reserved(s) \cup Range(map), bs)
      <3>1. map[h] \in Range(map) \cap DOMAIN d.groups
        <4>1. h \in DOMAIN map /\ map[h] \in DOMAIN d.groups
          BY SeenGroups
        <4>2. QED
          BY <1>1, <4>1
      <3>2. BucketsFit(S, bs)
        BY <2>1, <3>1 DEF OwnGroupsFit
      <3>3. QED
        BY <3>2
    <2>4. GroupsOfBuckets(BucketsSeen(s, v, map, bs)) = Names(map, GroupsOfBuckets(bs))
      BY <2>3, BucketsNames
    <2>5. QED
      BY <2>1, <2>2, <2>4 DEF Names
  <1>3. \A h \in DOMAIN d.groups : map[g] \in GroupsOfBuckets(d.groups[h]) =>
          \E k \in GroupsThere(map, d) : h = map[k]
    <2> SUFFICES ASSUME NEW h \in DOMAIN d.groups,
                        map[g] \in GroupsOfBuckets(d.groups[h])
                 PROVE  \E k \in GroupsThere(map, d) : h = map[k]
      OBVIOUS
    <2>1. h \in Range(map)
      BY <1>1 DEF OwnGroupsFit
    <2>2. PICK k \in DOMAIN map : h = map[k]
      BY <2>1 DEF Range
    <2>3. k \in GroupsThere(map, d)
      BY <2>2 DEF GroupsThere
    <2>4. QED
      BY <2>2, <2>3
  <1>4. DOMAIN old.groups = GroupsThere(map, d)
    BY SeenGroups
  <1>5. \A k \in GroupsThere(map, d) : k \in DOMAIN map /\ map[k] \in DOMAIN d.groups
    BY SeenGroups
  <1>6. QED
    BY <1>1, <1>2, <1>3, <1>4, <1>5 DEF Chained

LEMMA SeenDelete ==
  ASSUME NEW v \in VSwitches, NEW s \in ToSet(Dependent[v]), NEW map, MapFits(s, map),
         NEW S, S = Reserved(s) \cup Range(map),
         NEW d, OwnFit(s, v, S, d.flows), NEW g \in DOMAIN map,
         NEW e, e = DeleteGroups(d, {map[g]} \cap DOMAIN d.groups),
         NEW old, old = Seen(s, v, map, d)
  PROVE  /\ Seen(s, v, map, e) = DeleteGroups(old, {g} \cap DOMAIN old.groups)
         /\ OwnFit(s, v, S, e.flows)
  <1> DEFINE own  == OwnOf(v, d.flows)
             o(f) == OriginalEntry(s, v, map, f)
             gone == {map[g]} \cap DOMAIN d.groups
             lost == {g} \cap GroupsThere(map, d)
  <1>1. \A h \in DOMAIN map : map[h] = map[g] => h = g
    BY DEF MapFits
  <1>2. /\ DOMAIN old.groups = GroupsThere(map, d)
        /\ old.flows = {o(f) : f \in own}
        /\ old.groups = GroupsSeen(s, v, map, d)
    BY SeenGroups DEF Seen, FlowsSeen, OwnOf
  <1>3. /\ e.flows = {f \in d.flows : GroupsOfEntry(f) \cap gone = {}}
        /\ e.groups = [h \in DOMAIN d.groups \ gone |-> d.groups[h]]
    BY DEF DeleteGroups
  <1>4. OwnOf(v, e.flows) = {f \in own : GroupsOfEntry(f) \cap gone = {}}
    BY <1>3 DEF OwnOf
  <1>5. ASSUME NEW f \in own
        PROVE  GroupsOfEntry(f) \cap gone = {} <=> GroupsOfEntry(o(f)) \cap lost = {}
    <2>1. EntryFits(s, v, Reserved(s) \cup Range(map), f)
      BY DEF OwnFit, AllFit
    <2>2. GroupsOfEntry(o(f)) = Names(map, GroupsOfEntry(f))
      BY <2>1, EntryNames
    <2>3. g \in GroupsOfEntry(o(f)) <=> map[g] \in GroupsOfEntry(f)
      BY <2>2 DEF Names
    <2>4. g \in GroupsThere(map, d) <=> map[g] \in DOMAIN d.groups
      BY DEF GroupsThere
    <2> HIDE DEF o
    <2>5. QED
      BY <2>3, <2>4
  <1>6. FlowsSeen(s, v, map, e) = {x \in old.flows : GroupsOfEntry(x) \cap lost = {}}
    <2>1. FlowsSeen(s, v, map, e) = {o(f) : f \in OwnOf(v, e.flows)}
      BY DEF FlowsSeen, OwnOf
    <2> HIDE DEF o, own, gone, lost
    <2>2. QED
      BY <1>2, <1>4, <1>5, <2>1
  <1>7. GroupsThere(map, e) = GroupsThere(map, d) \ lost
    <2>1. DOMAIN e.groups = DOMAIN d.groups \ gone
      BY <1>3
    <2>2. QED
      BY <1>1, <2>1 DEF GroupsThere
  <1>8. \A h \in GroupsThere(map, e) : e.groups[map[h]] = d.groups[map[h]]
    <2>1. \A i \in DOMAIN e.groups : e.groups[i] = d.groups[i]
      BY <1>3
    <2>2. QED
      BY <2>1 DEF GroupsThere
  <1>9. GroupsSeen(s, v, map, e) = [h \in GroupsThere(map, d) \ lost |-> old.groups[h]]
    <2>1. GroupsSeen(s, v, map, e) =
            [h \in GroupsThere(map, e) |-> BucketsSeen(s, v, map, e.groups[map[h]])]
      BY DEF GroupsSeen, BucketsSeen
    <2>2. \A h \in GroupsThere(map, d) : old.groups[h] = BucketsSeen(s, v, map, d.groups[map[h]])
      BY <1>2, SeenGroups
    <2> HIDE DEF lost
    <2>3. \A h \in GroupsThere(map, e) :
            BucketsSeen(s, v, map, e.groups[map[h]]) = old.groups[h]
      BY <1>7, <1>8, <2>2
    <2>4. QED
      BY <1>7, <2>1, <2>3
  <1>10. OwnFit(s, v, S, e.flows)
    BY <1>4 DEF OwnFit, AllFit
  <1>11. QED
    BY <1>2, <1>6, <1>9, <1>10 DEF DeleteGroups, Seen

WithGroup(d, g, buckets) ==
  [flows  |-> d.flows,
   groups |-> [h \in DOMAIN d.groups \cup {g} |-> IF h = g THEN buckets ELSE d.groups[h]]]

LEMMA SeenWithGroup ==
  ASSUME NEW v \in VSwitches, NEW s \in ToSet(Dependent[v]), NEW map, MapFits(s, map),
         NEW d, NEW g \in DOMAIN map, NEW buckets,
         NEW e, e = WithGroup(d, map[g], buckets),
         NEW old, old = Seen(s, v, map, d)
  PROVE  Seen(s, v, map, e) = WithGroup(old, g, BucketsSeen(s, v, map, buckets))
  <1>1. \A h \in DOMAIN map : map[h] = map[g] => h = g
    BY DEF MapFits
  <1>2. e.flows = d.flows /\ DOMAIN e.groups = DOMAIN d.groups \cup {map[g]}
        /\ e.groups[map[g]] = buckets
        /\ \A h \in DOMAIN d.groups : h # map[g] => e.groups[h] = d.groups[h]
    BY DEF WithGroup
  <1>3. FlowsSeen(s, v, map, e) = old.flows
    BY <1>2 DEF FlowsSeen, Seen
  <1>4. DOMAIN old.groups = GroupsThere(map, d)
        /\ \A h \in GroupsThere(map, d) : old.groups[h] = BucketsSeen(s, v, map, d.groups[map[h]])
    BY SeenGroups DEF Seen
  <1>5. GroupsThere(map, e) = GroupsThere(map, d) \cup {g}
    BY <1>1, <1>2 DEF GroupsThere
  <1>6. \A h \in GroupsThere(map, e) :
          BucketsSeen(s, v, map, e.groups[map[h]]) =
            IF h = g THEN BucketsSeen(s, v, map, buckets) ELSE old.groups[h]
    <2> SUFFICES ASSUME NEW h \in GroupsThere(map, e)
                 PROVE  BucketsSeen(s, v, map, e.groups[map[h]]) =
                          IF h = g THEN BucketsSeen(s, v, map, buckets) ELSE old.groups[h]
      OBVIOUS
    <2>1. CASE h = g
      BY <1>2, <2>1
    <2>2. CASE h # g
      <3>1. h \in GroupsThere(map, d) /\ h \in DOMAIN map /\ map[h] \in DOMAIN d.groups
        BY <1>5, <2>2 DEF GroupsThere
      <3>2. e.groups[map[h]] = d.groups[map[h]]
        BY <1>1, <1>2, <2>2, <3>1
      <3>3. QED
        BY <1>4, <2>2, <3>1, <3>2
    <2>3. QED
      BY <2>1, <2>2
  <1>7. GroupsSeen(s, v, map, e) =
          [h \in GroupsThere(map, d) \cup {g} |->
             IF h = g THEN BucketsSeen(s, v, map, buckets) ELSE old.groups[h]]
    <2>1. GroupsSeen(s, v, map, e) =
            [h \in GroupsThere(map, e) |-> BucketsSeen(s, v, map, e.groups[map[h]])]
      BY SeenGroups
    <2>2. [h \in GroupsThere(map, e) |-> BucketsSeen(s, v, map, e.groups[map[h]])] =
          [h \in GroupsThere(map, e) |->
             IF h = g THEN BucketsSeen(s, v, map, buckets) ELSE old.groups[h]]
      BY <1>6
    <2>3. QED
      BY <1>5, <2>1, <2>2
  <1>8. QED
    BY <1>3, <1>4, <1>7 DEF WithGroup, Seen

\* A group_mod that adds or modifies is refused.
Unfit(d, c, g, buckets) ==
  \/ ~ (GroupsOfBuckets(buckets) \subseteq DOMAIN d.groups \ {g})
  \/ (c = "add") # (g \notin DOMAIN d.groups)

LEMMA GroupModForm ==
  ASSUME NEW d, NEW c, NEW g \in Nat, NEW buckets
  PROVE  GroupMod(d, c, g, buckets) =
           IF c = "delete"
           THEN IF Chained(d, g) THEN d ELSE DeleteGroups(d, {g} \cap DOMAIN d.groups)
           ELSE IF Unfit(d, c, g, buckets) THEN d ELSE WithGroup(d, g, buckets)
  <1>1. g # AllGroups
    BY DEF AllGroups
  <1>2. QED
    BY <1>1 DEF GroupMod, Unfit, WithGroup

LEMMA SeenUnfit ==
  ASSUME NEW v \in VSwitches, NEW s \in ToSet(Dependent[v]), NEW map, MapFits(s, map),
         NEW d, Reserved(s) \subseteq DOMAIN d.groups, NEW g \in DOMAIN map,
         NEW buckets, BucketsFit(Reserved(s) \cup Range(map), buckets), NEW c,
         NEW old, old = Seen(s, v, map, d)
  PROVE  Unfit(d, c, map[g], buckets) <=> Unfit(old, c, g, BucketsSeen(s, v, map, buckets))
  <1>1. PICK G, H, R : /\ G = GroupsOfBuckets(buckets) /\ R = Reserved(s)
                       /\ H = GroupsOfBuckets(BucketsSeen(s, v, map, buckets))
    OBVIOUS
  <1>2. H = Names(map, G)
    BY <1>1, BucketsNames
  <1>3. G \subseteq R \cup Range(map) /\ R \subseteq DOMAIN d.groups
    BY <1>1, BucketsWithin
  <1>4. G \subseteq DOMAIN d.groups <=> H \subseteq GroupsThere(map, d)
    <2>1. G \subseteq DOMAIN d.groups <=> Names(map, G) \subseteq GroupsThere(map, d)
      BY <1>3, NamesThere
    <2>2. QED
      BY <1>2, <2>1
  <1>5. g \in H <=> map[g] \in G
    BY <1>2 DEF Names
  <1>6. g \in GroupsThere(map, d) <=> map[g] \in DOMAIN d.groups
    BY DEF GroupsThere
  <1>7. DOMAIN old.groups = GroupsThere(map, d)
    BY SeenGroups DEF Seen
  <1>8. QED
    BY <1>1, <1>4, <1>5, <1>6, <1>7 DEF Unfit

\* handle_group_mod on one switch: what the tenant recognises there changes as
\* its own message would change it, the entries included that a delete takes.
THEOREM SeenGroupMod ==
  ASSUME NEW v \in VSwitches, NEW s \in ToSet(Dependent[v]), NEW map, MapFits(s, map),
         NEW S, S = Reserved(s) \cup Range(map), NEW d, OwnFit(s, v, S, d.flows),
         OwnGroupsFit(S, Range(map), d.groups), Reserved(s) \subseteq DOMAIN d.groups,
         NEW g \in DOMAIN map, g \in Nat,
         NEW buckets, BucketsFit(S, buckets),
         NEW c, NEW e, e = GroupMod(d, c, map[g], buckets)
  PROVE  /\ Seen(s, v, map, e) =
              GroupMod(Seen(s, v, map, d), c, g, BucketsSeen(s, v, map, buckets))
         /\ OwnFit(s, v, S, e.flows) /\ OwnGroupsFit(S, Range(map), e.groups)
  <1>1. PICK id : id = map[g]
    OBVIOUS
  <1>2. id \in Nat /\ id \in Range(map)
    BY <1>1 DEF MapFits, Range
  <1>3. PICK old, bs : old = Seen(s, v, map, d) /\ bs = BucketsSeen(s, v, map, buckets)
    OBVIOUS
  <1>4. old.groups = GroupsSeen(s, v, map, d)
    BY <1>3 DEF Seen
  <1>5. e = IF c = "delete"
            THEN IF Chained(d, id) THEN d ELSE DeleteGroups(d, {id} \cap DOMAIN d.groups)
            ELSE IF Unfit(d, c, id, buckets) THEN d ELSE WithGroup(d, id, buckets)
    BY <1>1, <1>2, GroupModForm
  <1>6. GroupMod(old, c, g, bs) =
          IF c = "delete"
          THEN IF Chained(old, g) THEN old ELSE DeleteGroups(old, {g} \cap DOMAIN old.groups)
          ELSE IF Unfit(old, c, g, bs) THEN old ELSE WithGroup(old, g, bs)
    BY GroupModForm
  <1>7. Chained(d, id) <=> Chained(old, g)
    BY <1>1, <1>4, SeenChained
  <1>8. Unfit(d, c, id, buckets) <=> Unfit(old, c, g, bs)
    BY <1>1, <1>3, SeenUnfit
  <1>9. CASE e = d /\ GroupMod(old, c, g, bs) = old
    BY <1>3, <1>9
  <1>10. CASE /\ e = DeleteGroups(d, {id} \cap DOMAIN d.groups)
              /\ GroupMod(old, c, g, bs) = DeleteGroups(old, {g} \cap DOMAIN old.groups)
    <2>1. /\ Seen(s, v, map, e) = DeleteGroups(old, {g} \cap DOMAIN old.groups)
          /\ OwnFit(s, v, S, e.flows)
      BY <1>1, <1>3, <1>10, SeenDelete
    <2>2. /\ DOMAIN e.groups \subseteq DOMAIN d.groups
          /\ \A h \in DOMAIN e.groups : e.groups[h] = d.groups[h]
      BY <1>10 DEF DeleteGroups
    <2>3. OwnGroupsFit(S, Range(map), e.groups)
      BY <2>2 DEF OwnGroupsFit
    <2>4. QED
      BY <1>3, <1>10, <2>1, <2>3
  <1>11. CASE /\ e = WithGroup(d, id, buckets)
              /\ GroupMod(old, c, g, bs) = WithGroup(old, g, bs)
    <2>1. Seen(s, v, map, e) = WithGroup(old, g, bs)
      BY <1>1, <1>3, <1>11, SeenWithGroup
    <2>2. /\ e.flows = d.flows /\ DOMAIN e.groups = DOMAIN d.groups \cup {id}
          /\ e.groups[id] = buckets
          /\ \A h \in DOMAIN e.groups : h # id => e.groups[h] = d.groups[h]
      BY <1>11 DEF WithGroup
    <2>3. OwnGroupsFit(S, Range(map), e.groups)
      BY <1>2, <2>2 DEF OwnGroupsFit
    <2>4. QED
      BY <1>3, <1>11, <2>1, <2>2, <2>3
  <1>12. QED
    BY <1>5, <1>6, <1>7, <1>8, <1>9, <1>10, <1>11

-----------------------------------------------------------------------------
\* new is map with more groups.
Extends(map, new) ==
  /\ DOMAIN map \subseteq DOMAIN new
  /\ \A g \in DOMAIN map : new[g] = map[g]

\* What the hypervisor and the tenants have on a switch: its own groups name
\* each other only, a tenant's name those and the tenant's.
GroupsFit(R, I, groups) ==
  /\ DOMAIN groups \subseteq R \cup UNION {I[w] : w \in VSwitches}
  /\ \A r \in R \cap DOMAIN groups : GroupsOfBuckets(groups[r]) \subseteq R
  /\ \A w \in VSwitches : \A id \in I[w] \cap DOMAIN groups :
       BucketsFit(R \cup I[w], groups[id])

IdsDiffer(R, I) ==
  \A w \in VSwitches : /\ I[w] \cap R = {}
                       /\ \A u \in VSwitches : u # w => I[u] \cap I[w] = {}

LEMMA FitsMore ==
  ASSUME NEW S, NEW T, S \subseteq T
  PROVE  /\ Acts(S) \subseteq Acts(T)
         /\ \A set : SetFits(S, set) => SetFits(T, set)
         /\ \A buckets : BucketsFit(S, buckets) => BucketsFit(T, buckets)
         /\ \A s, v, f : EntryFits(s, v, S, f) => EntryFits(s, v, T, f)
         /\ \A s, v, F : OwnFit(s, v, S, F) => OwnFit(s, v, T, F)
  <1>1. Acts(S) \subseteq Acts(T)
    BY DEF Acts
  <1>2. \A set : SetFits(S, set) => SetFits(T, set)
    BY <1>1 DEF SetFits
  <1>3. \A buckets : BucketsFit(S, buckets) => BucketsFit(T, buckets)
    BY <1>2 DEF BucketsFit
  <1>4. \A s, v, f : EntryFits(s, v, S, f) => EntryFits(s, v, T, f)
    BY <1>1, <1>2 DEF EntryFits
  <1>5. \A s, v, F : OwnFit(s, v, S, F) => OwnFit(s, v, T, F)
    BY <1>4 DEF OwnFit, AllFit
  <1>6. QED
    BY <1>1, <1>2, <1>3, <1>4, <1>5

LEMMA GroupsFitMore ==
  ASSUME NEW R, NEW I, NEW J, NEW groups, GroupsFit(R, I, groups),
         IdsDiffer(R, J), \A w \in VSwitches : I[w] \subseteq J[w]
  PROVE  GroupsFit(R, J, groups)
  <1>1. DOMAIN groups \subseteq R \cup UNION {J[w] : w \in VSwitches}
    BY DEF GroupsFit
  <1>2. ASSUME NEW w \in VSwitches, NEW id \in J[w] \cap DOMAIN groups
        PROVE  BucketsFit(R \cup J[w], groups[id])
    <2>1. id \in I[w]
      <3>1. id \notin R
        BY DEF IdsDiffer
      <3>2. PICK u \in VSwitches : id \in I[u]
        BY <3>1 DEF GroupsFit
      <3>3. u = w
        BY <3>2 DEF IdsDiffer
      <3>4. QED
        BY <3>2, <3>3
    <2>2. BucketsFit(R \cup I[w], groups[id])
      BY <2>1 DEF GroupsFit
    <2>3. PICK S, T : S = R \cup I[w] /\ T = R \cup J[w]
      OBVIOUS
    <2>4. S \subseteq T
      BY <2>3
    <2>5. QED
      BY <2>2, <2>3, <2>4, FitsMore
  <1>3. QED
    BY <1>1, <1>2 DEF GroupsFit

LEMMA OwnGroupsOf ==
  ASSUME NEW R, NEW I, NEW groups, GroupsFit(R, I, groups), IdsDiffer(R, I),
         NEW v \in VSwitches
  PROVE  OwnGroupsFit(R \cup I[v], I[v], groups)
  <1>1. \A id \in I[v] \cap DOMAIN groups : BucketsFit(R \cup I[v], groups[id])
    BY DEF GroupsFit
  <1>2. ASSUME NEW h \in DOMAIN groups \ I[v]
        PROVE  GroupsOfBuckets(groups[h]) \cap I[v] = {}
    <2>1. CASE h \in R
      BY <2>1 DEF GroupsFit, IdsDiffer
    <2>2. CASE h \notin R
      <3>1. PICK w \in VSwitches : h \in I[w]
        BY <2>2 DEF GroupsFit
      <3>2. BucketsFit(R \cup I[w], groups[h]) /\ w # v
        BY <3>1 DEF GroupsFit
      <3>3. GroupsOfBuckets(groups[h]) \subseteq R \cup I[w]
        BY <3>2, BucketsWithin
      <3>4. QED
        BY <3>2, <3>3 DEF IdsDiffer
    <2>3. QED
      BY <2>1, <2>2
  <1>3. QED
    BY <1>1, <1>2 DEF OwnGroupsFit

GroupFrom(groups) ==
  IF groups = {} THEN Output(0) ELSE Group(CHOOSE g \in groups : TRUE)

LEMMA OriginalForm ==
  ASSUME NEW s, NEW v, NEW map, NEW a
  PROVE  Original(s, v, map, a) =
           IF a.kind # "group" THEN a
           ELSE IF a.id = 0 THEN Output(Controller)
           ELSE IF a.id \in DOMAIN OutputOf[s][v] THEN Output(OutputOf[s][v][a.id])
           ELSE GroupFrom({g \in DOMAIN map : map[g] = a.id})
  BY DEF Original, GroupFrom

\* Ids for more groups do not change what a tenant sees.
LEMMA MoreIdsSeen ==
  ASSUME NEW v \in VSwitches, NEW s \in ToSet(Dependent[v]),
         NEW map, NEW new, Extends(map, new), MapFits(s, new),
         NEW S, S = Reserved(s) \cup Range(map), NEW d, OwnFit(s, v, S, d.flows),
         OwnGroupsFit(S, Range(map), d.groups),
         \A g \in DOMAIN new \ DOMAIN map : new[g] \notin DOMAIN d.groups
  PROVE  Seen(s, v, new, d) = Seen(s, v, map, d)
  <1>1. ASSUME NEW a \in Acts(S)
        PROVE  Original(s, v, new, a) = Original(s, v, map, a)
    <2>1. CASE a = NoAction
      BY <2>1, Fields DEF Original
    <2>2. CASE \E id \in S : a = Group(id)
      <3>1. PICK id \in S : a = Group(id)
        BY <2>2
      <3>2. {g \in DOMAIN new : new[g] = id} = {g \in DOMAIN map : map[g] = id}
        BY DEF MapFits, Extends, Range
      <3>3. PICK G : G = {g \in DOMAIN map : map[g] = id}
        OBVIOUS
      <3>4. a.kind = "group" /\ a.id = id
        BY <3>1, Fields
      <3>5. \A m : {g \in DOMAIN m : m[g] = id} = G =>
              Original(s, v, m, a) = IF id = 0 THEN Output(Controller)
                                     ELSE IF id \in DOMAIN OutputOf[s][v]
                                     THEN Output(OutputOf[s][v][id]) ELSE GroupFrom(G)
        BY <3>4, OriginalForm
      <3>6. QED
        BY <3>2, <3>3, <3>5
    <2>3. QED
      BY <2>1, <2>2 DEF Acts
  <1>2. ASSUME NEW set, SetFits(S, set)
        PROVE  OriginalSet(s, v, new, set) = OriginalSet(s, v, map, set)
    BY <1>1, <1>2 DEF OriginalSet, SetFits
  <1>3. ASSUME NEW f, EntryFits(s, v, S, f)
        PROVE  OriginalEntry(s, v, new, f) = OriginalEntry(s, v, map, f)
    BY <1>1, <1>2, <1>3 DEF OriginalEntry, EntryFits
  <1>4. FlowsSeen(s, v, new, d) = FlowsSeen(s, v, map, d)
    <2>1. \A f \in OwnOf(v, d.flows) : OriginalEntry(s, v, new, f) = OriginalEntry(s, v, map, f)
      BY <1>3 DEF OwnFit, AllFit
    <2>2. \A m : FlowsSeen(s, v, m, d) = {OriginalEntry(s, v, m, f) : f \in OwnOf(v, d.flows)}
      BY DEF FlowsSeen, OwnOf
    <2>3. QED
      BY <2>1, <2>2
  <1>5. GroupsThere(new, d) = GroupsThere(map, d)
    BY DEF GroupsThere, Extends
  <1>6. \A g \in GroupsThere(map, d) :
          BucketsSeen(s, v, new, d.groups[new[g]]) = BucketsSeen(s, v, map, d.groups[map[g]])
    <2> SUFFICES ASSUME NEW g \in GroupsThere(map, d)
                 PROVE  BucketsSeen(s, v, new, d.groups[new[g]]) =
                          BucketsSeen(s, v, map, d.groups[map[g]])
      OBVIOUS
    <2>1. new[g] = map[g] /\ map[g] \in Range(map) \cap DOMAIN d.groups
      BY DEF GroupsThere, Extends, Range
    <2>2. PICK bs : bs = d.groups[map[g]]
      OBVIOUS
    <2>3. BucketsFit(S, bs)
      BY <2>1, <2>2 DEF OwnGroupsFit
    <2>4. \A i \in DOMAIN bs : OriginalSet(s, v, new, bs[i]) = OriginalSet(s, v, map, bs[i])
      BY <1>2, <2>3 DEF BucketsFit, ToSet
    <2>5. BucketsSeen(s, v, new, bs) = BucketsSeen(s, v, map, bs)
      BY <2>4 DEF BucketsSeen
    <2>6. QED
      BY <2>1, <2>2, <2>5
  <1>7. GroupsSeen(s, v, new, d) = GroupsSeen(s, v, map, d)
    <2>1. \A m : GroupsSeen(s, v, m, d) =
                   [g \in GroupsThere(m, d) |-> BucketsSeen(s, v, m, d.groups[m[g]])]
      BY SeenGroups
    <2>2. QED
      BY <1>5, <1>6, <2>1
  <1>8. QED
    BY <1>4, <1>7 DEF Seen

-----------------------------------------------------------------------------
(***************************************************************************)
(* Where a flow_mod is pushed: with ports whose numbers do not meet, each  *)
(* switch starts from the port that the controller named.                  *)
(***************************************************************************)
\* The port of a message after each switch, from those before it
PortStep(v, port, in) ==
  [n \in 0..Len(Dependent[v]) |->
     IF n = 0 THEN port
     ELSE IF OnSwitch(v, Dependent[v][n], in[n - 1])
     THEN PortAt(v, Dependent[v][n], in[n - 1]) ELSE in[n - 1]]

Met(v, in) == {n \in DOMAIN Dependent[v] : OnSwitch(v, Dependent[v][n], in[n - 1])}

PortsMet(v, in) ==
  [s \in {Dependent[v][n] : n \in Met(v, in)} |->
     in[CHOOSE n \in Met(v, in) : Dependent[v][n] = s]]

LEMMA MatchForm ==
  ASSUME NEW v, NEW port, NEW in, in = PortStep(v, port, in), Len(Dependent[v]) \in Nat
  PROVE  MatchPorts(v, port) = PortsMet(v, in)
  <1> DEFINE sw == Dependent[v]
  <1>1. MatchPorts(v, port) = PortsMet(v, CHOOSE f : f = PortStep(v, port, f))
    BY DEF MatchPorts, PortsMet, Met, PortStep
  <1>2. PICK f : f = PortStep(v, port, f) /\ f = CHOOSE g : g = PortStep(v, port, g)
    OBVIOUS
  <1>3. ASSUME NEW n \in 0..Len(sw) PROVE f[n] = in[n]
    <2> DEFINE bad == {m \in 0..Len(sw) : f[m] # in[m]}
    <2> SUFFICES ASSUME bad # {} PROVE FALSE
      BY <1>3
    <2>1. PICK m \in bad : \A o \in bad : m <= o
      <3>1. bad \subseteq Nat
        OBVIOUS
      <3>2. PICK B : B = bad
        OBVIOUS
      <3> HIDE DEF bad
      <3>3. \E m \in B : \A o \in B : m <= o
        BY <3>1, <3>2, LeastNatural
      <3>4. QED
        BY <3>2, <3>3
    <2>2. f[m] = (PortStep(v, port, f))[m] /\ in[m] = (PortStep(v, port, in))[m]
      BY <1>2
    <2>3. f[0] = port /\ in[0] = port
      BY <1>2 DEF PortStep
    <2>4. m # 0 /\ m \in Nat /\ m - 1 \in 0..Len(sw) /\ m - 1 < m
      BY <2>1, <2>3
    <2>5. m - 1 \notin bad
      BY <2>1, <2>4
    <2>6. f[m - 1] = in[m - 1]
      BY <2>4, <2>5
    <2>7. f[m] = in[m]
      BY <2>1, <2>2, <2>4, <2>6 DEF PortStep
    <2>8. QED
      BY <2>1, <2>7
  <1>4. /\ f = [n \in 0..Len(sw) |-> f[n]]
        /\ in = [n \in 0..Len(sw) |-> in[n]]
    BY <1>2 DEF PortStep
  <1>5. f = in
    BY <1>3, <1>4
  <1>6. QED
    BY <1>1, <1>2, <1>5

\* The number of a port is not met again on another switch.
NumberApart(v, port) ==
  \A s, t \in ToSet(Dependent[v]) :
    s # t /\ port \in DOMAIN PortMap[v][s] =>
      {port, PortMap[v][s][port]} \cap DOMAIN PortMap[v][t] = {}

\* With such a number, the loop of handle_flow_mod over the switches, which
\* writes the rewritten match back into the message, pushes it to exactly the
\* switches that have the port, to each with its own number of it.
THEOREM MatchPortsCorrect ==
  ASSUME NEW v \in VSwitches, NEW port, NumberApart(v, port)
  PROVE  /\ DOMAIN MatchPorts(v, port) = {s \in ToSet(Dependent[v]) : OnSwitch(v, s, port)}
         /\ \A s \in DOMAIN MatchPorts(v, port) : MatchPorts(v, port)[s] = PortAt(v, s, port)
  <1> DEFINE L == Len(Dependent[v])
  <1>1. PICK sw : sw = Dependent[v]
    OBVIOUS
  <1>2. /\ L \in Nat /\ L = Len(sw) /\ DOMAIN sw = 1..L
        /\ \A n, k \in DOMAIN sw : sw[n] = sw[k] => n = k
    BY <1>1, PortAssumption DEF IsInjective
  <1>3. ToSet(Dependent[v]) = {sw[n] : n \in DOMAIN sw}
    BY <1>1 DEF ToSet
  <1>4. \A s \in ToSet(Dependent[v]) : /\ AnyPort \notin DOMAIN PortMap[v][s]
                                       /\ AnyPort \notin Range(PortMap[v][s])
    <2>1. AnyPort \notin Nat
      BY DEF AnyPort
    <2>2. QED
      BY <2>1, PortAssumption
  <1>5. \A s : OnSwitch(v, s, port) <=> port = AnyPort \/ port \in DOMAIN PortMap[v][s]
    BY DEF OnSwitch
  <1>6. CASE /\ port # AnyPort
             /\ \E s \in ToSet(Dependent[v]) : port \in DOMAIN PortMap[v][s]
    <2>1. PICK k \in DOMAIN sw : port \in DOMAIN PortMap[v][sw[k]]
      BY <1>3, <1>6
    <2>2. PICK phys : phys = PortMap[v][sw[k]][port]
      OBVIOUS
    <2>3. phys # AnyPort
      BY <1>3, <1>4, <2>1, <2>2 DEF Range
    <2>4. \A n \in DOMAIN sw : n # k => /\ port \notin DOMAIN PortMap[v][sw[n]]
                                        /\ phys \notin DOMAIN PortMap[v][sw[n]]
      BY <1>2, <1>3, <2>1, <2>2 DEF NumberApart
    <2>5. PICK in : in = [n \in 0..L |-> IF n < k THEN port ELSE phys]
      OBVIOUS
    <2>6. /\ k \in Nat /\ k # 0 /\ k - 1 \in 0..L /\ in[k - 1] = port /\ in[k] = phys
          /\ in[0] = port
      BY <1>2, <2>5
    <2>7. \A n \in 1..L : n # k =>
            in[n] = in[n - 1] /\ in[n - 1] \in {port, phys}
      BY <1>2, <2>5, <2>6
    <2>8. \A n \in 1..L : OnSwitch(v, sw[n], in[n - 1]) <=> n = k
      BY <1>2, <1>6, <2>1, <2>3, <2>4, <2>6, <2>7 DEF OnSwitch
    <2>9. PortAt(v, sw[k], port) = phys
      BY <1>6, <2>2 DEF PortAt
    <2>10. in = PortStep(v, port, in)
      <3>1. ASSUME NEW n \in 0..L
            PROVE  in[n] = IF n = 0 THEN port
                           ELSE IF OnSwitch(v, Dependent[v][n], in[n - 1])
                           THEN PortAt(v, Dependent[v][n], in[n - 1]) ELSE in[n - 1]
        <4>1. CASE n = 0
          BY <2>6, <4>1
        <4>2. CASE n = k
          BY <1>1, <1>2, <2>6, <2>8, <2>9, <4>2
        <4>3. CASE n # 0 /\ n # k
          <5>1. n \in 1..L
            BY <1>2, <4>3
          <5>2. QED
            BY <1>1, <2>7, <2>8, <4>3, <5>1
        <4>4. QED
          BY <4>1, <4>2, <4>3
      <3>2. QED
        BY <2>5, <3>1 DEF PortStep
    <2>11. MatchPorts(v, port) = PortsMet(v, in)
      BY <1>2, <2>10, MatchForm
    <2>12. Met(v, in) = {k}
      BY <1>1, <1>2, <2>8 DEF Met
    <2>13. PortsMet(v, in) = [s \in {sw[k]} |-> phys]
      BY <1>1, <2>6, <2>12 DEF PortsMet
    <2>14. {s \in ToSet(Dependent[v]) : OnSwitch(v, s, port)} = {sw[k]}
      BY <1>3, <1>5, <1>6, <2>1, <2>4
    <2>15. QED
      BY <2>9, <2>11, <2>13, <2>14
  <1>7. CASE \/ port = AnyPort
             \/ \A s \in ToSet(Dependent[v]) : port \notin DOMAIN PortMap[v][s]
    <2>1. PICK in : in = [n \in 0..L |-> port]
      OBVIOUS
    <2>2. \A n \in 1..L : in[n - 1] = port /\ in[n] = port /\ sw[n] \in ToSet(Dependent[v])
      BY <1>2, <1>3, <2>1
    <2>3. \A s \in ToSet(Dependent[v]) : OnSwitch(v, s, port) => PortAt(v, s, port) = port
      BY <1>5, <1>7 DEF PortAt
    <2>4. in = PortStep(v, port, in)
      <3>1. ASSUME NEW n \in 0..L
            PROVE  in[n] = IF n = 0 THEN port
                           ELSE IF OnSwitch(v, Dependent[v][n], in[n - 1])
                           THEN PortAt(v, Dependent[v][n], in[n - 1]) ELSE in[n - 1]
        <4>1. CASE n = 0
          BY <2>1, <4>1
        <4>2. CASE n # 0
          <5>1. n \in 1..L
            BY <1>2, <4>2
          <5>2. QED
            BY <1>1, <2>2, <2>3, <4>2, <5>1
        <4>3. QED
          BY <4>1, <4>2
      <3>2. QED
        BY <2>1, <3>1 DEF PortStep
    <2>5. MatchPorts(v, port) = PortsMet(v, in)
      BY <1>2, <2>4, MatchForm
    <2>6. Met(v, in) = {n \in DOMAIN sw : OnSwitch(v, sw[n], port)}
      BY <1>1, <1>2, <2>2 DEF Met
    <2>7. DOMAIN PortsMet(v, in) = {s \in ToSet(Dependent[v]) : OnSwitch(v, s, port)}
      BY <1>1, <1>3, <2>6 DEF PortsMet
    <2>8. ASSUME NEW s \in DOMAIN PortsMet(v, in)
          PROVE  PortsMet(v, in)[s] = port
      <3>1. PICK n \in Met(v, in) : sw[n] = s
        BY <1>1, <1>3, <2>6, <2>7
      <3>2. PICK i : i = CHOOSE j \in Met(v, in) : Dependent[v][j] = s
        OBVIOUS
      <3>3. i \in Met(v, in)
        BY <1>1, <3>1, <3>2
      <3>4. i \in 1..L
        BY <1>2, <2>6, <3>3
      <3>5. PortsMet(v, in)[s] = in[i]
        BY <3>2 DEF PortsMet
      <3>6. QED
        BY <2>2, <3>4, <3>5
    <2>9. QED
      BY <2>3, <2>5, <2>7, <2>8
  <1>8. QED
    BY <1>6, <1>7

-----------------------------------------------------------------------------
(***************************************************************************)
(* The tables that the tenants see                                         *)
(***************************************************************************)
OldIds(s) == [w \in VSwitches |-> IdsOf(s, w)]

\* The tables of the switches name the groups of who they belong to.
TablesFit ==
  \A s \in Switches :
    /\ GroupsFit(Reserved(s), OldIds(s), device[s].groups)
    /\ \A v \in Tenants(s) :
         OwnFit(s, v, Reserved(s) \cup IdsOf(s, v), device[s].flows)

\* Maps with ids of their own
MapsApart(s, maps, next) ==
  \A v \in VSwitches : \A g \in DOMAIN maps[v] :
    /\ maps[v][g] \in FirstId[s]..(next - 1)
    /\ \A w \in VSwitches : \A h \in DOMAIN maps[w] :
         maps[v][g] = maps[w][h] => v = w /\ g = h

LEMMA MapsFit ==
  ASSUME NEW s \in Switches, NEW maps, NEW next, next \in Nat, MapsApart(s, maps, next)
  PROVE  /\ IdsDiffer(Reserved(s), [w \in VSwitches |-> Range(maps[w])])
         /\ \A v \in VSwitches : MapFits(s, maps[v])
  <1>1. FirstId[s] \in Nat /\ \A r \in Reserved(s) : r \in Nat /\ r < FirstId[s]
    BY ReservedFirst
  <1>2. ASSUME NEW v \in VSwitches, NEW g \in DOMAIN maps[v]
        PROVE  maps[v][g] \in Nat \ Reserved(s)
    <2>1. PICK id : id = maps[v][g]
      OBVIOUS
    <2>2. id \in FirstId[s]..(next - 1)
      BY <2>1 DEF MapsApart
    <2>3. id \in Nat /\ id \notin Reserved(s)
      BY <1>1, <2>2
    <2>4. QED
      BY <2>1, <2>3
  <1>3. \A v \in VSwitches : MapFits(s, maps[v])
    BY <1>2 DEF MapFits, MapsApart
  <1>4. IdsDiffer(Reserved(s), [w \in VSwitches |-> Range(maps[w])])
    BY <1>2 DEF IdsDiffer, MapsApart, Range
  <1>5. QED
    BY <1>3, <1>4

\* What giving ids leaves of the tables and of what is seen of them
StillFits(s) ==
  /\ IdsDiffer(Reserved(s), NewIds(s))
  /\ GroupsFit(Reserved(s), NewIds(s), device[s].groups)
  /\ \A w \in Tenants(s) :
       /\ MapFits(s, group_id_map'[s][w])
       /\ OwnFit(s, w, Reserved(s) \cup Range(group_id_map'[s][w]), device[s].flows)
       /\ Seen(s, w, group_id_map'[s][w], device[s])
            = Seen(s, w, group_id_map[s][w], device[s])

LEMMA AskingKeeps ==
  ASSUME IdsApart, IdsApart', TablesFit, NEW v \in VSwitches, NEW switches, NEW groups,
         Asked(v, switches, groups), NEW s \in Switches
  PROVE  StillFits(s)
  <1>1. PICK old, new : old = group_id_map[s] /\ new = group_id_map'[s]
    OBVIOUS
  <1>2. PICK n : n = next_id'[s]
    OBVIOUS
  <1>3. n \in Nat /\ MapsApart(s, new, n)
    BY <1>1, <1>2 DEF IdsApart, MapsApart
  <1>4. PICK I, J, R, d : /\ I = OldIds(s) /\ J = NewIds(s) /\ R = Reserved(s)
                          /\ d = device[s]
    OBVIOUS
  <1>5. /\ J = [w \in VSwitches |-> Range(new[w])]
        /\ \A w \in VSwitches : J[w] = Range(new[w]) /\ I[w] = Range(old[w])
    BY <1>1, <1>4 DEF NewIds, OldIds, IdsOf
  <1>6. IdsDiffer(R, J) /\ \A w \in VSwitches : MapFits(s, new[w])
    BY <1>3, <1>4, <1>5, MapsFit
  <1>7. \A w \in VSwitches : Extends(old[w], new[w])
    BY <1>1 DEF Asked, Extends
  <1>8. \A w \in VSwitches : I[w] \subseteq J[w]
    BY <1>5, <1>7 DEF Extends, Range
  <1>9. GroupsFit(R, I, d.groups)
    BY <1>4 DEF TablesFit
  <1>10. GroupsFit(R, J, d.groups)
    BY <1>6, <1>8, <1>9, GroupsFitMore
  <1>11. IdsDiffer(R, I)
    BY <1>6, <1>8 DEF IdsDiffer
  <1>12. ASSUME NEW w \in Tenants(s)
         PROVE  /\ MapFits(s, new[w])
                /\ OwnFit(s, w, R \cup Range(new[w]), d.flows)
                /\ Seen(s, w, new[w], d) = Seen(s, w, old[w], d)
    <2>1. w \in VSwitches /\ s \in ToSet(Dependent[w])
      BY DEF Tenants
    <2>2. PICK S, T : S = R \cup Range(old[w]) /\ T = R \cup Range(new[w])
      OBVIOUS
    <2>3. OwnFit(s, w, S, d.flows)
      BY <1>1, <1>4, <2>2 DEF TablesFit, IdsOf
    <2>4. OwnFit(s, w, T, d.flows)
      <3>1. S \subseteq T
        BY <1>5, <1>8, <2>1, <2>2
      <3>2. QED
        BY <2>3, <3>1, FitsMore
    <2>5. OwnGroupsFit(S, Range(old[w]), d.groups)
      <3>1. OwnGroupsFit(R \cup I[w], I[w], d.groups)
        BY <1>9, <1>11, <2>1, OwnGroupsOf
      <3>2. QED
        BY <1>5, <2>1, <2>2, <3>1
    <2>6. \A g \in DOMAIN new[w] \ DOMAIN old[w] : new[w][g] \notin DOMAIN d.groups
      <3> SUFFICES ASSUME NEW g \in DOMAIN new[w] \ DOMAIN old[w],
                          new[w][g] \in DOMAIN d.groups
                   PROVE  FALSE
        OBVIOUS
      <3>1. new[w][g] \in J[w]
        BY <1>5, <2>1 DEF Range
      <3>2. new[w][g] \notin R
        BY <1>6, <2>1, <3>1 DEF IdsDiffer
      <3>3. PICK u \in VSwitches : new[w][g] \in I[u]
        BY <1>9, <3>2 DEF GroupsFit
      <3>4. PICK h \in DOMAIN old[u] : new[w][g] = old[u][h]
        BY <1>5, <3>3 DEF Range
      <3>5. h \in DOMAIN new[u] /\ new[u][h] = old[u][h]
        BY <1>7, <3>3, <3>4 DEF Extends
      <3>6. w = u /\ g = h
        BY <1>3, <2>1, <3>3, <3>4, <3>5 DEF MapsApart
      <3>7. QED
        BY <3>4, <3>6
    <2>7. PICK map, more : map = old[w] /\ more = new[w]
      OBVIOUS
    <2>8. /\ Extends(map, more) /\ MapFits(s, more) /\ S = Reserved(s) \cup Range(map)
          /\ OwnGroupsFit(S, Range(map), d.groups)
          /\ \A g \in DOMAIN more \ DOMAIN map : more[g] \notin DOMAIN d.groups
      BY <1>4, <1>6, <1>7, <2>1, <2>2, <2>5, <2>6, <2>7
    <2>9. Seen(s, w, more, d) = Seen(s, w, map, d)
      BY <2>1, <2>3, <2>8, MoreIdsSeen
    <2>10. QED
      BY <1>6, <2>1, <2>2, <2>4, <2>7, <2>9
  <1>13. QED
    BY <1>1, <1>4, <1>6, <1>10, <1>12 DEF StillFits

OnlyChanges(ids, old, new) ==
  \A h \in DOMAIN old \cup DOMAIN new :
    \/ h \in ids
    \/ h \in DOMAIN old \cap DOMAIN new /\ new[h] = old[h]

\* Of another tenant, a message changes nothing that is seen.
LEMMA OthersSee ==
  ASSUME NEW s, NEW v \in VSwitches, NEW w \in VSwitches, w # v, NEW R, NEW J, IdsDiffer(R, J),
         NEW map, J[w] = Range(map), NEW d, NEW e, SameOfOthers(v, d.flows, e.flows),
         OnlyChanges(J[v], d.groups, e.groups)
  PROVE  /\ Seen(s, w, map, e) = Seen(s, w, map, d)
         /\ OwnOf(w, e.flows) = OwnOf(w, d.flows)
  <1>1. {f \in d.flows : f.meta.vs = w} = {f \in e.flows : f.meta.vs = w}
    BY DEF SameOfOthers
  <1>2. OwnOf(w, e.flows) = OwnOf(w, d.flows)
    BY <1>1 DEF OwnOf
  <1>3. \A g \in DOMAIN map : map[g] \notin J[v]
    BY DEF IdsDiffer, Range
  <1>4. \A g \in DOMAIN map : /\ map[g] \in DOMAIN d.groups <=> map[g] \in DOMAIN e.groups
                              /\ map[g] \in DOMAIN d.groups =>
                                   e.groups[map[g]] = d.groups[map[g]]
    BY <1>3 DEF OnlyChanges
  <1>5. GroupsThere(map, e) = GroupsThere(map, d)
    BY <1>4 DEF GroupsThere
  <1>6. \A g \in GroupsThere(map, d) : e.groups[map[g]] = d.groups[map[g]]
    BY <1>4 DEF GroupsThere
  <1>7. GroupsSeen(s, w, map, e) = GroupsSeen(s, w, map, d)
    <2>1. \A t : GroupsSeen(s, w, map, t) =
                   [g \in GroupsThere(map, t) |-> BucketsSeen(s, w, map, t.groups[map[g]])]
      BY SeenGroups
    <2>2. QED
      BY <1>5, <1>6, <2>1
  <1>8. \A t : FlowsSeen(s, w, map, t) = SeenOf(s, w, map, OwnOf(w, t.flows))
    BY DEF FlowsSeen, SeenOf, OwnOf
  <1>9. QED
    BY <1>2, <1>7, <1>8 DEF Seen

LEMMA GroupsFitMod ==
  ASSUME NEW R, NEW I, NEW d, GroupsFit(R, I, d.groups), IdsDiffer(R, I),
         NEW v \in VSwitches, NEW id \in I[v], id \in Nat,
         NEW buckets, BucketsFit(R \cup I[v], buckets),
         NEW c, NEW e, e = GroupMod(d, c, id, buckets)
  PROVE  GroupsFit(R, I, e.groups)
  <1>1. /\ DOMAIN e.groups \subseteq DOMAIN d.groups \cup {id}
        /\ \A h \in DOMAIN e.groups : \/ h \in DOMAIN d.groups /\ e.groups[h] = d.groups[h]
                                      \/ h = id /\ e.groups[h] = buckets
    <2>1. \/ e = d \/ e = DeleteGroups(d, {id} \cap DOMAIN d.groups)
          \/ e = WithGroup(d, id, buckets)
      BY GroupModForm
    <2>2. CASE e = d
      BY <2>2
    <2>3. CASE e = DeleteGroups(d, {id} \cap DOMAIN d.groups)
      BY <2>3 DEF DeleteGroups
    <2>4. CASE e = WithGroup(d, id, buckets)
      BY <2>4 DEF WithGroup
    <2>5. QED
      BY <2>1, <2>2, <2>3, <2>4
  <1>2. DOMAIN e.groups \subseteq R \cup UNION {I[w] : w \in VSwitches}
    BY <1>1 DEF GroupsFit
  <1>3. \A r \in R \cap DOMAIN e.groups : GroupsOfBuckets(e.groups[r]) \subseteq R
    BY <1>1 DEF GroupsFit, IdsDiffer
  <1>4. ASSUME NEW w \in VSwitches, NEW h \in I[w] \cap DOMAIN e.groups
        PROVE  BucketsFit(R \cup I[w], e.groups[h])
    <2>1. CASE h \in DOMAIN d.groups /\ e.groups[h] = d.groups[h]
      BY <2>1 DEF GroupsFit
    <2>2. CASE h = id /\ e.groups[h] = buckets
      <3>1. w = v
        BY <2>2 DEF IdsDiffer
      <3>2. QED
        BY <2>2, <3>1
    <2>3. QED
      BY <1>1, <2>1, <2>2
  <1>5. QED
    BY <1>2, <1>3, <1>4 DEF GroupsFit

View(s, v) == Seen(s, v, group_id_map[s][v], device[s])

\* On a switch, the tables still fit and the other tenants see no change.
KeepsOthers(s, v) ==
  /\ GroupsFit(Reserved(s), NewIds(s), device'[s].groups)
  /\ \A w \in Tenants(s) :
       /\ OwnFit(s, w, Reserved(s) \cup Range(group_id_map'[s][w]), device'[s].flows)
       /\ w # v => View(s, w)' = View(s, w)

LEMMA ViewForm ==
  \A s, v : /\ View(s, v).flows = FlowsAt(s, v) /\ View(s, v).groups = GroupsAt(s, v)
            /\ View(s, v)'.flows = FlowsAt(s, v)' /\ View(s, v)'.groups = GroupsAt(s, v)'
            /\ View(s, v) = [flows |-> FlowsAt(s, v), groups |-> GroupsAt(s, v)]
            /\ View(s, v)' = [flows |-> FlowsAt(s, v)', groups |-> GroupsAt(s, v)']
            /\ View(s, v)' = Seen(s, v, group_id_map'[s][v], device'[s])
  BY DEF View, Seen, FlowsAt, GroupsAt

\* It is enough to look at the sender's entries and groups.
LEMMA OthersKept ==
  ASSUME NEW v \in VSwitches, NEW s \in Switches, StillFits(s), OneTenant(v),
         GroupsFit(Reserved(s), NewIds(s), device'[s].groups),
         v \in Tenants(s) =>
           OwnFit(s, v, Reserved(s) \cup Range(group_id_map'[s][v]), device'[s].flows)
  PROVE  KeepsOthers(s, v)
  <1>1. PICK d, e, new, R, J : /\ d = device[s] /\ e = device'[s] /\ new = group_id_map'[s]
                               /\ R = Reserved(s) /\ J = NewIds(s)
    OBVIOUS
  <1>2. ASSUME NEW w \in Tenants(s), w # v
        PROVE  /\ OwnFit(s, w, R \cup Range(new[w]), e.flows)
               /\ View(s, w)' = View(s, w)
    <2>1. w \in VSwitches
      BY DEF Tenants
    <2>2. PICK map : map = new[w]
      OBVIOUS
    <2>3. J[w] = Range(map) /\ J[v] = IdsOf(s, v)'
      BY <1>1, <2>1, <2>2 DEF NewIds, IdsOf
    <2>4. SameOfOthers(v, d.flows, e.flows)
      BY <1>1 DEF OneTenant
    <2>5. OnlyChanges(J[v], d.groups, e.groups)
      BY <1>1, <2>3 DEF OneTenant, OnlyChanges
    <2>6. IdsDiffer(R, J)
      BY <1>1 DEF StillFits
    <2>7. /\ Seen(s, w, map, e) = Seen(s, w, map, d)
          /\ OwnOf(w, e.flows) = OwnOf(w, d.flows)
      BY <1>2, <2>1, <2>3, <2>4, <2>5, <2>6, OthersSee
    <2>8. /\ OwnFit(s, w, R \cup Range(map), d.flows)
          /\ Seen(s, w, map, d) = View(s, w)
      BY <1>1, <2>2 DEF StillFits, View
    <2>9. View(s, w)' = Seen(s, w, map, e)
      BY <1>1, <2>2, ViewForm
    <2>10. QED
      BY <2>2, <2>7, <2>8, <2>9 DEF OwnFit
  <1>3. QED
    BY <1>1, <1>2 DEF KeepsOthers

\* A flow_mod that is pushed to a switch changes what its sender sees there as
\* it would change a table of the sender's own.
LEMMA FlowPushed ==
  ASSUME IInv, TablesFit, NEW v \in VSwitches, NEW s \in ToSet(Dependent[v]), StillFits(s),
         NEW m \in Entries, NamesTables(m), OnSwitch(v, s, m.in),
         IsInjective(PortMap[v][s]),
         NEW map, map = group_id_map'[s][v],
         AllReady(v, map, m),
         NEW c, NEW in, in = PortAt(v, s, m.in),
         device'[s] = FlowMod(FlowMod(device[s], c, Copy(s, v, map, m, in, 0)),
                              c, Copy(s, v, map, m, in, 1))
  PROVE  /\ OwnFit(s, v, Reserved(s) \cup Range(map), device'[s].flows)
         /\ GroupsFit(Reserved(s), NewIds(s), device'[s].groups)
         /\ View(s, v)' = FlowMod(View(s, v), c, Virtual!Normal(m))
  <1>1. PICK d, e, p, q, S : /\ d = device[s] /\ e = device'[s]
                             /\ p = Copy(s, v, map, m, in, 0)
                             /\ q = Copy(s, v, map, m, in, 1)
                             /\ S = Reserved(s) \cup Range(map)
    OBVIOUS
  <1>2. s \in Switches /\ v \in Tenants(s)
    BY SwitchOfTenant DEF Tenants
  <1>3. /\ MapFits(s, map) /\ OwnFit(s, v, S, d.flows)
        /\ Seen(s, v, map, d) = View(s, v)
    BY <1>1, <1>2 DEF StillFits, View
  <1>4. Reserved(s) \subseteq DOMAIN d.groups
    BY <1>1, <1>2 DEF IInv, ReservedStay
  <1>5. m.write \in ActionSet
    BY NormalForm
  <1>6. PICK x : x = m.meta
    OBVIOUS
  <1>7. Paired(Reserved(s), p, q, v, x, 0)
    BY <1>1, <1>5, <1>6, CopiesPaired DEF AllReady
  <1>8. OriginalEntry(s, v, map, p) = Virtual!Normal(m) /\ EntryFits(s, v, S, p)
    <2>1. p = Copy(s, v, map, m, PortAt(v, s, m.in), 0)
      BY <1>1
    <2>2. MapFits(s, map)
      BY <1>3
    <2>3. /\ OriginalEntry(s, v, map, p) = Virtual!Normal(m)
          /\ EntryFits(s, v, Reserved(s) \cup Range(map), p)
      BY <2>1, <2>2, EntryOfRewritten, ZenonT(30)
    <2>4. QED
      BY <1>1, <2>3
  <1>9. e = FlowMod(FlowMod(d, c, p), c, q)
    BY <1>1
  <1>10. /\ Seen(s, v, map, e) = FlowMod(Seen(s, v, map, d), c, OriginalEntry(s, v, map, p))
         /\ e.groups = d.groups /\ OwnFit(s, v, S, e.flows)
    BY <1>1, <1>3, <1>4, <1>7, <1>8, <1>9, SeenFlowMod
  <1>11. View(s, v)' = Seen(s, v, map, e)
    BY <1>1, ViewForm
  <1>12. GroupsFit(Reserved(s), NewIds(s), e.groups)
    BY <1>1, <1>2, <1>10 DEF StillFits
  <1>13. QED
    BY <1>1, <1>3, <1>8, <1>10, <1>11, <1>12

LEMMA Unpushed ==
  ASSUME NEW s \in Switches, StillFits(s), device'[s] = device[s]
  PROVE  /\ GroupsFit(Reserved(s), NewIds(s), device'[s].groups)
         /\ \A w \in Tenants(s) :
              /\ OwnFit(s, w, Reserved(s) \cup Range(group_id_map'[s][w]), device'[s].flows)
              /\ View(s, w)' = View(s, w)
  <1>1. \A w \in Tenants(s) : View(s, w)' = View(s, w)
    BY ViewForm DEF StillFits, View
  <1>2. QED
    BY <1>1 DEF StillFits

BucketsReady(v, map, buckets) ==
  \A i \in DOMAIN buckets : /\ buckets[i] \in ActionSet
                            /\ Ready(v, map, buckets[i].group)
                            /\ Ready(v, map, buckets[i].output)

\* A group_mod changes what its sender sees on a switch as it would change the
\* groups of a table of the sender's own.
LEMMA GroupPushed ==
  ASSUME IInv, NEW v \in VSwitches, NEW s \in ToSet(Dependent[v]), StillFits(s),
         NEW map, map = group_id_map'[s][v], NEW g \in DOMAIN map, g \in Nat,
         NEW buckets, BucketsReady(v, map, buckets), NEW c,
         device'[s] = GroupMod(device[s], c, map[g], BucketsRewritten(s, v, map, buckets))
  PROVE  /\ OwnFit(s, v, Reserved(s) \cup Range(map), device'[s].flows)
         /\ GroupsFit(Reserved(s), NewIds(s), device'[s].groups)
         /\ View(s, v)' = GroupMod(View(s, v), c, g, Virtual!NormalBuckets(buckets))
  <1>1. PICK d, e, bs, S, J : /\ d = device[s] /\ e = device'[s] /\ J = NewIds(s)
                              /\ bs = BucketsRewritten(s, v, map, buckets)
                              /\ S = Reserved(s) \cup Range(map)
    OBVIOUS
  <1>2. s \in Switches /\ v \in Tenants(s)
    BY SwitchOfTenant DEF Tenants
  <1>3. /\ MapFits(s, map) /\ OwnFit(s, v, S, d.flows)
        /\ Seen(s, v, map, d) = View(s, v)
        /\ IdsDiffer(Reserved(s), J) /\ GroupsFit(Reserved(s), J, d.groups)
    BY <1>1, <1>2 DEF StillFits, View
  <1>4. J[v] = Range(map)
    BY <1>1 DEF NewIds, IdsOf
  <1>5. OwnGroupsFit(S, Range(map), d.groups)
    <2>1. OwnGroupsFit(Reserved(s) \cup J[v], J[v], d.groups)
      BY <1>3, OwnGroupsOf
    <2>2. QED
      BY <1>1, <1>4, <2>1
  <1>6. Reserved(s) \subseteq DOMAIN d.groups
    BY <1>1, <1>2 DEF IInv, ReservedStay
  <1>7. /\ BucketsSeen(s, v, map, bs) = Virtual!NormalBuckets(buckets)
        /\ BucketsFit(S, bs)
    <2>1. /\ BucketsSeen(s, v, map, BucketsRewritten(s, v, map, buckets))
              = Virtual!NormalBuckets(buckets)
          /\ BucketsFit(Reserved(s) \cup Range(map), BucketsRewritten(s, v, map, buckets))
      BY <1>3, BucketsOfRewritten DEF BucketsReady
    <2>2. QED
      BY <1>1, <2>1
  <1>8. e = GroupMod(d, c, map[g], bs)
    BY <1>1
  <1>9. /\ Seen(s, v, map, e) = GroupMod(Seen(s, v, map, d), c, g, BucketsSeen(s, v, map, bs))
        /\ OwnFit(s, v, S, e.flows)
    BY <1>1, <1>3, <1>5, <1>6, <1>7, <1>8, SeenGroupMod
  <1>10. GroupsFit(Reserved(s), J, e.groups)
    <2>1. PICK id : id = map[g]
      OBVIOUS
    <2>2. id \in J[v] /\ id \in Nat
      BY <1>3, <1>4, <2>1 DEF MapFits, Range
    <2>3. BucketsFit(Reserved(s) \cup J[v], bs)
      BY <1>1, <1>4, <1>7
    <2>4. QED
      BY <1>3, <1>8, <2>1, <2>2, <2>3, GroupsFitMod
  <1>11. View(s, v)' = Seen(s, v, map, e)
    BY <1>1, ViewForm
  <1>12. QED
    BY <1>1, <1>3, <1>7, <1>9, <1>10, <1>11

-----------------------------------------------------------------------------
(***************************************************************************)
(* The table of a virtual switch, from what is seen of it on each switch   *)
(***************************************************************************)
\* The part of a table that a switch has: the entries for its ports
On(v, s, t) ==
  [flows |-> {f \in t.flows : OnSwitch(v, s, f.in)}, groups |-> t.groups]

\* The parts are those of one table, which has nothing else.
Parts(v, at, t) ==
  /\ t = [flows |-> t.flows, groups |-> t.groups]
  /\ t.groups = [g \in DOMAIN t.groups |-> t.groups[g]]
  /\ \A s \in ToSet(Dependent[v]) : at[s] = On(v, s, t)
  /\ \A f \in t.flows : \E s \in ToSet(Dependent[v]) : OnSwitch(v, s, f.in)

FlowsFrom(v, at) ==
  {f \in UNION {at[s].flows : s \in ToSet(Dependent[v])} :
     \A s \in ToSet(Dependent[v]) : OnSwitch(v, s, f.in) => f \in at[s].flows}

GroupsFrom(v, at) ==
  [g \in {h \in DOMAIN at[Dependent[v][1]].groups :
            \A s \in ToSet(Dependent[v]) : h \in DOMAIN at[s].groups} |->
     at[Dependent[v][1]].groups[g]]

LEMMA FirstSwitch ==
  ASSUME NEW v \in VSwitches
  PROVE  Dependent[v][1] \in ToSet(Dependent[v])
  BY PortAssumption DEF ToSet

LEMMA Together ==
  ASSUME NEW v \in VSwitches, NEW at, NEW t, Parts(v, at, t)
  PROVE  FlowsFrom(v, at) = t.flows /\ GroupsFrom(v, at) = t.groups
  <1>1. \A s \in ToSet(Dependent[v]) :
          /\ at[s].flows = {f \in t.flows : OnSwitch(v, s, f.in)}
          /\ at[s].groups = t.groups
    <2>1. \A s : /\ On(v, s, t).flows = {f \in t.flows : OnSwitch(v, s, f.in)}
                 /\ On(v, s, t).groups = t.groups
      BY DEF On
    <2>2. QED
      BY <2>1 DEF Parts
  <1>2. FlowsFrom(v, at) = t.flows
    <2>1. ASSUME NEW f \in FlowsFrom(v, at) PROVE f \in t.flows
      BY <1>1 DEF FlowsFrom
    <2>2. ASSUME NEW f \in t.flows PROVE f \in FlowsFrom(v, at)
      <3>1. PICK s \in ToSet(Dependent[v]) : OnSwitch(v, s, f.in)
        BY DEF Parts
      <3>2. QED
        BY <1>1, <3>1 DEF FlowsFrom
    <2>3. QED
      BY <2>1, <2>2
  <1>3. GroupsFrom(v, at) = [g \in DOMAIN t.groups |-> t.groups[g]]
    BY <1>1, FirstSwitch DEF GroupsFrom
  <1>4. QED
    BY <1>2, <1>3 DEF Parts

TableOf(v) == [flows |-> FlowsOf(v), groups |-> GroupsOf(v)]
Views(v)   == [s \in ToSet(Dependent[v]) |-> View(s, v)]

\* The switches of v have the same groups, and the entries for their ports.
Agree == \A v \in VSwitches : Parts(v, Views(v), TableOf(v))

LEMMA FlowsOfForm ==
  ASSUME NEW v
  PROVE  /\ \A f : f \in FlowsOf(v) <=>
               /\ \E s \in ToSet(Dependent[v]) : f \in FlowsAt(s, v)
               /\ \A s \in ToSet(Dependent[v]) : OnSwitch(v, s, f.in) => f \in FlowsAt(s, v)
         /\ \A f : f \in FlowsOf(v)' <=>
               /\ \E s \in ToSet(Dependent[v]) : f \in FlowsAt(s, v)'
               /\ \A s \in ToSet(Dependent[v]) : OnSwitch(v, s, f.in) => f \in FlowsAt(s, v)'
  <1> DEFINE at  == {<<s, FlowsAt(s, v)>> : s \in ToSet(Dependent[v])}
             new == {<<s, FlowsAt(s, v)'>> : s \in ToSet(Dependent[v])}
  <1>1. /\ \A a \in at : \E s \in ToSet(Dependent[v]) : a[1] = s /\ a[2] = FlowsAt(s, v)
        /\ \A s \in ToSet(Dependent[v]) : \E a \in at : a[1] = s /\ a[2] = FlowsAt(s, v)
    <2>1. ASSUME NEW a \in at
          PROVE  \E s \in ToSet(Dependent[v]) : a[1] = s /\ a[2] = FlowsAt(s, v)
      <3>1. PICK s \in ToSet(Dependent[v]) : a = <<s, FlowsAt(s, v)>>
        OBVIOUS
      <3>2. QED
        BY <3>1
    <2>2. ASSUME NEW s \in ToSet(Dependent[v])
          PROVE  \E a \in at : a[1] = s /\ a[2] = FlowsAt(s, v)
      <3>1. PICK a : a = <<s, FlowsAt(s, v)>>
        OBVIOUS
      <3>2. a[1] = s /\ a[2] = FlowsAt(s, v)
        BY <3>1
      <3>3. a \in at
        BY <3>1
      <3>4. QED
        BY <3>2, <3>3
    <2>3. QED
      BY <2>1, <2>2
  <1>2. FlowsOf(v) = {f \in UNION {a[2] : a \in at} :
                        \A a \in at : OnSwitch(v, a[1], f.in) => f \in a[2]}
    BY DEF FlowsOf
  <1>3. /\ \A a \in new : \E s \in ToSet(Dependent[v]) : a[1] = s /\ a[2] = FlowsAt(s, v)'
        /\ \A s \in ToSet(Dependent[v]) : \E a \in new : a[1] = s /\ a[2] = FlowsAt(s, v)'
    <2>1. ASSUME NEW a \in new
          PROVE  \E s \in ToSet(Dependent[v]) : a[1] = s /\ a[2] = FlowsAt(s, v)'
      <3>1. PICK s \in ToSet(Dependent[v]) : a = <<s, FlowsAt(s, v)'>>
        OBVIOUS
      <3>2. QED
        BY <3>1
    <2>2. ASSUME NEW s \in ToSet(Dependent[v])
          PROVE  \E a \in new : a[1] = s /\ a[2] = FlowsAt(s, v)'
      <3>1. PICK a : a = <<s, FlowsAt(s, v)'>>
        OBVIOUS
      <3>2. a[1] = s /\ a[2] = FlowsAt(s, v)'
        BY <3>1
      <3>3. a \in new
        BY <3>1
      <3>4. QED
        BY <3>2, <3>3
    <2>3. QED
      BY <2>1, <2>2
  <1>4. FlowsOf(v)' = {f \in UNION {a[2] : a \in new} :
                         \A a \in new : OnSwitch(v, a[1], f.in) => f \in a[2]}
    BY DEF FlowsOf
  <1> HIDE DEF at, new
  <1>5. \A f : f \in UNION {a[2] : a \in at} <=> \E a \in at : f \in a[2]
    OBVIOUS
  <1>6. \A f : f \in UNION {a[2] : a \in new} <=> \E a \in new : f \in a[2]
    OBVIOUS
  <1>7. ASSUME NEW f
        PROVE  f \in FlowsOf(v) <=>
                 /\ \E s \in ToSet(Dependent[v]) : f \in FlowsAt(s, v)
                 /\ \A s \in ToSet(Dependent[v]) : OnSwitch(v, s, f.in) => f \in FlowsAt(s, v)
    <2>1. f \in FlowsOf(v) <=> /\ \E a \in at : f \in a[2]
                              /\ \A a \in at : OnSwitch(v, a[1], f.in) => f \in a[2]
      BY <1>2, <1>5
    <2>2. QED
      BY <1>1, <2>1
  <1>8. ASSUME NEW f
        PROVE  f \in FlowsOf(v)' <=>
                 /\ \E s \in ToSet(Dependent[v]) : f \in FlowsAt(s, v)'
                 /\ \A s \in ToSet(Dependent[v]) : OnSwitch(v, s, f.in) => f \in FlowsAt(s, v)'
    <2>1. f \in FlowsOf(v)' <=> /\ \E a \in new : f \in a[2]
                               /\ \A a \in new : OnSwitch(v, a[1], f.in) => f \in a[2]
      BY <1>4, <1>6
    <2>2. QED
      BY <1>3, <2>1
  <1>9. QED
    BY <1>7, <1>8

LEMMA TableForm ==
  ASSUME NEW v \in VSwitches
  PROVE  /\ TableOf(v) = [flows |-> FlowsFrom(v, Views(v)), groups |-> GroupsFrom(v, Views(v))]
         /\ TableOf(v)' = [flows |-> FlowsFrom(v, Views(v)'), groups |-> GroupsFrom(v, Views(v)')]
         /\ \A s \in ToSet(Dependent[v]) :
              Views(v)[s] = View(s, v) /\ Views(v)'[s] = View(s, v)'
  <1>1. \A s \in ToSet(Dependent[v]) :
          Views(v)[s] = View(s, v) /\ Views(v)'[s] = View(s, v)'
    BY DEF Views
  <1>2. \A s, map, d : DOMAIN GroupsSeen(s, v, map, d) = GroupsThere(map, d)
    BY DEF GroupsSeen
  <1>3. Dependent[v][1] \in ToSet(Dependent[v])
    BY FirstSwitch
  <1>4. GroupsOf(v) = GroupsFrom(v, Views(v))
    BY <1>1, <1>2, <1>3, ViewForm DEF GroupsOf, GroupsFrom, GroupsAt
  <1>5. GroupsOf(v)' = GroupsFrom(v, Views(v)')
    BY <1>1, <1>2, <1>3, ViewForm DEF GroupsOf, GroupsFrom, GroupsAt
  <1>6. \A s : View(s, v).flows = FlowsAt(s, v) /\ View(s, v)'.flows = FlowsAt(s, v)'
    BY ViewForm
  <1>7. FlowsOf(v) = FlowsFrom(v, Views(v)) /\ FlowsOf(v)' = FlowsFrom(v, Views(v)')
    <2>1. \A f : f \in FlowsOf(v) <=> f \in FlowsFrom(v, Views(v))
      BY <1>1, <1>6, FlowsOfForm DEF FlowsFrom
    <2>2. \A f : f \in FlowsOf(v)' <=> f \in FlowsFrom(v, Views(v)')
      BY <1>1, <1>6, FlowsOfForm DEF FlowsFrom
    <2>3. QED
      BY <2>1, <2>2 DEF FlowsOf, FlowsFrom
  <1>8. QED
    BY <1>1, <1>4, <1>5, <1>6, <1>7 DEF TableOf

\* A flow_mod changes the part that a switch has if it is for that switch.
LEMMA OnFlowMod ==
  ASSUME NEW v, NEW s, NEW t, NEW c, NEW m
  PROVE  On(v, s, FlowMod(t, c, m)) =
           IF OnSwitch(v, s, m.in) THEN FlowMod(On(v, s, t), c, m) ELSE On(v, s, t)
  <1> DEFINE Here(F) == {f \in F : OnSwitch(v, s, f.in)}
             there   == DOMAIN t.groups
  <1>1. \A x : On(v, s, x).flows = Here(x.flows) /\ On(v, s, x).groups = x.groups
    BY DEF On
  <1>2. \A f : Changed(m, f).in = f.in
    BY DEF Changed, WithInstructions
  <1>3. \A F : Here(Applied(c, m, F)) =
                 IF OnSwitch(v, s, m.in) THEN Applied(c, m, Here(F)) ELSE Here(F)
    <2> TAKE F
    <2>1. CASE c = "delete"
      <3>1. Applied(c, m, F) = {f \in F : ~ Covers(m, f)}
            /\ Applied(c, m, Here(F)) = {f \in Here(F) : ~ Covers(m, f)}
        BY <2>1 DEF Applied
      <3>2. \A f : Covers(m, f) /\ OnSwitch(v, s, f.in) => OnSwitch(v, s, m.in)
        BY DEF Covers, OnSwitch
      <3>3. QED
        BY <3>1, <3>2
    <2>2. CASE c = "modify"
      <3>1. /\ Applied(c, m, F) = {Changed(m, f) : f \in F}
            /\ Applied(c, m, Here(F)) = {Changed(m, f) : f \in Here(F)}
        BY <2>2 DEF Applied
      <3>2. \A f : Covers(m, f) /\ OnSwitch(v, s, f.in) => OnSwitch(v, s, m.in)
        BY DEF Covers, OnSwitch
      <3>3. \A f : Changed(m, f) = f \/ Covers(m, f)
        BY DEF Changed
      <3>4. QED
        BY <1>2, <3>1, <3>2, <3>3
    <2>3. CASE c \notin {"delete", "modify"}
      <3>1. /\ Applied(c, m, F) = {f \in F : ~ SameEntry(m, f)} \cup {m}
            /\ Applied(c, m, Here(F)) = {f \in Here(F) : ~ SameEntry(m, f)} \cup {m}
        BY <2>3 DEF Applied
      <3>2. \A f : SameEntry(m, f) => f.in = m.in
        BY DEF SameEntry
      <3>3. QED
        BY <3>1, <3>2
    <2>4. QED
      BY <2>1, <2>2, <2>3
  <1>4. \A x : /\ FlowMod(x, c, m).groups = x.groups
               /\ FlowMod(x, c, m).flows =
                    IF Taken(c, m, DOMAIN x.groups) THEN Applied(c, m, x.flows) ELSE x.flows
               /\ FlowMod(x, c, m) = [flows |-> FlowMod(x, c, m).flows,
                                      groups |-> FlowMod(x, c, m).groups]
    BY FlowModForm DEF FlowMod
  <1>5. \A x : On(v, s, x) = [flows |-> On(v, s, x).flows, groups |-> On(v, s, x).groups]
    BY DEF On
  <1> HIDE DEF Here
  <1>6. CASE OnSwitch(v, s, m.in)
    <2>1. /\ On(v, s, FlowMod(t, c, m)).flows = FlowMod(On(v, s, t), c, m).flows
          /\ On(v, s, FlowMod(t, c, m)).groups = FlowMod(On(v, s, t), c, m).groups
      BY <1>1, <1>3, <1>4, <1>6
    <2>2. QED
      BY <1>4, <1>5, <1>6, <2>1
  <1>7. CASE ~ OnSwitch(v, s, m.in)
    <2>1. /\ On(v, s, FlowMod(t, c, m)).flows = On(v, s, t).flows
          /\ On(v, s, FlowMod(t, c, m)).groups = On(v, s, t).groups
      BY <1>1, <1>3, <1>4, <1>7
    <2>2. QED
      BY <1>5, <1>7, <2>1
  <1>8. QED
    BY <1>6, <1>7

\* A group_mod changes every part as it changes the table.
LEMMA OnGroupMod ==
  ASSUME NEW v, NEW s, NEW t, NEW c, NEW g \in Nat, NEW buckets
  PROVE  On(v, s, GroupMod(t, c, g, buckets)) = GroupMod(On(v, s, t), c, g, buckets)
  <1>1. \A x : /\ On(v, s, x).flows = {f \in x.flows : OnSwitch(v, s, f.in)}
               /\ On(v, s, x).groups = x.groups
    BY DEF On
  <1>2. PICK o : o = On(v, s, t)
    OBVIOUS
  <1>3. /\ Chained(o, g) <=> Chained(t, g)
        /\ Unfit(o, c, g, buckets) <=> Unfit(t, c, g, buckets)
    BY <1>1, <1>2 DEF Chained, Unfit
  <1>4. \A gone : On(v, s, DeleteGroups(t, gone)) = DeleteGroups(o, gone)
    BY <1>1, <1>2 DEF On, DeleteGroups
  <1>5. On(v, s, WithGroup(t, g, buckets)) = WithGroup(o, g, buckets)
    BY <1>1, <1>2 DEF On, WithGroup
  <1>6. PICK gone : gone = {g} \cap DOMAIN t.groups
    OBVIOUS
  <1>7. GroupMod(t, c, g, buckets) =
          IF c = "delete" THEN IF Chained(t, g) THEN t ELSE DeleteGroups(t, gone)
          ELSE IF Unfit(t, c, g, buckets) THEN t ELSE WithGroup(t, g, buckets)
    BY <1>6, GroupModForm
  <1>8. GroupMod(o, c, g, buckets) =
          IF c = "delete" THEN IF Chained(t, g) THEN o ELSE DeleteGroups(o, gone)
          ELSE IF Unfit(t, c, g, buckets) THEN o ELSE WithGroup(o, g, buckets)
    <2>1. gone = {g} \cap DOMAIN o.groups
      BY <1>1, <1>2, <1>6
    <2>2. QED
      BY <1>3, <2>1, GroupModForm
  <1>9. QED
    BY <1>2, <1>4, <1>5, <1>7, <1>8

LEMMA PartsFlowMod ==
  ASSUME NEW v, NEW at, NEW new, NEW t, Parts(v, at, t), NEW c, NEW m,
         NEW here \in ToSet(Dependent[v]), OnSwitch(v, here, m.in),
         \A s \in ToSet(Dependent[v]) :
           new[s] = IF OnSwitch(v, s, m.in) THEN FlowMod(at[s], c, m) ELSE at[s]
  PROVE  Parts(v, new, FlowMod(t, c, m))
  <1>1. PICK e : e = FlowMod(t, c, m)
    OBVIOUS
  <1>2. e = [flows |-> e.flows, groups |-> e.groups] /\ e.groups = t.groups
    BY <1>1 DEF FlowMod
  <1>3. \A s \in ToSet(Dependent[v]) : new[s] = On(v, s, e)
    BY <1>1, OnFlowMod DEF Parts
  <1>4. \A f \in e.flows : f.in = m.in \/ \E h \in t.flows : f.in = h.in
    <2>1. e.flows = IF Taken(c, m, DOMAIN t.groups) THEN Applied(c, m, t.flows) ELSE t.flows
      BY <1>1, FlowModForm
    <2>2. \A f : Changed(m, f).in = f.in
      BY DEF Changed, WithInstructions
    <2>3. QED
      BY <2>1, <2>2 DEF Applied
  <1>5. \A f \in e.flows : \E s \in ToSet(Dependent[v]) : OnSwitch(v, s, f.in)
    BY <1>4 DEF Parts
  <1>6. QED
    BY <1>1, <1>2, <1>3, <1>5 DEF Parts

LEMMA PartsGroupMod ==
  ASSUME NEW v, NEW at, NEW new, NEW t, Parts(v, at, t), NEW c, NEW g \in Nat, NEW buckets,
         \A s \in ToSet(Dependent[v]) : new[s] = GroupMod(at[s], c, g, buckets)
  PROVE  Parts(v, new, GroupMod(t, c, g, buckets))
  <1>1. PICK e : e = GroupMod(t, c, g, buckets)
    OBVIOUS
  <1>2. \/ e = t \/ e = DeleteGroups(t, {g} \cap DOMAIN t.groups)
        \/ e = WithGroup(t, g, buckets)
    BY <1>1, GroupModForm
  <1>3. /\ e = [flows |-> e.flows, groups |-> e.groups]
        /\ e.groups = [h \in DOMAIN e.groups |-> e.groups[h]]
        /\ e.flows \subseteq t.flows
    <2>1. CASE e = t
      BY <2>1 DEF Parts
    <2>2. CASE e = DeleteGroups(t, {g} \cap DOMAIN t.groups)
      BY <2>2 DEF DeleteGroups
    <2>3. CASE e = WithGroup(t, g, buckets)
      BY <2>3 DEF WithGroup
    <2>4. QED
      BY <1>2, <2>1, <2>2, <2>3
  <1>4. \A s \in ToSet(Dependent[v]) : new[s] = On(v, s, e)
    BY <1>1, OnGroupMod DEF Parts
  <1>5. QED
    BY <1>1, <1>3, <1>4 DEF Parts

\* What a step of v does to its table follows from what it does on each switch.
LEMMA TableChanges ==
  ASSUME NEW v \in VSwitches, NEW t, NEW new,
         \A s \in ToSet(Dependent[v]) : new[s] = View(s, v)', Parts(v, new, t)
  PROVE  TableOf(v)' = t /\ Parts(v, Views(v)', TableOf(v)')
  <1>1. \A s \in ToSet(Dependent[v]) : Views(v)'[s] = new[s]
    BY TableForm
  <1>2. Parts(v, Views(v)', t)
    BY <1>1 DEF Parts
  <1>3. FlowsFrom(v, Views(v)') = t.flows /\ GroupsFrom(v, Views(v)') = t.groups
    BY <1>2, Together
  <1>4. TableOf(v)' = t
    <2>1. t = [flows |-> t.flows, groups |-> t.groups]
      BY DEF Parts
    <2>2. QED
      BY <1>3, <2>1, TableForm
  <1>5. QED
    BY <1>2, <1>4

-----------------------------------------------------------------------------
(***************************************************************************)
(* The steps as the tenants see them                                       *)
(***************************************************************************)
SameViews(v) == \A s \in ToSet(Dependent[v]) : View(s, v)' = View(s, v)

\* The tables still fit and the other tenants see no change.
RestKept(v) == TablesFit' /\ \A w \in VSwitches : w # v => SameViews(w)

LEMMA FromEach ==
  ASSUME NEW v \in VSwitches, \A s \in Switches : KeepsOthers(s, v)
  PROVE  RestKept(v)
  <1>1. ASSUME NEW s \in Switches
        PROVE  /\ GroupsFit(Reserved(s), OldIds(s)', device'[s].groups)
               /\ \A w \in Tenants(s) :
                    OwnFit(s, w, Reserved(s) \cup IdsOf(s, w)', device'[s].flows)
    <2>1. OldIds(s)' = NewIds(s)
      BY DEF OldIds, NewIds
    <2>2. \A w : IdsOf(s, w)' = Range(group_id_map'[s][w])
      BY DEF IdsOf
    <2>3. QED
      BY <2>1, <2>2 DEF KeepsOthers
  <1>2. TablesFit'
    BY <1>1 DEF TablesFit
  <1>3. ASSUME NEW w \in VSwitches, w # v, NEW s \in ToSet(Dependent[w])
        PROVE  View(s, w)' = View(s, w)
    <2>1. s \in Switches /\ w \in Tenants(s)
      BY SwitchOfTenant DEF Tenants
    <2>2. QED
      BY <1>3, <2>1 DEF KeepsOthers
  <1>4. QED
    BY <1>2, <1>3 DEF RestKept, SameViews

\* Giving ids is not noticed.
LEMMA OnlyAskedSeen ==
  ASSUME IInv, IInv', TablesFit, NEW v \in VSwitches, NEW switches, NEW groups,
         Asked(v, switches, groups), UNCHANGED device
  PROVE  RestKept(v) /\ SameViews(v)
  <1>1. ASSUME NEW s \in Switches
        PROVE  KeepsOthers(s, v) /\ \A w \in Tenants(s) : View(s, w)' = View(s, w)
    <2>1. StillFits(s)
      BY AskingKeeps DEF IInv
    <2>2. device'[s] = device[s]
      OBVIOUS
    <2>3. QED
      BY <2>1, <2>2, Unpushed DEF KeepsOthers
  <1>2. SameViews(v)
    BY <1>1, SwitchOfTenant DEF SameViews, Tenants
  <1>3. QED
    BY <1>1, <1>2, FromEach

\* Ids at most
OnlyIds(v) ==
  /\ UNCHANGED device
  /\ \E switches, groups : Asked(v, switches, groups)

\* The flow_mod m of v is handed to the switches of v that have its port.
Pushed(v, c, m) ==
  LET pushed == {s \in ToSet(Dependent[v]) : OnSwitch(v, s, m.in)}
  IN /\ Virtual!Supported(v, m) \/ pushed = {}
     /\ \E groups : Asked(v, pushed, groups)
     /\ \A s \in pushed :
          /\ AllReady(v, group_id_map'[s][v], m)
          /\ device'[s] =
               FlowMod(FlowMod(device[s], c,
                               Copy(s, v, group_id_map'[s][v], m, PortAt(v, s, m.in), 0)),
                       c, Copy(s, v, group_id_map'[s][v], m, PortAt(v, s, m.in), 1))
     /\ \A s \in Switches \ pushed : device'[s] = device[s]

LEMMA ActionsAsked ==
  ASSUME NEW v \in VSwitches, NEW m \in Entries,
         NEW actions, actions = <<m.apply, m.write.group, m.write.output>>
  PROVE  /\ Placed(GroupsAsked(v, actions))
         /\ \A map : ~ Refused(v, actions) /\ DOMAIN GroupsAsked(v, actions) \subseteq DOMAIN map
                       => AllReady(v, map, m)
         /\ ~ Refused(v, actions) => Virtual!Known(v, {m.apply, m.write.output})
  <1>1. /\ m.apply \in Action /\ m.write.group \in Action /\ m.write.output \in Action
    <2>1. m.apply \in Action /\ m.write \in ActionSet
      BY NormalForm
    <2>2. QED
      BY <2>1 DEF ActionSet
  <1>2. /\ DOMAIN actions = 1..3 /\ \A n \in 1..3 : actions[n] \in Action
        /\ actions[1] = m.apply /\ actions[2] = m.write.group
        /\ actions[3] = m.write.output
    BY <1>1
  <1>3. /\ Placed(GroupsAsked(v, actions))
        /\ ~ Refused(v, actions) =>
             \A n \in 1..3 : actions[n].kind = "group" =>
               actions[n].id \in DOMAIN GroupsAsked(v, actions)
    BY <1>2, GroupsAskedCorrect
  <1>4. ~ Refused(v, actions) => \A n \in 1..3 : ~ UnknownOutput(v, actions[n])
    BY <1>2 DEF Refused, ToSet
  <1>5. ~ Refused(v, actions) =>
          \A a \in {m.apply, m.write.group, m.write.output} :
            /\ a \in Action /\ ~ UnknownOutput(v, a)
            /\ a.kind = "group" => a.id \in DOMAIN GroupsAsked(v, actions)
    BY <1>1, <1>2, <1>3, <1>4
  <1>6. ASSUME NEW map, ~ Refused(v, actions),
               DOMAIN GroupsAsked(v, actions) \subseteq DOMAIN map
        PROVE  AllReady(v, map, m)
    BY <1>5, <1>6 DEF AllReady, Ready
  <1>7. ~ Refused(v, actions) => Virtual!Known(v, {m.apply, m.write.output})
    BY <1>5 DEF Virtual!Known, UnknownOutput, Virtual!Controller, Virtual!Flood,
                Controller, Flood
  <1>8. QED
    BY <1>3, <1>6, <1>7

LEMMA SupportedThere ==
  ASSUME NEW v \in VSwitches, NEW m, NEW s \in ToSet(Dependent[v]), OnSwitch(v, s, m.in),
         "high" \notin DOMAIN m.meta, "high" \notin DOMAIN m.wmeta,
         Virtual!Known(v, {m.apply, m.write.output})
  PROVE  Virtual!Supported(v, m)
  <1>1. m.in \in PortsOf[v] \cup {AnyPort}
    BY DEF OnSwitch, PortsOf
  <1>2. QED
    BY <1>1 DEF Virtual!Supported, Virtual!AnyPort, AnyPort

\* HandleFlowMod gives ids, or pushes the message as well.
LEMMA FlowModSteps ==
  ASSUME IInv, NEW v \in VSwitches, NEW msg \in FlowMods[v],
         NumberApart(v, msg.entry.in), HandleFlowMod(v, msg.command, msg.entry)
  PROVE  OnlyIds(v) \/ Pushed(v, msg.command, msg.entry)
  <1> DEFINE ports   == MatchPorts(v, msg.entry.in)
             actions == <<msg.entry.apply, msg.entry.write.group, msg.entry.write.output>>
             groups  == GroupsAsked(v, actions)
             map(s)  == group_id_map'[s][v]
  <1>1. PICK m, c : m = msg.entry /\ c = msg.command
    OBVIOUS
  <1>2. m \in Entries
    BY <1>1, MessageAssumption
  <1>3. PICK acts : acts = actions
    OBVIOUS
  <1>4. acts = <<m.apply, m.write.group, m.write.output>>
    BY <1>1, <1>3
  <1>5. /\ Placed(groups)
        /\ \A own : ~ Refused(v, actions) /\ DOMAIN groups \subseteq DOMAIN own
                      => AllReady(v, own, m)
        /\ ~ Refused(v, actions) => Virtual!Known(v, {m.apply, m.write.output})
    <2>1. /\ Placed(GroupsAsked(v, acts))
          /\ \A own : ~ Refused(v, acts) /\ DOMAIN GroupsAsked(v, acts) \subseteq DOMAIN own
                        => AllReady(v, own, m)
          /\ ~ Refused(v, acts) => Virtual!Known(v, {m.apply, m.write.output})
      BY <1>2, <1>4, ActionsAsked
    <2>2. QED
      BY <1>3, <2>1
  <1>6. PICK pushed : pushed = {s \in ToSet(Dependent[v]) : OnSwitch(v, s, m.in)}
    OBVIOUS
  <1>7. DOMAIN ports = pushed /\ \A s \in pushed : ports[s] = PortAt(v, s, m.in)
    BY <1>1, <1>6, MatchPortsCorrect
  <1>8. CASE UNCHANGED vars
    <2>1. Asked(v, {}, [g \in {} |-> 0])
      BY <1>8 DEF Asked, vars
    <2>2. QED
      BY <1>8, <2>1 DEF OnlyIds, vars
  <1>9. CASE AskIds(v, FirstOf(v, DOMAIN ports), groups) /\ UNCHANGED device
    <2>1. PICK sw, gs : sw = FirstOf(v, DOMAIN ports) /\ gs = groups
      OBVIOUS
    <2> HIDE DEF ports, groups
    <2>2. Asked(v, sw, gs)
      BY <1>5, <1>9, <2>1, AskIdsCorrect DEF IInv
    <2>3. QED
      BY <1>9, <2>2 DEF OnlyIds
  <1>10. CASE /\ "high" \notin DOMAIN msg.entry.meta /\ "high" \notin DOMAIN msg.entry.wmeta
              /\ ~ Refused(v, actions)
              /\ AskIds(v, DOMAIN ports, groups)
              /\ device' = [s \in Switches |->
                   IF s \notin DOMAIN ports THEN device[s]
                   ELSE FlowMod(FlowMod(device[s], msg.command,
                                        Copy(s, v, map(s), msg.entry, ports[s], 0)),
                                msg.command, Copy(s, v, map(s), msg.entry, ports[s], 1))]
    <2>1. Asked(v, pushed, groups)
      <3>1. PICK gs : gs = groups
        OBVIOUS
      <3> HIDE DEF ports, groups
      <3>2. QED
        BY <1>5, <1>7, <1>10, <3>1, AskIdsCorrect DEF IInv
    <2>2. \A s \in pushed : s \in Switches /\ s \in ToSet(Dependent[v])
      BY <1>6, SwitchOfTenant
    <2>3. \A s \in pushed : AllReady(v, map(s), m)
      <3>1. \A s \in pushed : DOMAIN groups \subseteq DOMAIN map(s)
        BY <2>1, <2>2 DEF Asked
      <3> HIDE DEF groups, actions, map
      <3>2. QED
        BY <1>5, <1>10, <3>1
    <2>4. ASSUME NEW s \in pushed
          PROVE  device'[s] = FlowMod(FlowMod(device[s], c,
                                        Copy(s, v, map(s), m, PortAt(v, s, m.in), 0)),
                                c, Copy(s, v, map(s), m, PortAt(v, s, m.in), 1))
      <3>1. ports[s] = PortAt(v, s, m.in) /\ s \in DOMAIN ports /\ s \in Switches
        BY <1>7, <2>2
      <3> HIDE DEF ports, groups, actions, map
      <3>2. device'[s] = FlowMod(FlowMod(device[s], msg.command,
                                   Copy(s, v, map(s), msg.entry, ports[s], 0)),
                           msg.command, Copy(s, v, map(s), msg.entry, ports[s], 1))
        BY <1>10, <3>1
      <3>3. QED
        BY <1>1, <3>1, <3>2
    <2>5. \A s \in Switches \ pushed : device'[s] = device[s]
      <3> HIDE DEF ports, groups, actions, map
      <3>1. QED
        BY <1>7, <1>10
    <2>6. Virtual!Supported(v, m) \/ pushed = {}
      <3>1. SUFFICES ASSUME NEW s \in pushed PROVE Virtual!Supported(v, m)
        OBVIOUS
      <3>2. s \in ToSet(Dependent[v]) /\ OnSwitch(v, s, m.in)
        BY <1>6
      <3> HIDE DEF ports, groups, actions, map
      <3>3. QED
        BY <1>1, <1>5, <1>10, <3>2, SupportedThere
    <2>7. Pushed(v, c, m)
      <3> HIDE DEF ports, groups, actions
      <3>1. QED
        BY <1>6, <2>1, <2>3, <2>4, <2>5, <2>6 DEF Pushed
    <2>8. QED
      BY <1>1, <2>7
  <1>11. QED
    BY <1>8, <1>9, <1>10 DEF HandleFlowMod

\* What the sender of a flow_mod sees of it
FlowModSeen(v, c, m) ==
  /\ Virtual!Supported(v, m)
  /\ \E s \in ToSet(Dependent[v]) : OnSwitch(v, s, m.in)
  /\ \A s \in ToSet(Dependent[v]) :
       View(s, v)' = IF OnSwitch(v, s, m.in)
                     THEN FlowMod(View(s, v), c, Virtual!Normal(m)) ELSE View(s, v)

LEMMA PushedSeen ==
  ASSUME IInv, IInv', TablesFit, NEW v \in VSwitches, OneTenant(v),
         NEW c, NEW m \in Entries, NamesTables(m),
         \A s \in ToSet(Dependent[v]) : IsInjective(PortMap[v][s]), Pushed(v, c, m)
  PROVE  RestKept(v) /\ (SameViews(v) \/ FlowModSeen(v, c, m))
  <1>1. PICK pushed : pushed = {s \in ToSet(Dependent[v]) : OnSwitch(v, s, m.in)}
    OBVIOUS
  <1>2. /\ Virtual!Supported(v, m) \/ pushed = {}
        /\ \E groups : Asked(v, pushed, groups)
        /\ \A s \in Switches \ pushed : device'[s] = device[s]
    BY <1>1 DEF Pushed
  <1>3. \A s \in Switches : StillFits(s)
    BY <1>2, AskingKeeps DEF IInv
  <1>4. ASSUME NEW s \in pushed
        PROVE  /\ KeepsOthers(s, v)
               /\ View(s, v)' = FlowMod(View(s, v), c, Virtual!Normal(m))
    <2>1. PICK map, in : map = group_id_map'[s][v] /\ in = PortAt(v, s, m.in)
      OBVIOUS
    <2>2. s \in ToSet(Dependent[v]) /\ OnSwitch(v, s, m.in) /\ s \in Switches
      BY <1>1, SwitchOfTenant
    <2>3. /\ AllReady(v, map, m)
          /\ device'[s] = FlowMod(FlowMod(device[s], c, Copy(s, v, map, m, in, 0)),
                                  c, Copy(s, v, map, m, in, 1))
      BY <1>1, <2>1 DEF Pushed
    <2>4. StillFits(s) /\ IsInjective(PortMap[v][s])
      BY <1>3, <2>2
    <2>5. /\ OwnFit(s, v, Reserved(s) \cup Range(map), device'[s].flows)
          /\ GroupsFit(Reserved(s), NewIds(s), device'[s].groups)
          /\ View(s, v)' = FlowMod(View(s, v), c, Virtual!Normal(m))
      BY <2>1, <2>2, <2>3, <2>4, FlowPushed
    <2>6. QED
      BY <2>1, <2>2, <2>4, <2>5, OthersKept
  <1>5. ASSUME NEW s \in Switches \ pushed
        PROVE  /\ KeepsOthers(s, v)
               /\ v \in Tenants(s) => View(s, v)' = View(s, v)
    <2>1. StillFits(s) /\ device'[s] = device[s]
      BY <1>2, <1>3
    <2>2. QED
      BY <2>1, Unpushed DEF KeepsOthers
  <1>6. RestKept(v)
    <2>1. \A s \in Switches : KeepsOthers(s, v)
      BY <1>4, <1>5
    <2>2. QED
      BY <2>1, FromEach
  <1>7. \A s \in ToSet(Dependent[v]) : s \in Switches /\ v \in Tenants(s)
    BY SwitchOfTenant DEF Tenants
  <1>8. CASE pushed = {}
    <2>1. SameViews(v)
      BY <1>5, <1>7, <1>8 DEF SameViews
    <2>2. QED
      BY <1>6, <2>1
  <1>9. CASE pushed # {}
    <2>1. FlowModSeen(v, c, m)
      <3>1. Virtual!Supported(v, m)
        BY <1>2, <1>9
      <3>2. \E s \in ToSet(Dependent[v]) : OnSwitch(v, s, m.in)
        BY <1>1, <1>9
      <3>3. ASSUME NEW s \in ToSet(Dependent[v])
            PROVE  View(s, v)' = IF OnSwitch(v, s, m.in)
                                 THEN FlowMod(View(s, v), c, Virtual!Normal(m))
                                 ELSE View(s, v)
        <4>1. CASE OnSwitch(v, s, m.in)
          BY <1>1, <1>4, <4>1
        <4>2. CASE ~ OnSwitch(v, s, m.in)
          BY <1>1, <1>5, <1>7, <4>2
        <4>3. QED
          BY <4>1, <4>2
      <3>4. QED
        BY <3>1, <3>2, <3>3 DEF FlowModSeen
    <2>2. QED
      BY <1>6, <2>1
  <1>10. QED
    BY <1>8, <1>9

LEMMA BucketsAsked ==
  ASSUME NEW v \in VSwitches, NEW g \in Nat, NEW buckets \in Seq(ActionSet),
         NEW actions, actions = ActionsOf(g, buckets)
  PROVE  /\ Placed(GroupsAsked(v, actions))
         /\ \A map : ~ Refused(v, actions) /\ DOMAIN GroupsAsked(v, actions) \subseteq DOMAIN map
                       => g \in DOMAIN map /\ BucketsReady(v, map, buckets)
         /\ ~ Refused(v, actions) => Virtual!Known(v, {b.output : b \in ToSet(buckets)})
  <1>1. PICK length : length = 2 * Len(buckets) + 1
    OBVIOUS
  <1>2. /\ length \in Nat /\ DOMAIN actions = 1..length
        /\ \A n \in 1..length : actions[n] \in Action
        /\ 1 \in 1..length /\ actions[1] = Group(g)
        /\ \A i \in DOMAIN buckets :
             /\ 2 * i \in 1..length /\ actions[2 * i] = buckets[i].group
             /\ 2 * i + 1 \in 1..length /\ actions[2 * i + 1] = buckets[i].output
             /\ buckets[i] \in ActionSet
    BY <1>1, BucketActions
  <1>3. /\ Placed(GroupsAsked(v, actions))
        /\ ~ Refused(v, actions) =>
             \A n \in 1..length : actions[n].kind = "group" =>
               actions[n].id \in DOMAIN GroupsAsked(v, actions)
    BY <1>2, GroupsAskedCorrect
  <1>4. ~ Refused(v, actions) => \A n \in 1..length : ~ UnknownOutput(v, actions[n])
    BY <1>2 DEF Refused, ToSet
  <1>5. ASSUME NEW map, ~ Refused(v, actions),
               DOMAIN GroupsAsked(v, actions) \subseteq DOMAIN map
        PROVE  g \in DOMAIN map /\ BucketsReady(v, map, buckets)
    <2>1. \A n \in 1..length : Ready(v, map, actions[n])
      BY <1>2, <1>3, <1>4, <1>5 DEF Ready
    <2>2. g \in DOMAIN map
      BY <1>2, <2>1, Fields DEF Ready
    <2>3. QED
      BY <1>2, <2>1, <2>2 DEF BucketsReady
  <1>6. ASSUME ~ Refused(v, actions)
        PROVE  Virtual!Known(v, {b.output : b \in ToSet(buckets)})
    <2>1. \A i \in DOMAIN buckets : ~ UnknownOutput(v, buckets[i].output)
      BY <1>2, <1>4, <1>6
    <2>2. \A b \in ToSet(buckets) : ~ UnknownOutput(v, b.output)
      BY <2>1 DEF ToSet
    <2>3. QED
      BY <2>2 DEF Virtual!Known, UnknownOutput, Virtual!Controller, Virtual!Flood,
                  Controller, Flood
  <1>7. QED
    BY <1>3, <1>5, <1>6

\* The group_mod of v is handed to its switches.
GroupHanded(v, c, g, buckets) ==
  /\ Virtual!Known(v, {b.output : b \in ToSet(buckets)})
  /\ \E groups : Asked(v, ToSet(Dependent[v]), groups)
  /\ \A s \in ToSet(Dependent[v]) :
       /\ g \in DOMAIN group_id_map'[s][v]
       /\ BucketsReady(v, group_id_map'[s][v], buckets)
       /\ device'[s] = GroupMod(device[s], c, group_id_map'[s][v][g],
                                BucketsRewritten(s, v, group_id_map'[s][v], buckets))
  /\ \A s \in Switches \ ToSet(Dependent[v]) : device'[s] = device[s]

\* HandleGroupMod gives ids, or hands the message on as well.
LEMMA GroupModSteps ==
  ASSUME IInv, NEW v \in VSwitches, NEW msg \in GroupMods[v],
         HandleGroupMod(v, msg.command, msg.group, msg.buckets)
  PROVE  OnlyIds(v) \/ GroupHanded(v, msg.command, msg.group, msg.buckets)
  <1> DEFINE switches == ToSet(Dependent[v])
             actions  == ActionsOf(msg.group, msg.buckets)
             groups   == GroupsAsked(v, actions)
             map(s)   == group_id_map'[s][v]
             sets(s)  == [i \in DOMAIN msg.buckets |->
                            IF HasGroup(msg.buckets[i])
                            THEN SetWithoutOutput(s, v, map(s), msg.buckets[i])
                            ELSE SetWithOutput(s, v, map(s), msg.buckets[i])]
  <1>1. PICK c, g, buckets : c = msg.command /\ g = msg.group /\ buckets = msg.buckets
    OBVIOUS
  <1>2. g \in Nat /\ buckets \in Seq(ActionSet)
    BY <1>1, MessageAssumption
  <1>3. PICK acts : acts = actions
    OBVIOUS
  <1>4. /\ Placed(groups)
        /\ \A own : ~ Refused(v, actions) /\ DOMAIN groups \subseteq DOMAIN own
                      => g \in DOMAIN own /\ BucketsReady(v, own, buckets)
        /\ ~ Refused(v, actions) => Virtual!Known(v, {b.output : b \in ToSet(buckets)})
    <2>1. acts = ActionsOf(g, buckets)
      BY <1>1, <1>3
    <2>2. /\ Placed(GroupsAsked(v, acts))
          /\ \A own : ~ Refused(v, acts) /\ DOMAIN GroupsAsked(v, acts) \subseteq DOMAIN own
                        => g \in DOMAIN own /\ BucketsReady(v, own, buckets)
          /\ ~ Refused(v, acts) => Virtual!Known(v, {b.output : b \in ToSet(buckets)})
      BY <1>2, <2>1, BucketsAsked
    <2>3. QED
      BY <1>3, <2>2
  <1>5. \A s : sets(s) = BucketsRewritten(s, v, map(s), buckets)
    BY <1>1 DEF BucketsRewritten, SetRewritten
  <1>6. CASE AskIds(v, FirstOf(v, switches), groups) /\ UNCHANGED device
    <2>1. PICK sw, gs : sw = FirstOf(v, switches) /\ gs = groups
      OBVIOUS
    <2> HIDE DEF switches, groups
    <2>2. Asked(v, sw, gs)
      BY <1>4, <1>6, <2>1, AskIdsCorrect DEF IInv
    <2>3. QED
      BY <1>6, <2>2 DEF OnlyIds
  <1>7. CASE /\ ~ Refused(v, actions)
             /\ AskIds(v, switches, groups)
             /\ device' = [s \in Switches |->
                  IF s \notin switches THEN device[s]
                  ELSE GroupMod(device[s], msg.command, map(s)[msg.group], sets(s))]
    <2>1. Asked(v, switches, groups)
      <3>1. PICK sw, gs : sw = switches /\ gs = groups
        OBVIOUS
      <3> HIDE DEF switches, groups
      <3>2. Asked(v, sw, gs)
        BY <1>4, <1>7, <3>1, AskIdsCorrect DEF IInv
      <3>3. QED
        BY <3>1, <3>2
    <2>2. \A s \in switches : s \in Switches
      BY SwitchOfTenant
    <2>3. \A s \in switches : g \in DOMAIN map(s) /\ BucketsReady(v, map(s), buckets)
      <3>1. \A s \in switches : DOMAIN groups \subseteq DOMAIN map(s)
        BY <2>1, <2>2 DEF Asked
      <3> HIDE DEF groups, actions, map, switches
      <3>2. QED
        BY <1>4, <1>7, <3>1
    <2>4. ASSUME NEW s \in switches
          PROVE  device'[s] = GroupMod(device[s], c, map(s)[g],
                                       BucketsRewritten(s, v, map(s), buckets))
      <3> HIDE DEF groups, actions, sets, switches
      <3>1. device'[s] = GroupMod(device[s], msg.command, map(s)[msg.group], sets(s))
        BY <1>7, <2>2
      <3> HIDE DEF map
      <3>2. QED
        BY <1>1, <1>5, <3>1
    <2>5. \A s \in Switches \ switches : device'[s] = device[s]
      <3> HIDE DEF groups, actions, sets, switches, map
      <3>1. QED
        BY <1>7
    <2>6. GroupHanded(v, c, g, buckets)
      <3> HIDE DEF groups, actions, sets
      <3>1. QED
        BY <1>4, <1>7, <2>1, <2>3, <2>4, <2>5 DEF GroupHanded
    <2>7. QED
      BY <1>1, <2>6
  <1>8. QED
    BY <1>6, <1>7 DEF HandleGroupMod

\* What the sender of a group_mod sees of it
GroupModSeen(v, c, g, buckets) ==
  /\ Virtual!Known(v, {b.output : b \in ToSet(buckets)})
  /\ \A s \in ToSet(Dependent[v]) :
       View(s, v)' = GroupMod(View(s, v), c, g, Virtual!NormalBuckets(buckets))

LEMMA HandedSeen ==
  ASSUME IInv, IInv', TablesFit, NEW v \in VSwitches, OneTenant(v),
         NEW c, NEW g \in Nat, NEW buckets, GroupHanded(v, c, g, buckets)
  PROVE  RestKept(v) /\ GroupModSeen(v, c, g, buckets)
  <1>1. PICK switches : switches = ToSet(Dependent[v])
    OBVIOUS
  <1>2. \A s \in Switches : StillFits(s)
    BY AskingKeeps DEF IInv, GroupHanded
  <1>3. ASSUME NEW s \in switches
        PROVE  /\ KeepsOthers(s, v)
               /\ View(s, v)' = GroupMod(View(s, v), c, g, Virtual!NormalBuckets(buckets))
    <2>1. PICK map : map = group_id_map'[s][v]
      OBVIOUS
    <2>2. s \in ToSet(Dependent[v]) /\ s \in Switches
      BY <1>1, SwitchOfTenant
    <2>3. /\ g \in DOMAIN map /\ BucketsReady(v, map, buckets)
          /\ device'[s] = GroupMod(device[s], c, map[g], BucketsRewritten(s, v, map, buckets))
      BY <2>1, <2>2 DEF GroupHanded
    <2>4. StillFits(s)
      BY <1>2, <2>2
    <2>5. /\ OwnFit(s, v, Reserved(s) \cup Range(map), device'[s].flows)
          /\ GroupsFit(Reserved(s), NewIds(s), device'[s].groups)
          /\ View(s, v)' = GroupMod(View(s, v), c, g, Virtual!NormalBuckets(buckets))
      BY <2>1, <2>2, <2>3, <2>4, GroupPushed, ZenonT(30)
    <2>6. QED
      BY <2>1, <2>2, <2>4, <2>5, OthersKept
  <1>4. ASSUME NEW s \in Switches \ switches
        PROVE  KeepsOthers(s, v)
    <2>1. StillFits(s) /\ device'[s] = device[s]
      BY <1>1, <1>2 DEF GroupHanded
    <2>2. QED
      BY <2>1, Unpushed DEF KeepsOthers
  <1>5. RestKept(v)
    <2>1. \A s \in Switches : KeepsOthers(s, v)
      BY <1>3, <1>4
    <2>2. QED
      BY <2>1, FromEach
  <1>6. GroupModSeen(v, c, g, buckets)
    BY <1>1, <1>3 DEF GroupModSeen, GroupHanded
  <1>7. QED
    BY <1>5, <1>6

\* The switches of the abstract specification are OpenFlow switches, too.
LEMMA VirtualMods ==
  /\ \A t, c, m : Virtual!FlowMod(t, c, m) = FlowMod(t, c, m)
  /\ \A t, c, g, buckets : Virtual!GroupMod(t, c, g, buckets) = GroupMod(t, c, g, buckets)
  <1>1. ASSUME NEW t, NEW c, NEW m
        PROVE  Virtual!FlowMod(t, c, m) = FlowMod(t, c, m)
    BY DEF Virtual!FlowMod, Virtual!Covers, Virtual!SameEntry, Virtual!GroupsOfEntry,
           Virtual!GroupsIn, Virtual!WithInstructions, Virtual!AllTables, Virtual!AnyPort,
           FlowMod, Covers, SameEntry, GroupsOfEntry, GroupsIn, WithInstructions, AllTables,
           AnyPort
  <1>2. ASSUME NEW t, NEW c, NEW g, NEW buckets
        PROVE  Virtual!GroupMod(t, c, g, buckets) = GroupMod(t, c, g, buckets)
    BY DEF Virtual!GroupMod, Virtual!Chained, Virtual!DeleteGroups, Virtual!GroupsOfBuckets,
           Virtual!GroupsOfEntry, Virtual!GroupsIn, Virtual!Executed, Virtual!NoAction,
           Virtual!AllGroups, GroupMod, Chained, DeleteGroups, GroupsOfBuckets,
           GroupsOfEntry, GroupsIn, Executed, NoAction, AllGroups, Virtual!ToSet, ToSet
  <1>3. QED
    BY <1>1, <1>2

\* What a step of v may make of its table
TableStep(v) ==
  \/ TableOf(v)' = TableOf(v)
  \/ TableOf(v)' \in Virtual!AfterFlowMod(v, TableOf(v)) \cup Virtual!AfterGroupMod(v, TableOf(v))

LEMMA SameTable ==
  ASSUME NEW v \in VSwitches, Parts(v, Views(v), TableOf(v)), SameViews(v)
  PROVE  TableOf(v)' = TableOf(v) /\ Parts(v, Views(v)', TableOf(v)')
  <1>1. \A s \in ToSet(Dependent[v]) : Views(v)[s] = View(s, v)'
    BY TableForm DEF SameViews
  <1>2. QED
    BY <1>1, TableChanges

LEMMA FlowModTable ==
  ASSUME NEW v \in VSwitches, Parts(v, Views(v), TableOf(v)), NEW msg \in FlowMods[v],
         FlowModSeen(v, msg.command, msg.entry)
  PROVE  TableStep(v) /\ Parts(v, Views(v)', TableOf(v)')
  <1>1. PICK c, m, n, t, at, new :
          /\ c = msg.command /\ m = msg.entry /\ n = Virtual!Normal(m)
          /\ t = TableOf(v) /\ at = Views(v) /\ new = Views(v)'
    OBVIOUS
  <1>2. n.in = m.in
    BY <1>1 DEF Virtual!Normal
  <1>3. \A s \in ToSet(Dependent[v]) : new[s] = View(s, v)' /\ at[s] = View(s, v)
    BY <1>1, TableForm
  <1>4. \A s \in ToSet(Dependent[v]) :
          new[s] = IF OnSwitch(v, s, n.in) THEN FlowMod(at[s], c, n) ELSE at[s]
    BY <1>1, <1>2, <1>3 DEF FlowModSeen
  <1>5. PICK here \in ToSet(Dependent[v]) : OnSwitch(v, here, n.in)
    BY <1>1, <1>2 DEF FlowModSeen
  <1>6. Parts(v, at, t)
    BY <1>1
  <1>7. Parts(v, new, FlowMod(t, c, n))
    BY <1>4, <1>5, <1>6, PartsFlowMod
  <1>8. TableOf(v)' = FlowMod(t, c, n) /\ Parts(v, Views(v)', TableOf(v)')
    BY <1>3, <1>7, TableChanges
  <1>9. FlowMod(t, c, n) \in Virtual!AfterFlowMod(v, t)
    <2>1. Virtual!Supported(v, msg.entry)
      BY DEF FlowModSeen
    <2>2. Virtual!FlowMod(t, msg.command, Virtual!Normal(msg.entry)) \in Virtual!AfterFlowMod(v, t)
      BY <2>1 DEF Virtual!AfterFlowMod
    <2>3. QED
      BY <1>1, <2>2, VirtualMods
  <1>10. QED
    BY <1>1, <1>8, <1>9 DEF TableStep

LEMMA GroupModTable ==
  ASSUME NEW v \in VSwitches, Parts(v, Views(v), TableOf(v)), NEW msg \in GroupMods[v],
         GroupModSeen(v, msg.command, msg.group, msg.buckets)
  PROVE  TableStep(v) /\ Parts(v, Views(v)', TableOf(v)')
  <1>1. PICK c, g, bs, t, at, new :
          /\ c = msg.command /\ g = msg.group /\ bs = Virtual!NormalBuckets(msg.buckets)
          /\ t = TableOf(v) /\ at = Views(v) /\ new = Views(v)'
    OBVIOUS
  <1>2. g \in Nat
    BY <1>1, MessageAssumption
  <1>3. \A s \in ToSet(Dependent[v]) : new[s] = View(s, v)' /\ at[s] = View(s, v)
    BY <1>1, TableForm
  <1>4. \A s \in ToSet(Dependent[v]) : new[s] = GroupMod(at[s], c, g, bs)
    BY <1>1, <1>3 DEF GroupModSeen
  <1>5. Parts(v, at, t)
    BY <1>1
  <1>6. Parts(v, new, GroupMod(t, c, g, bs))
    BY <1>2, <1>4, <1>5, PartsGroupMod
  <1>7. TableOf(v)' = GroupMod(t, c, g, bs) /\ Parts(v, Views(v)', TableOf(v)')
    BY <1>3, <1>6, TableChanges
  <1>8. GroupMod(t, c, g, bs) \in Virtual!AfterGroupMod(v, t)
    <2>1. Virtual!Known(v, {b.output : b \in ToSet(msg.buckets)})
      BY DEF GroupModSeen
    <2>2. Virtual!GroupMod(t, msg.command, msg.group, Virtual!NormalBuckets(msg.buckets))
            \in Virtual!AfterGroupMod(v, t)
      BY <2>1 DEF Virtual!AfterGroupMod, Virtual!ToSet, ToSet
    <2>3. QED
      BY <1>1, <2>2, VirtualMods
  <1>9. QED
    BY <1>1, <1>7, <1>8 DEF TableStep

\* A step of v: the switches of the others stay, and that of v changes at most
\* as a message of v says.
StepOf(v) ==
  /\ TablesFit' /\ Agree'
  /\ TableStep(v)
  /\ \A w \in VSwitches : w # v => TableOf(w)' = TableOf(w)

LEMMA StepFrom ==
  ASSUME NEW v \in VSwitches, Agree, RestKept(v),
         TableStep(v), Parts(v, Views(v)', TableOf(v)')
  PROVE  StepOf(v)
  <1>1. ASSUME NEW w \in VSwitches, w # v
        PROVE  TableOf(w)' = TableOf(w) /\ Parts(w, Views(w)', TableOf(w)')
    <2>1. SameViews(w) /\ Parts(w, Views(w), TableOf(w))
      BY <1>1 DEF RestKept, Agree
    <2>2. QED
      BY <2>1, SameTable
  <1>2. Agree'
    <2>1. \A w \in VSwitches : Parts(w, Views(w)', TableOf(w)')
      BY <1>1
    <2>2. QED
      BY <2>1 DEF Agree, Parts, On, OnSwitch
  <1>3. QED
    BY <1>1, <1>2 DEF StepOf, RestKept

LEMMA StepsSeen ==
  ASSUME IInv, TablesFit, Agree, TablesNamed, NumbersApart, Next
  PROVE  \E v \in VSwitches : StepOf(v)
  <1>1. ASSUME NEW v \in VSwitches, OneTenant(v), IInv', OnlyIds(v)
        PROVE  StepOf(v)
    <2>1. RestKept(v) /\ SameViews(v)
      BY <1>1, OnlyAskedSeen DEF OnlyIds
    <2>2. Parts(v, Views(v), TableOf(v))
      BY DEF Agree
    <2>3. TableOf(v)' = TableOf(v) /\ Parts(v, Views(v)', TableOf(v)')
      BY <2>1, <2>2, SameTable
    <2>4. QED
      BY <2>1, <2>3, StepFrom DEF TableStep
  <1>2. ASSUME NEW v \in VSwitches, NEW msg \in FlowMods[v],
               HandleFlowMod(v, msg.command, msg.entry)
        PROVE  StepOf(v)
    <2>1. IInv' /\ OneTenant(v)
      BY <1>2, FlowModCorrect
    <2>2. /\ NumberApart(v, msg.entry.in)
          /\ \A s \in ToSet(Dependent[v]) : IsInjective(PortMap[v][s])
      BY DEF NumbersApart, NumberApart
    <2>3. msg.entry \in Entries /\ NamesTables(msg.entry)
      BY MessageAssumption DEF TablesNamed, NamesTables
    <2>4. CASE OnlyIds(v)
      BY <1>1, <2>1, <2>4
    <2>5. CASE Pushed(v, msg.command, msg.entry)
      <3>1. PICK c, m : c = msg.command /\ m = msg.entry
        OBVIOUS
      <3>2. RestKept(v) /\ (SameViews(v) \/ FlowModSeen(v, c, m))
        BY <2>1, <2>2, <2>3, <2>5, <3>1, PushedSeen
      <3>3. Parts(v, Views(v), TableOf(v))
        BY DEF Agree
      <3>4. CASE SameViews(v)
        BY <3>2, <3>3, <3>4, SameTable, StepFrom DEF TableStep
      <3>5. CASE FlowModSeen(v, c, m)
        BY <3>1, <3>2, <3>3, <3>5, FlowModTable, StepFrom
      <3>6. QED
        BY <3>2, <3>4, <3>5
    <2>6. QED
      BY <1>2, <2>2, <2>4, <2>5, FlowModSteps
  <1>3. ASSUME NEW v \in VSwitches, NEW msg \in GroupMods[v],
               HandleGroupMod(v, msg.command, msg.group, msg.buckets)
        PROVE  StepOf(v)
    <2>1. IInv' /\ OneTenant(v)
      BY <1>3, GroupModCorrect
    <2>2. CASE OnlyIds(v)
      BY <1>1, <2>1, <2>2
    <2>3. CASE GroupHanded(v, msg.command, msg.group, msg.buckets)
      <3>1. PICK c, g, buckets : c = msg.command /\ g = msg.group /\ buckets = msg.buckets
        OBVIOUS
      <3>2. g \in Nat
        BY <3>1, MessageAssumption
      <3>3. RestKept(v) /\ GroupModSeen(v, c, g, buckets)
        BY <2>1, <2>3, <3>1, <3>2, HandedSeen
      <3>4. Parts(v, Views(v), TableOf(v))
        BY DEF Agree
      <3>5. QED
        BY <3>1, <3>3, <3>4, GroupModTable, StepFrom
    <2>4. QED
      BY <1>3, <2>2, <2>3, GroupModSteps
  <1>4. ASSUME NEW v \in VSwitches, NEW port, NEW a \in PacketOuts[v],
               HandlePacketOut(v, port, a)
        PROVE  StepOf(v)
    <2>1. IInv' /\ OneTenant(v)
      BY <1>4, PacketOutCorrect
    <2>2. PICK acts, sw, gs : /\ acts = <<a>> /\ sw = {PacketOutSwitch(v, port)}
                              /\ gs = GroupsAsked(v, acts)
      OBVIOUS
    <2>3. 1 \in Nat /\ DOMAIN acts = 1..1 /\ \A n \in 1..1 : acts[n] \in Action
      BY <2>2, MessageAssumption
    <2>4. Placed(gs)
      BY <2>2, <2>3, GroupsAskedCorrect
    <2>5. AskIds(v, sw, gs) /\ UNCHANGED device
      BY <1>4, <2>2 DEF HandlePacketOut
    <2>6. Asked(v, sw, gs)
      BY <2>4, <2>5, AskIdsCorrect DEF IInv
    <2>7. QED
      BY <1>1, <2>1, <2>5, <2>6 DEF OnlyIds
  <1>5. QED
    BY <1>2, <1>3, <1>4 DEF Next

-----------------------------------------------------------------------------
(***************************************************************************)
(* The beginning                                                           *)
(***************************************************************************)
LEMMA SeqOfSet ==
  ASSUME NEW S, IsFiniteSet(S)
  PROVE  ToSet(SetToSeq(S)) \subseteq S
  <1>1. Bijection(1..Cardinality(S), S) # {}
    BY FS_CardinalityType DEF ExistsBijection
  <1>2. \E f \in [1..Cardinality(S) -> S] : IsInjective(f)
    BY <1>1 DEF Bijection, Injection
  <1>3. SetToSeq(S) \in [1..Cardinality(S) -> S]
    BY <1>2 DEF SetToSeq
  <1>4. QED
    BY <1>3 DEF ToSet

\* The groups of the hypervisor name each other only.
LEMMA GroupOfNames ==
  ASSUME NEW v \in VSwitches, NEW s \in ToSet(Dependent[v]), NEW port \in PortsOf[v] \cup {Flood}
  PROVE  GroupsOfBuckets(GroupOf(s, v, port)) \subseteq Reserved(s)
  <1>1. CASE port = Flood
    <2> DEFINE bucket(p) == [NoActions EXCEPT !.group = Group(OutputId[s][v][p])]
               buckets   == {bucket(p) : p \in PortsOf[v]}
    <2>1. IsFiniteSet(buckets)
      <3>1. [p \in PortsOf[v] |-> bucket(p)] \in Surjection(PortsOf[v], buckets)
        BY DEF Surjection
      <3>2. IsFiniteSet(PortsOf[v])
        BY PortAssumption
      <3> HIDE DEF buckets
      <3>3. QED
        BY <3>1, <3>2, FS_Surjection
    <2>2. GroupOf(s, v, port) = SetToSeq(buckets)
      BY <1>1 DEF GroupOf
    <2>3. ASSUME NEW b \in ToSet(GroupOf(s, v, port))
          PROVE  GroupsIn({Executed(b)}) \subseteq Reserved(s)
      <3>1. b \in buckets
        <4> HIDE DEF buckets
        <4>1. QED
          BY <2>1, <2>2, <2>3, SeqOfSet
      <3>2. PICK p \in PortsOf[v] : b = bucket(p)
        BY <3>1
      <3>3. b.group = Group(OutputId[s][v][p])
        BY <3>2 DEF NoActions
      <3>4. Executed(b) \in {Group(OutputId[s][v][p]), b.output}
        BY <3>3 DEF Executed
      <3>5. Executed(b) = Group(OutputId[s][v][p])
        <4>1. b.group # NoAction
          BY <3>3, Fields
        <4>2. QED
          BY <3>3, <4>1 DEF Executed
      <3>6. GroupsIn({Executed(b)}) \subseteq {OutputId[s][v][p]}
        BY <3>5, Fields DEF GroupsIn
      <3>7. QED
        BY <3>6, OutputIsReserved
    <2>4. QED
      BY <2>3 DEF GroupsOfBuckets, GroupsIn
  <1>2. CASE port # Flood
    <2>1. PICK set : set = [NoActions EXCEPT !.output = Output(<<v, port>>)]
      OBVIOUS
    <2>2. set.group = NoAction /\ set.output = Output(<<v, port>>)
      BY <2>1 DEF NoActions
    <2>3. Executed(set) = Output(<<v, port>>)
      BY <2>2 DEF Executed
    <2>4. GroupOf(s, v, port) = <<set>>
      BY <1>2, <2>1 DEF GroupOf
    <2>5. \A b \in ToSet(GroupOf(s, v, port)) : Executed(b).kind = "output"
      BY <2>3, <2>4, Fields DEF ToSet
    <2>6. QED
      BY <2>5 DEF GroupsOfBuckets, GroupsIn
  <1>3. QED
    BY <1>1, <1>2

LEMMA RegisteredNames ==
  ASSUME NEW s \in Switches, NEW r \in Reserved(s)
  PROVE  GroupsOfBuckets(Registered(s)[r]) \subseteq Reserved(s)
  <1>1. CASE r = 0
    <2>1. PICK set : set = [NoActions EXCEPT !.output = Output(<<0, Controller>>)]
      OBVIOUS
    <2>2. set.group = NoAction /\ set.output = Output(<<0, Controller>>)
      BY <2>1 DEF NoActions
    <2>3. Executed(set) = Output(<<0, Controller>>)
      BY <2>2 DEF Executed
    <2>4. Registered(s)[r] = <<set>>
      BY <1>1, <2>1 DEF Registered
    <2>5. \A b \in ToSet(Registered(s)[r]) : Executed(b).kind = "output"
      BY <2>3, <2>4, Fields DEF ToSet
    <2>6. QED
      BY <2>5 DEF GroupsOfBuckets, GroupsIn
  <1>2. CASE r # 0
    <2>1. PICK o : o = CHOOSE x \in Outputs(s) : OutputId[s][x[1]][x[2]] = r
      OBVIOUS
    <2>2. \E x \in Outputs(s) : OutputId[s][x[1]][x[2]] = r
      BY <1>2 DEF Reserved
    <2>3. o \in Outputs(s)
      BY <2>1, <2>2
    <2>4. PICK v \in VSwitches : /\ s \in ToSet(Dependent[v])
                                 /\ \E p \in DOMAIN OutputId[s][v] : o = <<v, p>>
      BY <2>3 DEF Outputs, Tenants
    <2>5. PICK p \in DOMAIN OutputId[s][v] : o = <<v, p>>
      BY <2>4
    <2>6. Registered(s)[r] = GroupOf(s, v, p)
      <3>1. Registered(s)[r] =
              LET x == CHOOSE x \in Outputs(s) : OutputId[s][x[1]][x[2]] = r
              IN GroupOf(s, x[1], x[2])
        BY <1>2, Zenon DEF Registered
      <3>2. Registered(s)[r] = GroupOf(s, o[1], o[2])
        BY <2>1, <3>1
      <3>3. QED
        BY <2>5, <3>2
    <2>7. p \in PortsOf[v] \cup {Flood}
      BY <2>4, <2>5, RewriteAssumption
    <2>8. QED
      BY <2>4, <2>6, <2>7, GroupOfNames
  <1>3. QED
    BY <1>1, <1>2

LEMMA InitFits ==
  ASSUME Init
  PROVE  TablesFit
  <1> SUFFICES ASSUME NEW s \in Switches
               PROVE  /\ GroupsFit(Reserved(s), OldIds(s), device[s].groups)
                      /\ \A v \in Tenants(s) :
                           OwnFit(s, v, Reserved(s) \cup IdsOf(s, v), device[s].flows)
    BY DEF TablesFit
  <1>1. device[s].flows = {} /\ device[s].groups = Registered(s)
    BY DEF Init
  <1>2. DOMAIN Registered(s) = Reserved(s)
    BY DEF Registered
  <1>3. \A w \in VSwitches : OldIds(s)[w] = {}
    <2>1. \A w \in VSwitches : group_id_map[s][w] = <<>>
      BY DEF Init
    <2>2. DOMAIN <<>> = {}
      OBVIOUS
    <2>3. QED
      BY <2>1, <2>2 DEF OldIds, IdsOf, Range
  <1>4. GroupsFit(Reserved(s), OldIds(s), device[s].groups)
    <2>1. PICK R, I : R = Reserved(s) /\ I = OldIds(s)
      OBVIOUS
    <2>2. \A r \in R : GroupsOfBuckets(device[s].groups[r]) \subseteq R
      BY <1>1, <2>1, RegisteredNames
    <2>3. QED
      BY <1>1, <1>2, <1>3, <2>1, <2>2 DEF GroupsFit
  <1>5. QED
    BY <1>1, <1>4 DEF OwnFit, AllFit, OwnOf

LEMMA InitAgrees ==
  ASSUME Init
  PROVE  Agree /\ \A v \in VSwitches : TableOf(v) = [flows |-> {}, groups |-> <<>>]
  <1> SUFFICES ASSUME NEW v \in VSwitches
               PROVE  /\ Parts(v, Views(v), TableOf(v))
                      /\ TableOf(v) = [flows |-> {}, groups |-> <<>>]
    BY DEF Agree
  <1>1. PICK t : t = [flows |-> {}, groups |-> <<>>]
    OBVIOUS
  <1>2. <<>> = [g \in {} |-> <<>>[g]] /\ DOMAIN <<>> = {}
    OBVIOUS
  <1>3. ASSUME NEW s \in ToSet(Dependent[v])
        PROVE  View(s, v) = On(v, s, t)
    <2>1. s \in Switches
      BY SwitchOfTenant
    <2>2. group_id_map[s][v] = <<>> /\ device[s].flows = {}
      BY <2>1 DEF Init
    <2>3. GroupsThere(group_id_map[s][v], device[s]) = {}
      BY <1>2, <2>2 DEF GroupsThere
    <2>4. View(s, v).groups = <<>>
      BY <2>3 DEF View, Seen, GroupsSeen
    <2>5. View(s, v).flows = {}
      BY <2>2 DEF View, Seen, FlowsSeen
    <2>6. View(s, v) = [flows |-> View(s, v).flows, groups |-> View(s, v).groups]
      BY DEF View, Seen
    <2>7. QED
      BY <1>1, <2>4, <2>5, <2>6 DEF On
  <1>4. Parts(v, Views(v), t)
    <2>1. \A s \in ToSet(Dependent[v]) : Views(v)[s] = On(v, s, t)
      BY <1>3, TableForm
    <2>2. t.groups = [g \in DOMAIN t.groups |-> t.groups[g]]
      BY <1>1, <1>2
    <2>3. QED
      BY <1>1, <2>1, <2>2 DEF Parts
  <1>5. TableOf(v) = t
    <2>1. FlowsFrom(v, Views(v)) = t.flows /\ GroupsFrom(v, Views(v)) = t.groups
      BY <1>4, Together
    <2>2. QED
      BY <1>1, <2>1, TableForm
  <1>6. QED
    BY <1>1, <1>4, <1>5

-----------------------------------------------------------------------------
(***************************************************************************)
(* The refinement                                                          *)
(***************************************************************************)
RInv == IInv /\ TablesFit /\ Agree

LEMMA RInvInit == Init => RInv
  BY InitCorrect, InitFits, InitAgrees DEF RInv

LEMMA RInvNext ==
  ASSUME TablesNamed, NumbersApart, RInv, [Next]_vars
  PROVE  RInv'
  <1>1. CASE Next
    BY <1>1, NextCorrect, StepsSeen DEF RInv, StepOf
  <1>2. CASE UNCHANGED vars
    <2>1. IInv'
      BY <1>2 DEF RInv, IInv, IdsApart, ReservedStay, EntriesFit, IdsOf, vars
    <2>2. TablesFit'
      BY <1>2 DEF RInv, TablesFit, OldIds, IdsOf, vars
    <2>3. Agree'
      <3>1. \A v \in VSwitches : SameViews(v)
        BY <1>2 DEF SameViews, View, vars
      <3>2. \A v \in VSwitches : Parts(v, Views(v)', TableOf(v)')
        BY <3>1, SameTable DEF RInv, Agree
      <3>3. QED
        BY <3>2 DEF Agree, Parts, On, OnSwitch
    <2>4. QED
      BY <2>1, <2>2, <2>3 DEF RInv
  <1>3. QED
    BY <1>1, <1>2

\* The groups and entries of every switch name the groups of their tenant and
\* of the hypervisor only, and all switches of a tenant hold the same groups
\* and, for their ports, the same entries: HandleFlowMod and HandleGroupMod
\* leave no switch behind, although each switch decides for itself whether it
\* accepts a message.  The code enforces neither of the conditions: messages
\* name tables of the virtual switch, and port numbers do not meet
\* (rewrite_in_port.cfg shows switches that diverge when they do).
THEOREM SwitchesAgree ==
  ASSUME TablesNamed, NumbersApart
  PROVE  Spec => []RInv
  <1>1. RInv /\ [Next]_vars => RInv'
    BY RInvNext
  <1>2. QED
    BY <1>1, RInvInit, PTL DEF Spec

\* A step of v is one of the virtual switches, or none.
LEMMA VirtualStep ==
  ASSUME NEW v \in VSwitches, StepOf(v),
         NEW old, old = [w \in VSwitches |-> TableOf(w)],
         NEW new, new = [w \in VSwitches |-> TableOf(w)']
  PROVE  \/ new = old
         \/ /\ new[v] # old[v]
            /\ new[v] \in Virtual!AfterFlowMod(v, old[v]) \cup Virtual!AfterGroupMod(v, old[v])
            /\ new = [old EXCEPT ![v] = new[v]]
  <1>1. \A w \in VSwitches : new[w] = TableOf(w)' /\ old[w] = TableOf(w)
    OBVIOUS
  <1>2. \A w \in VSwitches : w # v => new[w] = old[w]
    BY <1>1 DEF StepOf
  <1>3. DOMAIN new = VSwitches /\ DOMAIN old = VSwitches
    OBVIOUS
  <1>4. new = [w \in VSwitches |-> new[w]] /\ old = [w \in VSwitches |-> old[w]]
    OBVIOUS
  <1>5. CASE new[v] = old[v]
    <2>1. \A w \in VSwitches : new[w] = old[w]
      BY <1>2, <1>5
    <2>2. QED
      BY <1>4, <2>1
  <1>6. CASE new[v] # old[v]
    <2>1. new[v] \in Virtual!AfterFlowMod(v, old[v]) \cup Virtual!AfterGroupMod(v, old[v])
      BY <1>1, <1>6 DEF StepOf, TableStep
    <2>2. [old EXCEPT ![v] = new[v]] = [w \in VSwitches |-> new[w]]
      BY <1>2, <1>3, <1>4
    <2>3. QED
      BY <1>4, <1>6, <2>1, <2>2
  <1>7. QED
    BY <1>5, <1>6

\* As long as the messages name tables of the virtual switches and the numbers
\* of the ports do not meet, what the controllers make of the physical tables
\* is, for each of them, an OpenFlow switch of its own: HandleFlowMod and
\* HandleGroupMod change the sender's as OpenFlow says, on all its switches,
\* and nobody else's.
THEOREM ImplementsVirtual ==
  ASSUME TablesNamed, NumbersApart
  PROVE  Spec => ImplementsVirtualTable
  <1> DEFINE tables == [v \in VSwitches |-> [flows |-> FlowsOf(v), groups |-> GroupsOf(v)]]
  <1>1. tables = [v \in VSwitches |-> TableOf(v)]
        /\ tables' = [v \in VSwitches |-> TableOf(v)']
    BY DEF TableOf
  <1>2. Init => RInv
    BY RInvInit
  <1>3. Init => Virtual!Init
    <2> SUFFICES ASSUME Init PROVE Virtual!Init
      OBVIOUS
    <2>1. \A v \in VSwitches : TableOf(v) = [flows |-> {}, groups |-> <<>>]
      BY InitAgrees
    <2>2. tables = [v \in VSwitches |-> [flows |-> {}, groups |-> <<>>]]
      BY <1>1, <2>1
    <2>3. QED
      BY <2>2 DEF Virtual!Init
  <1>4. RInv /\ [Next]_vars => RInv'
    BY RInvNext
  <1>5. RInv /\ [Next]_vars => [Virtual!Next]_tables
    <2> SUFFICES ASSUME RInv, [Next]_vars PROVE Virtual!Next \/ tables' = tables
      OBVIOUS
    <2>1. CASE Next
      <3>1. PICK v \in VSwitches : StepOf(v)
        BY <2>1, StepsSeen DEF RInv
      <3>2. PICK old, new : old = tables /\ new = tables'
        OBVIOUS
      <3>3. \/ new = old
            \/ /\ new[v] # old[v]
               /\ new[v] \in Virtual!AfterFlowMod(v, old[v]) \cup Virtual!AfterGroupMod(v, old[v])
               /\ new = [old EXCEPT ![v] = new[v]]
        <4>1. /\ old = [w \in VSwitches |-> TableOf(w)]
              /\ new = [w \in VSwitches |-> TableOf(w)']
          BY <1>1, <3>2
        <4> HIDE DEF tables
        <4>2. QED
          BY <3>1, <4>1, VirtualStep, ZenonT(30)
      <3>4. CASE new = old
        BY <3>2, <3>4
      <3>5. CASE /\ new[v] # old[v]
                 /\ new[v] \in Virtual!AfterFlowMod(v, old[v])
                                 \cup Virtual!AfterGroupMod(v, old[v])
                 /\ new = [old EXCEPT ![v] = new[v]]
        BY <3>2, <3>5 DEF Virtual!Next
      <3>6. QED
        BY <3>3, <3>4, <3>5
    <2>2. CASE UNCHANGED vars
      <3>1. tables' = tables
        BY <2>2 DEF FlowsOf, GroupsOf, FlowsAt, GroupsAt, vars
      <3>2. QED
        BY <3>1
    <2>3. QED
      BY <2>1, <2>2
  <1>6. QED
    BY <1>2, <1>3, <1>4, <1>5, PTL DEF Spec, Virtual!Spec, ImplementsVirtualTable

\* Every entry of v's table is one that v's controller sent.
Sent ==
  \A v \in VSwitches : \A f \in TableOf(v).flows :
    \E m \in FlowMods[v] : SameEntry(m.entry, f)

LEMMA SentBefore ==
  ASSUME NEW v, NEW t, NEW f,
         \/ f \in UNION {u.flows : u \in Virtual!AfterFlowMod(v, t)}
         \/ f \in UNION {u.flows : u \in Virtual!AfterGroupMod(v, t)}
  PROVE  \/ \E h \in t.flows : SameEntry(h, f)
         \/ \E m \in FlowMods[v] : SameEntry(m.entry, f)
  <1>1. ASSUME NEW m \in FlowMods[v],
               f \in FlowMod(t, m.command, Virtual!Normal(m.entry)).flows
        PROVE  (\E h \in t.flows : SameEntry(h, f)) \/ SameEntry(m.entry, f)
    <2>1. PICK c, n, F : /\ c = m.command /\ n = Virtual!Normal(m.entry)
                         /\ F = FlowMod(t, c, n).flows
      OBVIOUS
    <2>2. F = IF Taken(c, n, DOMAIN t.groups) THEN Applied(c, n, t.flows) ELSE t.flows
      BY <2>1, FlowModForm
    <2>3. \A h : SameEntry(h, Changed(n, h))
      BY DEF SameEntry, Changed, WithInstructions
    <2>4. SameEntry(m.entry, n)
      BY <2>1 DEF SameEntry, Virtual!Normal
    <2>5. \A h : SameEntry(h, h)
      BY DEF SameEntry
    <2>6. f \in F
      BY <1>1, <2>1
    <2>7. f = n \/ f \in t.flows \/ \E h \in t.flows : f = Changed(n, h)
      BY <2>2, <2>6 DEF Applied
    <2>8. QED
      BY <2>3, <2>4, <2>5, <2>7
  <1>2. ASSUME NEW c, NEW g, NEW buckets, f \in GroupMod(t, c, g, buckets).flows
        PROVE  f \in t.flows
    BY <1>2 DEF GroupMod, DeleteGroups
  <1>3. CASE f \in UNION {u.flows : u \in Virtual!AfterFlowMod(v, t)}
    <2>1. PICK m \in FlowMods[v] :
             f \in Virtual!FlowMod(t, m.command, Virtual!Normal(m.entry)).flows
      BY <1>3 DEF Virtual!AfterFlowMod
    <2>2. QED
      BY <1>1, <2>1, VirtualMods
  <1>4. CASE f \in UNION {u.flows : u \in Virtual!AfterGroupMod(v, t)}
    <2>1. PICK m \in GroupMods[v] :
             f \in Virtual!GroupMod(t, m.command, m.group,
                                    Virtual!NormalBuckets(m.buckets)).flows
      BY <1>4 DEF Virtual!AfterGroupMod
    <2>2. f \in t.flows /\ SameEntry(f, f)
      BY <1>2, <2>1, VirtualMods DEF SameEntry
    <2>3. QED
      BY <2>2
  <1>5. QED
    BY <1>3, <1>4

LEMMA SentKept ==
  ASSUME Sent, NEW v \in VSwitches, StepOf(v)
  PROVE  Sent'
  <1> SUFFICES ASSUME NEW w \in VSwitches, NEW f \in TableOf(w)'.flows
               PROVE  \E m \in FlowMods[w] : SameEntry(m.entry, f)
    BY DEF Sent
  <1>1. \A h \in TableOf(w).flows : \E m \in FlowMods[w] : SameEntry(m.entry, h)
    BY DEF Sent
  <1>2. CASE TableOf(w)' = TableOf(w)
    BY <1>1, <1>2
  <1>3. CASE TableOf(w)' # TableOf(w)
    <2>1. w = v
      BY <1>3 DEF StepOf
    <2>2. PICK t, u : t = TableOf(w) /\ u = TableOf(w)'
      OBVIOUS
    <2>3. u \in Virtual!AfterFlowMod(w, t) \/ u \in Virtual!AfterGroupMod(w, t)
      BY <1>3, <2>1, <2>2 DEF StepOf, TableStep
    <2>4. f \in u.flows
      BY <2>2
    <2>5. \/ \E h \in t.flows : SameEntry(h, f)
          \/ \E m \in FlowMods[w] : SameEntry(m.entry, f)
      BY <2>3, <2>4, SentBefore
    <2>6. \A h : \A m : SameEntry(m, h) /\ SameEntry(h, f) => SameEntry(m, f)
      BY DEF SameEntry
    <2>7. QED
      BY <1>1, <2>2, <2>5, <2>6
  <1>4. QED
    BY <1>2, <1>3

\* As long as messages name tables of the virtual switch and the numbers of the
\* ports do not meet, what handle_flow_mod says of a message for a port
\* elsewhere is true: every entry of v on a switch is one that v's controller
\* sent, for all ports or for one of that switch.
THEOREM EntriesSent ==
  ASSUME TablesNamed, NumbersApart
  PROVE  Spec => []EntriesAreSent
  <1>1. Init => RInv /\ Sent
    <2>1. Init => Sent
      BY InitAgrees DEF Sent
    <2>2. QED
      BY <2>1, RInvInit
  <1>2. RInv /\ Sent /\ [Next]_vars => (RInv /\ Sent)'
    <2> SUFFICES ASSUME RInv, Sent, [Next]_vars PROVE RInv' /\ Sent'
      OBVIOUS
    <2>1. CASE Next
      BY <2>1, RInvNext, StepsSeen, SentKept DEF RInv
    <2>2. CASE UNCHANGED vars
      <3>1. \A v \in VSwitches : TableOf(v)' = TableOf(v)
        BY <2>2 DEF TableOf, FlowsOf, GroupsOf, FlowsAt, GroupsAt, vars
      <3>2. Sent'
        BY <3>1 DEF Sent
      <3>3. QED
        BY <3>2, RInvNext
    <2>3. QED
      BY <2>1, <2>2
  <1>3. RInv /\ Sent => EntriesAreSent
    <2> SUFFICES ASSUME RInv, Sent, NEW v \in VSwitches, NEW s \in ToSet(Dependent[v]),
                        NEW f \in FlowsAt(s, v)
                 PROVE  \E m \in FlowMods[v] : SameEntry(m.entry, f)
      BY DEF EntriesAreSent
    <2>1. View(s, v) = On(v, s, TableOf(v))
      BY TableForm DEF RInv, Agree, Parts
    <2>2. f \in TableOf(v).flows
      BY <2>1, ViewForm DEF On
    <2>3. QED
      BY <2>2 DEF Sent
  <1>4. QED
    BY <1>1, <1>2, <1>3, PTL DEF Spec
=============================================================================
