--------------------------- MODULE RegistryProofs ---------------------------
(***************************************************************************)
(* Proofs about module Registry, for every number of connections, switches *)
(* and ids and every order of completions and handlers.  What a handler of *)
(* a stopped connection breaks (run registry_double_stop) is proved up to  *)
(* the first such handler; that no id leaks, and that the hypervisor dies  *)
(* only when all ids are held, is proved for what follows as well.         *)
(***************************************************************************)
EXTENDS Registry, NaturalsInduction, WellFoundedInduction, TLAPS

-----------------------------------------------------------------------------
\* The allocator: the loop of free_id may shrink "next" by any number of steps,
\* and new_id may take a returned id or a fresh one

\* A set of naturals that is not empty has a least element.
LEMMA LeastNatural ==
  ASSUME NEW S, S \subseteq Nat, S # {}
  PROVE  \E n \in S : \A m \in S : n <= m
<1>1. \E n \in S : \A m \in S : ~ (<<m, n>> \in OpToRel(<, Nat))
  BY NatLessThanWellFounded, WFMin
<1>2. \A m, n \in Nat : m < n => <<m, n>> \in OpToRel(<, Nat)
  <2> SUFFICES ASSUME NEW m \in Nat, NEW n \in Nat, m < n
               PROVE  <<m, n>> \in OpToRel(<, Nat)
    OBVIOUS
  <2>1. <<m, n>> \in Nat \X Nat /\ <<m, n>>[1] = m /\ <<m, n>>[2] = n
    OBVIOUS
  <2> QED
    BY <2>1 DEF OpToRel
<1>3. PICK n \in S : \A m \in S : ~ (<<m, n>> \in OpToRel(<, Nat))
  BY <1>1
<1>4. ASSUME NEW m \in S PROVE n <= m
  <2>1. ~ (<<m, n>> \in OpToRel(<, Nat))
    BY <1>3
  <2>2. m \in Nat /\ n \in Nat
    OBVIOUS
  <2>3. ~ (m < n)
    BY <1>2, <2>1, <2>2
  <2> QED
    BY <2>2, <2>3
<1> QED
  BY <1>4

\* The states of an allocator as its users should leave it: every returned id
\* is below "next".
AllocOK(a) ==
  /\ a = [next |-> a.next, returned |-> a.returned]
  /\ a.next \in MinId .. (MaxId + 1)
  /\ a.returned \subseteq MinId .. (a.next - 1)

\* All its states, those after an id was freed twice included.
AllocInRange(a) ==
  /\ a = [next |-> a.next, returned |-> a.returned]
  /\ a.next \in MinId .. (MaxId + 1)
  /\ a.returned \subseteq MinId .. MaxId

LEMMA InitAllocOK == AllocOK(InitAlloc) /\ Allocated(InitAlloc) = {}
  BY IdRangeAssumption DEF AllocOK, InitAlloc, Allocated

\* new_id hands out an id in range that is not in use, and marks it used.
LEMMA NewIdCorrect ==
  ASSUME NEW a, AllocOK(a), ~Exhausted(a)
  PROVE  /\ NewId(a) \in MinId .. MaxId
         /\ NewId(a) \notin Allocated(a)
         /\ AllocOK(AfterNew(a))
         /\ Allocated(AfterNew(a)) = Allocated(a) \cup {NewId(a)}
<1>1. CASE a.returned = {}
  <2>1. AfterNew(a) = [next |-> a.next + 1, returned |-> {}]
    BY <1>1 DEF AfterNew, AllocOK
  <2>2. NewId(a) = a.next /\ a.next \in MinId .. MaxId
    BY <1>1, IdRangeAssumption DEF NewId, Exhausted, AllocOK
  <2> QED
    BY <1>1, <2>1, <2>2, IdRangeAssumption DEF Allocated, AllocOK
<1>2. CASE a.returned # {}
  <2>1. a.returned \subseteq Nat
    BY IdRangeAssumption DEF AllocOK
  <2>2. \E n \in a.returned : \A m \in a.returned : n <= m
    BY <1>2, <2>1, LeastNatural
  <2>3. NewId(a) \in a.returned
    BY <1>2, <2>2 DEF NewId
  <2>4. AfterNew(a) = [next |-> a.next, returned |-> a.returned \ {NewId(a)}]
    BY <1>2 DEF AfterNew, AllocOK
  <2> QED
    BY <2>3, <2>4, IdRangeAssumption DEF Allocated, AllocOK
<1> QED
  BY <1>1, <1>2

\* Even after double frees new_id hands out an id in range and marks no other id
\* used.
LEMMA NewIdInRange ==
  ASSUME NEW a, AllocInRange(a), ~Exhausted(a)
  PROVE  /\ NewId(a) \in MinId .. MaxId
         /\ AllocInRange(AfterNew(a))
         /\ Allocated(AfterNew(a)) \subseteq Allocated(a) \cup {NewId(a)}
<1>1. CASE a.returned = {}
  <2>1. AfterNew(a) = [next |-> a.next + 1, returned |-> {}]
    BY <1>1 DEF AfterNew, AllocInRange
  <2>2. NewId(a) = a.next /\ a.next \in MinId .. MaxId
    BY <1>1, IdRangeAssumption DEF NewId, Exhausted, AllocInRange
  <2> QED
    BY <1>1, <2>1, <2>2, IdRangeAssumption DEF Allocated, AllocInRange
<1>2. CASE a.returned # {}
  <2>1. a.returned \subseteq Nat
    BY IdRangeAssumption DEF AllocInRange
  <2>2. \E n \in a.returned : \A m \in a.returned : n <= m
    BY <1>2, <2>1, LeastNatural
  <2>3. NewId(a) \in a.returned
    BY <1>2, <2>2 DEF NewId
  <2>4. AfterNew(a) = [next |-> a.next, returned |-> a.returned \ {NewId(a)}]
    BY <1>2 DEF AfterNew, AllocInRange
  <2> QED
    BY <2>3, <2>4, IdRangeAssumption DEF Allocated, AllocInRange
<1> QED
  BY <1>1, <1>2

\* The loop of free_id has an end: the ids trimmed are a run up to next-1.
LEMMA TrimExists ==
  ASSUME NEW next \in Nat, MinId <= next,
         NEW ret, \A k \in ret : k \in Int /\ MinId <= k
  PROVE  \E k \in MinId .. next :
           k .. (next - 1) \subseteq ret /\ (k - 1) \notin ret
<1> DEFINE S == {k \in MinId .. next : k .. (next - 1) \subseteq ret}
<1>1. next \in S
  BY IdRangeAssumption
<1>2. S \subseteq Nat
  BY IdRangeAssumption
<1>3. PICK k \in S : \A m \in S : k <= m
  BY <1>1, <1>2, LeastNatural
<1>4. (k - 1) \notin ret
  <2> SUFFICES ASSUME (k - 1) \in ret PROVE FALSE
    OBVIOUS
  <2>1. k - 1 \in MinId .. next /\ k \in MinId .. next
    BY <1>3, IdRangeAssumption
  <2>2. (k - 1) .. (next - 1) \subseteq ret
    <3>1. k .. (next - 1) \subseteq ret
      BY <1>3
    <3>2. \A i \in (k - 1) .. (next - 1) : i = k - 1 \/ i \in k .. (next - 1)
      BY <2>1, IdRangeAssumption
    <3> QED
      BY <3>1, <3>2
  <2>3. k - 1 \in S
    BY <2>1, <2>2
  <2> QED
    BY <1>3, <2>1, <2>3, IdRangeAssumption
<1> QED
  BY <1>3, <1>4

\* free_id of any id makes exactly that id free, if it was in use.
LEMMA FreeIdInRange ==
  ASSUME NEW a, AllocInRange(a), NEW i \in MinId .. MaxId
  PROVE  /\ AllocInRange(AfterFree(a, i))
         /\ Allocated(AfterFree(a, i)) = Allocated(a) \ {i}
         /\ AllocOK(a) /\ i \in Allocated(a) => AllocOK(AfterFree(a, i))
<1> DEFINE ret == a.returned \cup {i}
           n   == CHOOSE k \in MinId .. a.next :
                    k .. (a.next - 1) \subseteq ret /\ (k - 1) \notin ret
<1>1. /\ a.next \in Nat /\ MinId <= a.next
      /\ \A k \in ret : k \in Int /\ MinId <= k /\ k <= MaxId
  BY IdRangeAssumption DEF AllocInRange
<1>2. n \in MinId .. a.next /\ n .. (a.next - 1) \subseteq ret /\ (n - 1) \notin ret
  <2>1. \E k \in MinId .. a.next :
          k .. (a.next - 1) \subseteq ret /\ (k - 1) \notin ret
    <3> HIDE DEF ret
    <3> QED
      BY <1>1, TrimExists
  <2> QED
    BY <2>1
<1>3. AfterFree(a, i) = [next |-> n, returned |-> ret \ (n .. (a.next - 1))]
  BY DEF AfterFree
<1> HIDE DEF n
<1>4. AllocInRange(AfterFree(a, i))
  BY <1>1, <1>2, <1>3, IdRangeAssumption DEF AllocInRange
<1>5. Allocated(AfterFree(a, i)) = Allocated(a) \ {i}
  BY <1>1, <1>2, <1>3, IdRangeAssumption DEF Allocated, AllocInRange
<1>6. ASSUME AllocOK(a), i \in Allocated(a)
      PROVE  AllocOK(AfterFree(a, i))
  BY <1>1, <1>2, <1>3, <1>6, IdRangeAssumption DEF AllocOK, Allocated
<1> QED
  BY <1>4, <1>5, <1>6

-----------------------------------------------------------------------------
\* The inductive invariant

\* A connection has an object while its socket is open or a completion waits
\* for its handler.
ObjectsLive ==
  \A c \in Conns :
    /\ state[c] # "none" <=> Live(c) \/ ready[c] # << >>
    /\ state[c] # "none" => peer[c] \in Dpids

\* physical_switches holds live connections under their own id.
MapSound ==
  \A i \in DOMAIN physical_switches :
    Live(physical_switches[i]) /\ id[physical_switches[i]] = i

\* What a lookup by datapath id finds, said without an existential.
DatapathsSound ==
  \A d \in DOMAIN datapath_id_to_switch_id :
    LET i == datapath_id_to_switch_id[d] IN
      /\ i \in DOMAIN physical_switches
      /\ state[physical_switches[i]] = "registered"
      /\ peer[physical_switches[i]] = d

AllocShape == AllocInRange(alloc)

\* What holds until a handler of a stopped connection runs
InOrder ==
  /\ AllocOK(alloc)
  /\ DatapathsSound
  /\ UniqueIds

\* The inductive invariant
IInv ==
  /\ TypeOK
  /\ AllocShape
  /\ ObjectsLive
  /\ MapSound
  /\ IdsAccountedFor
  /\ ~stale => InOrder

\* The handler of c takes the first completion that waits for its connection.
LEMMA QueueShortened ==
  ASSUME TypeOK, NEW c \in Conns, ready[c] # << >>,
         ready' = [ready EXCEPT ![c] = Tail(@)]
  PROVE  /\ ready' \in [Conns -> Seq(Completions)]
         /\ ready'[c] # ready[c]
         /\ \A x \in Conns \ {c} : ready'[x] = ready[x]
<1>1. ready[c] \in Seq(Completions) /\ ready \in [Conns -> Seq(Completions)]
  BY DEF TypeOK
<1> HIDE DEF Completions
<1>2. Tail(ready[c]) \in Seq(Completions) /\ Len(Tail(ready[c])) # Len(ready[c])
  BY <1>1
<1> QED
  BY <1>1, <1>2

\* The inductive invariant holds before the first connection is accepted.
LEMMA IInvInit == Init => IInv
<1> SUFFICES ASSUME Init PROVE IInv
  OBVIOUS
<1> USE DEF Init
<1>1. AllocShape /\ AllocOK(alloc) /\ Allocated(alloc) = {}
  BY InitAllocOK, IdRangeAssumption DEF AllocShape, AllocOK, AllocInRange
<1>2. TypeOK
  <2>1. << >> \in Seq(Completions)
    OBVIOUS
  <2>2. DOMAIN physical_switches = {} /\ DOMAIN datapath_id_to_switch_id = {}
    OBVIOUS
  <2>3. ready \in [Conns -> Seq(Completions)]
    BY <2>1
  <2>4. /\ alloc.next \in MinId .. (MaxId + 1)
        /\ alloc.returned \subseteq MinId .. MaxId
        /\ id \in [Conns -> MinId .. MaxId]
    BY <1>1, IdRangeAssumption DEF AllocShape, AllocInRange
  <2>5. /\ state \in [Conns -> {"none", "unregistered", "registered"}]
        /\ sock \in [Conns -> {"closed", "open"}]
        /\ peer \in [Conns -> Dpids \cup {None}]
        /\ crashed \in BOOLEAN /\ stale \in BOOLEAN
    OBVIOUS
  <2> QED
    BY <2>2, <2>3, <2>4, <2>5 DEF TypeOK
<1>3. ObjectsLive /\ UniqueIds /\ LiveIds = {}
  BY DEF ObjectsLive, UniqueIds, Live, LiveIds
<1>4. MapSound /\ DatapathsSound
  BY DEF MapSound, DatapathsSound
<1> QED
  BY <1>1, <1>2, <1>3, <1>4 DEF IInv, IdsAccountedFor, InOrder

-----------------------------------------------------------------------------
\* The handlers and events one by one

\* Accepting a connection gives it an id nobody has, or ends the process.  After
\* an id was freed twice it may instead drop the connection.
LEMMA AcceptPreserves ==
  ASSUME IInv, NEW c \in Conns, NEW d \in Dpids, HandleAccept(c, d)
  PROVE  IInv'
<1> DEFINE n == NewId(alloc)
<1>1. CASE AcceptFails
  BY <1>1 DEF AcceptFails, IInv, TypeOK, AllocShape, ObjectsLive, MapSound,
              InOrder, DatapathsSound, UniqueIds, IdsAccountedFor, LiveIds, Live
<1>2. CASE AcceptSucceeds(c, d) /\ n \in DOMAIN physical_switches
  <2>1. /\ AllocInRange(AfterNew(alloc))
        /\ Allocated(AfterNew(alloc)) \subseteq Allocated(alloc) \cup {n}
    BY <1>2, NewIdInRange DEF IInv, AllocShape, AcceptSucceeds
  <2>2. stale
    <3> SUFFICES ASSUME ~stale PROVE FALSE
      BY DEF IInv, TypeOK
    <3>1. n \notin Allocated(alloc)
      BY <1>2, NewIdCorrect DEF IInv, InOrder, AcceptSucceeds
    <3> QED
      BY <1>2, <3>1 DEF IInv, MapSound, IdsAccountedFor, LiveIds, TypeOK
  <2>3. n \in LiveIds
    BY <1>2 DEF IInv, MapSound, LiveIds, TypeOK
  <2> HIDE DEF n
  <2>4. /\ alloc' = AfterNew(alloc)
        /\ UNCHANGED <<state, sock, peer, id, ready, physical_switches,
                       datapath_id_to_switch_id, crashed, stale>>
    BY <1>2 DEF AcceptSucceeds, n
  <2>5. TypeOK'
    BY <2>1, <2>4 DEF IInv, TypeOK, AllocInRange
  <2>6. AllocShape' /\ ObjectsLive' /\ MapSound'
    BY <2>1, <2>4 DEF IInv, AllocShape, ObjectsLive, MapSound, Live
  <2>7. IdsAccountedFor'
    BY <2>1, <2>2, <2>3, <2>4 DEF IInv, IdsAccountedFor, LiveIds, Live
  <2> QED
    BY <2>2, <2>4, <2>5, <2>6, <2>7 DEF IInv
<1>3. CASE AcceptSucceeds(c, d) /\ n \notin DOMAIN physical_switches
  <2>1. /\ n \in MinId .. MaxId
        /\ AllocInRange(AfterNew(alloc))
        /\ Allocated(AfterNew(alloc)) \subseteq Allocated(alloc) \cup {n}
    BY <1>3, NewIdInRange DEF IInv, AllocShape, AcceptSucceeds
  <2>2. ~stale => /\ AllocOK(AfterNew(alloc))
                  /\ n \notin Allocated(alloc)
                  /\ Allocated(AfterNew(alloc)) = Allocated(alloc) \cup {n}
    BY <1>3, NewIdCorrect DEF IInv, InOrder, AcceptSucceeds
  <2> HIDE DEF n
  <2>3. /\ alloc' = AfterNew(alloc)
        /\ state' = [state EXCEPT ![c] = "unregistered"]
        /\ sock' = [sock EXCEPT ![c] = "open"]
        /\ peer' = [peer EXCEPT ![c] = d]
        /\ id' = [id EXCEPT ![c] = n]
        /\ physical_switches' = Insert(physical_switches, n, c)
        /\ UNCHANGED <<ready, datapath_id_to_switch_id, crashed, stale>>
    BY <1>3 DEF AcceptSucceeds, n
  <2>4. state[c] = "none" /\ ~Live(c) /\ ready[c] = << >>
    BY DEF HandleAccept, IInv, ObjectsLive
  <2>5. /\ DOMAIN physical_switches' = DOMAIN physical_switches \cup {n}
        /\ physical_switches'[n] = c
        /\ \A i \in DOMAIN physical_switches :
             physical_switches'[i] = physical_switches[i]
    BY <1>3, <2>3 DEF Insert, n
  <2>6. \A x \in Conns : Live(x)' <=> Live(x) \/ x = c
    BY <2>3 DEF IInv, TypeOK, Live
  <2>7. \A x \in Conns : Live(x) => /\ x # c /\ id'[x] = id[x]
                                    /\ peer'[x] = peer[x] /\ state'[x] = state[x]
    BY <2>3, <2>4 DEF IInv, TypeOK
  <2>8. id'[c] = n /\ state'[c] = "unregistered" /\ peer'[c] = d
    BY <2>3 DEF IInv, TypeOK
  <2>9. TypeOK'
    BY <2>1, <2>3, <2>5 DEF IInv, TypeOK, AllocInRange
  <2>10. AllocShape'
    BY <2>1, <2>3 DEF AllocShape
  <2>11. ObjectsLive'
    <3>1. \A x \in Conns \ {c} : state'[x] = state[x] /\ peer'[x] = peer[x]
      BY <2>3 DEF IInv, TypeOK
    <3> QED
      BY <2>3, <2>6, <2>8, <3>1 DEF IInv, ObjectsLive
  <2>12. MapSound'
    BY <2>5, <2>6, <2>7, <2>8 DEF IInv, MapSound, TypeOK
  <2>13. ASSUME ~stale PROVE DatapathsSound'
    <3> SUFFICES ASSUME NEW e \in DOMAIN datapath_id_to_switch_id
                 PROVE  LET i == datapath_id_to_switch_id[e] IN
                          /\ i \in DOMAIN physical_switches'
                          /\ state'[physical_switches'[i]] = "registered"
                          /\ peer'[physical_switches'[i]] = e
      BY <2>3 DEF DatapathsSound
    <3> DEFINE i == datapath_id_to_switch_id[e]
    <3>1. /\ i \in DOMAIN physical_switches
          /\ state[physical_switches[i]] = "registered"
          /\ peer[physical_switches[i]] = e
          /\ physical_switches[i] \in Conns /\ Live(physical_switches[i])
      BY <2>13 DEF IInv, InOrder, DatapathsSound, MapSound, TypeOK
    <3> QED
      BY <2>5, <2>7, <3>1
  <2>14. ASSUME ~stale PROVE UniqueIds'
    <3>1. \A x \in Conns : Live(x) => id[x] \in DOMAIN physical_switches
                                      /\ physical_switches[id[x]] = x
      BY <2>14 DEF IInv, InOrder, UniqueIds
    <3> QED
      BY <2>5, <2>6, <2>7, <2>8, <3>1 DEF UniqueIds
  <2>15. IdsAccountedFor'
    <3>1. LiveIds' = LiveIds \cup {n}
      BY <2>6, <2>7, <2>8 DEF LiveIds
    <3> QED
      BY <2>1, <2>2, <2>3, <3>1 DEF IInv, IdsAccountedFor
  <2> QED
    BY <2>2, <2>3, <2>9, <2>10, <2>11, <2>12, <2>13, <2>14, <2>15
       DEF IInv, InOrder
<1> QED
  BY <1>1, <1>2, <1>3 DEF HandleAccept

\* An operation of an open socket completes; nothing is handled yet.
LEMMA CompletePreserves ==
  ASSUME IInv, NEW c \in Conns, NEW kind \in Completions, NEW same,
         Complete(c, kind, same)
  PROVE  IInv'
<1>1. /\ Live(c)
      /\ ready' = [ready EXCEPT ![c] = Append(@, kind)]
      /\ UNCHANGED <<state, sock, peer, id, alloc, physical_switches,
                     datapath_id_to_switch_id, crashed, stale>>
  BY DEF Complete
<1>2. TypeOK'
  <2>1. ready[c] \in Seq(Completions)
    BY DEF IInv, TypeOK
  <2>2. Append(ready[c], kind) \in Seq(Completions)
    <3> HIDE DEF Completions
    <3> QED
      BY <2>1
  <2> QED
    BY <1>1, <2>2 DEF IInv, TypeOK
<1>3. ObjectsLive'
  <2>1. \A x \in Conns \ {c} : ready'[x] = ready[x]
    BY <1>1 DEF IInv, TypeOK
  <2> QED
    BY <1>1, <2>1 DEF IInv, ObjectsLive, Live
<1>4. AllocShape' /\ MapSound' /\ IdsAccountedFor' /\ (~stale => InOrder')
  BY <1>1 DEF IInv, AllocShape, MapSound, InOrder, DatapathsSound, UniqueIds,
              IdsAccountedFor, LiveIds, Live
<1> QED
  BY <1>1, <1>2, <1>3, <1>4 DEF IInv

\* The object of c goes when its socket is closed and nothing is queued for it,
\* else it is in state st; the other objects are left alone.
LEMMA Collected ==
  ASSUME IInv, NEW c \in Conns, state[c] # "none",
         NEW st \in {"unregistered", "registered"}, Collect(c, st),
         sock' \in [Conns -> {"closed", "open"}]
  PROVE  /\ state' \in [Conns -> {"none", "unregistered", "registered"}]
         /\ peer' \in [Conns -> Dpids \cup {None}]
         /\ id' \in [Conns -> MinId .. MaxId]
         /\ Live(c)' \/ ready'[c] # << >>
            => state'[c] = st /\ peer'[c] = peer[c] /\ id'[c] = id[c]
         /\ state'[c] # "none" <=> Live(c)' \/ ready'[c] # << >>
         /\ state'[c] # "none" => peer'[c] \in Dpids
         /\ \A x \in Conns \ {c} :
              state'[x] = state[x] /\ peer'[x] = peer[x] /\ id'[x] = id[x]
<1>1. /\ state \in [Conns -> {"none", "unregistered", "registered"}]
      /\ peer \in [Conns -> Dpids \cup {None}]
      /\ id \in [Conns -> MinId .. MaxId]
      /\ peer[c] \in Dpids /\ MinId \in MinId .. MaxId
  BY IdRangeAssumption DEF IInv, TypeOK, ObjectsLive
<1>2. CASE sock'[c] = "closed" /\ ready'[c] = << >>
  <2>1. /\ state' = [state EXCEPT ![c] = "none"]
        /\ peer' = [peer EXCEPT ![c] = None]
        /\ id' = [id EXCEPT ![c] = MinId]
    BY <1>2 DEF Collect
  <2> QED
    BY <1>1, <1>2, <2>1 DEF Live
<1>3. CASE ~(sock'[c] = "closed" /\ ready'[c] = << >>)
  <2>1. state' = [state EXCEPT ![c] = st] /\ UNCHANGED <<peer, id>>
    BY <1>3 DEF Collect
  <2>2. Live(c)' \/ ready'[c] # << >>
    BY <1>3 DEF Live
  <2> QED
    BY <1>1, <2>1, <2>2
<1> QED
  BY <1>2, <1>3

\* A features reply registers the datapath id of a connected switch under its
\* own id.
LEMMA FeaturesReplyPreserves ==
  ASSUME IInv, NEW c \in Conns, HandleFeaturesReply(c)
  PROVE  IInv'
<1>1. ready[c] # << >> /\ ready' = [ready EXCEPT ![c] = Tail(@)]
  BY DEF HandleFeaturesReply, Pending
<1>2. state[c] # "none" /\ peer[c] \in Dpids
  BY <1>1 DEF IInv, ObjectsLive
<1>3. /\ UNCHANGED <<sock, alloc, physical_switches, crashed>>
      /\ datapath_id_to_switch_id' =
           Insert(datapath_id_to_switch_id, peer[c], id[c])
      /\ stale' = (stale \/ sock[c] = "closed")
      /\ Collect(c, "registered")
  BY DEF HandleFeaturesReply, Heard
<1>4. /\ ready' \in [Conns -> Seq(Completions)]
      /\ \A x \in Conns \ {c} : ready'[x] = ready[x]
  BY <1>1, QueueShortened DEF IInv
<1>5. /\ state' \in [Conns -> {"none", "unregistered", "registered"}]
      /\ peer' \in [Conns -> Dpids \cup {None}]
      /\ id' \in [Conns -> MinId .. MaxId]
      /\ Live(c) => state'[c] = "registered" /\ peer'[c] = peer[c] /\ id'[c] = id[c]
      /\ state'[c] # "none" <=> Live(c) \/ ready'[c] # << >>
      /\ state'[c] # "none" => peer'[c] \in Dpids
      /\ \A x \in Conns \ {c} :
           state'[x] = state[x] /\ peer'[x] = peer[x] /\ id'[x] = id[x]
  <2>1. sock' \in [Conns -> {"closed", "open"}] /\ (Live(c)' <=> Live(c))
    BY <1>3 DEF IInv, TypeOK, Live
  <2> QED
    BY <1>2, <1>3, <2>1, Collected
<1>6. \A x \in Conns : Live(x) => id'[x] = id[x] /\ peer'[x] = peer[x]
  BY <1>5
<1>7. TypeOK'
  BY <1>2, <1>3, <1>4, <1>5 DEF IInv, TypeOK, Insert
<1>8. ObjectsLive'
  BY <1>3, <1>4, <1>5 DEF IInv, ObjectsLive, Live
<1>9. AllocShape' /\ MapSound' /\ LiveIds' = LiveIds
  BY <1>3, <1>6 DEF IInv, AllocShape, MapSound, LiveIds, Live, TypeOK
<1>10. IdsAccountedFor'
  BY <1>3, <1>9 DEF IInv, IdsAccountedFor
<1>11. ASSUME ~stale' PROVE InOrder'
  <2>1. ~stale /\ Live(c)
    BY <1>3, <1>11 DEF IInv, TypeOK, Live
  <2>2. AllocOK(alloc)' /\ UniqueIds'
    BY <1>3, <1>6, <2>1 DEF IInv, InOrder, UniqueIds, Live
  <2>3. DatapathsSound'
    BY <1>2, <1>3, <1>5, <2>1
       DEF IInv, InOrder, DatapathsSound, MapSound, UniqueIds, TypeOK, Insert
  <2> QED
    BY <2>2, <2>3 DEF InOrder
<1> QED
  BY <1>7, <1>8, <1>9, <1>10, <1>11 DEF IInv

\* A failed connection frees its id and its datapath id, and those only.  When
\* it was stopped before, they may be another switch's: what is free then is
\* counted as free nonetheless.
LEMMA NetworkErrorPreserves ==
  ASSUME IInv, NEW c \in Conns, HandleNetworkError(c)
  PROVE  IInv'
<1>1. ready[c] # << >> /\ ready' = [ready EXCEPT ![c] = Tail(@)]
  BY DEF HandleNetworkError, Pending
<1>2. peer[c] \in Dpids /\ state[c] # "none" /\ id[c] \in MinId .. MaxId
  BY <1>1 DEF IInv, ObjectsLive, TypeOK
<1>3. /\ ready' \in [Conns -> Seq(Completions)]
      /\ \A x \in Conns \ {c} : ready'[x] = ready[x]
  BY <1>1, QueueShortened DEF IInv
<1>4. /\ UNCHANGED crashed
      /\ sock' = [sock EXCEPT ![c] = "closed"]
      /\ physical_switches' = Erase(physical_switches, id[c])
      /\ alloc' = AfterFree(alloc, id[c])
      /\ datapath_id_to_switch_id' =
           IF state[c] = "unregistered" THEN datapath_id_to_switch_id
           ELSE Erase(datapath_id_to_switch_id, peer[c])
      /\ stale' = (stale \/ sock[c] = "closed")
      /\ Collect(c, state[c])
  BY DEF HandleNetworkError, Unregister, Heard
<1>5. \A x \in Conns : Live(x)' <=> Live(x) /\ x # c
  BY <1>4 DEF IInv, TypeOK, Live
<1>6. /\ state' \in [Conns -> {"none", "unregistered", "registered"}]
      /\ peer' \in [Conns -> Dpids \cup {None}]
      /\ id' \in [Conns -> MinId .. MaxId]
      /\ state'[c] # "none" <=> Live(c)' \/ ready'[c] # << >>
      /\ state'[c] # "none" => peer'[c] \in Dpids
      /\ \A x \in Conns \ {c} :
           state'[x] = state[x] /\ peer'[x] = peer[x] /\ id'[x] = id[x]
  <2>1. sock' \in [Conns -> {"closed", "open"}]
    BY <1>4 DEF IInv, TypeOK
  <2>2. state[c] \in {"unregistered", "registered"}
    BY <1>2 DEF IInv, TypeOK
  <2> QED
    BY <1>2, <1>4, <2>1, <2>2, Collected
<1>7. /\ DOMAIN physical_switches' = DOMAIN physical_switches \ {id[c]}
      /\ \A i \in DOMAIN physical_switches' :
           physical_switches'[i] = physical_switches[i]
  BY <1>4 DEF Erase
<1>8. \A i \in DOMAIN physical_switches' :
        /\ physical_switches[i] # c /\ physical_switches[i] \in Conns
        /\ Live(physical_switches[i]) /\ id[physical_switches[i]] = i
  BY <1>7 DEF IInv, MapSound, TypeOK
<1>9. /\ AllocInRange(alloc') /\ Allocated(alloc') = Allocated(alloc) \ {id[c]}
      /\ AllocOK(alloc) /\ id[c] \in Allocated(alloc) => AllocOK(alloc')
  <2>1. AllocInRange(alloc)
    BY DEF IInv, AllocShape
  <2> QED
    BY <1>2, <1>4, <2>1, FreeIdInRange
<1>10. TypeOK'
  <2>1. /\ DOMAIN datapath_id_to_switch_id' \subseteq DOMAIN datapath_id_to_switch_id
        /\ \A e \in DOMAIN datapath_id_to_switch_id' :
             datapath_id_to_switch_id'[e] = datapath_id_to_switch_id[e]
    BY <1>4 DEF Erase
  <2> QED
    BY <1>3, <1>4, <1>6, <1>7, <1>9, <2>1 DEF IInv, TypeOK, AllocInRange
<1>11. ObjectsLive'
  BY <1>3, <1>5, <1>6 DEF IInv, ObjectsLive
<1>12. MapSound'
  BY <1>5, <1>6, <1>7, <1>8 DEF MapSound
<1>13. Allocated(alloc') \subseteq LiveIds'
  <2>1. \A x \in Conns : Live(x) /\ id[x] # id[c] => Live(x)' /\ id'[x] = id[x]
    BY <1>5, <1>6
  <2>2. Allocated(alloc) \subseteq LiveIds
    BY DEF IInv, IdsAccountedFor
  <2> QED
    BY <1>9, <2>1, <2>2 DEF LiveIds
<1>14. ASSUME ~stale' PROVE InOrder' /\ LiveIds' \subseteq Allocated(alloc')
  <2>1. ~stale /\ Live(c)
    BY <1>4, <1>14 DEF IInv, TypeOK, Live
  <2>2. /\ AllocOK(alloc) /\ DatapathsSound /\ UniqueIds
        /\ LiveIds \subseteq Allocated(alloc)
    BY <2>1 DEF IInv, InOrder, IdsAccountedFor
  <2>3. \A x \in Conns : Live(x) /\ x # c => id[x] # id[c]
    BY <2>1, <2>2 DEF UniqueIds
  <2>4. UniqueIds'
    BY <1>5, <1>6, <1>7, <2>2, <2>3 DEF UniqueIds
  <2>5. LiveIds' \subseteq Allocated(alloc')
    BY <1>5, <1>6, <1>9, <2>2, <2>3 DEF LiveIds
  <2>6. AllocOK(alloc')
    BY <1>9, <2>1, <2>2 DEF LiveIds
  <2>7. DatapathsSound'
    <3> SUFFICES ASSUME NEW e \in DOMAIN datapath_id_to_switch_id'
                 PROVE  LET i == datapath_id_to_switch_id'[e] IN
                          /\ i \in DOMAIN physical_switches'
                          /\ state'[physical_switches'[i]] = "registered"
                          /\ peer'[physical_switches'[i]] = e
      BY DEF DatapathsSound
    <3> DEFINE i == datapath_id_to_switch_id[e]
    <3>1. /\ e \in DOMAIN datapath_id_to_switch_id
          /\ datapath_id_to_switch_id'[e] = i
          /\ state[c] # "unregistered" => e # peer[c]
      BY <1>4 DEF Erase
    <3>2. /\ i \in DOMAIN physical_switches
          /\ state[physical_switches[i]] = "registered"
          /\ peer[physical_switches[i]] = e
          /\ physical_switches[i] \in Conns
          /\ Live(physical_switches[i]) /\ id[physical_switches[i]] = i
      BY <2>2, <3>1 DEF IInv, DatapathsSound, MapSound, TypeOK
    <3>3. physical_switches[i] # c
      BY <3>1, <3>2
    <3>4. i # id[c]
      BY <2>3, <3>2, <3>3
    <3> QED
      BY <1>6, <1>7, <3>1, <3>2, <3>3, <3>4
  <2> QED
    BY <2>4, <2>5, <2>6, <2>7 DEF InOrder
<1> QED
  BY <1>9, <1>10, <1>11, <1>12, <1>13, <1>14 DEF IInv, AllocShape, IdsAccountedFor

-----------------------------------------------------------------------------
\* Every step, and the theorems

\* Whatever the network and the handlers do next, the invariant survives.
LEMMA NextPreserves ==
  ASSUME IInv, [Next]_vars
  PROVE  IInv'
<1>1. CASE UNCHANGED vars
  BY <1>1 DEF vars, IInv, TypeOK, AllocShape, ObjectsLive, MapSound, InOrder,
              DatapathsSound, UniqueIds, IdsAccountedFor, LiveIds, Live
<1>2. ASSUME NEW c \in Conns, NEW d \in Dpids, HandleAccept(c, d)
      PROVE  IInv'
  BY <1>2, AcceptPreserves
<1>3. ASSUME NEW c \in Conns,
             FeaturesReplyArrives(c) \/ ReadFails(c) \/ WriteFails(c)
      PROVE  IInv'
  <2>1. /\ "features_reply" \in Completions /\ "read_error" \in Completions
        /\ "write_error" \in Completions
    BY DEF Completions
  <2> QED
    BY <1>3, <2>1, CompletePreserves
       DEF FeaturesReplyArrives, ReadFails, WriteFails
<1>4. ASSUME NEW c \in Conns, HandleFeaturesReply(c)
      PROVE  IInv'
  BY <1>4, FeaturesReplyPreserves
<1>5. ASSUME NEW c \in Conns, HandleNetworkError(c)
      PROVE  IInv'
  BY <1>5, NetworkErrorPreserves
<1> QED
  BY <1>1, <1>2, <1>3, <1>4, <1>5 DEF Next

\* The inductive invariant holds in every state the hypervisor reaches, with
\* any completions queued and any connections stopped twice.
THEOREM InductiveInvariant == Spec => []IInv
<1>1. Init => IInv
  BY IInvInit
<1>2. IInv /\ [Next]_vars => IInv'
  BY NextPreserves
<1> QED
  BY <1>1, <1>2, PTL DEF Spec

\* The registry's variables keep their types: no id beyond the range is ever
\* stored in the maps of hypervisor.hpp, even when ids are freed twice.
THEOREM TypeCorrect == Spec => []TypeOK
<1>1. IInv => TypeOK
  BY DEF IInv
<1> QED
  BY <1>1, InductiveInvariant, PTL

\* Until a handler of a stopped connection runs, no two connected switches share
\* an id, and each is found under its own.
THEOREM IdsUnique == Spec => []UniqueIdsUntilStale
<1>1. IInv => UniqueIdsUntilStale
  BY DEF IInv, InOrder, UniqueIdsUntilStale
<1> QED
  BY <1>1, InductiveInvariant, PTL

\* IdAllocator never leaks an id, whenever and in whatever state of the
\* handshake a connection is lost, be it stopped twice; and until a handler of a
\* stopped connection runs it frees none that is in use.
THEOREM IdsNeverLeak == Spec => []IdsAccountedFor
<1>1. IInv => IdsAccountedFor
  BY DEF IInv
<1> QED
  BY <1>1, InductiveInvariant, PTL

\* Until a handler of a stopped connection runs,
\* get_physical_switch_by_datapath_id never returns a switch that has another
\* datapath id or is disconnected, even when connections of one datapath
\* overlap.
THEOREM LookupIsSound == Spec => []LookupSound
<1>1. IInv => LookupSound
  BY DEF IInv, InOrder, TypeOK, MapSound, DatapathsSound, LookupSound, LookupFinds
<1> QED
  BY <1>1, InductiveInvariant, PTL

\* new_id throws, and ends the process, only when every id is in use.
LEMMA ExhaustedMeansFull ==
  ASSUME NEW a, AllocInRange(a), Exhausted(a)
  PROVE  Allocated(a) = MinId .. MaxId
  BY IdRangeAssumption DEF AllocInRange, Exhausted, Allocated

\* Accepting a connection kills the hypervisor only when every id is held by a
\* connected switch: ids lost to broken handshakes, or freed twice, never add up
\* to a crash.
THEOREM CrashesOnlyWhenFull == Spec => []CrashOnlyWhenFull
<1>1. Init => CrashOnlyWhenFull
  BY DEF Init, CrashOnlyWhenFull
<1>2. ASSUME IInv, CrashOnlyWhenFull, [Next]_vars
      PROVE  CrashOnlyWhenFull'
  <2>1. CASE UNCHANGED vars
    BY <1>2, <2>1 DEF vars, CrashOnlyWhenFull, LiveIds, Live
  <2>2. ASSUME NEW c \in Conns, NEW d \in Dpids, HandleAccept(c, d)
        PROVE  CrashOnlyWhenFull'
    <3>1. CASE AcceptFails
      <4>1. LiveIds = MinId .. MaxId
        <5>1. MinId .. MaxId \subseteq LiveIds
          BY <1>2, <3>1, ExhaustedMeansFull
             DEF AcceptFails, IInv, AllocShape, IdsAccountedFor
        <5>2. LiveIds \subseteq MinId .. MaxId
          BY <1>2 DEF IInv, TypeOK, LiveIds
        <5> QED
          BY <5>1, <5>2
      <4> QED
        BY <3>1, <4>1 DEF AcceptFails, CrashOnlyWhenFull, Live, LiveIds
    <3>2. CASE AcceptSucceeds(c, d)
      BY <2>2, <3>2 DEF HandleAccept, AcceptSucceeds, CrashOnlyWhenFull
    <3> QED
      BY <2>2, <3>1, <3>2 DEF HandleAccept
  <2>3. ASSUME NEW c \in Conns,
               \/ FeaturesReplyArrives(c) \/ ReadFails(c) \/ WriteFails(c)
               \/ HandleFeaturesReply(c) \/ HandleNetworkError(c)
        PROVE  ~crashed'
    BY <2>3 DEF FeaturesReplyArrives, ReadFails, WriteFails, Complete,
                HandleFeaturesReply, HandleNetworkError, Pending
  <2> QED
    BY <1>2, <2>1, <2>2, <2>3 DEF Next, CrashOnlyWhenFull
<1> QED
  BY <1>1, <1>2, InductiveInvariant, PTL DEF Spec

-----------------------------------------------------------------------------
\* The registry implements the abstract pool of ids

\* Where the refinement mapping puts a connection.
LEMMA HeldValue ==
  ASSUME IInv, NEW c \in Conns
  PROVE  /\ Live(c) => HeldIds[c] = id[c] /\ id[c] \in MinId .. MaxId
         /\ ~Live(c) => HeldIds[c] = Pool!NoId
         /\ Live(c) => HeldIds[c] # Pool!NoId
<1>1. id[c] \in MinId .. MaxId
  BY DEF IInv, TypeOK
<1> QED
  BY <1>1, IdRangeAssumption DEF HeldIds, Pool!NoId

\* Until ids are freed twice, new_id gives an id under which no switch is.
LEMMA FreshId ==
  ASSUME IInv, ~stale, ~Exhausted(alloc)
  PROVE  /\ NewId(alloc) \in MinId .. MaxId
         /\ NewId(alloc) \notin LiveIds
         /\ NewId(alloc) \notin DOMAIN physical_switches
<1>1. NewId(alloc) \in MinId .. MaxId /\ NewId(alloc) \notin Allocated(alloc)
  BY NewIdCorrect DEF IInv, InOrder
<1>2. NewId(alloc) \notin LiveIds
  BY <1>1 DEF IInv, IdsAccountedFor
<1> QED
  BY <1>1, <1>2 DEF IInv, MapSound, TypeOK, LiveIds

\* An accepted connection takes an id of the pool that nobody holds.
LEMMA AcceptAllocates ==
  ASSUME IInv, ~stale, NEW c \in Conns, NEW d \in Dpids, HandleAccept(c, d)
  PROVE  Pool!Allocate(c) \/ UNCHANGED HeldIds
<1>1. CASE AcceptFails
  BY <1>1 DEF AcceptFails, HeldIds, Live
<1>2. CASE AcceptSucceeds(c, d)
  <2> DEFINE n == NewId(alloc)
  <2>1. n \in MinId .. MaxId /\ n \notin LiveIds /\ n \notin DOMAIN physical_switches
    BY <1>2, FreshId DEF AcceptSucceeds
  <2> HIDE DEF n
  <2>3. /\ sock' = [sock EXCEPT ![c] = "open"]
        /\ id' = [id EXCEPT ![c] = n]
    BY <1>2, <2>1 DEF AcceptSucceeds, n
  <2>4. ~Live(c)
    BY DEF HandleAccept, IInv, ObjectsLive
  <2>5. HeldIds[c] = Pool!NoId
    BY <2>4, HeldValue
  <2>6. \A w \in Conns : HeldIds[w] # n
    <3> SUFFICES ASSUME NEW w \in Conns PROVE HeldIds[w] # n
      OBVIOUS
    <3>1. CASE Live(w)
      BY <2>1, <3>1, HeldValue DEF LiveIds
    <3>2. CASE ~Live(w)
      BY <2>1, <3>2, HeldValue, IdRangeAssumption DEF Pool!NoId
    <3> QED
      BY <3>1, <3>2
  <2>7. HeldIds' = [HeldIds EXCEPT ![c] = n]
    BY <2>3 DEF HeldIds, Live, IInv, TypeOK
  <2> QED
    BY <2>1, <2>5, <2>6, <2>7 DEF Pool!Allocate
<1> QED
  BY <1>1, <1>2 DEF HandleAccept

\* A failed connection gives its id back to the pool.
LEMMA NetworkErrorReleases ==
  ASSUME IInv, NEW c \in Conns, HandleNetworkError(c), ~stale'
  PROVE  Pool!Release(c)
<1>1. Live(c)
  BY DEF HandleNetworkError, Heard, IInv, TypeOK, Live
<1>2. \A x \in Conns \ {c} : id'[x] = id[x]
  BY DEF HandleNetworkError, Collect, IInv, TypeOK
<1>3. HeldIds' = [HeldIds EXCEPT ![c] = Pool!NoId]
  BY <1>2 DEF HandleNetworkError, HeldIds, Live, IInv, TypeOK, Pool!NoId
<1> QED
  BY <1>1, <1>3, HeldValue DEF Pool!Release

\* Until a handler of a stopped connection runs, every step of the registry is a
\* step of the pool, or leaves the ids that connected switches hold alone.
THEOREM RefinesPool == Spec => ImplementsPool
<1>1. Init => Pool!Init
  BY DEF Init, Pool!Init, HeldIds, Live, Pool!NoId
<1>2. ASSUME IInv, [Next]_vars
      PROVE  [Pool!Next \/ stale']_HeldIds
  <2> SUFFICES ASSUME ~stale' PROVE [Pool!Next]_HeldIds
    OBVIOUS
  <2>1. CASE UNCHANGED vars
    BY <2>1 DEF vars, HeldIds, Live
  <2>2. ASSUME NEW c \in Conns, NEW d \in Dpids, HandleAccept(c, d)
        PROVE  [Pool!Next]_HeldIds
    <3>1. ~stale
      BY <2>2 DEF HandleAccept, AcceptFails, AcceptSucceeds
    <3> QED
      BY <1>2, <2>2, <3>1, AcceptAllocates DEF Pool!Next
  <2>3. ASSUME NEW c \in Conns,
               FeaturesReplyArrives(c) \/ ReadFails(c) \/ WriteFails(c)
        PROVE  UNCHANGED HeldIds
    <3>1. UNCHANGED <<sock, id>>
      BY <2>3 DEF FeaturesReplyArrives, ReadFails, WriteFails, Complete
    <3> QED
      BY <3>1 DEF HeldIds, Live
  <2>4. ASSUME NEW c \in Conns, HandleFeaturesReply(c)
        PROVE  UNCHANGED HeldIds
    <3>1. UNCHANGED sock /\ sock[c] = "open"
      BY <1>2, <2>4 DEF HandleFeaturesReply, Heard, IInv, TypeOK
    <3>2. UNCHANGED id
      BY <2>4, <3>1 DEF HandleFeaturesReply, Collect
    <3> QED
      BY <3>1, <3>2 DEF HeldIds, Live
  <2>5. ASSUME NEW c \in Conns, HandleNetworkError(c)
        PROVE  [Pool!Next]_HeldIds
    BY <1>2, <2>5, NetworkErrorReleases DEF Pool!Next
  <2> QED
    BY <1>2, <2>1, <2>2, <2>3, <2>4, <2>5 DEF Next
<1> QED
  BY <1>1, <1>2, InductiveInvariant, PTL DEF Spec, ImplementsPool

-----------------------------------------------------------------------------
\* The lookup, when the connections of one datapath do not overlap

\* Each datapath has one connection, and a registered one is found until a
\* handler of a stopped connection runs.
FoundWhileRegistered ==
  /\ \A c, o \in Conns : Live(c) /\ Live(o) /\ peer[c] = peer[o] => c = o
  /\ ~stale => \A c \in Conns :
       Live(c) /\ state[c] = "registered" => LookupFinds(peer[c], c)

\* A switch is found from its features reply until its connection fails, if
\* the datapath reconnects only after the old connection was stopped, and as
\* long as no handler of a stopped connection has run.  The run registry_lookup
\* shows that the first condition is needed.
THEOREM LookupIsComplete ==
  ASSUME ~OverlappingConnections
  PROVE  Spec => []LookupComplete
<1>1. Init => FoundWhileRegistered
  BY DEF Init, FoundWhileRegistered, Live
<1>2. ASSUME IInv, FoundWhileRegistered, [Next]_vars
      PROVE  FoundWhileRegistered'
  <2>1. CASE UNCHANGED vars
    BY <1>2, <2>1 DEF vars, FoundWhileRegistered, LookupFinds, Live
  <2>2. ASSUME NEW c \in Conns, NEW d \in Dpids, HandleAccept(c, d)
        PROVE  FoundWhileRegistered'
    <3>1. CASE AcceptFails
      BY <1>2, <3>1 DEF AcceptFails, FoundWhileRegistered, LookupFinds, Live
    <3>2. CASE AcceptSucceeds(c, d) /\ NewId(alloc) \in DOMAIN physical_switches
      BY <1>2, <3>2, FreshId
         DEF AcceptSucceeds, FoundWhileRegistered, LookupFinds, Live
    <3>3. CASE AcceptSucceeds(c, d) /\ NewId(alloc) \notin DOMAIN physical_switches
      <4> DEFINE n == NewId(alloc)
      <4>1. n \notin DOMAIN physical_switches
        BY <3>3
      <4>2. /\ state' = [state EXCEPT ![c] = "unregistered"]
            /\ sock' = [sock EXCEPT ![c] = "open"]
            /\ peer' = [peer EXCEPT ![c] = d]
            /\ physical_switches' = Insert(physical_switches, n, c)
            /\ UNCHANGED <<datapath_id_to_switch_id, stale>>
        BY <3>3 DEF AcceptSucceeds
      <4> HIDE DEF n
      <4>3. \A o \in Conns : Live(o) => peer[o] # d
        BY <2>2 DEF HandleAccept
      <4>4. /\ \A x \in Conns : Live(x)' <=> Live(x) \/ x = c
            /\ peer'[c] = d /\ state'[c] = "unregistered"
            /\ \A x \in Conns \ {c} : peer'[x] = peer[x] /\ state'[x] = state[x]
        BY <1>2, <4>2 DEF IInv, TypeOK, Live
      <4>5. ASSUME NEW x \in Conns, NEW e, LookupFinds(e, x)
            PROVE  LookupFinds(e, x)'
        BY <4>1, <4>2, <4>5 DEF LookupFinds, Insert
      <4> QED
        BY <1>2, <4>2, <4>3, <4>4, <4>5 DEF FoundWhileRegistered
    <3> QED
      BY <2>2, <3>1, <3>2, <3>3 DEF HandleAccept
  <2>3. ASSUME NEW c \in Conns,
               FeaturesReplyArrives(c) \/ ReadFails(c) \/ WriteFails(c)
        PROVE  FoundWhileRegistered'
    <3>1. UNCHANGED <<state, sock, peer, physical_switches,
                      datapath_id_to_switch_id, stale>>
      BY <2>3 DEF FeaturesReplyArrives, ReadFails, WriteFails, Complete
    <3> QED
      BY <1>2, <3>1 DEF FoundWhileRegistered, LookupFinds, Live
  <2>4. ASSUME NEW c \in Conns, HandleFeaturesReply(c)
        PROVE  FoundWhileRegistered'
    <3>1. /\ UNCHANGED <<sock, physical_switches>>
          /\ datapath_id_to_switch_id' =
               Insert(datapath_id_to_switch_id, peer[c], id[c])
          /\ stale' = (stale \/ sock[c] = "closed")
      BY <2>4 DEF HandleFeaturesReply, Heard
    <3>2. /\ \A x \in Conns \ {c} : peer'[x] = peer[x] /\ state'[x] = state[x]
          /\ Live(c) => peer'[c] = peer[c] /\ state'[c] = "registered"
      BY <1>2, <2>4, <3>1 DEF HandleFeaturesReply, Collect, Live, IInv, TypeOK
    <3>3. \A x \in Conns : Live(x)' <=> Live(x)
      BY <3>1 DEF Live
    <3>4. \A x, o \in Conns : Live(x)' /\ Live(o)' /\ peer'[x] = peer'[o] => x = o
      BY <1>2, <3>2, <3>3 DEF FoundWhileRegistered
    <3>5. ASSUME ~stale', NEW x \in Conns, Live(x)', state'[x] = "registered"
          PROVE  LookupFinds(peer[x], x)'
      <4>1. Live(c) /\ ~stale
        BY <1>2, <3>1, <3>5 DEF IInv, TypeOK, Live
      <4>2. CASE x = c
        BY <1>2, <3>1, <3>2, <4>1, <4>2
           DEF LookupFinds, Insert, IInv, InOrder, UniqueIds
      <4>3. CASE x # c
        <5>1. peer[x] # peer[c] /\ LookupFinds(peer[x], x)
          BY <1>2, <3>2, <3>3, <3>5, <4>1, <4>3 DEF FoundWhileRegistered
        <5> QED
          BY <3>1, <3>2, <4>3, <5>1 DEF LookupFinds, Insert
      <4> QED
        BY <4>2, <4>3
    <3> QED
      BY <3>4, <3>5 DEF FoundWhileRegistered
  <2>5. ASSUME NEW c \in Conns, HandleNetworkError(c)
        PROVE  FoundWhileRegistered'
    <3>1. /\ sock' = [sock EXCEPT ![c] = "closed"]
          /\ physical_switches' = Erase(physical_switches, id[c])
          /\ datapath_id_to_switch_id' =
               IF state[c] = "unregistered" THEN datapath_id_to_switch_id
               ELSE Erase(datapath_id_to_switch_id, peer[c])
          /\ stale' = (stale \/ sock[c] = "closed")
      BY <2>5 DEF HandleNetworkError, Unregister, Heard
    <3>2. \A x \in Conns \ {c} : peer'[x] = peer[x] /\ state'[x] = state[x]
      BY <1>2, <2>5 DEF HandleNetworkError, Collect, IInv, TypeOK
    <3>3. \A x \in Conns : Live(x)' <=> Live(x) /\ x # c
      BY <1>2, <3>1 DEF IInv, TypeOK, Live
    <3>4. \A x, o \in Conns : Live(x)' /\ Live(o)' /\ peer'[x] = peer'[o] => x = o
      BY <1>2, <3>2, <3>3 DEF FoundWhileRegistered
    <3>5. ASSUME ~stale', NEW x \in Conns, Live(x)', state'[x] = "registered"
          PROVE  LookupFinds(peer[x], x)'
      <4>1. Live(c) /\ ~stale /\ x # c /\ Live(x)
        BY <1>2, <3>1, <3>3, <3>5 DEF IInv, TypeOK, Live
      <4>2. peer[x] # peer[c] /\ LookupFinds(peer[x], x)
        BY <1>2, <3>2, <3>3, <3>5, <4>1 DEF FoundWhileRegistered
      <4>3. datapath_id_to_switch_id[peer[x]] # id[c]
        BY <1>2, <4>1, <4>2 DEF LookupFinds, IInv, InOrder, UniqueIds
      <4> QED
        BY <3>1, <3>2, <4>1, <4>2, <4>3 DEF LookupFinds, Erase
    <3> QED
      BY <3>4, <3>5 DEF FoundWhileRegistered
  <2> QED
    BY <1>2, <2>1, <2>2, <2>3, <2>4, <2>5 DEF Next
<1>3. FoundWhileRegistered => LookupComplete
  BY DEF FoundWhileRegistered, LookupComplete
<1> QED
  BY <1>1, <1>2, <1>3, InductiveInvariant, PTL DEF Spec

-----------------------------------------------------------------------------
\* The lookup, when they do overlap

\* While a registered connection is open, the lookup of its datapath loses it
\* only to a handler of another connection of that datapath, or of one that
\* shares its id because a handler of a stopped connection ran: a switch cannot
\* disappear because some unrelated one registers, fails or is accepted.
THEOREM LookupLost == Spec => LookupLostOnlyToSharer
<1>1. ASSUME IInv, [Next]_vars,
             NEW c \in Conns, Live(c), LookupFinds(peer[c], c), Live(c)'
      PROVE  LookupFinds(peer[c], c)' \/ \E o \in Conns \ {c} : HiddenBy(o, c)
  <2>a. /\ peer[c] \in DOMAIN datapath_id_to_switch_id
        /\ datapath_id_to_switch_id[peer[c]] = id[c]
        /\ id[c] \in DOMAIN physical_switches /\ physical_switches[id[c]] = c
    BY <1>1 DEF LookupFinds, IInv, MapSound
  <2>1. CASE UNCHANGED vars
    BY <1>1, <2>1 DEF vars, LookupFinds
  <2>2. ASSUME NEW o \in Conns, NEW d \in Dpids, HandleAccept(o, d)
        PROVE  LookupFinds(peer[c], c)'
    <3>1. CASE AcceptFails
      BY <1>1, <3>1 DEF AcceptFails, LookupFinds
    <3>2. CASE AcceptSucceeds(o, d) /\ NewId(alloc) \in DOMAIN physical_switches
      BY <1>1, <3>2 DEF AcceptSucceeds, LookupFinds
    <3>3. CASE AcceptSucceeds(o, d) /\ NewId(alloc) \notin DOMAIN physical_switches
      <4> DEFINE n == NewId(alloc)
      <4>1. n \notin DOMAIN physical_switches
        BY <3>3
      <4>2. o # c
        BY <1>1, <2>2 DEF HandleAccept, IInv, ObjectsLive
      <4>3. /\ peer' = [peer EXCEPT ![o] = d]
            /\ physical_switches' = Insert(physical_switches, n, o)
            /\ UNCHANGED datapath_id_to_switch_id
        BY <3>3 DEF AcceptSucceeds
      <4> HIDE DEF n
      <4>4. peer'[c] = peer[c]
        BY <1>1, <4>2, <4>3 DEF IInv, TypeOK
      <4> QED
        BY <1>1, <4>1, <4>3, <4>4 DEF LookupFinds, Insert
    <3> QED
      BY <2>2, <3>1, <3>2, <3>3 DEF HandleAccept
  <2>3. ASSUME NEW o \in Conns,
               FeaturesReplyArrives(o) \/ ReadFails(o) \/ WriteFails(o)
        PROVE  LookupFinds(peer[c], c)'
    BY <1>1, <2>3
       DEF FeaturesReplyArrives, ReadFails, WriteFails, Complete, LookupFinds
  <2>4. ASSUME NEW o \in Conns, HandleFeaturesReply(o)
        PROVE  LookupFinds(peer[c], c)' \/ \E x \in Conns \ {c} : HiddenBy(x, c)
    <3>1. /\ UNCHANGED <<sock, physical_switches>>
          /\ datapath_id_to_switch_id' =
               Insert(datapath_id_to_switch_id, peer[o], id[o])
          /\ ready[o] # << >> /\ ready' = [ready EXCEPT ![o] = Tail(@)]
      BY <2>4 DEF HandleFeaturesReply, Pending
    <3>2. peer'[c] = peer[c]
      BY <1>1, <2>4, <3>1 DEF HandleFeaturesReply, Collect, Live, IInv, TypeOK
    <3>3. CASE o = c \/ peer[o] # peer[c]
      BY <2>a, <3>1, <3>2, <3>3 DEF LookupFinds, Insert
    <3>4. CASE o # c /\ peer[o] = peer[c]
      BY <1>1, <3>1, <3>4, QueueShortened DEF HiddenBy, IInv
    <3> QED
      BY <3>3, <3>4
  <2>5. ASSUME NEW o \in Conns, HandleNetworkError(o)
        PROVE  LookupFinds(peer[c], c)' \/ \E x \in Conns \ {c} : HiddenBy(x, c)
    <3>1. /\ sock' = [sock EXCEPT ![o] = "closed"]
          /\ ready' = [ready EXCEPT ![o] = Tail(@)]
          /\ physical_switches' = Erase(physical_switches, id[o])
          /\ datapath_id_to_switch_id' =
               IF state[o] = "unregistered" THEN datapath_id_to_switch_id
               ELSE Erase(datapath_id_to_switch_id, peer[o])
          /\ stale' = (stale \/ sock[o] = "closed")
          /\ ready[o] # << >>
      BY <2>5 DEF HandleNetworkError, Unregister, Heard, Pending
    <3>2. o # c
      BY <1>1, <3>1 DEF IInv, TypeOK, Live
    <3>3. peer'[c] = peer[c]
      BY <1>1, <2>5, <3>2 DEF HandleNetworkError, Collect, IInv, TypeOK
    <3>4. ready'[o] # ready[o]
      BY <1>1, <3>1, QueueShortened DEF IInv
    <3>5. CASE peer[o] = peer[c]
      BY <3>2, <3>4, <3>5 DEF HiddenBy
    <3>6. CASE peer[o] # peer[c] /\ id[o] # id[c]
      BY <2>a, <3>1, <3>3, <3>6 DEF LookupFinds, Erase
    <3>7. CASE id[o] = id[c]
      <4>1. stale'
        <5> SUFFICES ASSUME ~stale' PROVE FALSE
          BY <1>1, <3>1 DEF IInv, TypeOK
        <5>1. ~stale /\ Live(o)
          BY <1>1, <3>1 DEF IInv, TypeOK, Live
        <5>2. physical_switches[id[o]] = o
          BY <1>1, <5>1 DEF IInv, InOrder, UniqueIds
        <5> QED
          BY <2>a, <3>2, <3>7, <5>2
      <4> QED
        BY <3>2, <3>4, <3>7, <4>1 DEF HiddenBy
    <3> QED
      BY <3>5, <3>6, <3>7
  <2> QED
    BY <1>1, <2>1, <2>2, <2>3, <2>4, <2>5 DEF Next
<1>2. IInv /\ [Next]_vars =>
        [\A c \in Conns :
           /\ Live(c) /\ state[c] = "registered" /\ LookupFinds(peer[c], c)
           /\ Live(c)'
           => LookupFinds(peer[c], c)' \/ \E o \in Conns \ {c} : HiddenBy(o, c)]_vars
  BY <1>1
<1> QED
  BY <1>2, InductiveInvariant, PTL DEF Spec, LookupLostOnlyToSharer
=============================================================================
