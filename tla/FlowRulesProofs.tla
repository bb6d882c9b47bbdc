-------------------------- MODULE FlowRulesProofs --------------------------
(***************************************************************************)
(* What the hypervisor remembers of a physical switch and what is in the   *)
(* switch never drift apart as far as incoming packets are concerned, and  *)
(* no route is looked up that is not there.                                *)
(*                                                                         *)
(* The argument follows one update_dynamic_rules: the record s of a switch *)
(* that a handler passes to it is Typed, and every port whose state would  *)
(* stay the same has its rule already (Prepared), because a handler only   *)
(* adds virtual switches to those with interest or only removes some, so   *)
(* that a port with one user before and after has the same user.  The      *)
(* update then makes every port InStep.                                    *)
(***************************************************************************)
EXTENDS FlowRules, FiniteSetTheorems, TLAPS

-----------------------------------------------------------------------------
(***************************************************************************)
(* The fields of a VLAN tag are independent: every tag is made of one      *)
(* value for each field, and what one field is set to is read back from it *)
(* and from no other.                                                      *)
(***************************************************************************)
Made(a, b, c) == a + 128 * b + 2048 * c

\* The tag t has the values a, b and c in its fields
Reads(t, a, b, c) ==
  /\ t \in Tags
  /\ GetValue(t, SwitchField) = a
  /\ GetValue(t, PortField) = b
  /\ GetValue(t, SliceField) = c

\* The tags are the numbers of 15 bits.
LEMMA TagRange == \A n : n \in Tags <=> n \in Int /\ 0 <= n /\ n <= 32767
<1>1. max_tag = 32767
  BY DEF max_tag
<1>2. max_tag \in Int
  BY <1>1
<1>3. \A n : n \in Tags <=> n \in Int /\ 0 <= n /\ n <= max_tag
  BY <1>2, SMTT(30) DEF Tags
<1> QED
  BY <1>1, <1>3

\* Every tag is put together from a value of each field.
LEMMA MadeOfFields ==
  ASSUME NEW t \in Tags
  PROVE  \E a \in 0..127, b \in 0..15, c \in 0..15 : t = Made(a, b, c)
<1>1. t \in Int /\ 0 <= t /\ t <= 32767
  BY TagRange
<1>2. PICK a \in 0..127, q \in Int : t = 128 * q + a
  <2>1. t % 128 \in 0..127 /\ t \div 128 \in Int
    BY <1>1, SMT
  <2>2. t = 128 * (t \div 128) + (t % 128)
    BY <1>1, SMT
  <2> QED
    BY <2>1, <2>2
<1>3. 0 <= q /\ q <= 255
  BY <1>1, <1>2, SMT
<1>4. PICK b \in 0..15, c \in Int : q = 16 * c + b
  <2>1. q % 16 \in 0..15 /\ q \div 16 \in Int
    BY <1>2, SMT
  <2>2. q = 16 * (q \div 16) + (q % 16)
    BY <1>2, SMT
  <2> QED
    BY <2>1, <2>2
<1>5. c \in 0..15
  BY <1>3, <1>4, SMT
<1>6. t = Made(a, b, c)
  BY <1>2, <1>4, <1>5, SMT DEF Made
<1> QED
  BY <1>5, <1>6

\* What a tag was put together from is read back from it.
LEMMA ReadBack ==
  \A a \in 0..127, b \in 0..15, c \in 0..15 : Reads(Made(a, b, c), a, b, c)
<1> SUFFICES ASSUME NEW a \in 0..127, NEW b \in 0..15, NEW c \in 0..15
             PROVE  Reads(Made(a, b, c), a, b, c)
  BY Zenon
<1>1. Made(a, b, c) \in Tags
  <2> DEFINE n == a + 128 * b + 2048 * c
  <2>1. /\ a \in Int /\ 0 <= a /\ a <= 127
        /\ b \in Int /\ 0 <= b /\ b <= 15
        /\ c \in Int /\ 0 <= c /\ c <= 15
    OBVIOUS
  <2>2. n \in Int /\ 0 <= n /\ n <= 32767
    BY <2>1, SMTT(30)
  <2>3. Made(a, b, c) = n
    BY SMT DEF Made
  <2> HIDE DEF n
  <2>4. n \in Tags
    BY <2>2, TagRange
  <2> QED
    BY <2>3, <2>4
<1>2. GetValue(Made(a, b, c), SwitchField) = a
  BY SMT DEF Made, GetValue, SwitchField
<1>3. GetValue(Made(a, b, c), PortField) = b
  BY SMT DEF Made, GetValue, PortField
<1>4. GetValue(Made(a, b, c), SliceField) = c
  BY SMT DEF Made, GetValue, SliceField
<1> QED
  BY <1>1, <1>2, <1>3, <1>4 DEF Reads

(***************************************************************************)
(* set_value of one field, cut to the size of the field, is what get_value *)
(* of that field returns afterwards, and the two other fields keep their   *)
(* values: a switch, port or slice id never reaches into another one.      *)
(***************************************************************************)
THEOREM FieldsIndependent ==
  ASSUME NEW t \in Tags, NEW v \in Nat, NEW f \in Fields
  PROVE  /\ SetValue(t, f, v) \in Tags
         /\ GetValue(SetValue(t, f, v), f) = v % f.size
         /\ \A g \in Fields \ {f} :
              GetValue(SetValue(t, f, v), g) = GetValue(t, g)
<1>1. PICK a \in 0..127, b \in 0..15, c \in 0..15 : t = Made(a, b, c)
  BY MadeOfFields
<1>2. Reads(t, a, b, c)
  BY <1>1, ReadBack, Zenon
<1>3. v % 128 \in 0..127 /\ v % 16 \in 0..15
  BY SMT
<1>4. CASE f = SwitchField
  <2>1. f.size = 128 /\ f.unit = 1
    BY <1>4 DEF SwitchField
  <2>2. SetValue(t, f, v) = t + ((v % 128) - a) * 1
    BY <1>2, <1>4, <2>1 DEF SetValue, Reads
  <2>3. SetValue(t, f, v) = Made(v % 128, b, c)
    BY <1>1, <1>3, <2>2, SMT DEF Made
  <2>4. Reads(Made(v % 128, b, c), v % 128, b, c)
    BY <1>3, ReadBack, Zenon
  <2>5. /\ SetValue(t, f, v) \in Tags
        /\ GetValue(SetValue(t, f, v), f) = v % f.size
    BY <1>4, <2>1, <2>3, <2>4, Zenon DEF Reads
  <2>6. ASSUME NEW g \in Fields \ {f}
        PROVE  GetValue(SetValue(t, f, v), g) = GetValue(t, g)
    BY <1>2, <1>4, <2>3, <2>4, Zenon DEF Fields, Reads
  <2> QED
    BY <2>5, <2>6
<1>5. CASE f = PortField
  <2>1. f.size = 16 /\ f.unit = 128
    BY <1>5 DEF PortField
  <2>2. SetValue(t, f, v) = t + ((v % 16) - b) * 128
    BY <1>2, <1>5, <2>1 DEF SetValue, Reads
  <2>3. SetValue(t, f, v) = Made(a, v % 16, c)
    BY <1>1, <1>3, <2>2, SMT DEF Made
  <2>4. Reads(Made(a, v % 16, c), a, v % 16, c)
    BY <1>3, ReadBack, Zenon
  <2>5. /\ SetValue(t, f, v) \in Tags
        /\ GetValue(SetValue(t, f, v), f) = v % f.size
    BY <1>5, <2>1, <2>3, <2>4, Zenon DEF Reads
  <2>6. ASSUME NEW g \in Fields \ {f}
        PROVE  GetValue(SetValue(t, f, v), g) = GetValue(t, g)
    BY <1>2, <1>5, <2>3, <2>4, Zenon DEF Fields, Reads
  <2> QED
    BY <2>5, <2>6
<1>6. CASE f = SliceField
  <2>1. f.size = 16
    BY <1>6 DEF SliceField
  <2>2. SetValue(t, f, v) = t + ((v % 16) - c) * 2048
    <3>1. f.unit = 2048
      BY <1>6 DEF SliceField
    <3> QED
      BY <1>2, <1>6, <2>1, <3>1 DEF SetValue, Reads
  <2>3. SetValue(t, f, v) = Made(a, b, v % 16)
    BY <1>1, <1>3, <2>2, SMT DEF Made
  <2>4. Reads(Made(a, b, v % 16), a, b, v % 16)
    BY <1>3, ReadBack, Zenon
  <2>5. /\ SetValue(t, f, v) \in Tags
        /\ GetValue(SetValue(t, f, v), f) = v % f.size
    BY <1>6, <2>1, <2>3, <2>4, ZenonT(60) DEF Reads
  <2>6. ASSUME NEW g \in Fields \ {f}
        PROVE  GetValue(SetValue(t, f, v), g) = GetValue(t, g)
    BY <1>2, <1>6, <2>3, <2>4, Zenon DEF Fields, Reads
  <2> QED
    BY <2>5, <2>6
<1> QED
  BY <1>4, <1>5, <1>6 DEF Fields

\* The two parts of a tag that the header keeps apart
Id12 == 0..4095
Whole(h, l) == 4096 * h + l

\* The header made of a tag with the lower bits l and the upper bits h.
LEMMA RawParts ==
  ASSUME NEW l \in Id12, NEW h \in 0..7, NEW t \in Tags, t = Whole(h, l)
  PROVE  ParseFromRaw(MakeRaw(t)) = t
<1>1. t % 4096 = l /\ t \div 4096 = h
  BY SMT DEF Id12, Whole
<1>2. MakeRaw(t) = 8192 * h + 4096 + l
  BY <1>1, SMT DEF MakeRaw, Id12
<1>3. MakeRaw(t) % 4096 = l /\ MakeRaw(t) \div 8192 = h
  BY <1>2, SMT DEF Id12
<1> QED
  BY <1>3, SMT DEF ParseFromRaw, Id12, Whole

(***************************************************************************)
(* A tag that make_raw has put into a VLAN header is what the constructor  *)
(* of VLANTag reads from that header: nothing is lost in the bit between   *)
(* the id and the priority.                                                *)
(***************************************************************************)
THEOREM RawRoundTrip ==
  ASSUME NEW t \in Tags
  PROVE  ParseFromRaw(MakeRaw(t)) = t
<1>1. t \in Int /\ 0 <= t /\ t <= 32767
  BY TagRange
<1>2. PICK l, h : l = t % 4096 /\ h = t \div 4096
  OBVIOUS
<1>3. l \in Id12 /\ h \in 0..7 /\ t = Whole(h, l)
  BY <1>1, <1>2, SMT DEF Id12, Whole
<1> QED
  BY <1>3, RawParts, Zenon

(***************************************************************************)
(* A full tag is what its switch, port and slice were: two ends of one     *)
(* slice never share a tag, as long as their ids fit the fields.           *)
(***************************************************************************)
THEOREM FullTagIsUnique ==
  ASSUME NEW d \in 0..127, NEW p \in 0..15, NEW s \in 0..15
  PROVE  /\ FullTag(d, p, s) \in Tags
         /\ GetValue(FullTag(d, p, s), SwitchField) = d
         /\ GetValue(FullTag(d, p, s), PortField) = p
         /\ GetValue(FullTag(d, p, s), SliceField) = s
<1> DEFINE t1 == SetValue(0, SwitchField, d)
           t2 == SetValue(t1, PortField, p)
<1>1. /\ SwitchField \in Fields /\ SwitchField.size = 128
      /\ PortField \in Fields /\ PortField.size = 16
      /\ SliceField \in Fields /\ SliceField.size = 16
      /\ SwitchField \in Fields \ {PortField, SliceField}
      /\ PortField \in Fields \ {SliceField}
  BY DEF Fields, SwitchField, PortField, SliceField
<1>2. d % 128 = d /\ p % 16 = p /\ s % 16 = s /\ d \in Nat /\ p \in Nat
      /\ s \in Nat
  BY SMT
<1>3. t1 \in Tags /\ GetValue(t1, SwitchField) = d
  <2>1. 0 \in Tags
    BY TagRange
  <2> QED
    BY <1>1, <1>2, <2>1, FieldsIndependent
<1>4. /\ t2 \in Tags /\ GetValue(t2, PortField) = p
      /\ GetValue(t2, SwitchField) = d
  BY <1>1, <1>2, <1>3, FieldsIndependent
<1>5. /\ SetValue(t2, SliceField, s) \in Tags
      /\ GetValue(SetValue(t2, SliceField, s), SliceField) = s
      /\ GetValue(SetValue(t2, SliceField, s), PortField) = p
      /\ GetValue(SetValue(t2, SliceField, s), SwitchField) = d
  BY <1>1, <1>2, <1>4, FieldsIndependent
<1> QED
  BY <1>5 DEF FullTag

-----------------------------------------------------------------------------
(***************************************************************************)
(* The switches and what the hypervisor remembers of them                  *)
(***************************************************************************)

Users(d, s, p) == {v \in s.interest : p \in PortsAt(v, d)}

Record(s) ==
  s = [ports |-> s.ports, interest |-> s.interest, installed |-> s.installed,
       out |-> s.out, ids |-> s.ids, table0 |-> s.table0, table1 |-> s.table1,
       groups |-> s.groups]

\* The rules of table 1 that hand packets to v are those of its shared links
TenantRule(d, k, r) ==
  \E v \in VSwitches : \E p \in PortsAt(v, d) :
    k = SharedKey(p, Slice[v]) /\ r = Tenant(v)

TypedTables(d, s) ==
  /\ DOMAIN s.table0 \subseteq Ports[d] \cup {FromController}
  /\ \A p \in DOMAIN s.table0 :
       s.table0[p] \in {Drop, Goto1} \cup {Tenant(v) : v \in VSwitches}
  /\ DOMAIN s.table1 \subseteq Keys
  /\ \A k \in DOMAIN s.table1 :
       s.table1[k].kind = "out" \/ TenantRule(d, k, s.table1[k])
  /\ \A i \in s.installed :
       /\ SharedKey(i[1], Slice[i[2]]) \in DOMAIN s.table1
       /\ s.table1[SharedKey(i[1], Slice[i[2]])] = Tenant(i[2])

TypedGroups(s) ==
  /\ DOMAIN s.out = {k \in OutKeys : k[1] \in s.interest}
  /\ \A k \in DOMAIN s.out :
       s.out[k].id \in 1 .. s.ids /\ s.out[k].state \in GroupStates
  /\ s.ids \in 0 .. MaxGroups
  /\ DOMAIN s.groups \subseteq 1 .. MaxGroups

TypedPorts(d, s) ==
  /\ DOMAIN s.ports \subseteq Ports[d]
  /\ \A p \in DOMAIN s.ports : s.ports[p] \in PortStates
  /\ s.interest \subseteq {v \in VSwitches : d \in Deps(v)}
  /\ s.installed \subseteq {i \in Ports[d] \X s.interest : i[1] \in PortsAt(i[2], d)}

Typed(d, s) ==
  Record(s) /\ TypedPorts(d, s) /\ TypedTables(d, s) /\ TypedGroups(s)

\* The rule of port p is the one of its state
HasRule(d, s, p) ==
  p \in DOMAIN s.table0 /\ s.table0[p] = Instruction(d, s, s.ports[p], p)

\* What update_dynamic_rules needs: it leaves a port alone whose state stays
Prepared(d, s, lk) ==
  \A p \in DOMAIN s.ports : s.ports[p] # "no_rule" =>
    /\ p \in DOMAIN s.table0
    /\ s.ports[p] = PortState(d, s, lk, p) => HasRule(d, s, p)

PortsInStep(d, s, lk) ==
  \A p \in DOMAIN s.ports : s.ports[p] = PortState(d, s, lk, p) /\ HasRule(d, s, p)

LinksInStep(d, s) ==
  \A p \in DOMAIN s.ports : s.ports[p] = "link_rule" =>
    \A v \in s.interest : p \in PortsAt(v, d) => <<p, v>> \in s.installed

\* What update_dynamic_rules leaves
InStep(d, s, lk) == PortsInStep(d, s, lk) /\ LinksInStep(d, s)

Unused(s) == s.ports = Nothing /\ s.interest = {} /\ s.installed = {}

\* Every record is in order, with the switches on online and the links lk
RecordsOK(on, lk, s) ==
  /\ s = [d \in Switches |-> s[d]]
  /\ \A d \in Switches : Typed(d, s[d])
  /\ \A d \in on : InStep(d, s[d], lk)
  /\ \A d \in Switches \ on : Unused(s[d])

\* The routes are those over the links
Routed ==
  /\ DOMAIN next = online
  /\ \A d \in online : /\ DOMAIN next[d] = Reach(links, d) \ {d}
                       /\ \A e \in DOMAIN next[d] : next[d][e] \in Ports[d]

\* A link is between ports of switches that are there
LinksOver(on, lk, s) ==
  /\ on \subseteq Switches /\ lk \subseteq Cables
  /\ \A c \in lk : \A e \in c : e[1] \in on /\ e[2] \in DOMAIN s[e[1]].ports

\* What is under way: at most one of the two handlers that take several steps
Pending ==
  /\ stopping \subseteq online /\ erasing \subseteq Flaky
  /\ stopping = {} \/ erasing = {}
  /\ \A e \in erasing : e[1] \in online /\ (fault = "none" => ~Linked(links, e[1], e[2]))

Tenants ==
  /\ vstate \in [VSwitches -> {"down", "trying", "connected"}]
  /\ \A v \in VSwitches :
       /\ vstate[v] # "down" => Ready(v, online, links)
       /\ vstate[v] = "connected" => \A d \in Deps(v) : v \in sw[d].interest

Settled ==
  /\ RecordsOK(online, links, sw) /\ LinksOver(online, links, sw)
  /\ Routed /\ Tenants
  /\ fault \in {"none", "remove_interest"}

IInv == Settled /\ Pending

-----------------------------------------------------------------------------
\* Helpers

\* What f ++ g is.
LEMMA MergeFacts ==
  ASSUME NEW f, NEW g
  PROVE  /\ DOMAIN (f ++ g) = DOMAIN f \cup DOMAIN g
         /\ \A x \in DOMAIN f : (f ++ g)[x] = f[x]
         /\ \A x \in DOMAIN g \ DOMAIN f : (f ++ g)[x] = g[x]
BY DEF ++

LEMMA NothingIsEmpty == DOMAIN Nothing = {}
BY DEF Nothing

\* A set with one member and a smaller or larger one with one member.
LEMMA SameSingle ==
  ASSUME NEW A, NEW B, IsFiniteSet(A), IsFiniteSet(B),
         A \subseteq B \/ B \subseteq A,
         Cardinality(A) = 1, Cardinality(B) = 1
  PROVE  A = B /\ \E x : A = {x}
<1>1. PICK x : A = {x}
  BY FS_Singleton
<1>2. PICK y : B = {y}
  BY FS_Singleton
<1> QED
  BY <1>1, <1>2

LEMMA UsersFinite ==
  ASSUME NEW d, NEW s, NEW p, s.interest \subseteq VSwitches
  PROVE  IsFiniteSet(Users(d, s, p))
<1>1. Users(d, s, p) \in SUBSET VSwitches
  BY DEF Users
<1> QED
  BY <1>1, FS_Subset, FlowRulesAssumption

\* The only user of a port is the one that its rule names.
LEMMA TheUser ==
  ASSUME NEW d, NEW s, NEW p, NEW v, Users(d, s, p) = {v}
  PROVE  (CHOOSE w \in s.interest : p \in PortsAt(w, d)) = v
<1>1. \A w : w \in s.interest /\ p \in PortsAt(w, d) <=> w = v
  BY DEF Users
<1>2. PICK u : u = CHOOSE w \in s.interest : p \in PortsAt(w, d)
  OBVIOUS
<1>3. u \in s.interest /\ p \in PortsAt(u, d)
  BY <1>1, <1>2
<1> QED
  BY <1>1, <1>2, <1>3

\* The slice of a shared tag is read back from it.
LEMMA SliceOfSharedTag ==
  ASSUME NEW s \in Slices
  PROVE  /\ SharedTags[s] \in Tags
         /\ GetValue(SharedTags[s], SliceField) = s
         /\ s \in 1 .. 14
<1> DEFINE t == SetValue(SetValue(0, SwitchField, max_switch_id), PortField, max_port_id)
<1>1. s \in 1 .. 14
  BY TagAssumption, SMT DEF Slices, max_slice_id, SliceField
<1>2. SharedTags[s] = SetValue(t, SliceField, s)
  BY SMT DEF SharedTags, SharedTag, FullTag
<1>3. t \in Tags
  <2>1. 0 \in Tags /\ max_switch_id \in Nat /\ max_port_id \in Nat
    BY TagRange, SMT DEF max_switch_id, max_port_id, SwitchField, PortField
  <2>2. SwitchField \in Fields /\ PortField \in Fields
    BY DEF Fields
  <2> QED
    BY <2>1, <2>2, FieldsIndependent
<1> HIDE DEF t
<1>4. SliceField \in Fields /\ SliceField.size = 16 /\ s \in Nat /\ s % 16 = s
  BY <1>1, SMT DEF Fields, SliceField
<1>5. SetValue(t, SliceField, s) \in Tags /\ GetValue(SetValue(t, SliceField, s), SliceField) = s
  BY <1>3, <1>4, FieldsIndependent
<1> QED
  BY <1>1, <1>2, <1>5

\* Rules of different priority differ, and so do those of different ends.
LEMMA KeysDiffer ==
  /\ \A p, q, a, b : Key(30, p, a, Fields) = Key(30, q, b, Fields) => p = q /\ a = b
  /\ \A p, s, d : SharedKey(p, s) # RouteKey(d)
  /\ \A p, s, d, q, t : SharedKey(p, s) # PortKey(d, q, t)
<1>1. \A i, j, p, q, a, b, f, g : Key(i, p, a, f) = Key(j, q, b, g) => i = j /\ p = q /\ a = b
  BY DEF Key
<1>2. 30 # 20 /\ 30 # 10
  OBVIOUS
<1>3. \A p, s, d, q, t : SharedKey(p, s) # PortKey(d, q, t)
  BY <1>1, <1>2 DEF SharedKey, PortKey
<1> QED
  BY <1>1, <1>2, <1>3 DEF SharedKey, RouteKey

LEMMA SharedKeyUnique ==
  ASSUME NEW p, NEW q, NEW s \in Slices, NEW t \in Slices,
         SharedKey(p, s) = SharedKey(q, t)
  PROVE  p = q /\ s = t
<1>1. SharedTags[s] = SharedTags[t] /\ p = q
  BY KeysDiffer DEF SharedKey
<1> QED
  BY <1>1, SliceOfSharedTag

\* One virtual switch has a rule for a tag on a port.
LEMMA OneTenant ==
  ASSUME NEW d, NEW v \in VSwitches, NEW w \in VSwitches,
         NEW p \in PortsAt(v, d), NEW q \in PortsAt(w, d),
         SharedKey(p, Slice[v]) = SharedKey(q, Slice[w])
  PROVE  v = w /\ p = q
<1>1. Slice[v] \in Slices /\ Slice[w] \in Slices
  BY DEF Slices
<1>2. p = q /\ Slice[v] = Slice[w]
  BY <1>1, SharedKeyUnique
<1>3. d \in Deps(v) \cap Deps(w)
  BY DEF PortsAt, Deps
<1> QED
  BY <1>2, <1>3, FlowRulesAssumption

LEMMA KeysAreKeys ==
  /\ \A d \in Switches : \A p \in Ports[d] : \A s \in Slices :
       SharedKey(p, s) \in Keys /\ PortKey(d, p, s) \in Keys
  /\ \A d \in Switches : RouteKey(d) \in Keys
<1>1. ASSUME NEW d \in Switches, NEW p \in Ports[d], NEW s \in Slices
      PROVE  SharedKey(p, s) \in Keys /\ PortKey(d, p, s) \in Keys
  <2>1. p \in PortNumbers
    BY DEF PortNumbers
  <2>2. <<d, p>> \in Ends
    BY DEF Ends
  <2> QED
    BY <2>1, <2>2 DEF Keys
<1> QED
  BY <1>1 DEF Keys

-----------------------------------------------------------------------------
\* One update of the rules, part by part

\* What is decided about a port depends on the interest only.
LEMMA SameInterest ==
  ASSUME NEW d, NEW s, NEW t, t.interest = s.interest, NEW p
  PROVE  /\ \A lk : PortState(d, t, lk, p) = PortState(d, s, lk, p)
         /\ \A state : Instruction(d, t, state, p) = Instruction(d, s, state, p)
         /\ Users(d, t, p) = Users(d, s, p)
BY DEF PortState, Instruction, Users

LEMMA PortStateType ==
  ASSUME NEW d, NEW s, NEW lk, NEW p
  PROVE  PortState(d, s, lk, p) \in PortStates \ {"no_rule"}
BY DEF PortState, PortStates

\* What each state of a port means.
LEMMA PortStateMeaning ==
  ASSUME NEW d, NEW s, NEW lk, NEW p, s.interest \subseteq VSwitches
  PROVE  /\ PortState(d, s, lk, p) = "link_rule" <=> Linked(lk, d, p)
         /\ PortState(d, s, lk, p) = "host_rule" <=>
              ~Linked(lk, d, p) /\ Cardinality(Users(d, s, p)) = 1
         /\ \A v : PortState(d, s, lk, p) = "host_rule" /\ Users(d, s, p) = {v}
              => Instruction(d, s, "host_rule", p) = Tenant(v)
         /\ Instruction(d, s, "link_rule", p) = Goto1
         /\ Instruction(d, s, "drop_rule", p) = Drop
<1>1. /\ PortState(d, s, lk, p) = "link_rule" <=> Linked(lk, d, p)
      /\ PortState(d, s, lk, p) = "host_rule" <=>
           ~Linked(lk, d, p) /\ Cardinality(Users(d, s, p)) = 1
  BY DEF PortState, Users
<1>2. ASSUME NEW v, Users(d, s, p) = {v}
      PROVE  Instruction(d, s, "host_rule", p) = Tenant(v)
  BY <1>2, TheUser DEF Instruction
<1>3. /\ Instruction(d, s, "link_rule", p) = Goto1
      /\ Instruction(d, s, "drop_rule", p) = Drop
  BY DEF Instruction
<1> QED
  BY <1>1, <1>2, <1>3

LEMMA InstructionType ==
  ASSUME NEW d, NEW s, NEW lk, NEW p, s.interest \subseteq VSwitches
  PROVE  Instruction(d, s, PortState(d, s, lk, p), p)
           \in {Drop, Goto1} \cup {Tenant(v) : v \in VSwitches}
<1>1. CASE PortState(d, s, lk, p) = "host_rule"
  <2>1. PICK v : Users(d, s, p) = {v}
    BY <1>1, PortStateMeaning, UsersFinite, FS_Singleton
  <2>2. v \in VSwitches
    BY <2>1 DEF Users
  <2> QED
    BY <1>1, <2>1, <2>2, PortStateMeaning
<1>2. CASE PortState(d, s, lk, p) # "host_rule"
  BY <1>2, PortStateType, PortStateMeaning DEF PortStates
<1> QED
  BY <1>1, <1>2

\* Rules of kind "out" with other keys than shared ones leave table 1 in order.
LEMMA OutRulesAdded ==
  ASSUME NEW d \in Switches, NEW s, TypedTables(d, s), NEW c,
         DOMAIN c \subseteq Keys,
         \A k \in DOMAIN c : c[k].kind = "out" /\ \A p, i : k # SharedKey(p, i)
  PROVE  /\ DOMAIN (c ++ s.table1) \subseteq Keys
         /\ \A k \in DOMAIN (c ++ s.table1) :
              \/ (c ++ s.table1)[k].kind = "out"
              \/ TenantRule(d, k, (c ++ s.table1)[k])
         /\ \A i \in s.installed :
              /\ SharedKey(i[1], Slice[i[2]]) \in DOMAIN (c ++ s.table1)
              /\ (c ++ s.table1)[SharedKey(i[1], Slice[i[2]])] = Tenant(i[2])
<1>1. /\ DOMAIN (c ++ s.table1) = DOMAIN c \cup DOMAIN s.table1
      /\ \A x \in DOMAIN c : (c ++ s.table1)[x] = c[x]
      /\ \A x \in DOMAIN s.table1 \ DOMAIN c : (c ++ s.table1)[x] = s.table1[x]
  BY MergeFacts
<1>2. \A k \in DOMAIN (c ++ s.table1) :
        \/ (c ++ s.table1)[k].kind = "out"
        \/ TenantRule(d, k, (c ++ s.table1)[k])
  BY <1>1 DEF TypedTables
<1>3. ASSUME NEW i \in s.installed
      PROVE  /\ SharedKey(i[1], Slice[i[2]]) \in DOMAIN (c ++ s.table1)
             /\ (c ++ s.table1)[SharedKey(i[1], Slice[i[2]])] = Tenant(i[2])
  BY <1>1 DEF TypedTables
<1> QED
  BY <1>1, <1>2, <1>3 DEF TypedTables

\* The rules about ports.
LEMMA PortsUpdated ==
  ASSUME NEW d \in Switches, NEW s, NEW lk, Typed(d, s), Prepared(d, s, lk),
         NEW t, t = UpdatePorts(d, s, lk)
  PROVE  /\ Typed(d, t) /\ PortsInStep(d, t, lk)
         /\ t.interest = s.interest /\ DOMAIN t.ports = DOMAIN s.ports
<1> DEFINE state == [p \in DOMAIN s.ports |-> PortState(d, s, lk, p)]
           sent  == {p \in DOMAIN s.ports : s.ports[p] # state[p]}
           now   == {p \in sent : s.ports[p] = "no_rule" \/ p \in DOMAIN s.table0}
           rules == {r \in sent \X Slices :
                       \/ s.ports[r[1]] = "no_rule"
                       \/ PortKey(d, r[1], r[2]) \in DOMAIN s.table1}
           rule(k) == CHOOSE r \in rules : k = PortKey(d, r[1], r[2])
           a == [p \in now |-> Instruction(d, s, state[p], p)]
           b == [k \in {PortKey(d, r[1], r[2]) : r \in rules} |->
                   Out(rule(k)[1], TagAfter(state[rule(k)[1]], rule(k)[2]))]
<1>1. t = [s EXCEPT !.ports = state, !.table0 = a ++ @, !.table1 = b ++ @]
  BY DEF UpdatePorts
<1>2. /\ DOMAIN state = DOMAIN s.ports
      /\ \A p \in DOMAIN s.ports : state[p] = PortState(d, s, lk, p)
  OBVIOUS
<1>3. /\ DOMAIN a = now
      /\ \A p \in now : a[p] = Instruction(d, s, state[p], p)
  OBVIOUS
<1>4. /\ DOMAIN b \subseteq Keys
      /\ \A k \in DOMAIN b : b[k].kind = "out" /\ \A p, i : k # SharedKey(p, i)
  <2>1. ASSUME NEW r \in rules PROVE PortKey(d, r[1], r[2]) \in Keys
    <3>1. r[1] \in Ports[d] /\ r[2] \in Slices
      BY DEF Typed, TypedPorts
    <3> QED
      BY <3>1, KeysAreKeys
  <2>2. \A k \in DOMAIN b : b[k].kind = "out"
    BY DEF Out
  <2>3. \A k \in DOMAIN b : \A p, i : k # SharedKey(p, i)
    <3>1. DOMAIN b = {PortKey(d, r[1], r[2]) : r \in rules}
      OBVIOUS
    <3> HIDE DEF b, rules
    <3> QED
      BY <3>1, KeysDiffer
  <2>4. DOMAIN b \subseteq Keys
    BY <2>1
  <2> QED
    BY <2>2, <2>3, <2>4
<1>5. now = {p \in DOMAIN s.ports :
               /\ s.ports[p] # PortState(d, s, lk, p)
               /\ (s.ports[p] = "no_rule" \/ p \in DOMAIN s.table0)}
  BY <1>2
<1> HIDE DEF state, sent, now, rules, a, b
<1>6. /\ Record(t) /\ t.ports = state
      /\ t.table0 = a ++ s.table0 /\ t.table1 = b ++ s.table1
      /\ t.interest = s.interest /\ t.installed = s.installed
      /\ t.out = s.out /\ t.ids = s.ids /\ t.groups = s.groups
  <2>1. Record(s)
    BY DEF Typed
  <2> QED
    BY <1>1, <2>1 DEF Record
<1>7. \A p \in DOMAIN s.ports : PortState(d, s, lk, p) \in PortStates \ {"no_rule"}
  BY PortStateType
<1>8. TypedPorts(d, t)
  BY <1>2, <1>6, <1>7 DEF Typed, TypedPorts
<1>9. TypedGroups(t)
  BY <1>6 DEF Typed, TypedGroups
<1>10. /\ DOMAIN (a ++ s.table0) = now \cup DOMAIN s.table0
       /\ \A p \in now : (a ++ s.table0)[p] = Instruction(d, s, PortState(d, s, lk, p), p)
       /\ \A p \in DOMAIN s.table0 \ now : (a ++ s.table0)[p] = s.table0[p]
  <2>1. /\ DOMAIN (a ++ s.table0) = DOMAIN a \cup DOMAIN s.table0
        /\ \A x \in DOMAIN a : (a ++ s.table0)[x] = a[x]
        /\ \A x \in DOMAIN s.table0 \ DOMAIN a : (a ++ s.table0)[x] = s.table0[x]
    BY MergeFacts
  <2>2. \A p \in now : a[p] = Instruction(d, s, PortState(d, s, lk, p), p)
    BY <1>2, <1>3, <1>5
  <2> QED
    BY <1>3, <2>1, <2>2
<1>11. TypedTables(d, t)
  <2>1. /\ DOMAIN t.table0 \subseteq Ports[d] \cup {FromController}
        /\ \A p \in DOMAIN t.table0 :
             t.table0[p] \in {Drop, Goto1} \cup {Tenant(v) : v \in VSwitches}
    <3>1. \A p \in now : (a ++ s.table0)[p] \in {Drop, Goto1} \cup {Tenant(v) : v \in VSwitches}
      BY <1>10, InstructionType DEF Typed, TypedPorts
    <3>2. \A p \in DOMAIN s.table0 \ now :
            (a ++ s.table0)[p] \in {Drop, Goto1} \cup {Tenant(v) : v \in VSwitches}
      BY <1>10 DEF Typed, TypedTables
    <3>3. now \subseteq Ports[d]
      BY <1>5 DEF Typed, TypedPorts
    <3> QED
      BY <1>6, <1>10, <3>1, <3>2, <3>3 DEF Typed, TypedTables
  <2>2. /\ DOMAIN t.table1 \subseteq Keys
        /\ \A k \in DOMAIN t.table1 :
             t.table1[k].kind = "out" \/ TenantRule(d, k, t.table1[k])
        /\ \A i \in t.installed :
             /\ SharedKey(i[1], Slice[i[2]]) \in DOMAIN t.table1
             /\ t.table1[SharedKey(i[1], Slice[i[2]])] = Tenant(i[2])
    <3>1. TypedTables(d, s)
      BY DEF Typed
    <3>2. /\ DOMAIN (b ++ s.table1) \subseteq Keys
          /\ \A k \in DOMAIN (b ++ s.table1) :
               \/ (b ++ s.table1)[k].kind = "out"
               \/ TenantRule(d, k, (b ++ s.table1)[k])
          /\ \A i \in s.installed :
               /\ SharedKey(i[1], Slice[i[2]]) \in DOMAIN (b ++ s.table1)
               /\ (b ++ s.table1)[SharedKey(i[1], Slice[i[2]])] = Tenant(i[2])
      BY <1>4, <3>1, OutRulesAdded
    <3> QED
      BY <1>6, <3>2
  <2> QED
    BY <2>1, <2>2 DEF TypedTables
<1>12. PortsInStep(d, t, lk)
  <2> SUFFICES ASSUME NEW p \in DOMAIN s.ports
               PROVE  t.ports[p] = PortState(d, t, lk, p) /\ HasRule(d, t, p)
    BY <1>2, <1>6 DEF PortsInStep
  <2>1. t.ports[p] = PortState(d, s, lk, p)
    BY <1>2, <1>6
  <2>2. p \in DOMAIN t.table0 /\ t.table0[p] = Instruction(d, s, PortState(d, s, lk, p), p)
    <3>1. CASE p \in now
      BY <1>6, <1>10, <3>1
    <3>2. CASE p \notin now
      <4>1. s.ports[p] # "no_rule" /\ s.ports[p] = PortState(d, s, lk, p)
        BY <1>5, <1>7, <3>2 DEF Prepared
      <4>2. HasRule(d, s, p)
        BY <4>1 DEF Prepared
      <4> QED
        BY <1>6, <1>10, <3>2, <4>1, <4>2 DEF HasRule
    <3> QED
      BY <3>1, <3>2
  <2> QED
    BY <1>6, <2>1, <2>2, SameInterest DEF HasRule
<1> QED
  BY <1>2, <1>6, <1>8, <1>9, <1>11, <1>12 DEF Typed

\* The rules for shared links.
LEMMA SharedUpdated ==
  ASSUME NEW d \in Switches, NEW s, NEW lk, Typed(d, s), PortsInStep(d, s, lk),
         NEW t, t = UpdateShared(d, s)
  PROVE  /\ Typed(d, t) /\ PortsInStep(d, t, lk) /\ LinksInStep(d, t)
         /\ t.interest = s.interest /\ DOMAIN t.ports = DOMAIN s.ports
<1> DEFINE wanted == UNION {{<<p, v>> : p \in PortsAt(v, d)} : v \in s.interest}
           known  == {i \in wanted : i[1] \in DOMAIN s.ports}
           add    == {i \in known \ s.installed : s.ports[i[1]] = "link_rule"}
           delete == {i \in known \cap s.installed : s.ports[i[1]] # "link_rule"}
           gone   == {SharedKey(i[1], Slice[i[2]]) : i \in delete}
           whose(k) == CHOOSE i \in add : k = SharedKey(i[1], Slice[i[2]])
           a == [k \in {SharedKey(i[1], Slice[i[2]]) : i \in add} |-> Tenant(whose(k)[2])]
           b == [k \in DOMAIN s.table1 \ gone |-> s.table1[k]]
<1>1. t = [s EXCEPT !.installed = (@ \ delete) \cup add, !.table1 = a ++ b]
  BY DEF UpdateShared
<1>2. \A i : i \in wanted <=>
        \E v \in s.interest : \E p \in PortsAt(v, d) : i = <<p, v>>
  OBVIOUS
<1>3. \A i \in wanted : /\ i[1] \in PortsAt(i[2], d) /\ i[2] \in s.interest
                         /\ i[2] \in VSwitches /\ i[1] \in Ports[d] /\ i = <<i[1], i[2]>>
  BY <1>2 DEF Typed, TypedPorts, PortsAt
<1>4. \A i \in add : i \in wanted /\ i[1] \in DOMAIN s.ports
  OBVIOUS
<1>5. \A v \in s.interest : \A p \in PortsAt(v, d) :
        p \in DOMAIN s.ports /\ s.ports[p] = "link_rule" =>
          <<p, v>> \in (s.installed \ delete) \cup add
  BY <1>2
<1>6. /\ DOMAIN a = {SharedKey(i[1], Slice[i[2]]) : i \in add}
      /\ \A i \in add : a[SharedKey(i[1], Slice[i[2]])] = Tenant(i[2])
  <2>1. ASSUME NEW i \in add PROVE a[SharedKey(i[1], Slice[i[2]])] = Tenant(i[2])
    <3> DEFINE k == SharedKey(i[1], Slice[i[2]])
    <3>1. PICK j : j = whose(k)
      OBVIOUS
    <3>2. j \in add /\ k = SharedKey(j[1], Slice[j[2]])
      BY <3>1
    <3>3. /\ j[2] \in VSwitches /\ j[1] \in PortsAt(j[2], d)
          /\ i[2] \in VSwitches /\ i[1] \in PortsAt(i[2], d)
      BY <1>3, <1>4, <3>2
    <3>4. j[2] = i[2]
      BY <3>2, <3>3, OneTenant
    <3> QED
      BY <3>1, <3>4
  <2> QED
    BY <2>1
<1>7. /\ DOMAIN b = DOMAIN s.table1 \ gone
      /\ \A k \in DOMAIN b : b[k] = s.table1[k]
  OBVIOUS
<1>8. ASSUME NEW i \in s.installed, i \notin delete
      PROVE  SharedKey(i[1], Slice[i[2]]) \notin gone
  <2> SUFFICES ASSUME NEW j \in delete,
                      SharedKey(i[1], Slice[i[2]]) = SharedKey(j[1], Slice[j[2]])
               PROVE  FALSE
    OBVIOUS
  <2>1. /\ i = <<i[1], i[2]>> /\ j = <<j[1], j[2]>>
        /\ i[2] \in VSwitches /\ j[2] \in VSwitches
        /\ i[1] \in PortsAt(i[2], d) /\ j[1] \in PortsAt(j[2], d)
    BY <1>3 DEF Typed, TypedPorts
  <2>2. i[2] = j[2] /\ i[1] = j[1]
    BY <2>1, OneTenant
  <2> QED
    BY <1>8, <2>1, <2>2
<1> HIDE DEF wanted, known, add, delete, gone, a, b
<1>9. /\ Record(t) /\ t.installed = (s.installed \ delete) \cup add /\ t.table1 = a ++ b
      /\ t.ports = s.ports /\ t.table0 = s.table0 /\ t.interest = s.interest
      /\ t.out = s.out /\ t.ids = s.ids /\ t.groups = s.groups
  <2>1. Record(s)
    BY DEF Typed
  <2> QED
    BY <1>1, <2>1 DEF Record
<1>10. TypedPorts(d, t)
  <2>1. add \subseteq {i \in Ports[d] \X s.interest : i[1] \in PortsAt(i[2], d)}
    BY <1>3, <1>4
  <2> QED
    BY <1>9, <2>1 DEF Typed, TypedPorts
<1>11. TypedGroups(t)
  BY <1>9 DEF Typed, TypedGroups
<1>12. /\ DOMAIN t.table1 = DOMAIN a \cup DOMAIN b
       /\ \A k \in DOMAIN a : t.table1[k] = a[k]
       /\ \A k \in DOMAIN b \ DOMAIN a : t.table1[k] = s.table1[k]
  <2>1. /\ DOMAIN (a ++ b) = DOMAIN a \cup DOMAIN b
        /\ \A x \in DOMAIN a : (a ++ b)[x] = a[x]
        /\ \A x \in DOMAIN b \ DOMAIN a : (a ++ b)[x] = b[x]
    BY MergeFacts
  <2> QED
    BY <1>7, <1>9, <2>1
<1>13. DOMAIN t.table1 \subseteq Keys
  <2>1. ASSUME NEW i \in add PROVE SharedKey(i[1], Slice[i[2]]) \in Keys
    BY <1>3, <1>4, KeysAreKeys DEF Slices
  <2> QED
    BY <1>6, <1>7, <1>12, <2>1 DEF Typed, TypedTables
<1>14. \A k \in DOMAIN t.table1 : t.table1[k].kind = "out" \/ TenantRule(d, k, t.table1[k])
  <2>1. ASSUME NEW i \in add
        PROVE  TenantRule(d, SharedKey(i[1], Slice[i[2]]), Tenant(i[2]))
    BY <1>3, <1>4 DEF TenantRule
  <2>2. \A k \in DOMAIN a : TenantRule(d, k, t.table1[k])
    BY <1>6, <1>12, <2>1
  <2>3. \A k \in DOMAIN b \ DOMAIN a :
          t.table1[k].kind = "out" \/ TenantRule(d, k, t.table1[k])
    BY <1>7, <1>12 DEF Typed, TypedTables
  <2> QED
    BY <1>12, <2>2, <2>3
<1>15. ASSUME NEW i \in t.installed
       PROVE  /\ SharedKey(i[1], Slice[i[2]]) \in DOMAIN t.table1
              /\ t.table1[SharedKey(i[1], Slice[i[2]])] = Tenant(i[2])
  <2>1. CASE i \in add
    BY <1>6, <1>12, <2>1
  <2>2. CASE i \notin add
    <3> DEFINE k == SharedKey(i[1], Slice[i[2]])
    <3>1. i \in s.installed /\ i \notin delete
      BY <1>9, <2>2
    <3>2. k \in DOMAIN b /\ s.table1[k] = Tenant(i[2])
      BY <1>7, <1>8, <3>1 DEF Typed, TypedTables
    <3>3. ASSUME NEW j \in add, k = SharedKey(j[1], Slice[j[2]])
          PROVE  a[k] = Tenant(i[2])
      <4>1. /\ i[2] \in VSwitches /\ j[2] \in VSwitches
            /\ i[1] \in PortsAt(i[2], d) /\ j[1] \in PortsAt(j[2], d)
        BY <1>3, <1>4, <3>1 DEF Typed, TypedPorts
      <4>2. i[2] = j[2]
        BY <3>3, <4>1, OneTenant
      <4> QED
        BY <1>6, <3>3, <4>2
    <3>4. k \in DOMAIN a => a[k] = Tenant(i[2])
      BY <1>6, <3>3
    <3> QED
      BY <1>12, <3>2, <3>4
  <2> QED
    BY <2>1, <2>2
<1>16. TypedTables(d, t)
  BY <1>9, <1>13, <1>14, <1>15 DEF Typed, TypedTables
<1>17. PortsInStep(d, t, lk)
  BY <1>9, SameInterest DEF PortsInStep, HasRule
<1>18. LinksInStep(d, t)
  BY <1>5, <1>9 DEF LinksInStep
<1> QED
  BY <1>9, <1>10, <1>11, <1>16, <1>17, <1>18 DEF Typed

\* The rules for routes.
LEMMA RoutesUpdated ==
  ASSUME NEW d \in Switches, NEW s, NEW lk, Typed(d, s), InStep(d, s, lk),
         NEW route, DOMAIN route \subseteq Switches,
         NEW t, t = UpdateRoutes(s, route)
  PROVE  /\ Typed(d, t) /\ InStep(d, t, lk)
         /\ t.interest = s.interest /\ DOMAIN t.ports = DOMAIN s.ports
<1> DEFINE c == [k \in {RouteKey(e) : e \in DOMAIN route} |->
                   Out(route[CHOOSE e \in DOMAIN route : k = RouteKey(e)], Keep)]
<1>1. t = [s EXCEPT !.table1 = c ++ @]
  BY DEF UpdateRoutes
<1>2. DOMAIN c = {RouteKey(e) : e \in DOMAIN route} /\ \A k \in DOMAIN c : c[k].kind = "out"
  BY DEF Out
<1> HIDE DEF c
<1>3. \A k \in DOMAIN c : \A p, i : k # SharedKey(p, i)
  BY <1>2, KeysDiffer
<1>4. DOMAIN c \subseteq Keys
  BY <1>2, KeysAreKeys
<1>5. /\ Record(t) /\ t.table1 = c ++ s.table1
      /\ t.ports = s.ports /\ t.table0 = s.table0 /\ t.interest = s.interest
      /\ t.installed = s.installed
      /\ t.out = s.out /\ t.ids = s.ids /\ t.groups = s.groups
  <2>1. Record(s)
    BY DEF Typed
  <2> QED
    BY <1>1, <2>1 DEF Record
<1>6. TypedTables(d, s)
  BY DEF Typed
<1>7. /\ DOMAIN (c ++ s.table1) \subseteq Keys
      /\ \A k \in DOMAIN (c ++ s.table1) :
           \/ (c ++ s.table1)[k].kind = "out"
           \/ TenantRule(d, k, (c ++ s.table1)[k])
      /\ \A i \in s.installed :
           /\ SharedKey(i[1], Slice[i[2]]) \in DOMAIN (c ++ s.table1)
           /\ (c ++ s.table1)[SharedKey(i[1], Slice[i[2]])] = Tenant(i[2])
  BY <1>2, <1>3, <1>4, <1>6, OutRulesAdded
<1>8. TypedTables(d, t)
  BY <1>5, <1>6, <1>7 DEF TypedTables
<1>9. TypedPorts(d, t) /\ TypedGroups(t)
  BY <1>5 DEF Typed, TypedPorts, TypedGroups
<1>10. PortsInStep(d, t, lk) /\ LinksInStep(d, t)
  BY <1>5, SameInterest DEF InStep, PortsInStep, LinksInStep, HasRule
<1> QED
  BY <1>5, <1>8, <1>9, <1>10 DEF Typed, InStep

LEMMA TargetState ==
  ASSUME NEW d, NEW lk, NEW route, NEW k
  PROVE  /\ Target(d, lk, route, k).state \in GroupStates
         /\ DOMAIN Target(d, lk, route, k) = {"state", "port"}
BY DEF Target, GroupStates

\* The output groups.
LEMMA GroupsUpdated ==
  ASSUME NEW d \in Switches, NEW s, NEW lk, Typed(d, s), InStep(d, s, lk),
         NEW route, NEW vs, NEW t, t = UpdateGroups(d, s, lk, route, vs)
  PROVE  /\ Typed(d, t) /\ InStep(d, t, lk)
         /\ t.interest = s.interest /\ DOMAIN t.ports = DOMAIN s.ports
<1> DEFINE new  == [k \in {k \in DOMAIN s.out : vs[k[1]] # "down"} |-> Target(d, lk, route, k)]
           sent == {k \in DOMAIN new : \/ s.out[k].state # new[k].state
                                       \/ s.out[k].port # new[k].port}
           took == {k \in sent : (s.out[k].state = "no_rule") # (s.out[k].id \in DOMAIN s.groups)}
           a == [k \in sent |-> [id |-> s.out[k].id] ++ new[k]]
           b == [i \in {s.out[k].id : k \in took} |->
                   LET k == CHOOSE k \in took : s.out[k].id = i
                   IN  Bucket(k, new[k])]
<1>1. t = [s EXCEPT !.out = a ++ @, !.groups = b ++ @]
  BY DEF UpdateGroups
<1>2. sent \subseteq DOMAIN s.out /\ took \subseteq sent
  OBVIOUS
<1>3. DOMAIN a = sent
  OBVIOUS
<1>4. ASSUME NEW k \in sent
      PROVE  a[k].id = s.out[k].id /\ a[k].state \in GroupStates
  <2>1. new[k] = Target(d, lk, route, k)
    OBVIOUS
  <2>2. a[k] = [id |-> s.out[k].id] ++ Target(d, lk, route, k)
    BY <2>1
  <2> HIDE DEF a, new, sent
  <2> DEFINE f == [id |-> s.out[k].id]
             g == Target(d, lk, route, k)
  <2>3. g.state \in GroupStates /\ DOMAIN g = {"state", "port"}
    BY TargetState
  <2>4. DOMAIN f = {"id"} /\ f["id"] = s.out[k].id
    OBVIOUS
  <2> HIDE DEF f, g
  <2>5. (f ++ g)["id"] = f["id"] /\ (f ++ g)["state"] = g["state"]
    BY <2>3, <2>4 DEF ++
  <2> QED
    BY <2>2, <2>3, <2>4, <2>5 DEF f, g
<1>5. DOMAIN b = {s.out[k].id : k \in took}
  OBVIOUS
<1> HIDE DEF new, sent, took, a, b
<1>6. /\ Record(t) /\ t.out = a ++ s.out /\ t.groups = b ++ s.groups
      /\ t.ports = s.ports /\ t.table0 = s.table0 /\ t.table1 = s.table1
      /\ t.interest = s.interest /\ t.installed = s.installed /\ t.ids = s.ids
  <2>1. Record(s)
    BY DEF Typed
  <2> QED
    BY <1>1, <2>1 DEF Record
<1>7. /\ DOMAIN (a ++ s.out) = DOMAIN a \cup DOMAIN s.out
      /\ \A x \in DOMAIN a : (a ++ s.out)[x] = a[x]
      /\ \A x \in DOMAIN s.out \ DOMAIN a : (a ++ s.out)[x] = s.out[x]
      /\ DOMAIN (b ++ s.groups) = DOMAIN b \cup DOMAIN s.groups
  BY MergeFacts
<1>8. TypedGroups(t)
  <2>1. DOMAIN t.out = DOMAIN s.out
    BY <1>2, <1>3, <1>6, <1>7
  <2>2. \A k \in DOMAIN s.out : t.out[k].id = s.out[k].id
    BY <1>3, <1>4, <1>6, <1>7
  <2>3. \A k \in DOMAIN s.out : t.out[k].state \in GroupStates
    BY <1>3, <1>4, <1>6, <1>7 DEF Typed, TypedGroups
  <2>4. DOMAIN b \subseteq 1 .. MaxGroups
    <3>1. \A k \in DOMAIN s.out : s.out[k].id \in 1 .. MaxGroups
      <4>1. MaxGroups \in Nat
        BY FlowRulesAssumption
      <4> QED
        BY <4>1 DEF Typed, TypedGroups
    <3> QED
      BY <1>2, <1>5, <3>1
  <2>5. DOMAIN t.groups \subseteq 1 .. MaxGroups
    BY <1>6, <1>7, <2>4 DEF Typed, TypedGroups
  <2> QED
    BY <1>6, <2>1, <2>2, <2>3, <2>5 DEF Typed, TypedGroups
<1>9. TypedPorts(d, t) /\ TypedTables(d, t)
  BY <1>6 DEF Typed, TypedPorts, TypedTables
<1>10. PortsInStep(d, t, lk) /\ LinksInStep(d, t)
  BY <1>6, SameInterest DEF InStep, PortsInStep, LinksInStep, HasRule
<1> QED
  BY <1>6, <1>8, <1>9, <1>10 DEF Typed, InStep

\* One update_dynamic_rules brings every port in step.
LEMMA RulesUpdated ==
  ASSUME NEW d \in Switches, NEW s, NEW lk, Typed(d, s), Prepared(d, s, lk),
         NEW route, DOMAIN route \subseteq Switches, NEW vs
  PROVE  LET t == UpdateDynamicRules(d, s, lk, route, vs)
         IN  /\ Typed(d, t) /\ InStep(d, t, lk)
             /\ t.interest = s.interest /\ DOMAIN t.ports = DOMAIN s.ports
<1>1. PICK t1 : t1 = UpdatePorts(d, s, lk)
  OBVIOUS
<1>2. PICK t2 : t2 = UpdateShared(d, t1)
  OBVIOUS
<1>3. PICK t3 : t3 = UpdateRoutes(t2, route)
  OBVIOUS
<1>4. PICK t4 : t4 = UpdateGroups(d, t3, lk, route, vs)
  OBVIOUS
<1>5. UpdateDynamicRules(d, s, lk, route, vs) = t4
  BY <1>1, <1>2, <1>3, <1>4, Zenon DEF UpdateDynamicRules
<1>6. /\ Typed(d, t1) /\ PortsInStep(d, t1, lk)
      /\ t1.interest = s.interest /\ DOMAIN t1.ports = DOMAIN s.ports
  BY <1>1, PortsUpdated
<1>7. /\ Typed(d, t2) /\ PortsInStep(d, t2, lk) /\ LinksInStep(d, t2)
      /\ t2.interest = t1.interest /\ DOMAIN t2.ports = DOMAIN t1.ports
  BY <1>2, <1>6, SharedUpdated
<1>8. InStep(d, t2, lk)
  BY <1>7 DEF InStep
<1>9. /\ Typed(d, t3) /\ InStep(d, t3, lk)
      /\ t3.interest = t2.interest /\ DOMAIN t3.ports = DOMAIN t2.ports
  BY <1>3, <1>7, <1>8, RoutesUpdated
<1>10. /\ Typed(d, t4) /\ InStep(d, t4, lk)
       /\ t4.interest = t3.interest /\ DOMAIN t4.ports = DOMAIN t3.ports
  BY <1>4, <1>9, GroupsUpdated
<1> QED
  BY <1>5, <1>6, <1>7, <1>9, <1>10

-----------------------------------------------------------------------------
\* Changes of interest

\* When the interest only grows or only shrinks, a port whose state stays has
\* the user it had, and so the rule it needs.
LEMMA InterestChanged ==
  ASSUME NEW d, NEW s, NEW lk, PortsInStep(d, s, lk), NEW t, NEW new,
         t.ports = s.ports, t.table0 = s.table0,
         s.interest \subseteq VSwitches, t.interest \subseteq VSwitches,
         s.interest \subseteq t.interest \/ t.interest \subseteq s.interest
  PROVE  Prepared(d, t, new)
<1> SUFFICES ASSUME NEW p \in DOMAIN s.ports, t.ports[p] = PortState(d, t, new, p)
             PROVE  HasRule(d, t, p)
  BY DEF Prepared, PortsInStep, HasRule
<1>1. /\ s.ports[p] = PortState(d, s, lk, p) /\ s.ports[p] = PortState(d, t, new, p)
      /\ p \in DOMAIN s.table0 /\ s.table0[p] = Instruction(d, s, s.ports[p], p)
  BY DEF PortsInStep, HasRule
<1>2. Instruction(d, t, s.ports[p], p) = Instruction(d, s, s.ports[p], p)
  <2>1. CASE s.ports[p] = "link_rule"
    BY <2>1, PortStateMeaning
  <2>2. CASE s.ports[p] = "drop_rule"
    BY <2>2, PortStateMeaning
  <2>3. CASE s.ports[p] = "host_rule"
    <3>1. Cardinality(Users(d, s, p)) = 1 /\ Cardinality(Users(d, t, p)) = 1
      BY <1>1, <2>3, PortStateMeaning
    <3>2. IsFiniteSet(Users(d, s, p)) /\ IsFiniteSet(Users(d, t, p))
      BY UsersFinite
    <3>3. Users(d, s, p) \subseteq Users(d, t, p) \/ Users(d, t, p) \subseteq Users(d, s, p)
      BY DEF Users
    <3>4. PICK v : Users(d, s, p) = {v} /\ Users(d, t, p) = {v}
      BY <3>1, <3>2, <3>3, SameSingle
    <3>5. Instruction(d, s, "host_rule", p) = Tenant(v)
      BY <3>4, TheUser DEF Instruction
    <3>6. Instruction(d, t, "host_rule", p) = Tenant(v)
      BY <3>4, TheUser DEF Instruction
    <3> QED
      BY <2>3, <3>5, <3>6
  <2>4. s.ports[p] \in PortStates \ {"no_rule"}
    BY <1>1, PortStateType
  <2> QED
    BY <2>1, <2>2, <2>3, <2>4 DEF PortStates
<1> QED
  BY <1>1, <1>2 DEF HasRule

\* What a virtual switch that goes leaves behind.
LEMMA InterestRemoved ==
  ASSUME NEW d \in Switches, NEW s, Typed(d, s), NEW gone,
         NEW t, t = RemoveInterest(gone, s)
  PROVE  /\ Typed(d, t)
         /\ t.interest = s.interest \ gone /\ t.ports = s.ports
         /\ \A lk, new : InStep(d, s, lk) => Prepared(d, t, new)
<1> DEFINE a == [k \in {k \in DOMAIN s.out : k[1] \notin gone} |-> s.out[k]]
<1>1. t = [s EXCEPT !.interest = @ \ gone,
                    !.installed = {i \in @ : i[2] \notin gone}, !.out = a]
  BY DEF RemoveInterest
<1>2. /\ DOMAIN a = {k \in DOMAIN s.out : k[1] \notin gone}
      /\ \A k \in DOMAIN a : a[k] = s.out[k]
  OBVIOUS
<1> HIDE DEF a
<1>3. /\ Record(t) /\ t.interest = s.interest \ gone
      /\ t.installed = {i \in s.installed : i[2] \notin gone} /\ t.out = a
      /\ t.ports = s.ports /\ t.table0 = s.table0 /\ t.table1 = s.table1
      /\ t.ids = s.ids /\ t.groups = s.groups
  <2>1. Record(s)
    BY DEF Typed
  <2> QED
    BY <1>1, <2>1 DEF Record
<1>4. TypedPorts(d, t)
  BY <1>3 DEF Typed, TypedPorts
<1>5. TypedTables(d, t)
  BY <1>3 DEF Typed, TypedTables
<1>6. TypedGroups(t)
  BY <1>2, <1>3 DEF Typed, TypedGroups
<1>7. ASSUME NEW lk, NEW new, InStep(d, s, lk)
      PROVE  Prepared(d, t, new)
  <2>1. /\ s.interest \subseteq VSwitches /\ t.interest \subseteq s.interest
        /\ PortsInStep(d, s, lk)
    BY <1>3, <1>7 DEF InStep, Typed, TypedPorts
  <2> QED
    BY <1>3, <2>1, InterestChanged
<1> QED
  BY <1>3, <1>4, <1>5, <1>6, <1>7 DEF Typed

\* The ids of the output groups of a registration are new ones.
LEMMA OutputIdsType ==
  ASSUME NEW v \in VSwitches, NEW s, s.ids \in Nat
  PROVE  /\ IdsNeeded(v) \in Nat \ {0}
         /\ DOMAIN OutputIds(v, s) = {<<v, x>> : x \in DOMAIN PortMap[v]}
         /\ \A k \in DOMAIN OutputIds(v, s) :
              /\ OutputIds(v, s)[k].id \in 1 .. (s.ids + IdsNeeded(v))
              /\ OutputIds(v, s)[k].state = "no_rule"
<1> DEFINE D == DOMAIN PortMap[v]
           below(k) == {y \in D : y <= k[2]}
           out == [k \in {<<v, x>> : x \in D} |->
                     [id |-> s.ids + 1 + Cardinality(below(k)), state |-> "no_rule", port |-> 0]]
<1>1. OutputIds(v, s) = out
  BY DEF OutputIds
<1>2. IsFiniteSet(D)
  BY FlowRulesAssumption
<1>3. Cardinality(D) \in Nat
  BY <1>2, FS_CardinalityType
<1>4. ASSUME NEW k
      PROVE  Cardinality(below(k)) \in Nat /\ Cardinality(below(k)) <= Cardinality(D)
  <2>1. below(k) \in SUBSET D
    OBVIOUS
  <2> HIDE DEF below, D
  <2>2. IsFiniteSet(below(k)) /\ Cardinality(below(k)) <= Cardinality(D)
    BY <1>2, <2>1, FS_Subset
  <2> QED
    BY <2>2, FS_CardinalityType
<1>5. DOMAIN out = {<<v, x>> : x \in D}
  OBVIOUS
<1>6. \A k \in DOMAIN out : /\ out[k].id = s.ids + 1 + Cardinality(below(k))
                             /\ out[k].state = "no_rule"
  OBVIOUS
<1>7. IdsNeeded(v) = 1 + Cardinality(D)
  BY DEF IdsNeeded
<1> HIDE DEF out, below, D
<1>8. \A k \in DOMAIN out : out[k].id \in 1 .. (s.ids + IdsNeeded(v))
  BY <1>3, <1>4, <1>6, <1>7
<1> QED
  BY <1>1, <1>3, <1>5, <1>6, <1>7, <1>8 DEF D

\* What a virtual switch that comes adds.
LEMMA InterestRegistered ==
  ASSUME NEW d \in Switches, NEW s, Typed(d, s), NEW v \in VSwitches, d \in Deps(v),
         s.ids + IdsNeeded(v) <= MaxGroups,
         NEW t, t = RegisterInterest(v, s)
  PROVE  /\ Typed(d, t)
         /\ t.interest = s.interest \cup {v} /\ t.ports = s.ports
         /\ \A lk, new : InStep(d, s, lk) => Prepared(d, t, new)
<1> DEFINE a == OutputIds(v, s)
           f == [i \in {s.ids + 1} |-> Flood(a)]
<1>1. t = [s EXCEPT !.interest = @ \cup {v}, !.installed = {i \in @ : i[2] # v},
                    !.ids = @ + IdsNeeded(v), !.out = a ++ @, !.groups = @ ++ f]
  BY DEF RegisterInterest
<1>2. DOMAIN f = {s.ids + 1}
  OBVIOUS
<1>3. s.ids \in Nat /\ s.ids \in 0 .. MaxGroups /\ MaxGroups \in Nat
  BY FlowRulesAssumption DEF Typed, TypedGroups
<1> HIDE DEF a, f
<1>4. /\ Record(t) /\ t.interest = s.interest \cup {v}
      /\ t.installed = {i \in s.installed : i[2] # v}
      /\ t.ids = s.ids + IdsNeeded(v) /\ t.out = a ++ s.out /\ t.groups = s.groups ++ f
      /\ t.ports = s.ports /\ t.table0 = s.table0 /\ t.table1 = s.table1
  <2>1. Record(s)
    BY DEF Typed
  <2> QED
    BY <1>1, <2>1 DEF Record
<1>5. TypedPorts(d, t)
  <2>1. t.installed \subseteq {i \in Ports[d] \X t.interest : i[1] \in PortsAt(i[2], d)}
    BY <1>4 DEF Typed, TypedPorts
  <2> QED
    BY <1>4, <2>1 DEF Typed, TypedPorts
<1>6. TypedTables(d, t)
  BY <1>4 DEF Typed, TypedTables
<1>7. TypedGroups(t)
  <2>1. /\ IdsNeeded(v) \in Nat \ {0}
        /\ DOMAIN a = {<<v, x>> : x \in DOMAIN PortMap[v]}
        /\ \A k \in DOMAIN a : /\ a[k].id \in 1 .. (s.ids + IdsNeeded(v))
                                /\ a[k].state = "no_rule"
    BY <1>3, OutputIdsType DEF a
  <2>2. /\ DOMAIN (a ++ s.out) = DOMAIN a \cup DOMAIN s.out
        /\ \A x \in DOMAIN a : (a ++ s.out)[x] = a[x]
        /\ \A x \in DOMAIN s.out \ DOMAIN a : (a ++ s.out)[x] = s.out[x]
        /\ DOMAIN (s.groups ++ f) = DOMAIN s.groups \cup DOMAIN f
    BY MergeFacts
  <2>3. DOMAIN t.out = {k \in OutKeys : k[1] \in t.interest}
    <3>1. DOMAIN a = {k \in OutKeys : k[1] = v}
      BY <2>1 DEF OutKeys
    <3> QED
      BY <1>4, <2>2, <3>1 DEF Typed, TypedGroups
  <2>4. \A k \in DOMAIN t.out : t.out[k].id \in 1 .. t.ids
    <3>1. \A k \in DOMAIN a : t.out[k].id \in 1 .. t.ids
      BY <1>4, <2>1, <2>2
    <3>2. \A k \in DOMAIN s.out : s.out[k].id \in 1 .. t.ids
      BY <1>3, <1>4, <2>1 DEF Typed, TypedGroups
    <3> QED
      BY <1>4, <2>2, <3>1, <3>2
  <2>5. \A k \in DOMAIN t.out : t.out[k].state \in GroupStates
    BY <1>4, <2>1, <2>2 DEF Typed, TypedGroups, GroupStates
  <2>6. t.ids \in 0 .. MaxGroups
    BY <1>3, <1>4, <2>1
  <2>7. DOMAIN t.groups \subseteq 1 .. MaxGroups
    <3>1. s.ids + 1 \in 1 .. MaxGroups
      BY <1>3, <2>1
    <3> QED
      BY <1>2, <1>4, <2>2, <3>1 DEF Typed, TypedGroups
  <2> QED
    BY <2>3, <2>4, <2>5, <2>6, <2>7 DEF TypedGroups
<1>8. ASSUME NEW lk, NEW new, InStep(d, s, lk)
      PROVE  Prepared(d, t, new)
  <2>1. /\ s.interest \subseteq VSwitches /\ s.interest \subseteq t.interest
        /\ t.interest \subseteq VSwitches /\ PortsInStep(d, s, lk)
    BY <1>4, <1>8 DEF InStep, Typed, TypedPorts
  <2> QED
    BY <1>4, <2>1, InterestChanged
<1> QED
  BY <1>4, <1>5, <1>6, <1>7, <1>8 DEF Typed

-----------------------------------------------------------------------------
\* Routes

\* No link leads out of the switches that are online.
LEMMA ReachIsOnline ==
  ASSUME NEW on, NEW lk, NEW s, LinksOver(on, lk, s), NEW d \in on
  PROVE  Reach(lk, d) \subseteq on
<1>1. on \in SUBSET Switches
  BY DEF LinksOver
<1>2. \A c \in lk : \A f, g \in c : f[1] \in on => g[1] \in on
  BY DEF LinksOver
<1> QED
  BY <1>1, <1>2 DEF Reach

\* The routes that are chosen lead to the switches that are reached.
LEMMA RoutesReach ==
  ASSUME NEW lk, NEW r \in RoutesOver(lk), NEW d \in Switches
  PROVE  /\ DOMAIN r[d] = Reach(lk, d) \ {d}
         /\ DOMAIN r[d] \subseteq Switches
         /\ \A e \in DOMAIN r[d] : r[d][e] \in Ports[d]
<1>1. PICK x \in Routes : x[1] = lk /\ r = x[2]
  BY DEF RoutesOver
<1>2. PICK l \in SUBSET Cables : \E q : x = <<l, q>> /\ q[d] \in NextOf(l, d)
  BY <1>1 DEF Routes
<1>3. r[d] \in NextOf(lk, d)
  BY <1>1, <1>2
<1>4. r[d] \in [Reach(lk, d) \ {d} -> Ports[d]]
  BY <1>3 DEF NextOf
<1>5. Reach(lk, d) \subseteq Switches
  BY DEF Reach
<1> QED
  BY <1>4, <1>5

\* There is a route to every port of the virtual switches that are not down.
LEMMA RouteToPorts ==
  ASSUME NEW on, NEW lk, NEW d \in Switches, NEW s, Typed(d, s), NEW vs,
         \A v \in s.interest : vs[v] # "down" => Ready(v, on, lk),
         NEW route, DOMAIN route = Reach(lk, d) \ {d}
  PROVE  ~NextThrows(d, s, route, vs)
<1> SUFFICES ASSUME NEW k \in DOMAIN s.out, vs[k[1]] # "down",
                    PortMap[k[1]][k[2]][1] \notin DOMAIN route \cup {d}
             PROVE  FALSE
  BY DEF NextThrows
<1>1. k \in OutKeys /\ k[1] \in s.interest
  BY DEF Typed, TypedGroups
<1>2. PICK v, x : v \in VSwitches /\ x \in DOMAIN PortMap[v] /\ k = <<v, x>>
  BY <1>1 DEF OutKeys
<1>3. d \in Deps(v) /\ PortMap[v][x][1] \in Deps(v)
  BY <1>1, <1>2 DEF Typed, TypedPorts, Deps
<1>4. PortMap[v][x][1] \in Reach(lk, d)
  BY <1>1, <1>2, <1>3 DEF Ready
<1> QED
  BY <1>2, <1>4

-----------------------------------------------------------------------------
\* The two ends of a handler

\* update_dynamic_rules of the switches whose records have changed.
LEMMA UpdateKeeps ==
  ASSUME IInv, NEW ds \in SUBSET online, NEW s, NEW vs,
         s = [d \in Switches |-> s[d]], \A d \in Switches : Typed(d, s[d]),
         \A d \in ds : Prepared(d, s[d], links),
         \A d \in Switches \ ds : s[d] = sw[d],
         vs \in [VSwitches -> {"down", "trying", "connected"}],
         \A v \in VSwitches :
           /\ vs[v] # "down" => Ready(v, online, links)
           /\ vs[v] = "connected" => \A d \in Deps(v) : v \in s[d].interest,
         Update(ds, s, vs)
  PROVE  /\ RecordsOK(online, links, sw)' /\ Tenants' /\ Routed'
         /\ UNCHANGED <<online, links, next, fault>>
         /\ \A d \in Switches : DOMAIN sw'[d].ports = DOMAIN s[d].ports
<1>1. online \subseteq Switches
  BY DEF IInv, Settled, LinksOver
<1>2. ASSUME NEW d \in online
      PROVE  DOMAIN next[d] = Reach(links, d) \ {d} /\ DOMAIN next[d] \subseteq Switches
  BY <1>1, <1>2 DEF IInv, Settled, Routed, Reach
<1>3. ~ \E d \in ds : NextThrows(d, s[d], next[d], vs)
  <2> SUFFICES ASSUME NEW d \in ds PROVE ~NextThrows(d, s[d], next[d], vs)
    OBVIOUS
  <2>1. d \in Switches /\ Typed(d, s[d]) /\ DOMAIN next[d] = Reach(links, d) \ {d}
    BY <1>1, <1>2
  <2>2. \A v \in s[d].interest : vs[v] # "down" => Ready(v, online, links)
    BY <2>1 DEF Typed, TypedPorts
  <2> QED
    BY <2>1, <2>2, RouteToPorts
<1>4. /\ sw' = [d \in Switches |-> IF d \in ds
                  THEN UpdateDynamicRules(d, s[d], links, next[d], vs)
                  ELSE s[d]]
      /\ vstate' = vs
      /\ UNCHANGED <<online, links, next, fault>>
  BY <1>3 DEF Update
<1>5. ASSUME NEW d \in ds
      PROVE  /\ Typed(d, sw'[d]) /\ InStep(d, sw'[d], links)
             /\ sw'[d].interest = s[d].interest /\ DOMAIN sw'[d].ports = DOMAIN s[d].ports
  <2>1. sw'[d] = UpdateDynamicRules(d, s[d], links, next[d], vs)
    BY <1>1, <1>4
  <2>2. /\ d \in Switches /\ Typed(d, s[d]) /\ Prepared(d, s[d], links)
        /\ DOMAIN next[d] \subseteq Switches
    BY <1>1, <1>2
  <2> QED
    BY <2>1, <2>2, RulesUpdated
<1>6. \A d \in Switches \ ds : sw'[d] = s[d] /\ sw'[d] = sw[d]
  BY <1>4
<1>7. RecordsOK(online, links, sw)'
  <2>1. sw' = [d \in Switches |-> sw'[d]]
    BY <1>4
  <2>2. \A d \in Switches : Typed(d, sw'[d])
    BY <1>5, <1>6
  <2>3. \A d \in online : InStep(d, sw'[d], links)
    BY <1>1, <1>5, <1>6 DEF IInv, Settled, RecordsOK
  <2>4. \A d \in Switches \ online : Unused(sw'[d])
    BY <1>6 DEF IInv, Settled, RecordsOK
  <2>5. RecordsOK(online, links, sw')
    BY <2>1, <2>2, <2>3, <2>4 DEF RecordsOK
  <2> QED
    BY <1>4, <2>5
<1>8. \A d \in Switches : /\ sw'[d].interest = s[d].interest
                           /\ DOMAIN sw'[d].ports = DOMAIN s[d].ports
  BY <1>5, <1>6
<1>9. Tenants'
  <2>1. vstate' \in [VSwitches -> {"down", "trying", "connected"}]
    BY <1>4
  <2>2. ASSUME NEW v \in VSwitches
        PROVE  /\ vstate'[v] # "down" => Ready(v, online, links)
               /\ vstate'[v] = "connected" => \A d \in Deps(v) : v \in sw'[d].interest
    <3>1. vstate'[v] # "down" => Ready(v, online, links)
      BY <1>4
    <3>2. vstate'[v] = "connected" => Deps(v) \subseteq Switches
      BY <1>1, <3>1 DEF Ready
    <3> QED
      BY <1>4, <1>8, <3>1, <3>2
  <2> QED
    BY <1>4, <2>1, <2>2 DEF Tenants
<1>10. Routed'
  BY <1>4 DEF IInv, Settled, Routed
<1> QED
  BY <1>4, <1>7, <1>8, <1>9, <1>10

\* Hypervisor::calculate_routes with the switches on, the links lk and the
\* records s that a handler has made of them.
LEMMA CalculateRoutesKeeps ==
  ASSUME IInv, NEW on, NEW lk, NEW s,
         s = [d \in Switches |-> s[d]], \A d \in Switches : Typed(d, s[d]),
         LinksOver(on, lk, s),
         \A d \in on : \E l : InStep(d, s[d], l),
         \A d \in Switches \ on : Unused(s[d]),
         \A v \in VSwitches : vstate[v] = "connected" =>
           \A d \in Deps(v) \cap on : v \in s[d].interest,
         CalculateRoutes(on, lk, s)
  PROVE  \/ fault' = "remove_interest" /\ UNCHANGED <<online, sw, links, next, vstate>>
         \/ /\ UNCHANGED fault /\ online' = on /\ links' = lk
            /\ RecordsOK(online, links, sw)' /\ LinksOver(online, links, sw)'
            /\ Tenants' /\ Routed'
<1> DEFINE lost == {v \in VSwitches : vstate[v] # "down" /\ ~Ready(v, on, lk)}
           vs   == [v \in VSwitches |->
                      IF v \in lost THEN "down"
                      ELSE IF vstate[v] = "down" /\ Ready(v, on, lk) THEN "trying"
                      ELSE vstate[v]]
           left == [d \in on |-> RemoveInterest(lost, s[d])]
<1>1. on \subseteq Switches
  BY DEF LinksOver
<1>2. ASSUME NEW d \in on
      PROVE  /\ Typed(d, left[d])
             /\ \A new : Prepared(d, left[d], new)
             /\ left[d].interest = s[d].interest \ lost
             /\ left[d].ports = s[d].ports
  <2>1. d \in Switches /\ Typed(d, s[d])
    BY <1>1
  <2>2. PICK l : InStep(d, s[d], l)
    OBVIOUS
  <2>3. left[d] = RemoveInterest(lost, s[d])
    OBVIOUS
  <2> HIDE DEF left, lost
  <2> QED
    BY <2>1, <2>2, <2>3, InterestRemoved
<1>3. /\ vs \in [VSwitches -> {"down", "trying", "connected"}]
      /\ \A v \in VSwitches : vs[v] # "down" => Ready(v, on, lk)
      /\ \A v \in VSwitches : vs[v] = "connected" =>
           vstate[v] = "connected" /\ v \notin lost
  <2>1. vstate \in [VSwitches -> {"down", "trying", "connected"}]
    BY DEF IInv, Settled, Tenants
  <2> QED
    BY <2>1
<1>4. \/ Die("remove_interest")
      \/ \E routes \in RoutesOver(lk) :
           IF \E d \in on : NextThrows(d, left[d], routes[d], vs)
           THEN Die("next")
           ELSE /\ online' = on
                /\ links' = lk
                /\ next' = [d \in on |-> routes[d]]
                /\ vstate' = vs
                /\ sw' = [d \in on |-> UpdateDynamicRules(d, left[d], lk, routes[d], vs)] ++ s
                /\ UNCHANGED fault
  BY DEF CalculateRoutes
<1> HIDE DEF lost, vs, left
<1>5. CASE Die("remove_interest")
  BY <1>5 DEF Die
<1>6. ASSUME NEW r \in RoutesOver(lk),
             IF \E d \in on : NextThrows(d, left[d], r[d], vs)
             THEN Die("next")
             ELSE /\ online' = on
                  /\ links' = lk
                  /\ next' = [d \in on |-> r[d]]
                  /\ vstate' = vs
                  /\ sw' = [d \in on |-> UpdateDynamicRules(d, left[d], lk, r[d], vs)] ++ s
                  /\ UNCHANGED fault
      PROVE  /\ UNCHANGED fault /\ online' = on /\ links' = lk
             /\ RecordsOK(online, links, sw)' /\ LinksOver(online, links, sw)'
             /\ Tenants' /\ Routed'
  <2>1. ASSUME NEW d \in on
        PROVE  /\ DOMAIN r[d] = Reach(lk, d) \ {d} /\ DOMAIN r[d] \subseteq Switches
               /\ \A e \in DOMAIN r[d] : r[d][e] \in Ports[d]
    BY <1>1, RoutesReach
  <2>2. ~ \E d \in on : NextThrows(d, left[d], r[d], vs)
    <3> SUFFICES ASSUME NEW d \in on PROVE ~NextThrows(d, left[d], r[d], vs)
      OBVIOUS
    <3>1. d \in Switches /\ Typed(d, left[d]) /\ DOMAIN r[d] = Reach(lk, d) \ {d}
      BY <1>1, <1>2, <2>1
    <3>2. \A v \in left[d].interest : vs[v] # "down" => Ready(v, on, lk)
      BY <1>3, <3>1 DEF Typed, TypedPorts
    <3> QED
      BY <3>1, <3>2, RouteToPorts
  <2> DEFINE w == [d \in on |-> UpdateDynamicRules(d, left[d], lk, r[d], vs)]
  <2>3. /\ online' = on /\ links' = lk /\ next' = [d \in on |-> r[d]] /\ vstate' = vs
        /\ sw' = w ++ s /\ UNCHANGED fault
    BY <1>6, <2>2
  <2>4. ASSUME NEW d \in on
        PROVE  /\ Typed(d, w[d]) /\ InStep(d, w[d], lk)
               /\ w[d].interest = left[d].interest
               /\ DOMAIN w[d].ports = DOMAIN left[d].ports
    <3>1. d \in Switches /\ Typed(d, left[d]) /\ Prepared(d, left[d], lk)
      BY <1>1, <1>2
    <3>2. DOMAIN r[d] \subseteq Switches
      BY <2>1
    <3>3. w[d] = UpdateDynamicRules(d, left[d], lk, r[d], vs)
      OBVIOUS
    <3> HIDE DEF w
    <3> QED
      BY <3>1, <3>2, <3>3, RulesUpdated
  <2>5. DOMAIN w = on
    OBVIOUS
  <2> HIDE DEF w
  <2>6. DOMAIN s = Switches
    OBVIOUS
  <2>7. /\ sw' = [d \in Switches |-> sw'[d]]
        /\ \A d \in on : sw'[d] = w[d]
        /\ \A d \in Switches \ on : sw'[d] = s[d]
    BY <1>1, <2>3, <2>5, <2>6 DEF ++
  <2>8. RecordsOK(online, links, sw)'
    <3>1. RecordsOK(on, lk, sw')
      BY <1>1, <2>4, <2>7 DEF RecordsOK
    <3> QED
      BY <2>3, <3>1
  <2>9. LinksOver(online, links, sw)'
    <3>1. \A d \in on : DOMAIN sw'[d].ports = DOMAIN s[d].ports
      BY <1>2, <2>4, <2>7
    <3>2. LinksOver(on, lk, sw')
      BY <3>1 DEF LinksOver
    <3> QED
      BY <2>3, <3>2
  <2>10. Routed'
    BY <2>1, <2>3 DEF Routed
  <2>11. Tenants'
    <3>1. ASSUME NEW v \in VSwitches
          PROVE  /\ vs[v] # "down" => Ready(v, on, lk)
                 /\ vs[v] = "connected" => \A d \in Deps(v) : v \in sw'[d].interest
      <4>1. vs[v] # "down" => Ready(v, on, lk)
        BY <1>3
      <4>2. vs[v] = "connected" => Deps(v) \subseteq on
        BY <4>1 DEF Ready
      <4> QED
        BY <1>2, <1>3, <2>4, <2>7, <4>1, <4>2, ZenonT(60)
    <3> QED
      BY <1>3, <2>3, <3>1 DEF Tenants
  <2> QED
    BY <2>3, <2>8, <2>9, <2>10, <2>11
<1> QED
  BY <1>4, <1>5, <1>6

\* A step that ends with calculate_routes: it is done, or the process died.
LEMMA RoutesStep ==
  ASSUME IInv, NEW on, NEW lk, NEW s,
         s = [d \in Switches |-> s[d]], \A d \in Switches : Typed(d, s[d]),
         LinksOver(on, lk, s),
         \A d \in on : \E l : InStep(d, s[d], l),
         \A d \in Switches \ on : Unused(s[d]),
         \A v \in VSwitches : vstate[v] = "connected" =>
           \A d \in Deps(v) \cap on : v \in s[d].interest,
         CalculateRoutes(on, lk, s)
  PROVE  /\ Settled'
         /\ \/ fault' # "none" /\ UNCHANGED online
            \/ online' = on /\ links' = lk
<1>1. CASE fault' = "remove_interest" /\ UNCHANGED <<online, sw, links, next, vstate>>
  <2>1. RecordsOK(online, links, sw)'
    BY <1>1 DEF IInv, Settled, RecordsOK
  <2>2. LinksOver(online, links, sw)'
    BY <1>1 DEF IInv, Settled, LinksOver
  <2>3. Routed' /\ Tenants'
    BY <1>1 DEF IInv, Settled, Routed, Tenants
  <2> QED
    BY <1>1, <2>1, <2>2, <2>3 DEF Settled
<1>2. CASE /\ UNCHANGED fault /\ online' = on /\ links' = lk
           /\ RecordsOK(online, links, sw)' /\ LinksOver(online, links, sw)'
           /\ Tenants' /\ Routed'
  BY <1>2 DEF IInv, Settled
<1> QED
  BY <1>1, <1>2, CalculateRoutesKeeps

\* A step that changes nothing but the links.
LEMMA LinksStep ==
  ASSUME IInv, NEW lk, LinksOver(online, lk, sw), CalculateRoutes(online, lk, sw)
  PROVE  /\ Settled'
         /\ UNCHANGED online
         /\ fault' # "none" \/ links' = lk
<1>1. /\ sw = [d \in Switches |-> sw[d]]
      /\ \A d \in Switches : Typed(d, sw[d])
      /\ \A d \in online : \E l : InStep(d, sw[d], l)
      /\ \A d \in Switches \ online : Unused(sw[d])
  BY DEF IInv, Settled, RecordsOK
<1>2. \A v \in VSwitches : vstate[v] = "connected" =>
        \A d \in Deps(v) \cap online : v \in sw[d].interest
  BY DEF IInv, Settled, Tenants
<1> QED
  BY <1>1, <1>2, RoutesStep

-----------------------------------------------------------------------------
\* The records that the handlers make

\* The record of a switch that is not connected.
LEMMA OfflineType ==
  ASSUME NEW d \in Switches, NEW groups, DOMAIN groups \subseteq 1 .. MaxGroups,
         NEW t, t = Offline(groups)
  PROVE  /\ Typed(d, t) /\ Unused(t)
         /\ t.table1 = Nothing /\ t.out = Nothing /\ t.ids = 0 /\ t.groups = groups
<1>1. /\ Record(t) /\ t.ports = Nothing /\ t.interest = {} /\ t.installed = {}
      /\ t.out = Nothing /\ t.ids = 0 /\ t.table0 = Nothing /\ t.table1 = Nothing
      /\ t.groups = groups
  BY DEF Offline, Record
<1>2. TypedPorts(d, t) /\ TypedTables(d, t)
  BY <1>1, NothingIsEmpty DEF TypedPorts, TypedTables
<1>3. TypedGroups(t)
  BY <1>1, NothingIsEmpty, FlowRulesAssumption DEF TypedGroups
<1> QED
  BY <1>1, <1>2, <1>3 DEF Typed, Unused

\* The static rule of table 0 is added.
LEMMA StaticRules ==
  ASSUME NEW d \in Switches, NEW s, Typed(d, s), Unused(s), NEW tab,
         DOMAIN tab = {FromController}, tab[FromController] = Goto1,
         NEW t, t = [s EXCEPT !.table0 = tab]
  PROVE  /\ Typed(d, t) /\ Unused(t) /\ \A lk : InStep(d, t, lk)
         /\ t.table1 = s.table1 /\ t.out = s.out /\ t.ids = s.ids /\ t.groups = s.groups
<1>1. /\ Record(t) /\ t.table0 = tab
      /\ t.ports = s.ports /\ t.interest = s.interest /\ t.installed = s.installed
      /\ t.out = s.out /\ t.ids = s.ids /\ t.table1 = s.table1 /\ t.groups = s.groups
  <2>1. Record(s)
    BY DEF Typed
  <2> QED
    BY <2>1 DEF Record
<1>2. Unused(t)
  BY <1>1 DEF Unused
<1>3. TypedPorts(d, t) /\ TypedGroups(t)
  BY <1>1 DEF Typed, TypedPorts, TypedGroups
<1>4. TypedTables(d, t)
  BY <1>1 DEF Typed, TypedTables
<1>5. \A lk : InStep(d, t, lk)
  BY <1>2, NothingIsEmpty DEF Unused, InStep, PortsInStep, LinksInStep
<1> QED
  BY <1>1, <1>2, <1>3, <1>4, <1>5 DEF Typed

WithPorts(s, ports) == [s EXCEPT !.ports = ports]

\* Ports are added, without rules.
LEMMA NewPorts ==
  ASSUME NEW d \in Switches, NEW s, Typed(d, s), NEW new, DOMAIN new \subseteq Ports[d],
         \A p \in DOMAIN new : new[p] = "no_rule",
         NEW t, t = WithPorts(s, new ++ s.ports)
  PROVE  /\ Typed(d, t) /\ \A lk : PortsInStep(d, s, lk) => Prepared(d, t, lk)
         /\ DOMAIN s.ports \subseteq DOMAIN t.ports /\ t.interest = s.interest
         /\ \A p \in DOMAIN t.ports :
              t.ports[p] # "no_rule" => p \in DOMAIN s.ports /\ t.ports[p] = s.ports[p]
         /\ t.table1 = s.table1 /\ t.out = s.out /\ t.ids = s.ids /\ t.groups = s.groups
<1>1. /\ Record(t) /\ t.ports = new ++ s.ports
      /\ t.table0 = s.table0 /\ t.interest = s.interest /\ t.installed = s.installed
      /\ t.out = s.out /\ t.ids = s.ids /\ t.table1 = s.table1 /\ t.groups = s.groups
  <2>1. Record(s)
    BY DEF Typed
  <2> QED
    BY <2>1 DEF Record, WithPorts
<1>2. /\ DOMAIN (new ++ s.ports) = DOMAIN new \cup DOMAIN s.ports
      /\ \A x \in DOMAIN new : (new ++ s.ports)[x] = new[x]
      /\ \A x \in DOMAIN s.ports \ DOMAIN new : (new ++ s.ports)[x] = s.ports[x]
  BY MergeFacts
<1>3. /\ DOMAIN t.ports = DOMAIN new \cup DOMAIN s.ports
      /\ \A p \in DOMAIN new : t.ports[p] = "no_rule"
      /\ \A p \in DOMAIN s.ports \ DOMAIN new : t.ports[p] = s.ports[p]
  BY <1>1, <1>2
<1>4. TypedTables(d, t) /\ TypedGroups(t)
  BY <1>1 DEF Typed, TypedTables, TypedGroups
<1>5. TypedPorts(d, t)
  BY <1>1, <1>3 DEF Typed, TypedPorts, PortStates
<1>6. ASSUME NEW lk, PortsInStep(d, s, lk) PROVE Prepared(d, t, lk)
  <2> SUFFICES ASSUME NEW p \in DOMAIN t.ports, t.ports[p] # "no_rule"
               PROVE  p \in DOMAIN t.table0 /\ HasRule(d, t, p)
    BY DEF Prepared
  <2>1. p \in DOMAIN s.ports /\ t.ports[p] = s.ports[p]
    BY <1>1, <1>3
  <2>2. HasRule(d, s, p)
    BY <1>6, <2>1 DEF PortsInStep
  <2>3. Instruction(d, t, s.ports[p], p) = Instruction(d, s, s.ports[p], p)
    BY <1>1, SameInterest
  <2> QED
    BY <1>1, <2>1, <2>2, <2>3 DEF HasRule
<1> QED
  BY <1>1, <1>3, <1>4, <1>5, <1>6 DEF Typed

\* A port is erased.
LEMMA FewerPorts ==
  ASSUME NEW d \in Switches, NEW s, Typed(d, s), NEW left, DOMAIN left \subseteq DOMAIN s.ports,
         \A p \in DOMAIN left : left[p] = s.ports[p],
         NEW t, t = WithPorts(s, left)
  PROVE  /\ Typed(d, t) /\ \A lk : PortsInStep(d, s, lk) => Prepared(d, t, lk)
         /\ t.ports = left /\ t.interest = s.interest
         /\ t.table1 = s.table1 /\ t.out = s.out /\ t.ids = s.ids /\ t.groups = s.groups
<1>1. /\ Record(t) /\ t.ports = left
      /\ t.table0 = s.table0 /\ t.interest = s.interest /\ t.installed = s.installed
      /\ t.out = s.out /\ t.ids = s.ids /\ t.table1 = s.table1 /\ t.groups = s.groups
  <2>1. Record(s)
    BY DEF Typed
  <2> QED
    BY <2>1 DEF Record, WithPorts
<1>2. TypedTables(d, t) /\ TypedGroups(t)
  BY <1>1 DEF Typed, TypedTables, TypedGroups
<1>3. TypedPorts(d, t)
  BY <1>1 DEF Typed, TypedPorts
<1>4. ASSUME NEW lk, PortsInStep(d, s, lk) PROVE Prepared(d, t, lk)
  <2> SUFFICES ASSUME NEW p \in DOMAIN t.ports, t.ports[p] # "no_rule"
               PROVE  p \in DOMAIN t.table0 /\ HasRule(d, t, p)
    BY DEF Prepared
  <2>1. p \in DOMAIN s.ports /\ t.ports[p] = s.ports[p]
    BY <1>1
  <2>2. HasRule(d, s, p)
    BY <1>4, <2>1 DEF PortsInStep
  <2>3. Instruction(d, t, s.ports[p], p) = Instruction(d, s, s.ports[p], p)
    BY <1>1, SameInterest
  <2> QED
    BY <1>1, <2>1, <2>2, <2>3 DEF HasRule
<1> QED
  BY <1>1, <1>2, <1>3, <1>4 DEF Typed

-----------------------------------------------------------------------------
\* Handlers

LEMMA IInvInit == Init => IInv
<1> SUFFICES ASSUME Init PROVE IInv
  OBVIOUS
<1> USE DEF Init
<1>1. ASSUME NEW d \in Switches
      PROVE  Typed(d, sw[d]) /\ Unused(sw[d])
  <2>1. sw[d] = Offline(Nothing)
    OBVIOUS
  <2> QED
    BY <2>1, NothingIsEmpty, OfflineType
<1>2. RecordsOK(online, links, sw)
  BY <1>1 DEF RecordsOK
<1>3. LinksOver(online, links, sw)
  BY DEF LinksOver
<1>4. Routed
  BY NothingIsEmpty DEF Routed
<1>5. Tenants
  BY DEF Tenants
<1>6. Pending
  BY DEF Pending
<1> QED
  BY <1>2, <1>3, <1>4, <1>5, <1>6 DEF IInv, Settled

LEMMA SwitchOnlineKeeps ==
  ASSUME IInv, NEW d \in Switches, SwitchOnline(d)
  PROVE  IInv'
<1> DEFINE s == [sw EXCEPT ![d].table0 = [i \in {FromController} |-> Goto1]]
           tab == [i \in {FromController} |-> Goto1]
<1>1. Idle /\ d \notin online /\ CalculateRoutes(online \cup {d}, links, s)
      /\ UNCHANGED <<stopping, erasing>>
  BY DEF SwitchOnline
<1>2. /\ sw = [e \in Switches |-> sw[e]] /\ \A e \in Switches : Typed(e, sw[e])
      /\ \A e \in online : InStep(e, sw[e], links)
      /\ \A e \in Switches \ online : Unused(sw[e])
      /\ online \subseteq Switches
  BY DEF IInv, Settled, RecordsOK, LinksOver
<1>3. /\ s = [e \in Switches |-> s[e]]
      /\ s[d] = [sw[d] EXCEPT !.table0 = tab]
      /\ \A e \in Switches \ {d} : s[e] = sw[e]
  BY <1>2
<1>4. DOMAIN tab = {FromController} /\ tab[FromController] = Goto1
  OBVIOUS
<1> HIDE DEF s, tab
<1>5. PICK t : t = s[d]
  OBVIOUS
<1>6. Typed(d, t) /\ Unused(t) /\ InStep(d, t, links)
  <2>1. Typed(d, sw[d]) /\ Unused(sw[d])
    BY <1>1, <1>2
  <2> QED
    BY <1>3, <1>4, <1>5, <2>1, StaticRules
<1>7. \A e \in Switches : s[e].ports = sw[e].ports /\ s[e].interest = sw[e].interest
  BY <1>1, <1>2, <1>3, <1>5, <1>6 DEF Unused
<1>8. LinksOver(online \cup {d}, links, s)
  BY <1>2, <1>7 DEF IInv, Settled, LinksOver
<1>9. \A e \in Switches : Typed(e, s[e])
  BY <1>2, <1>3, <1>5, <1>6
<1>10. \A e \in online \cup {d} : \E l : InStep(e, s[e], l)
  BY <1>1, <1>2, <1>3, <1>5, <1>6
<1>11. \A e \in Switches \ (online \cup {d}) : Unused(s[e])
  BY <1>2, <1>3
<1>12. \A v \in VSwitches : vstate[v] = "connected" =>
         \A e \in Deps(v) \cap (online \cup {d}) : v \in s[e].interest
  BY <1>2, <1>7 DEF IInv, Settled, Tenants
<1>13. Settled'
  BY <1>1, <1>3, <1>8, <1>9, <1>10, <1>11, <1>12, RoutesStep
<1>14. Pending'
  BY <1>1 DEF Idle, Pending
<1> QED
  BY <1>13, <1>14 DEF IInv

\* The records s of the switches and the states vs of the virtual switches may
\* be handed to update_dynamic_rules of the switches ds.
Updates(ds, s, vs) ==
  /\ ds \subseteq online
  /\ s = [d \in Switches |-> s[d]]
  /\ \A d \in Switches : Typed(d, s[d])
  /\ \A d \in ds : Prepared(d, s[d], links)
  /\ \A d \in Switches \ ds : s[d] = sw[d]
  /\ LinksOver(online, links, s)
  /\ vs \in [VSwitches -> {"down", "trying", "connected"}]
  /\ \A v \in VSwitches :
       /\ vs[v] # "down" => Ready(v, online, links)
       /\ vs[v] = "connected" => \A d \in Deps(v) : v \in s[d].interest

\* A step that updates the rules of switches and leaves what is under way.
LEMMA UpdateStep ==
  ASSUME IInv, NEW ds, NEW s, NEW vs, Updates(ds, s, vs), Update(ds, s, vs)
  PROVE  Settled' /\ UNCHANGED <<online, links, fault>>
<1>1. /\ RecordsOK(online, links, sw)' /\ Tenants' /\ Routed'
      /\ UNCHANGED <<online, links, next, fault>>
      /\ \A d \in Switches : DOMAIN sw'[d].ports = DOMAIN s[d].ports
  BY UpdateKeeps DEF Updates
<1>2. LinksOver(online, links, sw')
  <2>1. LinksOver(online, links, s)
    BY DEF Updates
  <2> QED
    BY <1>1, <2>1 DEF LinksOver
<1>3. LinksOver(online, links, sw)'
  BY <1>1, <1>2
<1> QED
  BY <1>1, <1>3 DEF IInv, Settled

\* What is known of the records before a step.
LEMMA Before ==
  ASSUME IInv
  PROVE  /\ sw = [d \in Switches |-> sw[d]]
         /\ \A d \in Switches : Typed(d, sw[d]) /\ Record(sw[d])
         /\ \A d \in online : InStep(d, sw[d], links)
         /\ \A d \in Switches \ online : Unused(sw[d])
         /\ online \subseteq Switches
         /\ LinksOver(online, links, sw)
         /\ vstate \in [VSwitches -> {"down", "trying", "connected"}]
         /\ \A v \in VSwitches :
              /\ vstate[v] # "down" => Ready(v, online, links)
              /\ vstate[v] = "connected" => \A d \in Deps(v) : v \in sw[d].interest
BY DEF IInv, Settled, RecordsOK, LinksOver, Tenants, Typed

LEMMA PortsAddedKeeps ==
  ASSUME IInv, NEW d \in Switches, NEW ps \in SUBSET Ports[d], PortsAdded(d, ps)
  PROVE  IInv'
<1> DEFINE new == [p \in ps |-> "no_rule"]
           s == [sw EXCEPT ![d].ports = new ++ @]
<1>1. Idle /\ d \in online /\ Update({d}, s, vstate) /\ UNCHANGED <<stopping, erasing>>
  BY DEF PortsAdded
<1>2. /\ s = [e \in Switches |-> s[e]]
      /\ s[d] = [sw[d] EXCEPT !.ports = new ++ @]
      /\ \A e \in Switches \ {d} : s[e] = sw[e]
  BY Before
<1>3. DOMAIN new = ps /\ \A p \in ps : new[p] = "no_rule"
  OBVIOUS
<1> HIDE DEF s, new
<1>4. PICK t : t = s[d]
  OBVIOUS
<1>5. /\ Typed(d, t) /\ Prepared(d, t, links)
      /\ DOMAIN sw[d].ports \subseteq DOMAIN t.ports /\ t.interest = sw[d].interest
  <2>1. Typed(d, sw[d]) /\ PortsInStep(d, sw[d], links)
    BY <1>1, Before DEF InStep
  <2>2. PICK q : q = sw[d]
    OBVIOUS
  <2>3. Typed(d, q) /\ t = WithPorts(q, new ++ q.ports)
    BY <1>2, <1>4, <2>1, <2>2 DEF WithPorts
  <2>4. /\ Typed(d, t) /\ \A lk : PortsInStep(d, q, lk) => Prepared(d, t, lk)
        /\ DOMAIN q.ports \subseteq DOMAIN t.ports /\ t.interest = q.interest
    <3>1. DOMAIN new \subseteq Ports[d] /\ \A p \in DOMAIN new : new[p] = "no_rule"
      BY <1>3
    <3> QED
      BY <2>3, <3>1, NewPorts
  <2> QED
    BY <2>1, <2>2, <2>4
<1>6. LinksOver(online, links, s)
  <2>1. \A e \in Switches : DOMAIN sw[e].ports \subseteq DOMAIN s[e].ports
    BY <1>2, <1>4, <1>5
  <2> QED
    BY <2>1, Before DEF LinksOver
<1>7. \A e \in Switches : s[e].interest = sw[e].interest
  BY <1>2, <1>4, <1>5
<1>8. \A v \in VSwitches :
        /\ vstate[v] # "down" => Ready(v, online, links)
        /\ vstate[v] = "connected" => \A e \in Deps(v) : v \in s[e].interest
  BY <1>7, Before DEF Ready
<1>9. \A e \in Switches : Typed(e, s[e])
  BY <1>2, <1>4, <1>5, Before
<1>10. Settled' /\ UNCHANGED <<online, links, fault>>
  <2>1. Updates({d}, s, vstate)
    BY <1>1, <1>2, <1>4, <1>5, <1>6, <1>8, <1>9, Before DEF Updates
  <2> QED
    BY <1>1, <2>1, UpdateStep
<1>11. Pending'
  BY <1>1, <1>10 DEF Idle, Pending
<1> QED
  BY <1>10, <1>11 DEF IInv

LEMMA EndPort ==
  ASSUME NEW e \in Flaky
  PROVE  e[1] \in Switches /\ e[2] \in Ports[e[1]] /\ e = <<e[1], e[2]>>
BY FlowRulesAssumption DEF Ends

LEMMA PortRemovedKeeps ==
  ASSUME IInv, NEW e \in Flaky, PortRemoved(e)
  PROVE  IInv'
<1>1. /\ Idle /\ e[1] \in online /\ erasing' = {e} /\ UNCHANGED stopping
  BY DEF PortRemoved
<1>2. CASE ~Linked(links, e[1], e[2]) /\ UNCHANGED <<online, sw, links, next, vstate, fault>>
  <2>1. Settled'
    BY <1>2 DEF IInv, Settled, RecordsOK, LinksOver, Routed, Tenants
  <2>2. Pending'
    BY <1>1, <1>2 DEF Idle, Pending, Linked
  <2> QED
    BY <2>1, <2>2 DEF IInv
<1>3. CASE CalculateRoutes(online, {c \in links : e \notin c}, sw)
  <2> DEFINE lk == {c \in links : e \notin c}
  <2>1. LinksOver(online, lk, sw)
    BY Before DEF LinksOver
  <2>2. ~Linked(lk, e[1], e[2])
    BY EndPort DEF Linked
  <2> HIDE DEF lk
  <2>3. /\ Settled' /\ UNCHANGED online
        /\ fault' # "none" \/ links' = lk
    BY <1>3, <2>1, LinksStep DEF lk
  <2>4. Pending'
    BY <1>1, <2>2, <2>3 DEF Idle, Pending, Linked
  <2> QED
    BY <2>3, <2>4 DEF IInv
<1> QED
  BY <1>2, <1>3 DEF PortRemoved

LEMMA PortErasedKeeps ==
  ASSUME IInv, NEW e \in Flaky, PortErased(e)
  PROVE  IInv'
<1> DEFINE s == [sw EXCEPT ![e[1]].ports = [p \in DOMAIN @ \ {e[2]} |-> @[p]]]
<1>1. /\ fault = "none" /\ e \in erasing /\ erasing' = {}
      /\ Update({e[1]}, s, vstate) /\ UNCHANGED stopping
  BY DEF PortErased
<1>2. PICK d \in online : d = e[1]
  BY <1>1 DEF IInv, Pending
<1>3. ~Linked(links, d, e[2])
  BY <1>1, <1>2 DEF IInv, Pending
<1>4. d \in Switches
  BY Before
<1> DEFINE left == [p \in DOMAIN sw[d].ports \ {e[2]} |-> sw[d].ports[p]]
<1>5. /\ s = [f \in Switches |-> s[f]]
      /\ s[d] = [sw[d] EXCEPT !.ports = left]
      /\ \A f \in Switches \ {d} : s[f] = sw[f]
  BY <1>2, <1>4, Before
<1>6. /\ DOMAIN left = DOMAIN sw[d].ports \ {e[2]}
      /\ \A p \in DOMAIN left : left[p] = sw[d].ports[p]
  OBVIOUS
<1> HIDE DEF s, left
<1>7. PICK t : t = s[d]
  OBVIOUS
<1>8. Typed(d, t) /\ Prepared(d, t, links) /\ t.ports = left /\ t.interest = sw[d].interest
  <2>1. Typed(d, sw[d]) /\ PortsInStep(d, sw[d], links)
    BY <1>4, Before DEF InStep
  <2>2. PICK q : q = sw[d]
    OBVIOUS
  <2>3. Typed(d, q) /\ t = WithPorts(q, left)
    BY <1>5, <1>7, <2>1, <2>2 DEF WithPorts
  <2>4. /\ Typed(d, t) /\ \A lk : PortsInStep(d, q, lk) => Prepared(d, t, lk)
        /\ t.ports = left /\ t.interest = q.interest
    <3>1. /\ DOMAIN left \subseteq DOMAIN q.ports
          /\ \A p \in DOMAIN left : left[p] = q.ports[p]
      BY <1>6, <2>2
    <3> QED
      BY <1>4, <2>3, <3>1, FewerPorts
  <2> QED
    BY <2>1, <2>2, <2>4
<1>9. LinksOver(online, links, s)
  <2>1. \A f \in Switches \ {d} : DOMAIN s[f].ports = DOMAIN sw[f].ports
    BY <1>5
  <2>2. DOMAIN s[d].ports = DOMAIN sw[d].ports \ {e[2]}
    BY <1>6, <1>7, <1>8
  <2>3. ASSUME NEW c \in links, NEW f \in c
        PROVE  f[1] \in online /\ f[2] \in DOMAIN s[f[1]].ports
    <3>1. f[1] \in online /\ f[2] \in DOMAIN sw[f[1]].ports /\ f \in Ends
      BY Before, FlowRulesAssumption DEF LinksOver
    <3>2. f = <<f[1], f[2]>>
      BY <3>1 DEF Ends
    <3>3. f[1] = d => f[2] # e[2]
      BY <1>3, <3>2 DEF Linked
    <3> QED
      BY <2>1, <2>2, <3>1, <3>3, Before
  <2> QED
    BY <2>3, Before DEF LinksOver
<1>10. \A f \in Switches : s[f].interest = sw[f].interest
  BY <1>5, <1>7, <1>8
<1>11. \A v \in VSwitches :
         /\ vstate[v] # "down" => Ready(v, online, links)
         /\ vstate[v] = "connected" => \A f \in Deps(v) : v \in s[f].interest
  BY <1>10, Before DEF Ready
<1>12. \A f \in Switches : Typed(f, s[f])
  BY <1>5, <1>7, <1>8, Before
<1>13. Settled' /\ UNCHANGED <<online, links, fault>>
  <2>1. Updates({d}, s, vstate)
    BY <1>1, <1>2, <1>5, <1>7, <1>8, <1>9, <1>11, <1>12, Before DEF Updates
  <2> QED
    BY <1>1, <1>2, <2>1, UpdateStep
<1>14. Pending'
  BY <1>1, <1>13 DEF IInv, Pending
<1> QED
  BY <1>13, <1>14 DEF IInv

LEMMA LinkFoundKeeps ==
  ASSUME IInv, NEW c \in Cables, LinkFound(c)
  PROVE  IInv'
<1>1. /\ Idle /\ CalculateRoutes(online, links \cup {c}, sw)
      /\ \A e \in c : e[1] \in online /\ e[2] \in DOMAIN sw[e[1]].ports
      /\ UNCHANGED <<stopping, erasing>>
  BY DEF LinkFound
<1>2. LinksOver(online, links \cup {c}, sw)
  BY <1>1, Before DEF LinksOver
<1>3. Settled'
  BY <1>1, <1>2, LinksStep
<1>4. Pending'
  BY <1>1 DEF Idle, Pending
<1> QED
  BY <1>3, <1>4 DEF IInv

LEMMA LinkLostKeeps ==
  ASSUME IInv, NEW c \in Cables, LinkLost(c)
  PROVE  IInv'
<1>1. /\ Idle /\ CalculateRoutes(online, links \ {c}, sw)
      /\ UNCHANGED <<stopping, erasing>>
  BY DEF LinkLost
<1>2. LinksOver(online, links \ {c}, sw)
  BY Before DEF LinksOver
<1>3. Settled'
  BY <1>1, <1>2, LinksStep
<1>4. Pending'
  BY <1>1 DEF Idle, Pending
<1> QED
  BY <1>3, <1>4 DEF IInv

LEMMA SwitchStopKeeps ==
  ASSUME IInv, NEW d \in Switches, SwitchStop(d)
  PROVE  IInv'
<1>1. /\ Idle /\ d \in online /\ stopping' = {d}
      /\ UNCHANGED <<online, sw, links, next, vstate, erasing, fault>>
  BY DEF SwitchStop
<1>2. Settled'
  BY <1>1 DEF IInv, Settled, RecordsOK, LinksOver, Routed, Tenants
<1>3. Pending'
  BY <1>1 DEF Idle, Pending
<1> QED
  BY <1>2, <1>3 DEF IInv

LEMMA StopLinkKeeps ==
  ASSUME IInv, NEW d \in Switches, NEW c \in Cables, StopLink(d, c)
  PROVE  IInv'
<1>1. /\ d \in stopping /\ CalculateRoutes(online, links \ {c}, sw)
      /\ UNCHANGED <<stopping, erasing>>
  BY DEF StopLink
<1>2. LinksOver(online, links \ {c}, sw)
  BY Before DEF LinksOver
<1>3. Settled' /\ UNCHANGED online
  BY <1>1, <1>2, LinksStep
<1>4. Pending'
  BY <1>1, <1>3 DEF IInv, Pending
<1> QED
  BY <1>3, <1>4 DEF IInv

LEMMA SwitchStoppedKeeps ==
  ASSUME IInv, NEW d \in Switches, SwitchStopped(d)
  PROVE  IInv'
<1> DEFINE groups == IF GroupsSurvive THEN sw[d].groups ELSE Nothing
           s == [sw EXCEPT ![d] = Offline(IF GroupsSurvive THEN @.groups ELSE Nothing)]
<1>1. /\ d \in stopping /\ stopping' = {}
      /\ \A c \in links : \A e \in c : e[1] # d
      /\ CalculateRoutes(online \ {d}, links, s)
      /\ UNCHANGED erasing
  BY DEF SwitchStopped
<1>2. /\ s = [e \in Switches |-> s[e]]
      /\ s[d] = Offline(groups)
      /\ \A e \in Switches \ {d} : s[e] = sw[e]
  BY Before
<1>3. DOMAIN groups \subseteq 1 .. MaxGroups
  <2>1. Typed(d, sw[d])
    BY Before
  <2> QED
    BY <2>1, NothingIsEmpty DEF Typed, TypedGroups
<1> HIDE DEF s, groups
<1>4. PICK t : t = s[d]
  OBVIOUS
<1>5. Typed(d, t) /\ Unused(t)
  BY <1>2, <1>3, <1>4, OfflineType
<1>6. \A e \in Switches : Typed(e, s[e])
  BY <1>2, <1>4, <1>5, Before
<1>7. \A e \in online \ {d} : \E l : InStep(e, s[e], l)
  BY <1>2, Before
<1>8. \A e \in Switches \ (online \ {d}) : Unused(s[e])
  BY <1>2, <1>4, <1>5, Before
<1>9. LinksOver(online \ {d}, links, s)
  BY <1>1, <1>2, Before DEF LinksOver
<1>10. \A v \in VSwitches : vstate[v] = "connected" =>
         \A e \in Deps(v) \cap (online \ {d}) : v \in s[e].interest
  BY <1>2, Before
<1>11. Settled'
  BY <1>1, <1>2, <1>6, <1>7, <1>8, <1>9, <1>10, RoutesStep
<1>12. Pending'
  BY <1>1 DEF IInv, Pending
<1> QED
  BY <1>11, <1>12 DEF IInv

LEMMA ConnectedKeeps ==
  ASSUME IInv, NEW v \in VSwitches, Connected(v)
  PROVE  IInv'
<1> DEFINE s == [d \in Switches |-> IF d \in Deps(v) THEN RegisterInterest(v, sw[d]) ELSE sw[d]]
           vs == [vstate EXCEPT ![v] = "connected"]
<1>1. /\ Idle /\ vstate[v] = "trying"
      /\ \A d \in Deps(v) : sw[d].ids + IdsNeeded(v) <= MaxGroups
      /\ Update(Deps(v), s, vs) /\ UNCHANGED <<stopping, erasing>>
  BY DEF Connected
<1>2. Ready(v, online, links) /\ Deps(v) \subseteq online
  BY <1>1, Before DEF Ready
<1>3. /\ s = [d \in Switches |-> s[d]]
      /\ \A d \in Deps(v) : s[d] = RegisterInterest(v, sw[d])
      /\ \A d \in Switches \ Deps(v) : s[d] = sw[d]
  BY <1>2, Before
<1>4. /\ vs[v] = "connected" /\ \A w \in VSwitches \ {v} : vs[w] = vstate[w]
      /\ vs \in [VSwitches -> {"down", "trying", "connected"}]
  BY Before
<1> HIDE DEF s, vs
<1>5. ASSUME NEW d \in Deps(v)
      PROVE  /\ Typed(d, s[d]) /\ Prepared(d, s[d], links)
             /\ s[d].interest = sw[d].interest \cup {v} /\ s[d].ports = sw[d].ports
  <2>1. d \in Switches /\ Typed(d, sw[d]) /\ InStep(d, sw[d], links)
    BY <1>2, Before
  <2> QED
    BY <1>1, <1>3, <2>1, InterestRegistered, SMTT(30)
<1>6. \A d \in Switches : Typed(d, s[d])
  BY <1>3, <1>5, Before
<1>7. \A d \in Switches : s[d].ports = sw[d].ports
  BY <1>3, <1>5
<1>8. LinksOver(online, links, s)
  BY <1>7, Before DEF LinksOver
<1>9. ASSUME NEW w \in VSwitches
      PROVE  /\ vs[w] # "down" => Ready(w, online, links)
             /\ vs[w] = "connected" => \A d \in Deps(w) : w \in s[d].interest
  <2>1. CASE w = v
    BY <1>2, <1>5, <2>1
  <2>2. CASE w # v
    <3>1. vs[w] = vstate[w]
      BY <1>4, <2>2
    <3>2. vs[w] # "down" => Ready(w, online, links)
      BY <3>1, Before
    <3>3. vs[w] = "connected" => \A d \in Deps(w) : d \in Switches /\ w \in sw[d].interest
      BY <3>1, <3>2, Before DEF Ready
    <3> QED
      BY <1>3, <1>5, <3>2, <3>3
  <2> QED
    BY <2>1, <2>2
<1>10. Settled' /\ UNCHANGED <<online, links, fault>>
  <2>1. Updates(Deps(v), s, vs)
    BY <1>1, <1>2, <1>3, <1>4, <1>5, <1>6, <1>8, <1>9 DEF Updates
  <2> QED
    BY <1>1, <2>1, UpdateStep
<1>11. Pending'
  BY <1>1, <1>10 DEF Idle, Pending
<1> QED
  BY <1>10, <1>11 DEF IInv

LEMMA ControllerLostKeeps ==
  ASSUME IInv, NEW v \in VSwitches, ControllerLost(v)
  PROVE  IInv'
<1> DEFINE s == [d \in Switches |-> IF d \in Deps(v) THEN RemoveInterest({v}, sw[d]) ELSE sw[d]]
           vs == [vstate EXCEPT ![v] = "trying"]
<1>1. /\ Idle /\ vstate[v] = "connected"
      /\ Update(Deps(v), s, vs) /\ UNCHANGED <<stopping, erasing>>
  BY DEF ControllerLost
<1>2. Ready(v, online, links) /\ Deps(v) \subseteq online
  BY <1>1, Before DEF Ready
<1>3. /\ s = [d \in Switches |-> s[d]]
      /\ \A d \in Deps(v) : s[d] = RemoveInterest({v}, sw[d])
      /\ \A d \in Switches \ Deps(v) : s[d] = sw[d]
  BY <1>2, Before
<1>4. /\ vs[v] = "trying" /\ \A w \in VSwitches \ {v} : vs[w] = vstate[w]
      /\ vs \in [VSwitches -> {"down", "trying", "connected"}]
  BY Before
<1> HIDE DEF s, vs
<1>5. ASSUME NEW d \in Deps(v)
      PROVE  /\ Typed(d, s[d]) /\ Prepared(d, s[d], links)
             /\ s[d].interest = sw[d].interest \ {v} /\ s[d].ports = sw[d].ports
  <2>1. d \in Switches /\ Typed(d, sw[d]) /\ InStep(d, sw[d], links)
    BY <1>2, Before
  <2>2. PICK gone : gone = {v} /\ s[d] = RemoveInterest(gone, sw[d])
    BY <1>3
  <2> QED
    BY <2>1, <2>2, InterestRemoved
<1>6. \A d \in Switches : Typed(d, s[d])
  BY <1>3, <1>5, Before
<1>7. \A d \in Switches : s[d].ports = sw[d].ports
  BY <1>3, <1>5
<1>8. LinksOver(online, links, s)
  BY <1>7, Before DEF LinksOver
<1>9. ASSUME NEW w \in VSwitches
      PROVE  /\ vs[w] # "down" => Ready(w, online, links)
             /\ vs[w] = "connected" => \A d \in Deps(w) : w \in s[d].interest
  <2>1. CASE w = v
    BY <1>2, <1>4, <2>1
  <2>2. CASE w # v
    <3>1. vs[w] = vstate[w]
      BY <1>4, <2>2
    <3>2. vs[w] # "down" => Ready(w, online, links)
      BY <3>1, Before
    <3>3. vs[w] = "connected" => \A d \in Deps(w) : d \in Switches /\ w \in sw[d].interest
      BY <3>1, <3>2, Before DEF Ready
    <3> QED
      BY <1>3, <1>5, <2>2, <3>2, <3>3
  <2> QED
    BY <2>1, <2>2
<1>10. Settled' /\ UNCHANGED <<online, links, fault>>
  <2>1. Updates(Deps(v), s, vs)
    BY <1>1, <1>2, <1>3, <1>4, <1>5, <1>6, <1>8, <1>9 DEF Updates
  <2> QED
    BY <1>1, <2>1, UpdateStep
<1>11. Pending'
  BY <1>1, <1>10 DEF Idle, Pending
<1> QED
  BY <1>10, <1>11 DEF IInv

LEMMA IInvNext == IInv /\ [Next]_vars => IInv'
<1> SUFFICES ASSUME IInv, [Next]_vars PROVE IInv'
  OBVIOUS
<1>1. ASSUME NEW d \in Switches, PortDescription(d) PROVE IInv'
  BY <1>1, PortsAddedKeeps DEF PortDescription
<1>2. ASSUME NEW e \in Flaky, PortAdded(e) PROVE IInv'
  <2>1. e[1] \in Switches /\ {e[2]} \in SUBSET Ports[e[1]] /\ PortsAdded(e[1], {e[2]})
    BY <1>2, EndPort DEF PortAdded
  <2> QED
    BY <2>1, PortsAddedKeeps
<1>3. CASE UNCHANGED vars
  BY <1>3 DEF vars, IInv, Settled, RecordsOK, LinksOver, Routed, Tenants, Pending
<1>4. CASE Next
  BY <1>1, <1>2, <1>4, SwitchOnlineKeeps, SwitchStopKeeps, SwitchStoppedKeeps, StopLinkKeeps,
     PortRemovedKeeps, PortErasedKeeps, LinkFoundKeeps, LinkLostKeeps, ConnectedKeeps,
     ControllerLostKeeps DEF Next
<1> QED
  BY <1>3, <1>4

-----------------------------------------------------------------------------
\* What a packet meets in table 1

\* Of the rules that a packet matches there is one of highest priority.
LEMMA HighestRule ==
  ASSUME NEW hits \in SUBSET Keys, hits # {}
  PROVE  \E k \in hits : \A l \in hits : k.prio >= l.prio
<1>1. ASSUME NEW k \in Keys PROVE k.prio \in {10, 20, 30}
  <2>1. \A p, i : SharedKey(p, i).prio = 30
    BY DEF SharedKey, Key
  <2>2. \A d : RouteKey(d).prio = 20
    BY DEF RouteKey, Key
  <2>3. \A d, p, i : PortKey(d, p, i).prio = 10
    BY DEF PortKey, Key
  <2> QED
    BY <2>1, <2>2, <2>3 DEF Keys
<1>2. CASE \E k \in hits : k.prio = 30
  BY <1>1, <1>2
<1>3. CASE (\E k \in hits : k.prio = 20) /\ ~ (\E k \in hits : k.prio = 30)
  BY <1>1, <1>3
<1>4. CASE ~ (\E k \in hits : k.prio = 20 \/ k.prio = 30)
  BY <1>1, <1>4
<1> QED
  BY <1>2, <1>3, <1>4

\* A rule with the highest priority is one for a shared link.
LEMMA SharedRule ==
  ASSUME NEW k \in Keys, k.prio >= 30
  PROVE  \E d \in Switches : \E q \in Ports[d] : \E s \in Slices : k = SharedKey(q, s)
<1>1. \A d : RouteKey(d).prio = 20
  BY DEF RouteKey, Key
<1>2. \A d, p, s : PortKey(d, p, s).prio = 10
  BY DEF PortKey, Key
<1> QED
  BY <1>1, <1>2 DEF Keys, PortNumbers

\* A packet with a shared tag matches shared rules of its port and slice only.
LEMMA SharedMatch ==
  ASSUME NEW d \in Switches, NEW p, NEW q \in Ports[d], NEW s \in Slices, NEW i \in Slices,
         SharedKey(q, i).in \in {FromController, p},
         Matches(SharedTags[s], SharedKey(q, i).tag, SharedKey(q, i).fields)
  PROVE  q = p /\ i = s
<1>1. /\ SharedKey(q, i).in = q /\ SharedKey(q, i).tag = SharedTags[i]
      /\ SharedKey(q, i).fields = Fields
  BY DEF SharedKey, Key
<1>2. q = p
  BY <1>1, TagAssumption DEF FromController
<1>3. SliceField \in Fields
  BY DEF Fields
<1>4. GetValue(SharedTags[s], SliceField) = GetValue(SharedTags[i], SliceField)
  BY <1>1, <1>3 DEF Matches
<1> QED
  BY <1>2, <1>4, SliceOfSharedTag

\* What table 1 does with a packet that comes in with a shared tag.
LEMMA SharedPacket ==
  ASSUME NEW d \in Switches, Typed(d, sw[d]), NEW p \in Ports[d], NEW s \in Slices,
         NEW a, a = Table1(d, p, SharedTags[s])
  PROVE  /\ a.kind = "tenant" =>
              \E v \in VSwitches : p \in PortsAt(v, d) /\ Slice[v] = s /\ a = Tenant(v)
         /\ \A v \in VSwitches : <<p, v>> \in sw[d].installed /\ Slice[v] = s => a = Tenant(v)
<1> DEFINE t    == sw[d].table1
           hits == {k \in DOMAIN t : /\ k.in \in {FromController, p}
                                     /\ Matches(SharedTags[s], k.tag, k.fields)}
           best == CHOOSE k \in hits : \A l \in hits : k.prio >= l.prio
           rule == t[best]
<1>1. a = IF hits = {} THEN Lost
          ELSE IF rule.kind = "tenant" THEN rule
          ELSE Leaves(d, rule.port, IF rule.tag = Keep THEN SharedTags[s] ELSE rule.tag)
  BY DEF Table1
<1>2. /\ hits \subseteq DOMAIN t
      /\ \A k \in hits : /\ k.in \in {FromController, p}
                         /\ Matches(SharedTags[s], k.tag, k.fields)
      /\ \A k \in DOMAIN t : /\ k.in \in {FromController, p}
                             /\ Matches(SharedTags[s], k.tag, k.fields)
                             => k \in hits
  OBVIOUS
<1>3. DOMAIN t \subseteq Keys
  BY DEF Typed, TypedTables
<1>4. hits # {} => best \in hits /\ \A l \in hits : best.prio >= l.prio
  <2>1. hits # {} => \E k \in hits : \A l \in hits : k.prio >= l.prio
    <3> HIDE DEF hits
    <3> QED
      BY <1>2, <1>3, HighestRule
  <2> HIDE DEF hits
  <2> QED
    BY <2>1
<1>5. rule = t[best]
  OBVIOUS
<1> HIDE DEF hits, best, rule, t
<1>6. ASSUME a.kind = "tenant"
      PROVE  \E v \in VSwitches : p \in PortsAt(v, d) /\ Slice[v] = s /\ a = Tenant(v)
  <2>1. hits # {} /\ rule.kind = "tenant" /\ a = rule
    BY <1>1, <1>6 DEF Lost, Leaves
  <2>2. best \in DOMAIN t /\ t[best].kind # "out"
    BY <1>2, <1>4, <1>5, <2>1
  <2>3. PICK v, q : /\ v \in VSwitches /\ q \in PortsAt(v, d)
                    /\ best = SharedKey(q, Slice[v]) /\ t[best] = Tenant(v)
    BY <2>2 DEF Typed, TypedTables, TenantRule, t
  <2>4. q \in Ports[d] /\ Slice[v] \in Slices
    BY <2>3 DEF PortsAt, Slices
  <2>5. q = p /\ Slice[v] = s
    BY <1>2, <1>4, <2>1, <2>3, <2>4, SharedMatch
  <2> QED
    BY <1>5, <2>1, <2>3, <2>5
<1>7. ASSUME NEW v \in VSwitches, <<p, v>> \in sw[d].installed, Slice[v] = s
      PROVE  a = Tenant(v)
  <2>1. SharedKey(p, s) \in DOMAIN t /\ t[SharedKey(p, s)] = Tenant(v)
    BY <1>7 DEF Typed, TypedTables, t
  <2>2. /\ SharedKey(p, s).in = p /\ SharedKey(p, s).tag = SharedTags[s]
        /\ SharedKey(p, s).prio = 30
    BY DEF SharedKey, Key
  <2>3. SharedKey(p, s) \in hits
    BY <1>2, <2>1, <2>2 DEF Matches
  <2>4. best \in hits /\ best \in Keys /\ best.prio >= 30
    BY <1>2, <1>3, <1>4, <2>2, <2>3
  <2>5. PICK e \in Switches : \E q \in Ports[e] : \E i \in Slices : best = SharedKey(q, i)
    BY <2>4, SharedRule
  <2>6. PICK q, i : q \in Ports[e] /\ i \in Slices /\ best = SharedKey(q, i)
    BY <2>5
  <2>7. q = p /\ i = s
    BY <1>2, <2>4, <2>6, SharedMatch
  <2> QED
    BY <1>1, <1>5, <2>1, <2>3, <2>6, <2>7 DEF Tenant
<1> QED
  BY <1>6, <1>7, SMTT(30)

\* What table 0 does with a packet, by the state of the port.
LEMMA FirstTable ==
  ASSUME IInv, NEW d \in online, NEW p \in DOMAIN sw[d].ports
  PROVE  /\ p \in DOMAIN sw[d].table0
         /\ Linked(links, d, p) => sw[d].table0[p] = Goto1
         /\ \A v : ~Linked(links, d, p) /\ Users(d, sw[d], p) = {v}
              => sw[d].table0[p] = Tenant(v)
         /\ sw[d].table0[p].kind = "tenant" =>
              ~Linked(links, d, p) /\ \E v : Users(d, sw[d], p) = {v}
<1>1. /\ sw[d].ports[p] = PortState(d, sw[d], links, p) /\ p \in DOMAIN sw[d].table0
      /\ sw[d].table0[p] = Instruction(d, sw[d], sw[d].ports[p], p)
  BY Before DEF InStep, PortsInStep, HasRule
<1>2. sw[d].interest \subseteq VSwitches /\ IsFiniteSet(Users(d, sw[d], p))
  BY Before, UsersFinite DEF Typed, TypedPorts
<1>3. sw[d].ports[p] \in PortStates \ {"no_rule"}
  BY <1>1, PortStateType
<1>4. Linked(links, d, p) => sw[d].table0[p] = Goto1
  BY <1>1, <1>2, PortStateMeaning
<1>5. ASSUME NEW v, ~Linked(links, d, p), Users(d, sw[d], p) = {v}
      PROVE  sw[d].table0[p] = Tenant(v)
  <2>1. Cardinality(Users(d, sw[d], p)) = 1
    BY <1>5, FS_Singleton
  <2>2. sw[d].ports[p] = "host_rule"
    BY <1>1, <1>2, <1>5, <2>1, PortStateMeaning
  <2>3. Instruction(d, sw[d], "host_rule", p) = Tenant(v)
    BY <1>5, TheUser DEF Instruction
  <2> QED
    BY <1>1, <2>2, <2>3
<1>6. ASSUME sw[d].table0[p].kind = "tenant"
      PROVE  ~Linked(links, d, p) /\ \E v : Users(d, sw[d], p) = {v}
  <2>1. sw[d].ports[p] = "host_rule"
    BY <1>1, <1>2, <1>3, <1>6, PortStateMeaning DEF PortStates, Goto1, Drop
  <2>2. ~Linked(links, d, p) /\ Cardinality(Users(d, sw[d], p)) = 1
    <3>1. PortState(d, sw[d], links, p) = "host_rule"
      BY <1>1, <2>1
    <3> QED
      BY <3>1 DEF PortState, Users
  <2> QED
    BY <1>2, <2>2, FS_Singleton
<1> QED
  BY <1>1, <1>4, <1>5, <1>6

\* A packet with a shared tag goes on to table 1 on a link.
LEMMA ToTable1 ==
  ASSUME IInv, NEW d \in online, NEW p \in DOMAIN sw[d].ports, Linked(links, d, p),
         NEW s \in Slices
  PROVE  Arrives(d, p, SharedTags[s]) = Table1(d, p, SharedTags[s])
<1>1. p \in DOMAIN sw[d].table0 /\ sw[d].table0[p] = Goto1
  BY FirstTable
<1>2. SharedTags[s] # NoTag /\ GetValue(SharedTags[s], SliceField) # max_slice_id
  <2>1. /\ SharedTags[s] \in Tags /\ GetValue(SharedTags[s], SliceField) = s
        /\ s \in 1 .. 14
    BY SliceOfSharedTag
  <2>2. max_slice_id = 15
    BY DEF max_slice_id, SliceField
  <2>3. -1 \notin Tags
    BY TagRange
  <2> QED
    BY <2>1, <2>2, <2>3 DEF NoTag
<1>3. Goto1.kind = "goto_1"
  BY DEF Goto1
<1> QED
  BY <1>1, <1>2, <1>3 DEF Arrives

-----------------------------------------------------------------------------
\* Theorems

(***************************************************************************)
(* After every handler the record that the hypervisor keeps of a switch    *)
(* and the rules that are in the switch are in step: a port has the state  *)
(* and the rule that its links and users ask for, the rules of table 1     *)
(* that hand packets to virtual switches are those of installed shared     *)
(* links, and the virtual switches that are not down have all the          *)
(* switches they depend on, with routes between any two of them.           *)
(***************************************************************************)
THEOREM InductiveInvariant == Spec => []IInv
<1>1. Init => IInv
  BY IInvInit
<1>2. IInv /\ [Next]_vars => IInv'
  BY IInvNext
<1> QED
  BY <1>1, <1>2, PTL DEF Spec

(***************************************************************************)
(* The types of everything that is kept, among them: a link joins ports    *)
(* that the hypervisor knows, a route leads to a switch that is online,    *)
(* and a group id never exceeds what was handed out.                       *)
(***************************************************************************)
THEOREM TypeCorrect == Spec => []TypeOK
<1>1. ASSUME IInv PROVE TypeOK
  <2>1. /\ online \subseteq Switches /\ stopping \subseteq online /\ erasing \subseteq Flaky
        /\ links \subseteq Cables
        /\ \A c \in links : \A e \in c : e[1] \in online /\ e[2] \in DOMAIN sw[e[1]].ports
        /\ DOMAIN next = online
        /\ vstate \in [VSwitches -> {"down", "trying", "connected"}]
        /\ fault \in {"none", "remove_interest", "next"}
    BY <1>1 DEF IInv, Settled, LinksOver, Routed, Tenants, Pending
  <2>2. ASSUME NEW d \in online, NEW e \in DOMAIN next[d]
        PROVE  e \in online /\ next[d][e] \in Ports[d]
    <3>1. e \in Reach(links, d) /\ next[d][e] \in Ports[d]
      BY <1>1 DEF IInv, Settled, Routed
    <3>2. LinksOver(online, links, sw)
      BY <1>1, Before
    <3> QED
      BY <3>1, <3>2, ReachIsOnline
  <2>3. DOMAIN sw = Switches
    <3>1. sw = [d \in Switches |-> sw[d]]
      BY <1>1, Before
    <3> QED
      BY <3>1
  <2>4. ASSUME NEW d \in Switches, NEW s, s = sw[d]
        PROVE  /\ DOMAIN s.ports \subseteq Ports[d]
               /\ \A p \in DOMAIN s.ports : s.ports[p] \in PortStates \ {"no_rule"}
               /\ s.interest \subseteq VSwitches
               /\ \A i \in s.installed : i[1] \in PortsAt(i[2], d) /\ i[2] \in s.interest
               /\ DOMAIN s.out = {k \in OutKeys : k[1] \in s.interest}
               /\ \A k \in DOMAIN s.out :
                    s.out[k].id \in 1 .. s.ids /\ s.out[k].state \in GroupStates
               /\ s.ids \in 0 .. MaxGroups
               /\ DOMAIN s.table0 \subseteq Ports[d] \cup {FromController}
               /\ \A p \in DOMAIN s.table0 :
                    s.table0[p] \in {Drop, Goto1} \cup {Tenant(v) : v \in VSwitches}
               /\ DOMAIN s.table1 \subseteq Keys
               /\ \A k \in DOMAIN s.table1 : s.table1[k].kind \in {"tenant", "out"}
               /\ DOMAIN s.groups \subseteq 1 .. MaxGroups
    <3>1. Typed(d, s)
      BY <1>1, <2>4, Before
    <3>2. \A p \in DOMAIN s.ports : s.ports[p] \in PortStates \ {"no_rule"}
      <4>1. CASE d \in online
        <5>1. PortsInStep(d, s, links)
          BY <1>1, <2>4, <4>1, Before DEF InStep
        <5> QED
          BY <5>1, PortStateType DEF PortsInStep
      <4>2. CASE d \notin online
        BY <1>1, <2>4, <4>2, Before, NothingIsEmpty DEF Unused
      <4> QED
        BY <4>1, <4>2
    <3>3. \A k \in DOMAIN s.table1 : s.table1[k].kind \in {"tenant", "out"}
      <4>1. \A v : Tenant(v).kind = "tenant"
        BY DEF Tenant
      <4>2. \A k \in DOMAIN s.table1 :
              s.table1[k].kind = "out" \/ \E v : s.table1[k] = Tenant(v)
        BY <3>1 DEF Typed, TypedTables, TenantRule
      <4> QED
        BY <4>1, <4>2
    <3>4. \A i \in s.installed : i[1] \in PortsAt(i[2], d) /\ i[2] \in s.interest
      BY <3>1 DEF Typed, TypedPorts
    <3> QED
      BY <3>1, <3>2, <3>3, <3>4 DEF Typed, TypedPorts, TypedTables, TypedGroups
  <2> QED
    BY <2>1, <2>2, <2>3, <2>4 DEF TypeOK
<1> QED
  BY <1>1, InductiveInvariant, PTL

(***************************************************************************)
(* next.at is never asked for a route that is not there: the virtual       *)
(* switches that lost a switch or a path go down, and out of the interest  *)
(* of every switch, before the rules are updated.                          *)
(***************************************************************************)
THEOREM RoutesAreKnown == Spec => []RoutesKnown
<1>1. IInv => RoutesKnown
  BY DEF IInv, Settled, RoutesKnown
<1> QED
  BY <1>1, InductiveInvariant, PTL

(***************************************************************************)
(* A packet is handed to a virtual switch only when it belongs to it: from *)
(* a host to the only user of the port, from a link to the slice of its    *)
(* tag, at a port of that virtual switch.                                  *)
(***************************************************************************)
THEOREM TenantsAreIsolated == Spec => []OwnTrafficOnly
<1>1. ASSUME IInv PROVE OwnTrafficOnly
  <2> SUFFICES ASSUME NEW d \in online, NEW p \in DOMAIN sw[d].ports
               PROVE  /\ Arrives(d, p, NoTag).kind = "tenant" =>
                           /\ ~Linked(links, d, p)
                           /\ {v \in sw[d].interest : p \in PortsAt(v, d)}
                                = {Arrives(d, p, NoTag).vs}
                      /\ Linked(links, d, p) =>
                           \A s \in Slices :
                             Arrives(d, p, SharedTags[s]).kind = "tenant" =>
                               /\ Slice[Arrives(d, p, SharedTags[s]).vs] = s
                               /\ p \in PortsAt(Arrives(d, p, SharedTags[s]).vs, d)
    BY DEF OwnTrafficOnly
  <2>1. /\ p \in DOMAIN sw[d].table0
        /\ \A v : ~Linked(links, d, p) /\ Users(d, sw[d], p) = {v}
             => sw[d].table0[p] = Tenant(v)
        /\ sw[d].table0[p].kind = "tenant" =>
             ~Linked(links, d, p) /\ \E v : Users(d, sw[d], p) = {v}
    BY <1>1, FirstTable
  <2>2. ASSUME Arrives(d, p, NoTag).kind = "tenant"
        PROVE  /\ ~Linked(links, d, p)
               /\ {v \in sw[d].interest : p \in PortsAt(v, d)} = {Arrives(d, p, NoTag).vs}
    <3>1. sw[d].table0[p].kind = "tenant" /\ Arrives(d, p, NoTag) = sw[d].table0[p]
      <4>1. sw[d].table0[p] \in {Drop, Goto1} \cup {Tenant(v) : v \in VSwitches}
        BY <1>1, <2>1, Before DEF Typed, TypedTables
      <4>2. /\ Drop.kind = "drop" /\ Goto1.kind = "goto_1" /\ Lost.kind = "lost"
            /\ \A v : Tenant(v).kind = "tenant"
        BY DEF Drop, Goto1, Lost, Tenant
      <4>3. sw[d].table0[p].kind \in {"drop", "goto_1", "tenant"}
        BY <4>1, <4>2
      <4> QED
        BY <2>1, <2>2, <4>2, <4>3 DEF Arrives
    <3>2. PICK v : Users(d, sw[d], p) = {v}
      BY <2>1, <3>1
    <3>3. Arrives(d, p, NoTag) = Tenant(v)
      BY <2>1, <3>1, <3>2
    <3>4. Arrives(d, p, NoTag).vs = v
      BY <3>3 DEF Tenant
    <3> QED
      BY <2>1, <3>1, <3>2, <3>4 DEF Users
  <2>3. ASSUME Linked(links, d, p), NEW s \in Slices,
               Arrives(d, p, SharedTags[s]).kind = "tenant"
        PROVE  /\ Slice[Arrives(d, p, SharedTags[s]).vs] = s
               /\ p \in PortsAt(Arrives(d, p, SharedTags[s]).vs, d)
    <3>1. d \in Switches /\ Typed(d, sw[d]) /\ p \in Ports[d]
      BY <1>1, Before DEF Typed, TypedPorts
    <3>2. PICK a : a = Table1(d, p, SharedTags[s])
      OBVIOUS
    <3>3. Arrives(d, p, SharedTags[s]) = a
      BY <1>1, <2>3, <3>2, ToTable1
    <3>4. PICK v \in VSwitches : p \in PortsAt(v, d) /\ Slice[v] = s /\ a = Tenant(v)
      BY <2>3, <3>1, <3>2, <3>3, SharedPacket
    <3> QED
      BY <3>3, <3>4 DEF Tenant
  <2> QED
    BY <2>2, <2>3
<1> QED
  BY <1>1, InductiveInvariant, PTL

(***************************************************************************)
(* A connected virtual switch gets the packets that come in on its ports:  *)
(* those without a tag from a port of its own, those with the tag of its   *)
(* slice from a link.                                                      *)
(***************************************************************************)
THEOREM TenantsAreServed == Spec => []TrafficArrives
<1>1. ASSUME IInv PROVE TrafficArrives
  <2> SUFFICES ASSUME NEW v \in VSwitches, vstate[v] = "connected",
                      NEW x \in DOMAIN PortMap[v], NEW e, e = PortMap[v][x], Usable(e)
               PROVE  Arrives(e[1], e[2], IF Linked(links, e[1], e[2])
                                          THEN SharedTags[Slice[v]] ELSE NoTag) = Tenant(v)
    BY DEF TrafficArrives
  <2>1. PICK d, p : e = <<d, p>> /\ d \in Switches /\ p \in Ports[d]
    BY FlowRulesAssumption DEF Ends
  <2>2. d \in Deps(v) /\ p \in PortsAt(v, d)
    <3>1. PortMap[v][x] = <<d, p>> /\ PortMap[v][x][1] = d
      BY <2>1
    <3>2. d \in Deps(v)
      BY <3>1 DEF Deps
    <3> QED
      BY <2>1, <3>1, <3>2 DEF PortsAt
  <2>3. d \in online /\ v \in sw[d].interest
    BY <1>1, <2>2, Before DEF Ready
  <2>4. p \in DOMAIN sw[d].ports
    BY <2>1 DEF Usable
  <2>5. v \in Users(d, sw[d], p)
    BY <2>2, <2>3 DEF Users
  <2>6. CASE Linked(links, d, p)
    <3>1. Slice[v] \in Slices
      BY DEF Slices
    <3>2. <<p, v>> \in sw[d].installed
      <4>1. sw[d].ports[p] = PortState(d, sw[d], links, p) /\ LinksInStep(d, sw[d])
        BY <1>1, <2>3, <2>4, Before DEF InStep, PortsInStep
      <4>2. sw[d].ports[p] = "link_rule"
        BY <2>6, <4>1 DEF PortState
      <4> QED
        BY <2>2, <2>3, <2>4, <4>1, <4>2 DEF LinksInStep
    <3>3. Typed(d, sw[d])
      BY <1>1, <2>1, Before
    <3>4. Table1(d, p, SharedTags[Slice[v]]) = Tenant(v)
      BY <2>1, <3>1, <3>2, <3>3, SharedPacket
    <3>5. Arrives(d, p, SharedTags[Slice[v]]) = Table1(d, p, SharedTags[Slice[v]])
      BY <1>1, <2>3, <2>4, <2>6, <3>1, ToTable1
    <3> QED
      BY <2>1, <2>6, <3>4, <3>5
  <2>7. CASE ~Linked(links, d, p)
    <3>1. Cardinality(Users(d, sw[d], p)) = 1
      BY <2>1, <2>7 DEF Usable, Users
    <3>2. IsFiniteSet(Users(d, sw[d], p))
      BY <1>1, <2>1, Before, UsersFinite DEF Typed, TypedPorts
    <3>3. Users(d, sw[d], p) = {v}
      BY <2>5, <3>1, <3>2, FS_Singleton
    <3>4. p \in DOMAIN sw[d].table0 /\ sw[d].table0[p] = Tenant(v)
      BY <1>1, <2>3, <2>4, <2>7, <3>3, FirstTable
    <3>5. Tenant(v).kind = "tenant"
      BY DEF Tenant
    <3>6. Arrives(d, p, NoTag) = Tenant(v)
      BY <3>4, <3>5 DEF Arrives
    <3> QED
      BY <2>1, <2>7, <3>6
  <2> QED
    BY <2>6, <2>7
<1> QED
  BY <1>1, InductiveInvariant, PTL
=============================================================================
