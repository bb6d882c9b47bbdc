------------------------------ MODULE OpenFlow ------------------------------
(***************************************************************************)
(* What an OpenFlow 1.3 switch does with flow_mod and group_mod messages   *)
(* and with packets.  The switch is not part of the repository; these are  *)
(* the rules that both the controllers above and the hypervisor below rely *)
(* on.  A switch is a record of its flow entries and its groups.           *)
(*                                                                         *)
(* An entry has a match (table, in, meta) with a priority, and instructions*)
(* in the order in which the standard executes them: apply, clear, write,  *)
(* wmeta, goto.  The metadata is a function of named bit fields: a match   *)
(* names the fields it looks at, a write those it changes.                 *)
(***************************************************************************)
EXTENDS Integers, Sequences, SequencesExt

AnyPort   == -1     \* no match on in_port
NoTable   == -1     \* no goto-table
AllTables == 255    \* OFPTT_ALL
AllGroups == -1     \* OFPG_ALL, an id that no group has

NoAction == [kind |-> "none", id |-> 0]
Output(port) == [kind |-> "output", id |-> port]
Group(g)     == [kind |-> "group",  id |-> g]

\* An action set holds at most one action of a type
NoActions == [output |-> NoAction, group |-> NoAction]

\* A group in the set makes the output void
Executed(set) == IF set.group # NoAction THEN set.group ELSE set.output

-----------------------------------------------------------------------------
\* Flow entries

SameEntry(m, f) ==
  /\ m.table = f.table /\ m.prio = f.prio
  /\ m.in = f.in /\ m.meta = f.meta

\* A modify or delete message that is not strict covers what it is no more
\* specific than
Covers(m, f) ==
  /\ m.table \in {f.table, AllTables}
  /\ m.in \in {AnyPort, f.in}
  /\ DOMAIN m.meta \subseteq DOMAIN f.meta
  /\ \A x \in DOMAIN m.meta : m.meta[x] = f.meta[x]

GroupsIn(actions) == {a.id : a \in {b \in actions : b.kind = "group"}}
GroupsOfEntry(f)  == GroupsIn({f.apply, f.write.output, f.write.group})

WithInstructions(f, m) ==
  [table |-> f.table, prio |-> f.prio, in |-> f.in, meta |-> f.meta,
   apply |-> m.apply, clear |-> m.clear, write |-> m.write,
   wmeta |-> m.wmeta, goto |-> m.goto]

\* An entry that names a group the switch does not have is refused
FlowMod(switch, command, m) ==
  [flows |->
     IF command = "delete"
     THEN {f \in switch.flows : ~ Covers(m, f)}
     ELSE IF ~ (GroupsOfEntry(m) \subseteq DOMAIN switch.groups)
     THEN switch.flows
     ELSE IF command = "modify"
     THEN {IF Covers(m, f) THEN WithInstructions(f, m) ELSE f :
             f \in switch.flows}
     ELSE {f \in switch.flows : ~ SameEntry(m, f)} \cup {m},
   groups |-> switch.groups]

-----------------------------------------------------------------------------
\* Groups: a group is the sequence of the action sets of its buckets

GroupsOfBuckets(buckets) == GroupsIn({Executed(b) : b \in ToSet(buckets)})

Chained(switch, g) ==
  \E h \in DOMAIN switch.groups \ {g} : g \in GroupsOfBuckets(switch.groups[h])

\* With a group go the flow entries that use it; a group that another group
\* uses stays
DeleteGroups(switch, gone) ==
  [flows  |-> {f \in switch.flows : GroupsOfEntry(f) \cap gone = {}},
   groups |-> [g \in DOMAIN switch.groups \ gone |-> switch.groups[g]]]

GroupMod(switch, command, g, buckets) ==
  IF command = "delete"
  THEN IF g = AllGroups THEN DeleteGroups(switch, DOMAIN switch.groups)
       ELSE IF Chained(switch, g) THEN switch
       ELSE DeleteGroups(switch, {g} \cap DOMAIN switch.groups)
  ELSE IF \/ ~ (GroupsOfBuckets(buckets) \subseteq DOMAIN switch.groups \ {g})
          \/ (command = "add") # (g \notin DOMAIN switch.groups)
  THEN switch
  ELSE [flows  |-> switch.flows,
        groups |-> [h \in DOMAIN switch.groups \cup {g} |->
                      IF h = g THEN buckets ELSE switch.groups[h]]]

-----------------------------------------------------------------------------
\* Packets

\* The ports an action leads to, through up to three groups
Expand(switch, actions) ==
  UNION {IF a.kind = "group"
         THEN {Executed(b) : b \in ToSet(switch.groups[a.id])}
         ELSE {a} : a \in actions}

Emitted(switch, action) ==
  {a.id : a \in Expand(switch, Expand(switch, Expand(switch, {action})))
                  \ {NoAction}}

Hits(switch, p) ==
  {f \in switch.flows : /\ f.table = p.table /\ f.in \in {AnyPort, p.in}
                        /\ \A x \in DOMAIN f.meta : f.meta[x] = p.meta[x]}

\* The higher priorities win; among equals the switch may take any
BestHits(switch, p) ==
  {f \in Hits(switch, p) : \A h \in Hits(switch, p) : h.prio <= f.prio}

\* What is in the set is kept unless an action of the same type replaces it
Merge(old, new) ==
  [type \in DOMAIN old |-> IF new[type] = NoAction THEN old[type] ELSE new[type]]

\* A packet after the entry f.  Without a goto its action set is executed.
After(switch, f, p) ==
  LET set  == Merge(IF f.clear THEN NoActions ELSE p.set, f.write)
      sent == p.sent \cup Emitted(switch, f.apply)
  IN [p EXCEPT !.table = f.goto, !.meta = f.wmeta @@ @, !.set = set,
               !.sent = IF f.goto = NoTable
                        THEN sent \cup Emitted(switch, Executed(set))
                        ELSE sent]

\* What may become of the packet p; a packet that no entry matches is dropped.
\* A goto leads to a later table only, so one pass over them is enough.
Outcomes(switch, tables, p) ==
  FoldLeft(LAMBDA ps, t :
             UNION {IF q.table = t /\ Hits(switch, q) # {}
                    THEN {After(switch, f, q) : f \in BestHits(switch, q)}
                    ELSE {q} : q \in ps},
           {p}, tables)
=============================================================================
