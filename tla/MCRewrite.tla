----------------------------- MODULE MCRewrite ------------------------------
(***************************************************************************)
(* Rewrite for two virtual switches on two physical ones that share a port *)
(* and use the same group id.                                              *)
(***************************************************************************)
EXTENDS Rewrite

CONSTANTS sw_a, sw_b

SwitchesOf == 1 :> <<sw_a, sw_b>> @@ 2 :> <<sw_b, sw_a>>
Ports == 1 :> (sw_a :> (1 :> 1 @@ 2 :> 3) @@ sw_b :> (3 :> 5))
         @@ 2 :> (sw_b :> (1 :> 5) @@ sw_a :> (2 :> 4))
Ids   == [s \in {sw_a, sw_b} |-> 1 :> (Flood :> 1 @@ 1 :> 2 @@ 2 :> 3 @@ 3 :> 4)
                           @@ 2 :> (Flood :> 5 @@ 1 :> 6 @@ 2 :> 7)] @@ <<>>
First == [s \in {sw_a, sw_b} |-> 8] @@ <<>>

\* An entry without instructions
Entry(table, prio, in, meta) ==
  [table |-> table, prio |-> prio, in |-> in, meta |-> meta,
   apply |-> NoAction, clear |-> FALSE, write |-> NoActions,
   wmeta |-> <<>>, goto |-> NoTable]
WriteOutput(p) == [NoActions EXCEPT !.output = Output(p)]
WriteGroup(g)  == [NoActions EXCEPT !.group = Group(g)]

\* Table 0 of virtual switch 1 may put a group in the action set, table 1 may
\* put more into it or clear it, and table 2 writes an output
GroupFirst == [Entry(0, 1, AnyPort, <<>>) EXCEPT
                 !.write = WriteGroup(7), !.wmeta = [user |-> 1], !.goto = 1]
FromPort3  == [Entry(0, 2, 3, <<>>) EXCEPT
                 !.apply = Output(Controller), !.write = WriteOutput(1),
                 !.goto = 1]
Both       == [Entry(1, 1, AnyPort, <<>>) EXCEPT !.goto = 2,
                 !.write = [output |-> Output(3), group |-> Group(8)]]
Clears     == [Entry(1, 1, AnyPort, [user |-> 1]) EXCEPT
                 !.clear = TRUE, !.goto = 2]
Floods     == [Entry(2, 1, AnyPort, <<>>) EXCEPT !.write = WriteOutput(Flood)]
\* These are refused
ExactMeta  == Entry(2, 1, AnyPort, [user |-> 0, high |-> 0])
NoSuchPort == [Entry(2, 1, AnyPort, <<>>) EXCEPT
                 !.write = [output |-> Output(9), group |-> Group(8)]]

FromPort1  == [Entry(0, 1, 1, <<>>) EXCEPT !.apply = Group(7),
                 !.write = WriteOutput(2)]

Flow(command, entry) == [command |-> command, entry |-> entry]
Messages ==
  1 :> ({Flow("add", e) : e \in {GroupFirst, FromPort3, Both,
                                 Clears, Floods, ExactMeta, NoSuchPort}}
        \cup {Flow("modify", Both), Flow("delete", Entry(1, 0, AnyPort, <<>>))})
  @@ 2 :> {Flow("add", FromPort1)}

GroupMsg(command, g, buckets) ==
  [command |-> command, group |-> g, buckets |-> buckets]
Groups ==
  1 :> {GroupMsg("add", 7, <<WriteOutput(1), WriteOutput(3)>>),
        GroupMsg("add", 8, <<[output |-> Output(2), group |-> Group(7)]>>),
        GroupMsg("add", 8, <<WriteOutput(9)>>),
        GroupMsg("delete", 7, <<>>), GroupMsg("delete", 8, <<>>)}
  @@ 2 :> {GroupMsg("add", 7, <<WriteOutput(1)>>)}

TableList == <<0, 1, 2>>

Packets == 1 :> {} @@ 2 :> {Group(7)}

\* The conditions of the refinement are those of these messages
ASSUME ConditionsMet == FlowMods = Messages => TablesNamed /\ NumbersApart

-----------------------------------------------------------------------------
\* Virtual port numbers that are physical port numbers of the other switch
SwappedPorts == 1 :> (sw_a :> (1 :> 2 @@ 3 :> 5) @@ sw_b :> (2 :> 1))
                @@ 2 :> (sw_b :> (1 :> 5) @@ sw_a :> (2 :> 4))
FromPort1Only == 1 :> {Flow("add", [Entry(0, 1, 1, <<>>) EXCEPT
                                      !.write = WriteOutput(2)])}
                 @@ 2 :> {Flow("add", FromPort1)}

\* An entry that clears the action set and writes an output
ClearsAndWrites ==
  1 :> {Flow("add", e) :
          e \in {GroupFirst, [Clears EXCEPT !.write = WriteOutput(2),
                                           !.goto = NoTable]}}
  @@ 2 :> {Flow("add", FromPort1)}
=============================================================================
