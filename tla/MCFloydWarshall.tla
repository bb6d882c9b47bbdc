-------------------------- MODULE MCFloydWarshall --------------------------
(***************************************************************************)
(* All graphs of four switches, with links that have both ends or one.     *)
(* Port p of a switch leads to switch p or nowhere; port 1 of switch 1     *)
(* may lead back to it.                                                    *)
(***************************************************************************)
EXTENDS FloydWarshall

Ports4 == 1..4
Leads4 == [s \in 1..4 |-> [p \in 1..4 |-> IF s = p /\ s # 1 THEN {} ELSE {p}]]
=============================================================================
