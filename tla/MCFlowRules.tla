---------------------------- MODULE MCFlowRules ----------------------------
(***************************************************************************)
(* FlowRules on three switches in a triangle, with the largest ids and     *)
(* port numbers that a tag can tell from the reserved ones.                *)
(***************************************************************************)
EXTENDS FlowRules, TLC

CONSTANTS sw_a, sw_b, sw_c, v1, v2

Ids  == sw_a :> 0 @@ sw_b :> 126 @@ sw_c :> 5

\* Port 1 is the host's
PortsOf == sw_a :> {1, 2, 3} @@ sw_b :> {14, 15} @@ sw_c :> {2, 3}

AB == {<<sw_a, 2>>, <<sw_b, 14>>}
AC == {<<sw_a, 3>>, <<sw_c, 2>>}
BC == {<<sw_b, 15>>, <<sw_c, 3>>}
Triangle == {AB, AC, BC}

\* v1 has a host port on a and one end of the link between b and c, v2 has
\* both ends of that link
SliceOf == v1 :> 14 @@ v2 :> 1
Map == v1 :> (1 :> <<sw_a, 1>> @@ 2 :> <<sw_b, 15>>)
       @@ v2 :> (1 :> <<sw_c, 3>> @@ 2 :> <<sw_b, 15>>)

FlakyEnds == {<<sw_b, 15>>}
=============================================================================
