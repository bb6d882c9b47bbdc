----------------------------- MODULE MCTopology -----------------------------
(***************************************************************************)
(* Topology on two switches with a cable, as in                            *)
(* configuration/linear_2.json.                                            *)
(***************************************************************************)
EXTENDS Topology, TLC

CONSTANTS s1, s2, p1, p2

\* One cable between two switches
Owner == p1 :> s1 @@ p2 :> s2
Cable == {{p1, p2}}
=============================================================================
