-------------------------- MODULE MCVirtualSwitch --------------------------
(***************************************************************************)
(* VirtualSwitch on small networks, shaped like those of configuration/.   *)
(***************************************************************************)
EXTENDS VirtualSwitch, TLC

CONSTANTS d1, d2, d3, v1, v2

\* Three switches in a triangle (the cliques of configuration/ in small), so
\* that a lost link can be bypassed: a virtual switch on one of them and one
\* that spans two.
Deps3   == v1 :> {d1} @@ v2 :> {d1, d2}
Cables3 == {{d1, d2}, {d1, d3}, {d2, d3}}

\* Two switches with a link, as in configuration/linear_2.json
Cables2 == {{d1, d2}}

\* One switch shared by two virtual switches (configuration/single_4.json)
SingleDeps == v1 :> {d1} @@ v2 :> {d1}
NoCables   == {}
=============================================================================
