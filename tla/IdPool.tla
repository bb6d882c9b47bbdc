------------------------------- MODULE IdPool -------------------------------
(***************************************************************************)
(* What IdAllocator promises its users (id_allocator.hpp:5-10): an id that *)
(* is handed out is in range and nobody holds it, and it can be handed out *)
(* again only after its holder returned it.                                *)
(***************************************************************************)
EXTENDS Integers

CONSTANTS Users, MinId, MaxId

VARIABLE held   \* held[u]: the id user u holds, or NoId

NoId == MinId - 1

Init == held = [u \in Users |-> NoId]

Allocate(u) ==
  /\ held[u] = NoId
  /\ \E i \in MinId .. MaxId :
       /\ \A w \in Users : held[w] # i
       /\ held' = [held EXCEPT ![u] = i]

Release(u) ==
  /\ held[u] # NoId
  /\ held' = [held EXCEPT ![u] = NoId]

Next == \E u \in Users : Allocate(u) \/ Release(u)

Spec == Init /\ [][Next]_held
=============================================================================
