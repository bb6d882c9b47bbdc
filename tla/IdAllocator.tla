---------------------------- MODULE IdAllocator ----------------------------
(***************************************************************************)
(* The template class IdAllocator<min,max> of id_allocator.hpp: hands out  *)
(* the ids of physical switches, virtual switches and OpenFlow groups.     *)
(*                                                                         *)
(* An allocator is a record [next, returned].  Every id in MinId..next-1   *)
(* that is not in "returned" is in use; "next" only shrinks when a run of  *)
(* returned ids reaches it.  free_id does not look whether the id is in    *)
(* use: one that is freed twice may lie beyond "next" in "returned".       *)
(***************************************************************************)
EXTENDS Integers, FiniteSets

CONSTANTS MinId,   \* template argument min
          MaxId    \* template argument max, the largest id handed out

ASSUME IdRangeAssumption == MinId \in Nat /\ MaxId \in Nat /\ MinId <= MaxId

InitAlloc == [next |-> MinId, returned |-> {}]

\* Seeded bugs: the bound of new_id is off by one in either direction
ExhaustedLate(a)  == a.returned = {} /\ a.next > MaxId + 1
ExhaustedEarly(a) == a.returned = {} /\ a.next >= MaxId

\* new_id throws std::out_of_range
Exhausted(a) == a.returned = {} /\ a.next > MaxId

\* The id new_id returns: the lowest returned one, else a fresh one.
NewId(a) ==
  IF a.returned = {} THEN a.next
  ELSE CHOOSE n \in a.returned : \A m \in a.returned : n <= m

\* The allocator after a new_id that does not throw
AfterNew(a) ==
  IF a.returned = {} THEN [a EXCEPT !.next = @ + 1]
  ELSE [a EXCEPT !.returned = @ \ {NewId(a)}]

\* free_id: the ids next-1, next-2, ... leave the set while they are in it
AfterFree(a, id) ==
  LET ret == a.returned \cup {id}
      n   == CHOOSE k \in MinId .. a.next :
               k .. (a.next - 1) \subseteq ret /\ (k - 1) \notin ret
  IN  [next |-> n, returned |-> ret \ (n .. (a.next - 1))]

\* The ids in use, as the allocator sees it
Allocated(a) == (MinId .. (a.next - 1)) \ a.returned
=============================================================================
