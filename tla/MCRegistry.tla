----------------------------- MODULE MCRegistry -----------------------------
(***************************************************************************)
(* Registry on a small instance: fewer ids than connections, so that ids   *)
(* are reused in every order and the allocator can run out.                *)
(***************************************************************************)
EXTENDS Registry, FiniteSetsExt, TLC

Symmetry == Permutations(Conns) \cup Permutations(Dpids)

\* Once a handler of a stopped connection has run, ids may be held twice or lie
\* beyond the allocator's next, and the states multiply.  From there on, at most
\* MaxQueuedAfter completion at a time is queued.
MaxQueuedAfter == 1

QueuedAfterStale ==
  stale => MapThenSumSet(LAMBDA c : Len(ready[c]), Conns) <= MaxQueuedAfter
=============================================================================
