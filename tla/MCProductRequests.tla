------------------------- MODULE MCProductRequests -------------------------
(***************************************************************************)
(* Instances of ProductRequests, with its audit, for TLC.                  *)
(***************************************************************************)
EXTENDS RequestAudit, TLC

RequestSymmetry ==
  Permutations(Workers) \cup Permutations(Runners) \cup Permutations(Products)

\* Where no runner executes tasks, nothing reads the queue, and a task that was
\* enqueued makes no difference to what follows: such states are not continued.
NoTaskWaits == \A t \in Task : queue[t] = 0
=============================================================================
