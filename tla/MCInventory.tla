---------------------------- MODULE MCInventory -----------------------------
(***************************************************************************)
(* Instances of Inventory for TLC: the catalogues of the runs.             *)
(***************************************************************************)
EXTENDS Inventory, TLC

CONSTANTS c1, c2, b1   \* two components, a bundle

L(p, n) == [component |-> p, quantity |-> n]

\* No bundles: additions, removals and transfers.
NoBills == [b \in {} |-> {}]

\* Two bundles whose bills the catalogue endpoints edit, newest component first: c2 is
\* in the bill of b1 when it becomes a bundle itself, so that bundles share c1 and nest;
\* of the two components of b1, the one needed most varies.
EditedBills == [b \in {b1, c2} |->
  IF b = b1 THEN {<<L(c2, 1), L(c1, 2)>>, <<L(c2, 2), L(c1, 1)>>}
            ELSE {<<>>, <<L(c1, 1)>>}]

\* One bundle, one bill.
OneBill == [b \in {b1} |-> {<<L(c1, 1)>>}]

WorkerSymmetry == Permutations(Workers)
=============================================================================
