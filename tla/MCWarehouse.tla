---------------------------- MODULE MCWarehouse -----------------------------
(***************************************************************************)
(* Instances of Warehouse for TLC.                                         *)
(***************************************************************************)
EXTENDS Warehouse, TLC

CONSTANTS p1   \* a product

\* No bundles: additions, removals and transfers beside shipments.
NoBills == [b \in {} |-> {}]

\* A shipment of one item of one unit.
OneLine == {<<[product |-> p1, quantity |-> 1]>>}

WorkerSymmetry == Permutations(Workers)
=============================================================================
