---------------------------- MODULE MCShipments -----------------------------
(***************************************************************************)
(* Instances of Shipments for TLC.                                         *)
(***************************************************************************)
EXTENDS Shipments, TLC

CONSTANTS p1, p2   \* products

L(p, n) == [product |-> p, quantity |-> n]

NoBills == [b \in {} |-> {}]

OneLine == {<<L(p1, 1)>>}

\* create() accepts a quantity of 0, too.
EitherLine == {<<L(p1, 0)>>, <<L(p1, 1)>>}

BothLines == {<<L(p1, 1), L(p2, 2)>>}

\* Items are received in the order of their creation, so two shipments may
\* list the same products in opposite orders. A quantity matters only in that the
\* column may be unable to hold it.
OppositeLines ==
  {<<L(p1, 0), L(p2, n)>> : n \in {0, 1}} \cup {<<L(p2, 0), L(p1, n)>> : n \in {0, 1}}

\* Two shipments to one warehouse, created before, that list the same products in
\* opposite orders.
RingsInit ==
  /\ S!Init
  /\ status = [s \in Shipments |-> "CREATED"]
  /\ dest \in [Shipments -> Warehouses]
  /\ cargo \in [Shipments -> OppositeLines]
  /\ \A s, t \in Shipments : s # t => cargo[s][1] # cargo[t][1]
  /\ job = [w \in Workers |-> NoJob]
  /\ pc = [w \in Workers |-> 0]
  /\ stale = [w \in Workers |-> 0]
  /\ held = [w \in Workers |-> {}]
  /\ draft = [w \in Workers |-> [r \in Row |-> 0]]

RingsSpec == RingsInit /\ [][Next]_vars /\ Fairness

ShipmentSymmetry == Permutations(Shipments) \cup Permutations(Workers)

\* Where the loads, too, treat products and warehouses alike.
FullSymmetry ==
  ShipmentSymmetry \cup Permutations(Products) \cup Permutations(Warehouses)
=============================================================================
