-------------------------- MODULE MCShipmentAudit ---------------------------
(***************************************************************************)
(* Instances of ShipmentAudit for TLC, with the constants of MCShipments.  *)
(***************************************************************************)
EXTENDS MCShipments, ShipmentAudit
=============================================================================
