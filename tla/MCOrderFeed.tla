---------------------------- MODULE MCOrderFeed -----------------------------
(***************************************************************************)
(* Two workers, two versions of an order with two lines each.              *)
(***************************************************************************)
EXTENDS OrderFeed
=============================================================================
