---------------------------- MODULE MCOrderSync ----------------------------
(***************************************************************************)
(* Two workers at one order, with either platform.                         *)
(***************************************************************************)
EXTENDS OrderSync
=============================================================================
