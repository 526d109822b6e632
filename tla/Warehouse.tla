------------------------------ MODULE Warehouse ------------------------------
(***************************************************************************)
(* The inventory services and the shipment requests at once: Inventory's   *)
(* statements, with their row locks, interleaved with those of Shipments,  *)
(* which read without locks and lock what they write. One pool of workers  *)
(* serves both, and one table of row locks makes everyone wait.            *)
(*                                                                         *)
(* Shipments sees a service call as one step of Stock. Here a call takes   *)
(* as many steps as it has statements, receipts run between them, and the  *)
(* whole implements Shipments.                                             *)
(***************************************************************************)
EXTENDS Inventory

CONSTANTS
  Shipments, Underway, Loads, Nowhere, NoJob,   \* as in Shipments
  MaxNet       \* bound of the model: no transfer commits beyond this net movement

VARIABLES
  status, dest, cargo,  \* the shipments, as in Shipments
  job,         \* job[w]: the shipment request w serves
  step,        \* step[w]: its next statement; 0 when w serves none
  stale,       \* stale[w]: the quantity it read last
  taken,       \* taken[w]: the rows it has written or inserted
  saved        \* saved[w][r]: their new quantity

R == INSTANCE Shipments WITH
       pc <- step, held <- taken, draft <- saved, MaxMoved <- MaxNet

shipmentVars == <<status, dest, cargo, job, step, stale, taken, saved>>
allVars == <<rows, quantity, reserved, moved, bom, req, pc, held, draft,
             status, dest, cargo, job, step, stale, taken, saved>>

(* As in Shipments, of the constants that Inventory does not have.         *)
ASSUME LoadsAssumption ==
  \A load \in Loads :
    /\ load \in Seq(R!Item)
    /\ \A i, j \in 1..Len(load) : load[i].product = load[j].product => i = j

ASSUME StatusAssumption ==
  /\ {"unborn", "deleted", "RECEIVED"} \cap Underway = {}
  /\ "CREATED" \in Underway

ASSUME NowhereAssumption == Nowhere \notin Warehouses

ASSUME NoJobAssumption == NoJob \notin R!Job

-----------------------------------------------------------------------------
(* Row locks. select_for_update(), an INSERT and an UPDATE all take one,   *)
(* and keep it to the end of the transaction, whoever issues them.         *)

\* Fault: receipts write rows without locking them.
OnlyServicesHave(w) == held[w]

Has(w) == held[w] \cup taken[w]

\* The row that w's next statement cannot touch while another transaction has
\* it. A locking get does not see a row another transaction has inserted.
Wants(w) ==
  {r \in Row :
     \/ /\ Active(w) /\ pc[w] <= Len(Plan(req[w]))
        /\ Statement(w).row = r
        /\ Statement(w).act = "put" \/ Exists(w, r)
     \/ R!AtFetch(w) /\ R!Target(w) = r /\ r \notin rows
     \/ R!AtStore(w) /\ R!Target(w) = r}

WaitsOn(u, v) == u # v /\ Wants(u) \cap Has(v) # {}
Waiting(w) == \E v \in Workers : WaitsOn(w, v)

-----------------------------------------------------------------------------
\* The tables a run starts from keep their reservations covered, as in Shipments.
Start == Init /\ R!Init

Idle(w) == ~Active(w) /\ ~R!Active(w)

\* A worker begins a service call, executes its next statement, or ends it: the
\* deadlock detector, which here sees rings of both kinds, rolls back like a death.
ServiceCall(w) == Idle(w) /\ Call(w) /\ UNCHANGED shipmentVars

ServiceStep(w) ==
  /\ ~Waiting(w)
  /\ Proceed(w)
  /\ \A r \in Row : moved'[r] \in -MaxNet..MaxNet
  /\ UNCHANGED shipmentVars

ServiceEnd(w) == Kill(w) /\ UNCHANGED shipmentVars

\* The same of a shipment request.
ShipmentCall(w) == Idle(w) /\ R!Request(w) /\ UNCHANGED <<bom, txnVars>>

ShipmentStep(w) == ~Waiting(w) /\ R!Proceed(w) /\ UNCHANGED <<bom, txnVars>>

ShipmentEnd(w) == R!Kill(w) /\ UNCHANGED <<bom, txnVars>>

Edit(b, bill) == EditBill(b, bill) /\ UNCHANGED shipmentVars

Step ==
  \/ \E w \in Workers :
       \/ ServiceCall(w) \/ ServiceStep(w) \/ ServiceEnd(w)
       \/ ShipmentCall(w) \/ ShipmentStep(w) \/ ShipmentEnd(w)
  \/ \E b \in Bundles : \E bill \in Bills[b] : Edit(b, bill)

Together == Start /\ [][Step]_allVars

-----------------------------------------------------------------------------
(* Properties; DraftsFresh and NeverNegative of Inventory are others.      *)

\* No row is locked or written by two transactions, of either kind, at a time,
\* and no worker serves two requests.
RowsApart ==
  /\ \A w \in Workers : ~Active(w) \/ ~R!Active(w)
  /\ \A v, w \in Workers : v # w => Has(v) \cap Has(w) = {}

\* A service call may be thought of as one step even beside receipts, which
\* take no lock when they read: this is Shipments.
ImplementsShipments == R!Spec
=============================================================================
