--------------------------- MODULE ShipmentAudit ----------------------------
(***************************************************************************)
(* Shipments, with the books an auditor would keep beside the tables: what *)
(* the stock should be, how often each shipment was stocked, how often     *)
(* update_status turned it to RECEIVED, and which requests got in each     *)
(* other's way.                                                            *)
(***************************************************************************)
EXTENDS Shipments

CONSTANTS
  MaxStocked,  \* bound of the model on the receipts of a shipment
  MaxDeaths    \* bound of the model on requests that die

VARIABLES
  ledger,      \* per row, the sum of all that was done to it
  stocked,     \* per shipment, the receipts that reached the stock
  entered,     \* per shipment, the saves of update_status that made it RECEIVED
  deaths,      \* requests that died
  crossed,     \* rows that changed between a receipt's read and its save
  overlapped   \* shipments that two requests had open at once

books == <<ledger, stocked, entered, deaths>>
auditVars == <<ledger, stocked, entered, deaths, crossed, overlapped>>

AInit ==
  /\ Init
  /\ ledger = quantity
  /\ stocked = [s \in Shipments |-> 0]
  /\ entered = [s \in Shipments |-> 0]
  /\ deaths = 0
  /\ crossed = {} /\ overlapped = {}

\* The units that the receipt of w brings into row r.
Brought(w, r) ==
  LET I == {i \in DOMAIN job[w].cargo : <<job[w].cargo[i].product, job[w].dest>> = r}
  IN  IF I = {} THEN 0 ELSE job[w].cargo[CHOOSE i \in I : TRUE].quantity

AService(w) ==
  /\ Service(w)
  /\ ledger' = [r \in Row |-> ledger[r] + (quantity'[r] - quantity[r])]
  /\ UNCHANGED <<stocked, entered, deaths>>

ACommitReceipt(w) ==
  /\ CommitReceipt(w)
  /\ ledger' = [r \in Row |-> ledger[r] + Brought(w, r)]
  /\ stocked' = [stocked EXCEPT ![job[w].shipment] = @ + 1]
  /\ UNCHANGED <<entered, deaths>>

\* A save of update_status makes s RECEIVED.
Enters(w, s) ==
  /\ job[w].kind \in {"received", "status"}
  /\ job[w].shipment = s
  /\ status[s] # Received /\ status'[s] = Received

ASaveShipment(w) ==
  /\ SaveShipment(w)
  /\ entered' = [s \in Shipments |-> entered[s] + (IF Enters(w, s) THEN 1 ELSE 0)]
  /\ UNCHANGED <<ledger, stocked, deaths>>

AKill(w) ==
  /\ deaths < MaxDeaths
  /\ Kill(w)
  /\ deaths' = deaths + 1
  /\ UNCHANGED <<ledger, stocked, entered>>

AUpdateStatus(w, s, new) ==
  /\ new = Received => stocked[s] < MaxStocked /\ entered[s] < MaxStocked
  /\ UpdateStatus(w, s, new)
  /\ UNCHANGED books

AOther(w) ==
  /\ \/ \E s \in Shipments :
          \/ \E to \in Warehouses, load \in Loads : Create(w, s, to, load)
          \/ \E new \in Statuses, to \in Warehouses : Patch(w, s, new, to)
          \/ Delete(w, s)
     \/ FindItemsGone(w) \/ Fetch(w) \/ Insert(w) \/ Store(w) \/ Overflow(w)
     \/ Destroy(w) \/ DeadlockAbort(w)
  /\ UNCHANGED books

ARequest(w) ==
  \/ \E s \in Shipments, new \in Statuses : AUpdateStatus(w, s, new)
  \/ AService(w) \/ ACommitReceipt(w) \/ ASaveShipment(w) \/ AKill(w)
  \/ AOther(w)

\* w has read row r and is about to save it.
ReliesOn(w, r) == AtStore(w) /\ Target(w) = r
Serves(w, s) == Active(w) /\ job[w].shipment = s

Observe ==
  /\ crossed' = crossed \cup
       {r \in Row : quantity'[r] # quantity[r] /\ \E w \in Workers : ReliesOn(w, r)'}
  /\ overlapped' = overlapped \cup
       {s \in Shipments : \E v, w \in Workers : v # w /\ Serves(v, s)' /\ Serves(w, s)'}

ANext == (\E w \in Workers : ARequest(w)) /\ Observe

ASpec == AInit /\ [][ANext]_<<vars, auditVars>>
-----------------------------------------------------------------------------
(* Properties.                                                             *)

\* The stock is the sum of what services and receipts did to it, whatever
\* dies in between. A single worker keeps it so; with several, receipts read
\* without the row lock that services.py promises and lose movements.
BooksBalance == quantity = ledger

\* Whatever overlaps, dies or overflows, movements are lost only on rows that
\* changed between the unlocked read of a receipt and its save.
MovementsKept == \A r \in Row \ crossed : quantity[r] = ledger[r]

\* w has stocked s and not saved it yet.
IsLate(w, s) == Serves(w, s) /\ job[w].kind = "received"
Late(s) == IF \E w \in Workers : IsLate(w, s) THEN 1 ELSE 0

\* Since the receipt commits before the status does, a shipment that no two
\* requests had open at once is stocked once for every time update_status made it
\* RECEIVED, plus at most once for every request that died, plus the one under way.
ReceiptsAccounted ==
  \A s \in Shipments \ overlapped :
    stocked[s] - Late(s) \in entered[s]..(entered[s] + deaths)

\* "If status is RECEIVED, update inventory": unless two requests had it open at
\* once, update_status never makes a shipment RECEIVED that it did not stock.
ReceivedMeansStocked ==
  [][\A w \in Workers, s \in Shipments \ overlapped :
       SaveShipment(w) /\ Enters(w, s) => job[w].kind = "received"]_<<vars, auditVars>>
=============================================================================
