----------------------------- MODULE Shipments ------------------------------
(***************************************************************************)
(* Shipments (shipments/views.py), which share the Inventory rows with the *)
(* service layer but take no lock when they read them.                     *)
(*                                                                         *)
(* Requests of several workers interleave between database statements.     *)
(* get_object() reads a shipment and its items without a lock; what        *)
(* follows works on that copy and ends with a save of every column.        *)
(* Receiving runs a transaction of its own first: per item, an unlocked    *)
(* get_or_create of the destination's row, and a save of the whole row.    *)
(* A service call is one step of Stock: Inventory implements it, since a   *)
(* call holds the row locks of all it reads until it commits.              *)
(***************************************************************************)
EXTENDS Integers, Sequences

CONSTANTS
  Workers, Products, Warehouses, Bundles, Physical, Bills, Amounts, MaxInt,
  Shipments,   \* identifiers of shipments, never reused
  Underway,    \* the statuses before RECEIVED, which the code treats alike
  Loads,       \* the item lists a request may create a shipment with
  Nowhere,     \* the destination of what does not exist
  NoJob,       \* what an idle worker serves
  MaxMoved     \* bound of the model on the net movement of transfers

VARIABLES
  rows, quantity, reserved, moved,  \* the inventory tables, as in Stock
  status, dest, cargo,              \* per shipment: status, destination, items
  job,                              \* job[w]: the request w serves, its copy included
  pc,                               \* pc[w]: its next statement; 0 when idle
  stale,                            \* stale[w]: the quantity w read last
  held, draft                       \* rows w wrote or inserted, and their new quantity

S == INSTANCE Stock WITH rows <- rows, quantity <- quantity, reserved <- reserved,
                         moved <- moved

stockVars == <<rows, quantity, reserved, moved>>
shipmentVars == <<status, dest, cargo>>
txnVars == <<held, draft>>
vars == <<rows, quantity, reserved, moved, status, dest, cargo,
          job, pc, stale, held, draft>>

Row == Products \X Warehouses
Received == "RECEIVED"
Statuses == Underway \cup {Received}
Item == [product : Products, quantity : Nat]

(* ShipmentItem: unique per product; the column refuses negative numbers,  *)
(* and nothing else does, since create() runs no validator.                *)
ASSUME LoadsAssumption ==
  \A load \in Loads :
    /\ load \in Seq(Item)
    /\ \A i, j \in 1..Len(load) : load[i].product = load[j].product => i = j

ASSUME StatusAssumption ==
  /\ {"unborn", "deleted", Received} \cap Underway = {}
  /\ "CREATED" \in Underway

ASSUME NowhereAssumption == Nowhere \notin Warehouses

(* As in Inventory, what the service layer's own checks ensure.            *)
ASSUME CatalogueAssumption ==
  /\ Bundles \subseteq Products /\ Physical \subseteq Products
  /\ \A b \in Bundles :
       Bills[b] \subseteq Seq([component : Products, quantity : Nat \ {0}])
ASSUME AmountsAssumption == MaxInt \in Nat /\ Amounts \subseteq Nat \ {0}

Job ==
  [kind : {"receive", "received", "status", "patch", "delete"},
   shipment : Shipments, status : Statuses, dest : Warehouses, cargo : Seq(Item)]

ASSUME NoJobAssumption == NoJob \notin Job

Active(w) == pc[w] # 0
Exists(s) == status[s] \in Statuses

-----------------------------------------------------------------------------
(* The statements of _update_inventory_on_receipt: for item i, a read at   *)
(* 2i - 1 and a save at 2i.                                                *)

Receiving(w) == Active(w) /\ job[w].kind = "receive"
AtItem(w) == Receiving(w) /\ pc[w] <= 2 * Len(job[w].cargo)
AtFetch(w) == AtItem(w) /\ pc[w] % 2 = 1
AtStore(w) == AtItem(w) /\ pc[w] % 2 = 0
ItemAt(w) == job[w].cargo[(pc[w] + 1) \div 2]
Target(w) == <<ItemAt(w).product, job[w].dest>>
Blocked(w, r) == \E v \in Workers \ {w} : r \in held[v]

\* An absent row that another transaction has inserted, or a row it wrote.
WaitsFor(w, v) ==
  /\ w # v
  /\ \/ AtFetch(w) /\ Target(w) \notin rows
     \/ AtStore(w)
  /\ Target(w) \in held[v]

\* Fault: a database without a deadlock detector.
NeverDeadlocked(w) == FALSE

Deadlocked(w) ==
  \E ring \in SUBSET Workers :
    /\ w \in ring
    /\ \A u \in ring : \E v \in ring : WaitsFor(u, v)
    /\ \A v \in ring : \E u \in ring : WaitsFor(u, v)

-----------------------------------------------------------------------------
(* The tables a run starts from keep their reservations covered.           *)
Init ==
  /\ S!Init
  /\ \A r \in Row : reserved[r] <= quantity[r]
  /\ status = [s \in Shipments |-> "unborn"]
  /\ dest = [s \in Shipments |-> Nowhere]
  /\ cargo = [s \in Shipments |-> <<>>]
  /\ job = [w \in Workers |-> NoJob]
  /\ pc = [w \in Workers |-> 0]
  /\ stale = [w \in Workers |-> 0]
  /\ held = [w \in Workers |-> {}]
  /\ draft = [w \in Workers |-> [r \in Row |-> 0]]

\* A service call by an idle worker, which may refuse. It waits for the rows a
\* receipt has written.
Service(w) ==
  /\ ~Active(w)
  /\ S!Next \/ UNCHANGED stockVars
  /\ \A r \in Row : moved'[r] \in -MaxMoved..MaxMoved
  /\ \A r \in Row, v \in Workers :
       r \in held[v] => quantity'[r] = quantity[r] /\ (r \in rows' <=> r \in rows)
  /\ UNCHANGED <<shipmentVars, job, pc, stale, txnVars>>

\* create(): the origin, which must differ, has no further part in anything.
Create(w, s, to, load) ==
  /\ ~Active(w)
  /\ status[s] = "unborn"
  /\ \E origin \in Warehouses : origin # to
  /\ load # <<>>
  /\ status' = [status EXCEPT ![s] = "CREATED"]
  /\ dest' = [dest EXCEPT ![s] = to]
  /\ cargo' = [cargo EXCEPT ![s] = load]
  /\ UNCHANGED <<stockVars, job, pc, stale, txnVars>>

(* get_object(), and what the handler decides to save.                     *)

Open(w, kind, s, new, to) ==
  /\ ~Active(w)
  /\ Exists(s)
  /\ job' = [job EXCEPT ![w] = [kind |-> kind, shipment |-> s, status |-> new,
                                dest |-> to, cargo |-> cargo[s]]]
  /\ pc' = [pc EXCEPT ![w] = 1]
  /\ UNCHANGED <<stockVars, shipmentVars, stale, txnVars>>

\* Fault: update_status without the test of the old status, or with one that
\* only trusts a shipment that has not left.
ReceivesAlways(s, new) == new = Received
ReceivesFromTransit(s, new) == new = Received /\ status[s] # "CREATED"

Receives(s, new) == new = Received /\ status[s] # Received

UpdateStatus(w, s, new) ==
  Open(w, IF Receives(s, new) THEN "receive" ELSE "status", s, new, dest[s])

\* The serializer leaves status and destination writable, each on its own.
Patch(w, s, new, to) == Open(w, "patch", s, new, to)

Delete(w, s) == Open(w, "delete", s, status[s], dest[s])

-----------------------------------------------------------------------------
(* The receipt's transaction.                                              *)

Idle(w) ==
  /\ job' = [job EXCEPT ![w] = NoJob]
  /\ pc' = [pc EXCEPT ![w] = 0]
  /\ stale' = [stale EXCEPT ![w] = 0]

\* Fault: the end of a transaction that keeps its row locks.
ReleaseNothing(w) == UNCHANGED txnVars

Release(w) ==
  /\ held' = [held EXCEPT ![w] = {}]
  /\ draft' = [draft EXCEPT ![w] = [r \in Row |-> 0]]

Advance(w, q) ==
  /\ pc' = [pc EXCEPT ![w] = @ + 1]
  /\ stale' = [stale EXCEPT ![w] = q]
  /\ UNCHANGED <<stockVars, shipmentVars, job>>

\* The items are a query of their own (prefetch_related): those of a shipment that was
\* deleted after it was read are gone.
FindItemsGone(w) ==
  /\ Receiving(w)
  /\ pc[w] = 1
  /\ job[w].cargo # <<>> /\ cargo[job[w].shipment] = <<>>
  /\ job' = [job EXCEPT ![w].cargo = <<>>]
  /\ UNCHANGED <<stockVars, shipmentVars, pc, stale, txnVars>>

\* get_or_create finds the row as last committed, and does not lock it.
Fetch(w) ==
  /\ AtFetch(w)
  /\ Target(w) \in rows
  /\ Advance(w, quantity[Target(w)])
  /\ UNCHANGED txnVars

\* get_or_create inserts the row, unless another transaction is about to.
Insert(w) ==
  /\ AtFetch(w)
  /\ Target(w) \notin rows
  /\ ~Blocked(w, Target(w))
  /\ held' = [held EXCEPT ![w] = @ \cup {Target(w)}]
  /\ Advance(w, 0)
  /\ UNCHANGED draft

\* Fault: the item replaces what was there.
StoreOnly(w) ==
  /\ AtStore(w)
  /\ ~Blocked(w, Target(w))
  /\ held' = [held EXCEPT ![w] = @ \cup {Target(w)}]
  /\ draft' = [draft EXCEPT ![w][Target(w)] = ItemAt(w).quantity]
  /\ Advance(w, 0)

\* inventory.quantity += item.quantity and a save of the row as it was read.
Store(w) ==
  /\ AtStore(w)
  /\ ~Blocked(w, Target(w))
  /\ stale[w] + ItemAt(w).quantity <= MaxInt
  /\ held' = [held EXCEPT ![w] = @ \cup {Target(w)}]
  /\ draft' = [draft EXCEPT ![w][Target(w)] = stale[w] + ItemAt(w).quantity]
  /\ Advance(w, 0)

\* The rows w wrote become visible.
Publish(w) ==
  /\ rows' = rows \cup held[w]
  /\ quantity' = [r \in Row |-> IF r \in held[w] THEN draft[w][r] ELSE quantity[r]]
  /\ UNCHANGED <<reserved, moved>>

\* The receipt commits; the handler goes on to save the shipment.
CommitReceipt(w) ==
  /\ Receiving(w)
  /\ pc[w] = 2 * Len(job[w].cargo) + 1
  /\ Publish(w)
  /\ Release(w)
  /\ job' = [job EXCEPT ![w].kind = "received"]
  /\ pc' = [pc EXCEPT ![w] = 1]
  /\ UNCHANGED <<shipmentVars, stale>>

\* The request ends without a further statement; the database rolls back.
\* Fault: a receipt that is tried again until it succeeds.
AbandonRetrying(w) ==
  /\ Release(w)
  /\ pc' = [pc EXCEPT ![w] = 1]
  /\ stale' = [stale EXCEPT ![w] = 0]
  /\ UNCHANGED <<stockVars, shipmentVars, job>>

\* Fault: without transaction.atomic, what was saved stays.
AbandonPartly(w) ==
  Idle(w) /\ Release(w) /\ Publish(w) /\ UNCHANGED shipmentVars

Abandon(w) ==
  Idle(w) /\ Release(w) /\ UNCHANGED <<stockVars, shipmentVars>>

\* DataError: the column cannot hold the sum.
Overflow(w) ==
  /\ AtStore(w)
  /\ ~Blocked(w, Target(w))
  /\ stale[w] + ItemAt(w).quantity > MaxInt
  /\ Abandon(w)

DeadlockAbort(w) == Deadlocked(w) /\ Abandon(w)

\* The death of the worker; a deadlock with a service call ends it as well.
Kill(w) == Active(w) /\ Abandon(w)

(* The last statement of a request.                                        *)

\* Fault: a save with force_update, which does not insert a deleted row again.
SaveExisting(w) ==
  /\ Active(w) /\ job[w].kind \in {"received", "status", "patch"}
  /\ Exists(job[w].shipment)
  /\ status' = [status EXCEPT ![job[w].shipment] = job[w].status]
  /\ dest' = [dest EXCEPT ![job[w].shipment] = job[w].dest]
  /\ Idle(w)
  /\ UNCHANGED <<stockVars, cargo, txnVars>>

\* save() writes every column of the copy; where the row has been deleted
\* meanwhile it inserts it again, without the items.
SaveShipment(w) ==
  LET s == job[w].shipment IN
  /\ Active(w)
  /\ job[w].kind \in {"received", "status", "patch"}
  /\ status' = [status EXCEPT ![s] = job[w].status]
  /\ dest' = [dest EXCEPT ![s] = job[w].dest]
  /\ Idle(w)
  /\ UNCHANGED <<stockVars, cargo, txnVars>>

\* The deletion cascades to the items, and spares the stock.
Destroy(w) ==
  LET s == job[w].shipment IN
  /\ Active(w)
  /\ job[w].kind = "delete"
  /\ status' = [status EXCEPT ![s] = "deleted"]
  /\ dest' = [dest EXCEPT ![s] = Nowhere]
  /\ cargo' = [cargo EXCEPT ![s] = <<>>]
  /\ Idle(w)
  /\ UNCHANGED <<stockVars, txnVars>>

-----------------------------------------------------------------------------
Request(w) ==
  \E s \in Shipments :
    \/ \E to \in Warehouses, load \in Loads : Create(w, s, to, load)
    \/ \E new \in Statuses : UpdateStatus(w, s, new)
    \/ \E new \in Statuses, to \in Warehouses : Patch(w, s, new, to)
    \/ Delete(w, s)

Call(w) == Request(w) \/ Service(w)

Proceed(w) ==
  \/ FindItemsGone(w) \/ Fetch(w) \/ Insert(w) \/ Store(w)
  \/ CommitReceipt(w) \/ Overflow(w) \/ SaveShipment(w) \/ Destroy(w)

Next == \E w \in Workers : Call(w) \/ Proceed(w) \/ DeadlockAbort(w) \/ Kill(w)

Spec == Init /\ [][Next]_vars

(* PostgreSQL queues the waiters of a row, so that none is overtaken for   *)
(* ever (strong fairness), and its detector finds every ring of receipts.  *)
(* Nothing forces a client to call, or a worker to die.                    *)
Fairness ==
  /\ \A w \in Workers : SF_vars(Proceed(w))
  /\ WF_vars(\E w \in Workers : DeadlockAbort(w))

-----------------------------------------------------------------------------
(* Properties.                                                             *)

TypeOK ==
  /\ rows \in SUBSET Row
  /\ quantity \in [Row -> 0..MaxInt]
  /\ reserved \in [Row -> 0..MaxInt]
  /\ status \in [Shipments -> Statuses \cup {"unborn", "deleted"}]
  /\ dest \in [Shipments -> Warehouses \cup {Nowhere}]
  /\ cargo \in [Shipments -> Seq(Item)]
  /\ job \in [Workers -> Job \cup {NoJob}]
  /\ pc \in [Workers -> Nat]
  /\ stale \in [Workers -> 0..MaxInt]
  /\ held \in [Workers -> SUBSET Row]
  /\ draft \in [Workers -> [Row -> 0..MaxInt]]
  /\ \A w \in Workers :
       IF Active(w) THEN job[w] \in Job ELSE job[w] = NoJob /\ held[w] = {}
  /\ \A w \in Workers : held[w] # {} => Receiving(w)

\* Receipts lose what services do between their read and their save, and
\* services work on what receipts saved; still no row ever holds less than
\* what is reserved of it.
StockCovered == \A r \in Row : reserved[r] <= quantity[r]

\* Every request ends, in a save or in an error, although two receipts that list the
\* same products in different orders wait for each other, and a receipt may overflow
\* or find its shipment deleted.
EveryRequestEnds == \A w \in Workers : Active(w) ~> ~Active(w)
=============================================================================
