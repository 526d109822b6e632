# Formal models of the Omni Link Django API

TLA+ models of the warehouse back end in `src/` (Django REST framework on
PostgreSQL, served by gunicorn, with Celery tasks), the TLC runs that check
them on small instances, and TLAPS proofs of what holds for every instance.

## 1. The system

| Component | State it keeps | Operations | What is hard |
|---|---|---|---|
| Inventory services (`products/services.py`, called from `products/views.py`) | `Inventory` rows: quantity and reserved per (product, warehouse); `InventoryTransfer` records | add, remove, transfer, assemble, disassemble | Row locks, statements of several requests interleaving, lock order, rollback in the middle, integer range |
| Catalogue (`products/models.py`, `serializers.py`) | products (`is_physical`, `is_bundle`), bills of materials (`ProductBundle`), categories, warehouses, markets | create, edit, delete; replace a bill | A bill edited while a service call that has read it runs; nested or virtual components |
| Inventory editing (`InventorySerializer.update`) | the same rows | PATCH of quantity, reserved, warehouse; merge of two rows | Full save of a row read without a lock |
| Shipments (`shipments/`) | shipments with status and items; the same rows | create, update_status, receipt, generic PATCH and DELETE | Unlocked read-modify-write of stock; stock and status committed apart; repeated receipt |
| Product requests (`product_requests/`) | requests, timeline events, e-mails | create, approve, reject, ready, collect, PATCH; three notification tasks | Decisions on stale reads; e-mail, event and status not atomic; best-effort enqueue |
| Shopify webhooks and imports (`integrations/services.py` 1719-2481) | `ShopifyWebhookDelivery`, orders, products | claim, process, retry; import by date range | Overlapping, repeated and reordered deliveries; crash between claim and mark |
| Synchronisation with Odoo and QuickBooks (`integrations/services.py` 720-1476, 2484-2741; `orders/views.py` 198-399) | external identifiers and sync status of orders, `OrderSyncLog`, records in the remote system | automatic sync and update, three manual push endpoints | Remote creation and local record are not atomic; duplicate guards on stale reads |
| QuickBooks tokens (`integrations/services.py` 80-232, `integrations/views.py` 45-201) | access token, refresh token, expiry | ensure, forced refresh after a 401, OAuth callback | The provider rotates the refresh token; locked double check beside unlocked saves |
| Orders (`orders/`) | order status and timestamps | ship, deliver, cancel, create, update; webhook upsert resets the status | Full saves of stale rows |
| Invitations (`invitations/`) | invitation status | create, accept, reject, accept by token | Stale reads |
| Authentication (`authentication/`) | users, roles, tokens (library) | register, login, logout, Google sign-in, password | Nothing spans two steps |

Components meet in three places. The `Inventory` rows are written by the
services (with row locks), by shipment receipts and by PATCH (without).
Orders are written by the order endpoints, the webhooks and the
synchronisation, which call each other: a webhook's upsert calls the automatic
sync. Tokens are refreshed by whichever request or webhook needs QuickBooks.

Requests are served by four synchronous gunicorn workers with a timeout of 120 s
and a recycling limit (`deploy/systemd/gunicorn.service`), so requests interleave
between database statements and a worker can die anywhere. Outside
`transaction.atomic()` every statement commits by itself; PostgreSQL runs at its
default isolation, READ COMMITTED.

What makes each component correct: stock is never lost, invented, taken twice or
taken below its reservations; a service call happens entirely or not at all; every
call ends; a receipt is stocked once; a request is decided once and by the right
person, and its timeline tells what happened; a delivery takes effect, and not again
once it is settled; an order keeps whole lines, has at most one record of each kind in
each ERP and knows it, and every document asks for the same money; a token refresh
never loses the only valid refresh token; a bill of materials is what Shopify says.

## 2. The modules and the plan

The order is by importance; a later module reuses the abstraction of an earlier one.

| Modules | What they are | Section |
|---|---|---|
| `Stock`, `Inventory`, `InventoryProofs`, `StockRefinement` | The service layer, its abstract promise, and the proof that it keeps it | 3 |
| `Shipments`, `ShipmentAudit`, `ShipmentProofs` | Composed with `Stock`: service calls as atomic steps, interleaved with receipts that take no locks when they read | 4 |
| `Warehouse` | `Inventory` and `Shipments` at once, statement by statement, and the proof (in `StockRefinement`) that it implements `Shipments` | 4 |
| `InventoryEdit` | PATCH of inventory rows beside the services | 10 |
| `ProductRequests`, `RequestAudit`, `ProductRequestProofs` | The life of a request, its timeline and the tasks | 5 |
| `DeliveryLedger`, `OrderFeed`, `OrderFeedProofs` | Webhook deliveries and imports of one order, and what the claim of a delivery promises | 6 |
| `OrderSync`, `OrderSyncProofs` | The order's documents in Odoo and QuickBooks | 7 |
| `QuickBooksToken`, `QuickBooksTokenProofs` | The shared OAuth tokens | 8 |
| `ShopifyPayload`, `ErpDocuments`, `Billing` | The conversions, and the money on its way through them | 9 |
| `Invitations`, `Catalogue` | Unlocked copies of invitations; products and bills of materials | 10 |
| `BackOfficeProofs` | Proofs about sums, invitations, money, edits of inventory rows and bills of materials | 9, 10 |
| `MC*` | The instances that TLC checks | with each |

Everything of this plan is written. What could follow: the composition of `OrderFeed` with
`OrderSync`, which today meet in an interface (section 7).

Three specifications are implemented by INSTANCE with a refinement mapping: `Stock` by
`Inventory` (`S!Spec`, property `ImplementsStock`), `Shipments`, which takes service calls
from `Stock`, by `Warehouse` (`R!Spec`, property `ImplementsShipments`), and
`DeliveryLedger` by `OrderFeed` (`Ledger!Spec`, property `KeepsLedger`). TLC checks all
three and TLAPS proves all three.

## 3. The inventory modules

### Stock

The table as a client may think of it: `rows`, `quantity`, `reserved` and `moved` (the
net quantity of the completed transfer records). Each service call is one step:
`Shift(take, give)` takes units from some rows and gives units to others, provided
that what is taken is available (quantity less reserved) and that no sum exceeds the
column.

### Inventory

The same calls, statement by statement, by several `Workers`.

| Model | Code |
|---|---|
| `AddStock` ... `DisassembleBundle` | The checks before `transaction.atomic()`; for a bundle, the read of its bill (`services.py:181`, `:254`) |
| `AddPlan` ... `DisassemblePlan` | The statements of each transaction, in order |
| `CheckRow` | `select_for_update().get()` and the test of `available` |
| `DrawRow` | `quantity -= n` and `save` (in `assemble_bundle` after a second locking read) |
| `PutRow` | `select_for_update().get_or_create()`, `quantity += n` and `save` |
| `Refuse`, `Overflow` | `ValidationError`; the database's refusal of a value beyond the integer column |
| `Commit` | The end of the `atomic` block, with the `InventoryTransfer` record of a transfer |
| `DeadlockAbort`, `Kill` | The deadlock detector of PostgreSQL; the death of a worker |
| `EditBill` | The catalogue endpoints that replace a bill |

`held[w]` are the rows worker w has locked or inserted, `draft[w]` what its
transaction has written to them. `Free(w, r)` says that no other transaction has
the row: a locking read waits otherwise, and so does the insertion of a row that
another transaction has inserted. `Exists(w, r)` is what a read sees: another
transaction's uncommitted row is invisible, so a locking `get` does not wait for it and
refuses, while `get_or_create` runs into the unique index and waits.

`Init` admits any table, also one that reserves more than it has, because the PATCH
endpoint accepts such rows. Transfers write no intermediate status, so `moved` is
all that is kept of their records.

### What is checked

| Run | Instance | Question |
|---|---|---|
| `inv_bundles` | 2 workers, 2 bundles, one of which is a component of the other, with 2 bills each (one of them empty) that are edited, 252 thousand states | `TypeOK`, `DraftsFresh`, `ReservationsCovered`, `AssembliesNeverDeadlock`; atomicity with bundles |
| `inv_rings` | 2 workers, a bundle, 2 warehouses: assembly against disassembly, opposite transfers | `EveryCallEnds` |

Bounds. `Amounts = {1}` and `MaxInt = 2` are enough for a row to be empty, to have
one unit that two calls want, and to overflow; bills add needs of 2. `MaxReserved`
bounds the reservations a run starts from. `MaxMoved` stops transfers when the net
movement recorded in any row exceeds it, since that record alone grows without
bound; `MaxMoved = 0` stops them after the first that commits, and those that other
workers have begun. Two workers meet in every pair of calls; longer rings and waiters that
a third overtakes are left to the proofs, which hold for any number. In `inv_bundles` two assemblies of one bundle may work from
different bills, since the bill is read before the transaction. In `inv_rings`,
`Physical = {b1}` keeps the component out of additions and transfers, which adds no kind
of ring. In `inv_bundles` a virtual component `c1` is shared by both bundles, and `c2` is a
component that has become a bundle. Every interesting end is reached: refusals, overflows,
deadlocks and deaths fire in the passing runs.

Fairness (`FairSpec`). `SF(Proceed(w))`: PostgreSQL queues the waiters of a row, so a
waiter gets its turn although the row is taken again and again; a running worker is
not suspended for ever. `WF` of some `DeadlockAbort`: the detector runs after
`deadlock_timeout` and finds every ring. Nothing obliges a client to call, a
catalogue editor to edit or a worker to die.

Every property has a fault of the code that breaks it (the definitions marked
*Fault*): a lock left out of the check, of `get_or_create` or altogether, a
rollback that keeps what was written, availability that forgets the reservations, a
bill that is not multiplied, a bill visited by need instead of by age, and a
database without deadlock detection.

An observation that needs no run: `disassemble_bundle` returns components to stock
without looking at `is_physical`. A bundle may have a virtual component, since the serializers accept any
product, and disassembling it creates an `Inventory` row for a product that, by
`products/models.py:161` and `products/services.py:29`, has none. No endpoint of the
service layer can take that stock away again, because they refuse virtual products.

### What is proved

`InventoryProofs` and `StockRefinement`, for any sets of workers, products,
warehouses, bundles, bills and amounts, assuming what `Inventory` states of its
constants: amounts and bill lines are positive, a bill has no component twice and
does not contain its bundle (a unique constraint and a serializer check), bundles
and physical products are products.

* `TypeCorrect`, `DraftsAreFresh`, `StockNeverNegative`, `ReservationsStayCovered`: the
  properties of the runs; and `LocksAreExclusive`, on which they rest.
* `InventoryImplementsStock`: `Spec => S!Spec`, with the identity as refinement
  mapping.

The properties are not inductive by themselves. That drafts stay non-negative needs
the check that preceded the draw, and that this check still holds: `IInv` adds, for
each transaction in flight, that the rows of its executed statements are exactly
those it holds (`RowsHeld`, `HeldRowsUsed`) and that every check it passed still holds of
the committed tables (`ChecksHold`). It rests on facts about plans, proved once: no
plan writes a row twice (`OneWrite`), a draw follows a check of the same row and
amount (`DrawIsChecked`), a check touches a row nobody of the plan has touched
(`CheckIsFirst`). The refinement follows from `IInv`: at a commit, the effect of the
whole plan on a row is what it gives less what it takes (`WholeEffect`), so the commit
is a `Shift` (`CommitShifts`) and every other step leaves the tables
(`OnlyCommitWrites`).

* `AssembliesDoNotDeadlock`: assemblies wait for each other in a ring only where one of
  them makes what another consumes, for finitely many workers. `ProductBundle.Meta.ordering`
  (`products/models.py:246`) names two foreign keys, which Django expands to the ordering of
  the related model, `-created_at` of `Product`: every bill is visited newest component first.
  The theorem takes one more constant, an `Age` of the products, and assumes no more than
  that bills agree with it (`Ordered`). Bills may share components and may nest: the test
  "Nested bundles are not supported" (`:260`) looks at `is_bundle` when a bill's row is written, and
  a component may become a bundle later. Of the workers of a ring take the one that waits
  for the oldest component: whom it waits for holds that row, has checked every component
  before it, and waits for a later one, that is an older one. Only the last statement of an assembly, which writes
  the bundle's own row, breaks this argument, and only if that bundle is somebody's component.
* `ServicesAreAtomicBesideOthers`, `ServicesUndisturbedByOthers` and
  `ReservationsCoveredBesideOthers`: the same beside transactions of any other kind.
  `Outside` is the commit of one that changes quantities, reservations and rows as the
  columns admit, but leaves what a service holds, because every UPDATE, INSERT and DELETE
  waits for a row lock (external: PostgreSQL). Then each
  step of a service call is still one that `Stock` allows, or leaves the tables, no service
  works from a stale read, none needs the CHECK constraint, and none takes units that
  were reserved after the call began. This is what lets `InventoryEdit` (section 10) take a
  service call as one step beside PATCH. It is PATCH itself that may leave a row with
  less than is reserved of it, because it writes both columns.

Only model-checked: `EveryCallEnds`, because liveness under fairness is beyond the
proof system.

## 4. The shipment modules

### Shipments

Receipts write the same `Inventory` rows as the services, but read them without a lock.

| Model | Code |
|---|---|
| `Create` | `create` (`shipments/views.py:35`): one transaction; status CREATED whatever the request says |
| `Open`, `FindItemsGone` | `get_object()`: an unlocked read of the shipment and its destination, and a second query for its items (`prefetch_related`), which finds none of a shipment deleted in between |
| `UpdateStatus`, `Receives` | The decision of `update_status`: a receipt is due if the new status is RECEIVED and the status read was not |
| `Fetch`, `Insert` | `get_or_create` of the destination's row (`:130`): finds it without a lock, or inserts it |
| `Store` | `inventory.quantity += item.quantity`, and a save of the row as it was read |
| `CommitReceipt` | The end of the receipt's own transaction |
| `SaveShipment` | `shipment.save()` (`:120`), and the save of a PATCH: every column of the copy; a row deleted meanwhile is inserted again, without items |
| `Patch`, `Delete`, `Destroy` | The generic endpoints; the serializer leaves `status`, `origin` and `destination` writable |
| `Overflow`, `DeadlockAbort`, `Kill` | The ways in which a request ends early |
| `Service` | A service call, as one step of `Stock`, or its refusal |

That a service call may be one step although receipts interleave with its statements is
what `Warehouse` is for. `Service` waits for rows that a receipt has written and not
committed. What is new here is the other direction: a service call can commit between the
`Fetch` and the `Store` of a receipt.

`mark_delivered`, `mark_returned` and `mark_failed` refer to `Shipment.DELIVERED`,
`RETURNED` and `FAILED`, which do not exist. They refuse or raise `AttributeError`, and
change nothing, so they have no action.

The intermediate statuses are treated alike by the code and are the constant
`Underway`. The origin takes no part after `create` and is left out.

### Warehouse

`Inventory`'s statements and those of `Shipments` in one state machine: `pc`, `held`,
`draft` and `req` of the services beside `step`, `taken`, `saved` and `job` of the
shipment requests (`R == INSTANCE Shipments WITH pc <- step, held <- taken, draft <-
saved`), over the same `rows`, `quantity`, `reserved` and `moved`. A worker serves one
request of either kind at a time.

What ties the parts together is PostgreSQL's table of row locks. `Has(w)` are the rows that
w's transaction has locked, inserted or updated, `Wants(w)` the one its next statement
needs: for a service a locking read or `get_or_create`, for a receipt the insertion of a row
that is not there, or the save. An unlocked `get` wants none. `Waiting(w)` holds up a
statement, of either kind, while another transaction has what it wants. Each action is one
of the parts' with this guard, and leaves the other part's variables. A death
(`ServiceEnd`, `ShipmentEnd`) may come at any time and does what the deadlock detector
does to its victim, so the detector has no action of its own.

| Run | Instance | Question |
|---|---|---|
| `warehouse` | 2 workers, 1 product, 2 warehouses, 1 shipment of 1 item, columns up to 2, 502 thousand states | `ImplementsShipments`, `NeverNegative` |

`ImplementsShipments` is `R!Spec`, and what remains to be shown is small but not obvious: a
service's commit must leave the rows that a receipt is about to save, and a receipt's commit
those a service has read. Take the receipts' rows out of `Has` and it fails. Bounds: a
transfer locks two rows, so two transfers wait for each other in a ring; one item makes a
receipt insert or save, over a row that a service changed since its read. `MaxNet` stops
transfers whose recorded net movement would leave `-MaxNet..MaxNet`. Two items per shipment
and a bundle, which let an assembly and a receipt wait for each other, are left to the
proofs, which know no such bound.

### ShipmentAudit

The actions of `Shipments` with history variables beside them: `ledger` (what the stock would be
if nothing were lost), `stocked` and `entered` (how often a shipment reached the stock
and how often `update_status` made it RECEIVED), `deaths`, and two notes of who got in
whose way: `crossed`, the rows that changed between a receipt's read and its save, and
`overlapped`, the shipments that two requests had open at once.

| Run | Instance | Question |
|---|---|---|
| `ship_alone` | 1 worker, 2 products, 1 shipment of 2 items, 1 death | `BooksBalance` |
| `ship_together` | 2 workers, 1 product, 2 warehouses, 1 shipment, 1 death | `TypeOK`, `StockCovered`, `MovementsKept`, `ReceiptsAccounted`, `ReceivedMeansStocked` |
| `ship_rings` | 2 workers, 2 shipments with the same products in opposite orders, 149 thousand states | `EveryRequestEnds` |
| `ship_lost` | 2 workers, 1 product | `BooksBalance`, **violated** |

`ship_alone` says what the code achieves as long as requests do not overlap: a receipt of
several items is whole even if the worker dies or an item overflows. `ship_together` says how
much of it survives when they do overlap. `MovementsKept`: a row loses a movement only if
it is `crossed`. `ReceiptsAccounted` and `ReceivedMeansStocked`: a shipment that is not
`overlapped` is stocked when `update_status` makes it RECEIVED and at no other time, but
for deaths between the two commits. A generic PATCH may change the status at any time,
which is why the count is of `update_status` alone.

`EveryRequestEnds`, under `Fairness`, says that requests which wait for each other in rings,
overflow, or find their shipment deleted end nevertheless, in a save or in an error. The
fairness is that of `Inventory`: `SF` of `Proceed` for each worker, because PostgreSQL queues
the waiters of a row and a running worker is not suspended for ever, and `WF` of some
`DeadlockAbort`, the detector. `RingsSpec` starts from two shipments that exist and list the
same products in opposite orders, and no client creates another (`Loads` is empty), so that
the run spends its states on rings. A receipt that
is tried again until it succeeds instead of answering with the error breaks the property:
it overflows for ever.

**Finding.** `ship_lost`: a receipt saves over a movement that committed after its read,
although `products/services.py:5-8` promises that all writes to these rows take row
locks. An overlapped shipment fares no better: `update_status` makes it RECEIVED
without stocking it, when the status it read was already RECEIVED and another request has
taken it back since, and two requests that both read another status stock it twice.

Bounds. In `ship_alone`, `MaxInt = 2` with items of 1 and 2 lets a receipt fit, fill the
row or overflow; in `ship_together` an item of 1 fills a row of `MaxInt = 1` or overflows it.
`MaxStocked` bounds how often a run starts a change to RECEIVED, `MaxDeaths` how often a
worker dies, `MaxMoved` is as in `Inventory`. `ship_rings` has no service calls and a
column that holds only 0, because quantities influence who waits for whom only
through a receipt that the column refuses; rings between receipts and services are in
`warehouse`.

### What is proved

`ShipmentProofs`, for any workers, shipments, loads, catalogue and bounds: `TypeCorrect`
and `StockStaysCovered`. Receipts do lose movements, and the proof explains why they
never uncover a reservation: what a receipt read covered it (`StaleCovered`), what
it is about to write is no smaller (`DraftsCovered`), and nothing in these modules
changes `reserved`. `TablesOK` also says that absent rows are empty, which covers the row
a receipt inserts; `Located` that a shipment that exists has a destination, so that the
copy of a request is well formed. The effect of a service call comes from `Stock`
(`ShiftKeepsTables`, `ServiceKeepsTables`). `Init` starts from tables that are covered;
the PATCH endpoint for inventory rows can create others.

About the audit, for any constants and any number of workers:

* `MovementsStayKept`, from `BInv`: what a receipt holds of a row that is not crossed is
  the committed quantity plus its item (`Reads`), a row is held by one receipt at a time
  (`HeldApart`) and belongs to one item of its cargo (`CargoDistinct`).
* `AloneTheBooksBalance`: one worker crosses no row, so `quantity = ledger`.
* `ReceiptsStayAccounted` and `ReceivedIsStocked`, from `RInv`: whoever is alone with a
  shipment knows its status (`Informed`), so that the decision to receive it still holds
  when the status is saved.

Only model-checked: `EveryRequestEnds`, because liveness under fairness is beyond the proof system.

About `Warehouse`, in `StockRefinement`, for any constants that the modules admit:

* `ServicesAreAtomicBesideReceipts`: `Together => ImplementsShipments`. The invariant `WInv`
  has three parts: `IInv` of the services, the invariant of `ShipmentProofs` (its lemmas
  about one step are cited through an INSTANCE, `P`), and `RowsApart`: no row is had by two
  transactions, no worker serves two requests. Each part needs the others. A receipt keeps
  `IInv` because by `RowsApart` it writes only rows that no service has (`ShipmentWrites`,
  which is `OutsideIInv` of section 3); a service's commit is a `Service` of `Shipments`
  because it writes only rows that no receipt has taken (`CommitIsService`); and
  `RowsApart` holds because a statement takes no other row than the one it waits for
  (`ServiceTakes`, `ShipmentTakes`, `ApartStep`). The tables themselves change only in commits.
* `DraftsStayFreshBesideReceipts`, `StockNeverNegativeBesideReceipts`, `RowsStayApart`,
  `StockCoveredBesideReceipts`: what follows from `WInv` for services and tables.

## 5. The product request module

### ProductRequests

| Model | Code |
|---|---|
| `Create` | `create_request` (`services.py:41`): request, items and first event in one transaction |
| `Decide` (`Approve`, `Reject`, `MarkReady`, `Collect`) | `get_object()` and the tests on that copy: the status (`Fits`), the approver or the manager of the warehouse (`MayApprove`, `MayPack`) |
| `Update` | `save(update_fields=...)`: takes the row lock, or waits for it |
| `LogAndCommit` | `_log_event` and the commit: status and event become visible together |
| `Enqueue` | `on_commit`, `_enqueue_task_safely`: a task for the broker, or a warning in the log |
| `Edit`, `Save`, `ClearItems`, `FillItems` | PATCH (`serializers.py:134`): every column of the copy, then the items, each statement by itself |
| `Delete`, `Destroy` | DELETE, which takes items and timeline with it |
| `Reassign`, `Keeper` | PATCH of a warehouse (`products/serializers.py:56`) gives it another manager; `req.warehouse.manager` (`services.py:102`) |
| `StartTask`, `SendMail`, `LogMail`, `LoseTask` | A task: the read of the request, the e-mail, its event; or a failure, which nobody retries |
| `Abort` | The death of a worker, or the error of an update whose row has gone |

`timeline` is the sequence of a request's events, in the order in which they commit;
`manager` the column of a warehouse, which no lock of a request protects, so that the
manager may change between a test and the commit of the decision. Users and warehouses
are never deleted here. A row that a transaction has updated is
in `lock`; readers see what is committed. `approved_by`, reasons and timestamps are
written but never read by the code. Celery acknowledges a task before it runs it,
so a task is executed at most once. `CELERY_TASK_ALWAYS_EAGER`
(`api/settings.py:269`) makes the serving process execute it; that is one of the
interleavings of the model.

`Endpoints` and `WrittenStatuses` say what the clients of a run do, so that the
runs can tell apart what the workflow achieves and what the generic endpoints undo.

| Run | Instance | Question |
|---|---|---|
| `req_alone` | 1 worker, 2 Celery processes, 1 warehouse, every endpoint, 96 thousand states | `TypeOK`, `MailsAccounted` |
| `req_together` | 2 workers, 2 users, one a superuser, 1 warehouse that changes hands, decisions and DELETE, 280 thousand states | `TimelineTellsStatus`, `Prerequisites`, `WorkflowFollowed`, `RightActor` |

Both runs check `RequestAudit`, which adds three notes to `ProductRequests`: `disturbed`,
the requests that two workers were about to write at once or whose status a client wrote
by itself, `revived`, those that a save brought back after their deletion, and
`reassigned`, the workers in the middle of a decision whose request has named another
approver, or whose warehouse another manager, since the test.

`RightActor`: a decision is recorded only for one who is named when it is recorded, or a
superuser, unless the worker is `reassigned`. The exception is real: the code tests before
the transaction and does not look again.

Requests that are not disturbed follow the workflow: each decision comes right after the
one it needs, and none twice (`WorkflowFollowed`). The others do not, because a
decision tests a copy that it read without a lock: two overlapping approvals are both
recorded and notified, and an approved request may be rejected as well. What survives are
`Prerequisites` and the agreement of status and timeline, since a status and its event
share a transaction that holds the row.

`MailsAccounted`: each kind of e-mail is sent at most as often as the event that causes
it was recorded, and the timeline notes no e-mail that was not sent, though the broker
loses tasks, the mail server refuses and a task ends between the e-mail and its event. Of
a revived request the e-mails are remembered, but the timeline went with the deletion.

Four more hazards of PATCH are in the model, and no run is spent on them, because one
request suffices. A PATCH writes back the status it read before a decision. One that ends
between `ClearItems` and `FillItems` leaves a request without items, which `validate()`
refuses. `status` is a writable field of the serializer, so a client can write any status
past the workflow; the runs have an empty `WrittenStatuses`, with which clients do not. A
PATCH that overlaps a DELETE inserts the request again, without a timeline.

Bounds. One request is enough, because requests share nothing but processes. In
`req_together` the second user is not a manager, so that approver, requester, the
warehouse's manager and superuser meet in every combination; it has no runners, and `NoTaskWaits`
stops it from telling states apart by tasks that nobody executes. `req_alone` has one
user, because who acts does not matter to its properties. The runs may stop, when a request has ended and no
identifier is left, so they do not check deadlock; no counter needs a bound, because a
status that nobody edits does not go round for ever.

### What is proved

`ProductRequestProofs`, for any workers, runners, requests, users and endpoints:

* `TypeCorrect`.
* If nobody uses PATCH and nobody creates a request with another status than PENDING
  (`NobodyEdits`): `TimelineTells` and `PrerequisitesHold`. The argument for the second:
  the status a decision tested was the last on the timeline then (`TimelineTellsStatus`),
  events are only appended, and so a decision under way has its prerequisite on the
  timeline although the status may have changed since (`Justified`); a request deleted
  meanwhile stops it, because its update finds no row.
* `DecisionsInRightHands`, with PATCH of requests and of warehouses and every other endpoint:
  the action property `RightActor`. `RightHands`, the inductive part, says that every
  decision under way that is not `reassigned` is still one its actor may take, whoever else
  edits, deletes or brings back the request meanwhile.
* `EachDecisionFollows`, with PATCH and every other endpoint: `WorkflowFollowed`, from
  `FInv`. Of an undisturbed request one worker at a time writes the status (`Apart`), so
  what a decision tested still holds when it is recorded (`DecidesRightly`), and the last
  step of the timeline leads to the status.
* `EachMailHasItsCause`, for finitely many workers and runners: `MailsAccounted`. The
  count is not inductive without the tasks that are still to be enqueued and the notes
  that are still to be logged: `Ledger` adds them, as sets of workers and runners, and
  each step moves one element from one set to the next.

No property of this component is only model-checked. Nothing is promised about e-mails
being sent eventually: an enqueue may fail, and no task is retried.

## 6. The order feed

### DeliveryLedger

What `README.md:63` of the repository ("Webhook idempotency with
`X-Shopify-Webhook-Id`") and the docstring at `integrations/services.py:1991` promise,
as far as the code goes: a delivery takes effect at least once before it is settled
(`Settle`), and never again after (`Apply`). It does not say "exactly once", because a
second attempt may start while the first still runs.

### OrderFeed

One order of the shop. Delivery d carries version d of it; staff's PATCH makes one more
version. A handler's statements commit one by one, so handlers interleave between them.

| Model | Code (`integrations/services.py` unless named) |
|---|---|
| `Announce`, `Send` | Shopify: the order changes; the delivery is sent, and again while nobody answers with success |
| `Claim` | `_claim_shopify_webhook_delivery` (`:1986`): create-or-lock the row, in a transaction that ends before the work starts |
| `Upsert`, `Wipe`, `CreateLine` | `_upsert_shopify_order_from_payload` (`:1850-1906`): `update_or_create`, `items.all().delete()`, one `create` per line |
| `Push` | The automatic sync of an order that was just created (`:1908`); its exceptions are caught |
| `Mark`, `Fail` | PROCESSED, or FAILED whatever the row says by now (`:2023`, `:2112-2120`), and the answer |
| `Fetch`, `Import` | `import_shopify_orders` (`:2123`): read from Shopify, then one transaction |
| `Edit` | PATCH with items (`orders/serializers.py:128`), which ends after its last line |
| `Die` | gunicorn's timeout |

Abstractions. `Claim` is one step, since the row lock serialises claims. An import holds
the order's row from its first statement, so it takes effect at its commit; a failure
undoes it, except what its push did to the ERP platforms. Lines are identified by
version and position.

Run `feed`: 2 workers, 2 versions of 2 lines, an import, an edit, one fault (an
exception, a death or an answer that comes too late), 290 thousand states.

* `KeepsLedger`: `Ledger!Spec`, with `settled` mapped to the deliveries that are PROCESSED
  and that no handler is at work on. A delivery whose second handler overlaps the
  first, or fails late and writes FAILED over PROCESSED, is not settled.
* `LinesWhole`: the lines are those of the version in the row once the last rewrite
  ended and nobody wrote meanwhile. The history variables `alone` and `intact` are
  that condition. Two handlers that overlap do leave mixed or doubled lines.
* `PushedOnce`: an order is pushed as new once, plus once for each import undone after
  it had pushed.
* `EveryDeliveryAnswered`, under `FairSpec`: a request that is served goes on (`WF` of
  `Step`, a worker that is not killed runs), and Shopify sends a delivery again while it
  is unanswered (`SF` of `Send`, because a worker has to be free at that moment). Shopify
  gives up after some days of failures; the run has fewer faults than that.

Bounds: two versions make an old delivery retried after a newer one, two lines a
rewrite that stops half-way, two workers every overlap of two handlers. Every fault is
taken at every step.

### What is proved

`OrderFeedProofs`, for any workers, versions, lines and faults: `TypeCorrect`;
`LinesStayWhole`, from the invariant that a worker marked `alone` is the only one
rewriting and that what it has created so far is exactly the prefix of its lines
(`AloneOK`, `IntactOK`); `PushedAsNewOnce`, from the count of pushes still due in the
workers' hands (`PushesOK`); `FeedKeepsLedger`, the refinement, from `AppliedOK`: a
handler past its upsert, and a delivery once PROCESSED, have had an effect.

## 7. Synchronisation with Odoo and QuickBooks

### OrderSync

The same order from the other side: its row with identifiers and sync status, the last
log of each kind, and the documents that exist on the platform.

| Model | Code |
|---|---|
| `Webhook`, `Import`, which share `Upsert` | A version arrives: the row is created or overwritten (`:1850`), status CONFIRMED included, then `auto_sync_order_to_erp` (`:2484`) or `auto_update_order_in_erp` (`:2613`); an import (`:2123`) does it in its transaction |
| `Edit` | PATCH and PUT (`orders/serializers.py:128`): columns, status and lines as staff want them, and no update of any document |
| `PushToQuickBooks`, `CreateOdooSo`, `CreateOdooInvoice` | `push_to_quickbooks`, `create_odoo_so`, `create_odoo_invoice` (`orders/views.py:198-399`), which share `Push`, with the guard on the copy just read |
| `Move`, `Save` | `ship`, `deliver`, `cancel`: a test of the copy, then a save of every column |
| `Begin` | PENDING |
| `Create`, `Post` | `sale.order` and `account.move` in Odoo, and `action_post`, which may have posted the invoice when its answers are lost, and refuses to post twice; the invoice in QuickBooks |
| `ReadToken`, `Rewrite` | Updates; Odoo refuses to change a posted invoice, QuickBooks a stale SyncToken (`Writable`, external) |
| `Record`, `Fail` | `OrderSyncLog` and the columns that each path saves (`SavedIds`, `KeptIds`) |
| `Lost`, `Refused` | An answer lost on the way, after the platform acted or before, and tried again (`_odoo_execute`, `_quickbooks_request`); an error |
| `Commit`, `Die` | The end of an import, which may undo it (`Undo`: row and log are as before, the documents stay as they are); gunicorn's timeout |
| `Seen`, `Free` | While an import is open, others read what was committed before (`base`) and wait to write the row or its log (external: PostgreSQL) |

Abstractions. The lines change with the row, in `Upsert` as in `Edit` (section 6 takes that apart).
The order stays in its market, which has one integration: a PATCH that moves it to another market is left out. The save of
the row and its log entry, which follow each other with nothing between that another
request reads together, are one step. The market's integration is active with automatic
sync on; otherwise nothing happens. Reading QuickBooks' items before an invoice is built
is assumed to succeed. The push of section 6 is where this module begins; the
interface between them is that a new order is pushed and an existing one updated.

Run `orders`: 2 workers, both platforms, 2 versions by webhook, import or edit, 1 move or
edit, 1 fault, 2 documents of a kind, 1.7 million states. `EditStatuses` has one status,
SHIPPED: the status decides nothing but which move may follow.

* `RowHonest`: an identifier in the row is one that the platform gave to a document of
  that kind, a recorded invoice is posted, and SUCCESS without any document needs an
  overlap.
* `FewDuplicates`: without overlapping requests there are at most one more documents of a
  kind than faults. With overlaps the guard, which reads the identifier before the remote
  call and stores it after, admits two.
* `Mirror`: without overlap or death, an order whose last attempts succeeded has
  documents that say what the row says, head and lines, unless it was edited, or an import
  undone, since the last webhook or import (`drift`). Both exceptions are real. `Edit` tells no
  document. An import that updates an existing order and is undone because of a later one
  leaves documents with what the row has forgotten, and a log that says SUCCESS. What
  `Mirror` adds is that the next webhook or import repairs both, from whatever they left.
* `PendingEnds`, under `WF` of `Step` of each worker: PENDING ends, unless the worker
  died or a save of all columns brought it back.

One fault is enough for each single loss, and two documents for a duplicate beside the
original. An edit between two versions, or an import undone and repaired, takes a third version;
such runs are covered by the proof. `FairSpec` says no more than that a request being served goes on.

### What is proved

`OrderSyncProofs`, for any workers, versions, edits, moves and faults on either platform:

* `TypeCorrect`, from `GInv`: at each point of a request its copy carries genuine
  identifiers and, past the remote call, the number of an existing document (`HeldOK`),
  an import keeps everyone else out (`TxnOK`), and documents only accumulate.
* `RowStaysHonest`, from `HInv`, which adds that without overlap one request is at work
  at a time and its copy agrees with the row (`AloneOK`).
* `DuplicatesHaveCauses`, from `DInv`. Counting documents alone is not inductive: one
  that was just made is in no row yet. `CountOK` says that of each kind there are at most
  as many documents as faults, or one more whose identifier the row or the worker at
  work knows (`Knows`); `SoleOK` that a worker about to create a document has none of
  that kind in its copy, nor the row. A fault pays for the document whose identifier it
  loses, the rolled back import's included. An invoice that was posted while the answer
  was lost is forgotten without another fault, when Odoo refuses to post it again: `PaidOK`
  says that the lost answer has paid for it.
* `DocumentsMirror`, from `MirrorInv`: `Mirror` says nothing of a request half-way
  through, so `Follows` says of each point how far it has come. A first push has written
  every document it knows an identifier of; an update all but those it has still to do;
  anything else at work leaves an order settled that was. An edit or an undone import ends
  the claim, and `Upsert` starts it afresh, because the row's version is new and every
  document it names is yet to be written. `PlatformOK` keeps the kinds to
  those the platform has.

`PendingEnds`, a liveness property, is checked on this instance only.

Observations. A posted invoice in Odoo can never be updated, so every update after the
first push of such an order ends in FAILED for it. A cancelled order comes back as
CONFIRMED with the next webhook. An import that fails on a later order forgets the
identifiers of documents that exist (`undone` in section 6, `Undo` here).

## 8. QuickBooks tokens

### QuickBooksToken

| Model | Code |
|---|---|
| `Begin`, `Ensure`, `Lock` | `_ensure_quickbooks_token` (`services.py:80`): the look at the copy, `select_for_update`, the second look |
| `Post`, `Save` | The refresh call while the row is locked, then the new tokens |
| `Send`, `Clear` | `_quickbooks_request` (`:163`): retries, and after a 401 a wiped expiry, saved without a lock |
| `Probe` | `_ensure_qb_environment` (`:279`) saves a column between the token and the request |
| `Return` | The end of a request, or of the import around it, which commits or rolls back |
| `AuthUrl`, `Callback`, `Exchange`, `Store` | Reconnecting (`integrations/views.py:45-174`, `:369-406`) |
| `Rotate`, `Elapse`, `Killed` | Intuit, the clock, gunicorn |

A *grant* is an access token, a refresh token and a lifetime; they are issued, saved and
replaced together. `kind` says whether a request runs by itself, where every save
commits and a lock ends with its block, or nested in an import, where the lock is held and
the write stays invisible until the import ends.

The properties speak of `Undisturbed` runs: no answer lost, no worker killed, no import
rolled back after it refreshed, no earlier grant ended by a later one. Outside them the
only valid refresh token really is lost, and a person has to reconnect; the code
cannot help that. Within them:

* `StoredIsLive`: whenever no transaction holds the row, Intuit honours what it holds.
* `RefreshNeverRejected`: no refresh is rejected because its refresh token was used before,
  even when several workers want it at once, which is what the row lock is for.

An observation that no property denies: a caller may be asked to reconnect a connection that
works. `services.py:137-145` says so for every status from 400 on, 429 and 5xx included
(the ending `refused`), and `:255-256` for a 401 on the last try, while the refresh token on
record is still honoured.

### What is proved

`QuickBooksTokenProofs`, for any workers, grants, authorisations, tries and losses:
`TypeCorrect`, `RecordStaysHonoured` and `SpentOnce` (`RefreshNeverRejected`). The invariant `SInv`
has three parts. `LockOK`: only the lock's holder refreshes, only an import writes before
its transaction ends, and until it writes it sees the row as it is. `LiveOK`: whatever
may become the row (the row, the holder's copy, an answer in hand) is honoured.
`FreshOK`: a grant bought by a code is on no record until its callback stores it, so that
a refresh which replaces the recorded grant does not end that one. The save of a 401
(`Clear`) needs no case of its own: it waits for the lock and writes one column
(`WriteSafe`).

## 9. Money

`ShopifyPayload` and `ErpDocuments` are the conversions, as operators: the channel,
payment, statuses, market and line prices of a payload; the partner, lines and
references of the documents. `Billing` applies them to each other's results:
`Upsert`, `PushToOdoo`, `PushToQuickBooks`, `UpdateQuickBooks`. Amounts are whole cents,
as the decimal columns store them, and `RoundHalfEven` is their rounding. Addresses,
dates, notes, numbers and tax codes are copied by the code and left out.

* `MoneyAgrees`: sales order and invoice in Odoo ask for the same, which is the lines'
  totals less the order's discount plus shipping, up to half a cent a unit. QuickBooks asks
  for exactly that once the invoice was updated, and for the discount more before.
* `LinesRight`: amounts follow from price and quantity up to the same rounding, only a
  discount is negative; a reference names an active item or the default, and a mapping
  that names one wins; documents go to the partner of the channel.

Observations that the properties carry as exceptions. The unit price of a discounted line
is rounded before it is multiplied again, the line's total is not
(`services.py:1875-1895`); Odoo is billed by the first, QuickBooks by the second.
`create_quickbooks_sales_invoice` (`:1236`) sends no line for the order's discount and
`update_quickbooks_invoice` (`:1413`) does, so an invoice asks for too much until its first
update. An order from a till that carries a chat tag has channel POS and goes to the
partner of the chats. QuickBooks prices groups itself, so sums are compared where there
are none.

### What is proved

`BackOfficeProofs`: `InvoiceLinesAreRight` and `DocumentsAgree`, for any payloads with any
number of lines, any catalogue, mappings and credentials. The assumptions are
`PayloadsSound` (amounts of a payload are not negative, a line has a quantity of at least
1, which `int(line.get("quantity") or 1)` stands in for) and that the absent price of a
group is no number.

The sums are the recursive `SumFunction` of the community modules, and induction over
lines is not available as such. What is available is that a non-empty set of subsets of a
finite set has a minimal element (`Smallest`). From it follow, by looking at a minimal
counterexample each time, that the recursion defines a function (`AddsExist`,
`AddsOnce`), that any element may be taken out of a sum first (`SumPick`), and what the
documents need: sums of equal values are equal (`SumSame`), sums of values within d of
each other are within the sum of d (`SumNear`), a sum splits (`SumSplit`), one value may
change (`SumReplace`) or take up others (`SumMerge`).

## 10. Invitations, inventory editing, catalogue

`Invitations`: each request reads an invitation, judges its copy and saves all of it.
`AnswersSound`: `accepted_at` is set exactly in accepted ones, however saves overlap, and
an invitation that no two requests had open at once is answered at most once. Overlapping
ones are answered twice, and a save inserts a withdrawn invitation again. Proved for any
users, addresses and numbers (`InvitationsAnswered`), from `OneAtATime`: an answered
invitation is PENDING neither in its row nor in any copy, unless requests overlapped.

`InventoryEdit`: PATCH of a row, with its move to another warehouse and the merge with a
row there, beside additions and removals by the services, each as one step, which
`ServicesAreAtomicBesideOthers` (section 3) admits. `EditsConserve`: until a row
is saved that changed since it was read, units and reservations are conserved; `owed` is
what there should be, `overwrote` marks the lost update, which does happen. Proved for any
editors, places, amounts and first rows (`EditsConserveUnits`, assuming `ShelfSound`: the
first rows have places and no negative units), with the lemmas on sums of section 9: an
addition is a `SumReplace`, a merge of several rows into one a `SumMerge`.

`Catalogue`: products, `is_bundle` and bill-of-materials rows, as imports and product
webhooks make them of a listing and as staff change them. `NoSelfBundle`: no bundle
contains itself ("A bundle cannot contain itself"), although PATCH validates a copy and
saves it later; it holds because every save writes both columns of the pair that was
validated. `ImportFaithful`: after an import, each imported bundle has exactly the parts
that Shopify names, quantities summed, bundles left out. A product webhook deletes the
bill of its bundle (`services.py:1981`) and only the next import builds it again.
Both are proved for any listings, SKUs and staff (`NoBundleInItself`,
`ImportsAreFaithful`) from `CatalogueInv`: what staff are about to save has been validated
and is saved whole. The assumption is `CatalogueSound`: finitely many SKUs, listings of
products, and first rows without a bundle in itself. The sums of `Parts` and the second
pass of `Rebuilt` are recursive functions over the prefixes of a sequence; the proofs
show that such a function exists (`AggregatesExist`, `RebuildsExist`) and go by induction
over its prefixes (`UpTo`): after k parts the sums of the first k are there
(`AggregatesAdd`), after k shop products the bill of each bundle is that of the last of
them for it, in ids of its own (`RebuiltIs`).
Renaming a SKU, `is_physical`, categories, warehouses and markets are left out.

### MCBackOffice and the run `office`

Tokens, billing, invitations, editing and catalogue share no state that the models keep
and never wait for each other, so one run explores them one after the other: `desk` says
whose turn it is and never changes. 1.5 million states:

| Desk | Instance |
|---|---|
| tokens | 2 workers, 3 grants, 1 authorisation, 1 loss, 2 tries |
| billing | 1 or 2 lines; prices and discounts that do not divide; mappings by id, by SKU, stale or absent |
| invitations | 2 users, 2 addresses, 2 invitations, 3 requests |
| shelves | 2 editors, 3 warehouses, 2 rows to merge, 2 PATCHes |
| catalogue | 3 products, one or two of them kits, 2 members of staff, 2 changes, 4 bill rows |

Two of each actor give every overlap of two requests; three grants let one be replaced
while another waits to be stored; three bill rows beside the first let an import meet
lines that staff added.

## 11. What rests on what

| | Proved for all instances | Model-checked only |
|---|---|---|
| Inventory | types, locks, drafts, quantities, reservations, atomicity, rings of assemblies; all but types and rings also beside any other transactions | `EveryCallEnds` (liveness) |
| Shipments | types, cover of reservations, `MovementsKept`, `BooksBalance` for one worker, `ReceiptsAccounted`, `ReceivedMeansStocked` | `EveryRequestEnds` (liveness) |
| Warehouse | `ImplementsShipments`, drafts, quantities, reservations, rows apart | |
| Product requests | types, timeline, prerequisites, `RightActor`, `WorkflowFollowed`, `MailsAccounted` | |
| Order feed | types, whole lines, pushes, refinement | `EveryDeliveryAnswered` (liveness) |
| Order sync | types, `RowHonest`, `FewDuplicates`, `Mirror` | `PendingEnds` (liveness) |
| Tokens | types, `StoredIsLive`, `RefreshNeverRejected` | |
| Money | `MoneyAgrees`, `LinesRight` | |
| Invitations, editing | `AnswersSound`, `EditsConserve` | |
| Catalogue | `NoSelfBundle`, `ImportFaithful` | |

The atomicity of service calls is used in three places, and each use has its proof: in
`Shipments` by `ServicesAreAtomicBesideReceipts`, in `InventoryEdit` by
`ServicesAreAtomicBesideOthers`, and for a client of the services alone by
`InventoryImplementsStock`.

Liveness under fairness is beyond the proof system and stays with TLC. All
proofs rest on the assumptions the modules state of their constants, which TLC evaluates in every run, and on those their
statements name: finitely many workers or runners where rings or e-mails are counted,
`NobodyEdits`, one worker for `BooksBalance`, bills ordered by age for assemblies,
`MaxInvitations \in Nat`, `PayloadsSound`, `NoPrice \notin Int`, `ShelfSound` and
`CatalogueSound`, of which TLC evaluates the last four in the run `office`.

## 12. Not modelled, and limits

* Authentication, roles and permissions: token rotation and blacklisting belong to a
  library; what the repository adds is one query or one save per request, and a role is
  a test of the signed-in user. Where a role decides between actors (approver, manager,
  inviter) the module of the component has it.
* Configuration, admin sites, migrations, deployment: no behaviour of their own; the
  number of workers and the timeout are where the crash and interleaving assumptions
  come from.
* Orders: POST, and a PUT or PATCH that names a warehouse, raise `ValueError` before they
  write anything, because `orders/serializers.py:115` takes an integer and
  `orders/models.py:245` wants a warehouse; so orders come from Shopify. DELETE, the
  listing and its filters are left out.
* Remote clients: hosts, sign-in, paging and the connection tests are input and output.
  Registering webhooks changes no state that the models keep.
* Deleting products or warehouses, which cascades to inventory rows.
* One database: no replicas, no failover. A commit that the client does not hear of is a
  commit.
* Time appears where a deadline decides: expiry of invitations and tokens, gunicorn's
  timeout.
