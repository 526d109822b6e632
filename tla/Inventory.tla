----------------------------- MODULE Inventory ------------------------------
(***************************************************************************)
(* The inventory service layer, products/services.py, run by several       *)
(* workers at once on PostgreSQL at READ COMMITTED.                        *)
(*                                                                         *)
(* A service call is a transaction: a sequence of statements, each of      *)
(* which reads an Inventory row with select_for_update() and may write it. *)
(* Statements of different workers interleave; a statement on a row that   *)
(* another transaction has locked or inserted waits for that transaction   *)
(* to end. What a transaction wrote is visible to itself alone until it    *)
(* commits; a ValidationError, an integer out of range, PostgreSQL's       *)
(* deadlock detector or the death of the worker rolls it back.             *)
(***************************************************************************)
EXTENDS Integers, Sequences

CONSTANTS
  Workers,     \* processes that serve requests (gunicorn workers)
  Products, Warehouses, Bundles, Physical, Bills, Amounts, MaxInt,  \* as in Stock
  MaxReserved, \* bound of the model on the reservations it starts from
  MaxMoved,    \* bound of the model: no transfer starts beyond this net movement
  NoRequest    \* what an idle worker serves

Row == Products \X Warehouses
Line == [component : Products, quantity : Nat \ {0}]

(* Services refuse a quantity below 1; serializers do so first.            *)
ASSUME AmountsAssumption == Amounts \subseteq Nat \ {0}
ASSUME MaxIntAssumption == MaxInt \in Nat /\ MaxReserved \in 0..MaxInt
ASSUME CatalogueAssumption == Bundles \subseteq Products /\ Physical \subseteq Products

(* unique_component_per_bundle, and "A bundle cannot contain itself".      *)
ASSUME BillsAssumption ==
  \A b \in Bundles : \A bill \in Bills[b] :
    /\ bill \in Seq(Line)
    /\ \A i \in 1..Len(bill) : bill[i].component # b
    /\ \A i, j \in 1..Len(bill) : bill[i].component = bill[j].component => i = j

Request ==
  [op : {"add", "remove", "transfer", "assemble", "disassemble"},
   product : Products, at : Warehouses, to : Warehouses,
   n : Amounts, bill : Seq(Line)]

ASSUME NoRequestAssumption == NoRequest \notin Request

VARIABLES
  rows, quantity, reserved, moved,   \* the committed tables, as in Stock
  bom,         \* bom[b]: the ProductBundle lines of b, newest component first
  req,         \* req[w]: the service call worker w executes
  pc,          \* pc[w]: its next statement; 0 when idle
  held,        \* held[w]: the rows w has locked or inserted
  draft        \* draft[w][r]: quantity of a held row r as w's transaction sees it

stockVars == <<rows, quantity, reserved, moved>>
txnVars == <<req, pc, held, draft>>
vars == <<rows, quantity, reserved, moved, bom, req, pc, held, draft>>

-----------------------------------------------------------------------------
(* The statements of a transaction.                                        *)
(*   check  locking get; DoesNotExist or too little available is refused   *)
(*   draw   locking get, quantity -= n                                     *)
(*   put    locking get_or_create, quantity += n                           *)

Check(r, n) == [act |-> "check", row |-> r, n |-> n]
Draw(r, n)  == [act |-> "draw",  row |-> r, n |-> n]
Put(r, n)   == [act |-> "put",   row |-> r, n |-> n]

Home(q) == <<q.product, q.at>>
Part(q, i) == <<q.bill[i].component, q.at>>
Needed(q, i) == q.bill[i].quantity * q.n

AddPlan(q) == << Put(Home(q), q.n) >>

RemovePlan(q) == << Check(Home(q), q.n), Draw(Home(q), q.n) >>

TransferPlan(q) ==
  << Check(Home(q), q.n), Draw(Home(q), q.n), Put(<<q.product, q.to>>, q.n) >>

\* Faults for the runs: a bill that is not multiplied by the number of bundles
\* and lines, and one that visits the larger need first, whatever the ordering.
AssembleOneOfEach(q) ==
  LET k == Len(q.bill)
  IN  [i \in 1..(2 * k + 1) |->
         IF i <= k THEN Check(Part(q, i), Needed(q, i))
         ELSE IF i <= 2 * k THEN Draw(Part(q, i - k), q.n)
         ELSE Put(Home(q), q.n)]

AssembleLargestFirst(q) ==
  LET k == Len(q.bill)
      at(i) == IF Needed(q, 1) < Needed(q, k) THEN k + 1 - i ELSE i
  IN  [i \in 1..(2 * k + 1) |->
         IF i <= k THEN Check(Part(q, at(i)), Needed(q, at(i)))
         ELSE IF i <= 2 * k THEN Draw(Part(q, at(i - k)), Needed(q, at(i - k)))
         ELSE Put(Home(q), q.n)]

\* Every component is checked before the first is consumed.
AssemblePlan(q) ==
  LET k == Len(q.bill)
  IN  [i \in 1..(2 * k + 1) |->
         IF i <= k THEN Check(Part(q, i), Needed(q, i))
         ELSE IF i <= 2 * k THEN Draw(Part(q, i - k), Needed(q, i - k))
         ELSE Put(Home(q), q.n)]

DisassemblePlan(q) ==
  [i \in 1..(Len(q.bill) + 2) |->
     IF i = 1 THEN Check(Home(q), q.n)
     ELSE IF i = 2 THEN Draw(Home(q), q.n)
     ELSE Put(Part(q, i - 2), Needed(q, i - 2))]

Plan(q) ==
  CASE q.op = "add"         -> AddPlan(q)
    [] q.op = "remove"      -> RemovePlan(q)
    [] q.op = "transfer"    -> TransferPlan(q)
    [] q.op = "assemble"    -> AssemblePlan(q)
    [] q.op = "disassemble" -> DisassemblePlan(q)

-----------------------------------------------------------------------------
(* The row as one transaction sees it, and who may touch it.               *)

Active(w) == pc[w] # 0
Statement(w) == Plan(req[w])[pc[w]]
AtStatement(w, act) ==
  /\ Active(w)
  /\ pc[w] <= Len(Plan(req[w]))
  /\ Statement(w).act = act

Seen(w, r) == IF r \in held[w] THEN draft[w][r] ELSE quantity[r]

\* Fault: availability that forgets the reservations.
SpareOfAll(q, r) == q

\* Inventory.available: max(0, quantity - reserved).
Spare(q, r) == IF q > reserved[r] THEN q - reserved[r] ELSE 0

\* Fault: select_for_update() left out.
FreeAlways(w, r) == TRUE

Free(w, r) == \A v \in Workers \ {w} : r \notin held[v]

\* A plain get does not see another transaction's uncommitted row.
Exists(w, r) == r \in rows \cup held[w]

\* The row lock, if any, that w's next statement waits for.
WaitsFor(w, v) ==
  /\ Active(w) /\ pc[w] <= Len(Plan(req[w]))
  /\ w # v
  /\ Statement(w).row \in held[v]
  /\ Statement(w).act = "put" \/ Exists(w, Statement(w).row)

\* Fault: a database without a deadlock detector.
NeverDeadlocked(w) == FALSE

\* w is one of a ring of transactions that wait for each other.
Deadlocked(w) ==
  \E ring \in SUBSET Workers :
    /\ w \in ring
    /\ \A u \in ring : \E v \in ring : WaitsFor(u, v)
    /\ \A v \in ring : \E u \in ring : WaitsFor(u, v)

-----------------------------------------------------------------------------
Init ==
  /\ rows \in SUBSET Row
  /\ quantity \in [Row -> 0..MaxInt]
  /\ reserved \in [Row -> 0..MaxReserved]
  /\ \A r \in Row \ rows : quantity[r] = 0 /\ reserved[r] = 0
  /\ moved = [r \in Row |-> 0]
  /\ bom \in [Bundles -> UNION {Bills[b] : b \in Bundles}]
  /\ \A b \in Bundles : bom[b] \in Bills[b]
  /\ req = [w \in Workers |-> NoRequest]
  /\ pc = [w \in Workers |-> 0]
  /\ held = [w \in Workers |-> {}]
  /\ draft = [w \in Workers |-> [r \in Row |-> 0]]

(* The service calls: validation of the arguments and, for a bundle, the   *)
(* read of its bill of materials, which precedes the transaction.          *)

Begin(w, q) ==
  /\ ~Active(w)
  /\ req' = [req EXCEPT ![w] = q]
  /\ pc' = [pc EXCEPT ![w] = 1]
  /\ UNCHANGED <<stockVars, bom, held, draft>>

AddStock(w, p, wh, n) ==
  /\ p \in Physical
  /\ Begin(w, [op |-> "add", product |-> p, at |-> wh, to |-> wh,
               n |-> n, bill |-> <<>>])

RemoveStock(w, p, wh, n) ==
  /\ p \in Physical
  /\ Begin(w, [op |-> "remove", product |-> p, at |-> wh, to |-> wh,
               n |-> n, bill |-> <<>>])

TransferStock(w, p, from, to, n) ==
  /\ p \in Physical
  /\ from # to
  /\ \A r \in Row : moved[r] \in -MaxMoved..MaxMoved
  /\ Begin(w, [op |-> "transfer", product |-> p, at |-> from, to |-> to,
               n |-> n, bill |-> <<>>])

AssembleBundle(w, b, wh, n) ==
  /\ b \in Physical
  /\ bom[b] # <<>>
  /\ Begin(w, [op |-> "assemble", product |-> b, at |-> wh, to |-> wh,
               n |-> n, bill |-> bom[b]])

DisassembleBundle(w, b, wh, n) ==
  /\ b \in Physical
  /\ bom[b] # <<>>
  /\ Begin(w, [op |-> "disassemble", product |-> b, at |-> wh, to |-> wh,
               n |-> n, bill |-> bom[b]])

\* The catalogue endpoints replace a bill of materials at any time.
EditBill(b, bill) ==
  /\ bom' = [bom EXCEPT ![b] = bill]
  /\ UNCHANGED <<stockVars, txnVars>>

(* Statements.                                                             *)

\* Worker w now holds r, whose quantity its transaction sees as q.
Grasp(w, r, q) ==
  /\ held' = [held EXCEPT ![w] = @ \cup {r}]
  /\ draft' = [draft EXCEPT ![w][r] = q]
  /\ pc' = [pc EXCEPT ![w] = @ + 1]
  /\ UNCHANGED <<stockVars, bom, req>>

\* Fault: the availability check reads without the lock.
CheckRowUnlocked(w) ==
  LET s == Statement(w) IN
  /\ AtStatement(w, "check")
  /\ Exists(w, s.row)
  /\ Spare(Seen(w, s.row), s.row) >= s.n
  /\ pc' = [pc EXCEPT ![w] = @ + 1]
  /\ UNCHANGED <<stockVars, bom, req, held, draft>>

CheckRow(w) ==
  LET s == Statement(w) IN
  /\ AtStatement(w, "check")
  /\ Exists(w, s.row) /\ Free(w, s.row)
  /\ Spare(Seen(w, s.row), s.row) >= s.n
  /\ Grasp(w, s.row, Seen(w, s.row))

DrawRow(w) ==
  LET s == Statement(w) IN
  /\ AtStatement(w, "draw")
  /\ Free(w, s.row)
  /\ Grasp(w, s.row, Seen(w, s.row) - s.n)

\* Fault: get_or_create without select_for_update().
PutRowUnlocked(w) ==
  LET s == Statement(w) IN
  /\ AtStatement(w, "put")
  /\ Seen(w, s.row) + s.n <= MaxInt
  /\ Grasp(w, s.row, Seen(w, s.row) + s.n)

PutRow(w) ==
  LET s == Statement(w) IN
  /\ AtStatement(w, "put")
  /\ Free(w, s.row)
  /\ Seen(w, s.row) + s.n <= MaxInt
  /\ Grasp(w, s.row, Seen(w, s.row) + s.n)

(* Ends of a transaction.                                                  *)

\* Fault: the end of a transaction that keeps its row locks.
FinishHolding(w) ==
  /\ req' = [req EXCEPT ![w] = NoRequest]
  /\ pc' = [pc EXCEPT ![w] = 0]
  /\ draft' = [draft EXCEPT ![w] = [r \in Row |-> 0]]
  /\ UNCHANGED <<bom, held>>

Finish(w) ==
  /\ req' = [req EXCEPT ![w] = NoRequest]
  /\ pc' = [pc EXCEPT ![w] = 0]
  /\ held' = [held EXCEPT ![w] = {}]
  /\ draft' = [draft EXCEPT ![w] = [r \in Row |-> 0]]
  /\ UNCHANGED bom

\* Fault: service calls outside transaction.atomic(), which keep what they wrote.
RollbackPartly(w) ==
  /\ quantity' = [r \in Row |-> Seen(w, r)]
  /\ rows' = rows \cup held[w]
  /\ UNCHANGED <<reserved, moved>>
  /\ Finish(w)

Rollback(w) == Finish(w) /\ UNCHANGED stockVars

\* The COMPLETED InventoryTransfer record that transfer_stock inserts.
Recorded(q) ==
  IF q.op = "transfer"
    THEN [moved EXCEPT ![Home(q)] = @ - q.n, ![<<q.product, q.to>>] = @ + q.n]
    ELSE moved

Commit(w) ==
  /\ Active(w)
  /\ pc[w] = Len(Plan(req[w])) + 1
  /\ rows' = rows \cup held[w]
  /\ quantity' = [r \in Row |-> Seen(w, r)]
  /\ moved' = Recorded(req[w])
  /\ UNCHANGED reserved
  /\ Finish(w)

\* ValidationError: no such row, or not enough of it available.
Refuse(w) ==
  LET s == Statement(w) IN
  /\ AtStatement(w, "check")
  /\ \/ ~Exists(w, s.row)
     \/ Free(w, s.row) /\ Spare(Seen(w, s.row), s.row) < s.n
  /\ Rollback(w)

\* DataError: the column cannot hold the sum.
Overflow(w) ==
  LET s == Statement(w) IN
  /\ AtStatement(w, "put")
  /\ Free(w, s.row)
  /\ Seen(w, s.row) + s.n > MaxInt
  /\ Rollback(w)

\* PostgreSQL's deadlock detector aborts a transaction of the ring.
DeadlockAbort(w) == Deadlocked(w) /\ Rollback(w)

\* gunicorn kills a worker that exceeds its timeout; the server rolls back.
Kill(w) == Active(w) /\ Rollback(w)

-----------------------------------------------------------------------------
Call(w) ==
  \E n \in Amounts, wh \in Warehouses :
    \/ \E p \in Products :
         \/ AddStock(w, p, wh, n)
         \/ RemoveStock(w, p, wh, n)
         \/ \E to \in Warehouses : TransferStock(w, p, wh, to, n)
    \/ \E b \in Bundles :
         \/ AssembleBundle(w, b, wh, n)
         \/ DisassembleBundle(w, b, wh, n)

Proceed(w) ==
  CheckRow(w) \/ DrawRow(w) \/ PutRow(w) \/ Commit(w) \/ Refuse(w) \/ Overflow(w)

Next ==
  \/ \E w \in Workers : Call(w) \/ Proceed(w) \/ DeadlockAbort(w) \/ Kill(w)
  \/ \E b \in Bundles : \E bill \in Bills[b] : EditBill(b, bill)

Spec == Init /\ [][Next]_vars

(* PostgreSQL queues the waiters of a row, so a waiter is not overtaken    *)
(* for ever (strong fairness); the detector finds every ring. Nothing      *)
(* forces a client to call, or a worker to die.                            *)
FairSpec ==
  /\ Spec
  /\ \A w \in Workers : SF_vars(Proceed(w))
  /\ WF_vars(\E w \in Workers : DeadlockAbort(w))
-----------------------------------------------------------------------------
(* Properties.                                                             *)

\* Every variable keeps its type, and a worker is idle exactly when it has
\* no request, no locks and no pending writes.
TypeOK ==
  /\ rows \in SUBSET Row
  /\ quantity \in [Row -> Int]
  /\ reserved \in [Row -> Nat]
  /\ moved \in [Row -> Int]
  /\ bom \in [Bundles -> Seq(Line)]
  /\ \A b \in Bundles : bom[b] \in Bills[b]
  /\ req \in [Workers -> Request \cup {NoRequest}]
  /\ pc \in [Workers -> Nat]
  /\ held \in [Workers -> SUBSET Row]
  /\ draft \in [Workers -> [Row -> Int]]
  /\ \A w \in Workers :
       IF Active(w)
         THEN req[w] \in Request /\ pc[w] \in 1..(Len(Plan(req[w])) + 1)
         ELSE req[w] = NoRequest /\ held[w] = {}

\* select_for_update() and the unique constraint give every row at most one
\* transaction at a time, whatever the interleaving of services.
LocksExclusive ==
  \A v, w \in Workers : v # w => held[v] \cap held[w] = {}

\* The statements of q before position i that write row r, and what they did to it.
Writes(q, i, r) ==
  {j \in 1..(i - 1) : Plan(q)[j].row = r /\ Plan(q)[j].act # "check"}
Net(q, I) ==
  LET s == Plan(q)[CHOOSE j \in I : TRUE]
  IN  IF I = {} THEN 0 ELSE IF s.act = "put" THEN s.n ELSE -s.n
Effect(q, i, r) == Net(q, Writes(q, i, r))

\* No transaction works from a stale read: the quantity it sees in a row it
\* holds is the committed one plus what the transaction itself did to it.
DraftsFresh ==
  \A w \in Workers : \A r \in held[w] :
    draft[w][r] = quantity[r] + Effect(req[w], pc[w], r)

\* "A DB-level CHECK constraint prevents negative inventory": the services
\* never rely on it, in the tables or in what a transaction is about to write,
\* and an absent row counts nothing.
NeverNegative ==
  /\ \A r \in Row : quantity[r] \in 0..MaxInt
  /\ \A r \in Row \ rows : quantity[r] = 0
  /\ \A w \in Workers : \A r \in held[w] : draft[w][r] \in 0..MaxInt

\* Stock that leaves a row leaves its reservation covered: no step commits a
\* smaller quantity that is below what is reserved.
ReservationsCovered ==
  [][\A r \in Row : quantity'[r] < quantity[r] => quantity'[r] >= reserved'[r]]_vars

\* "Atomic transactions": however the statements interleave, abort and crash,
\* the tables change exactly as if each service call took a single step.
S == INSTANCE Stock WITH rows <- rows, quantity <- quantity, reserved <- reserved,
                         moved <- moved
ImplementsStock == S!Spec

\* Assembling q consumes product p.
Consumes(q, p) == \E i \in 1..Len(q.bill) : q.bill[i].component = p

\* assemble_bundle locks the components of any bundle newest product first
\* (ProductBundle.Meta orders by foreign key, hence by the -created_at of Product.Meta)
\* and the bundle last. So assemblies wait for each other in a ring only where one of
\* them makes what another consumes: a product that was in a bill when it became a bundle.
AssembliesNeverDeadlock ==
  \A ring \in SUBSET {w \in Workers : Active(w) /\ req[w].op = "assemble"} :
    /\ ring # {}
    /\ \A u \in ring : \E v \in ring : WaitsFor(u, v)
    => \E u, v \in ring : Consumes(req[u], req[v].product)

\* Every service call ends, in a commit or in an error, although transfers in
\* opposite directions and assembly against disassembly lock in opposite orders.
EveryCallEnds == \A w \in Workers : Active(w) ~> ~Active(w)
=============================================================================
