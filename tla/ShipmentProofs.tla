--------------------------- MODULE ShipmentProofs ---------------------------
(***************************************************************************)
(* Proofs about Shipments: receipts that read without locks still never    *)
(* push stock below its reservations, for any workers, shipments, loads    *)
(* and service calls.                                                      *)
(***************************************************************************)
EXTENDS ShipmentAudit, TLAPS

-----------------------------------------------------------------------------
(* What a service call may do to the tables.                               *)

Units == [Row -> Nat]

\* Tables whose rows are covered, and whose absent rows are empty.
TablesOK ==
  /\ rows \in SUBSET Row
  /\ quantity \in [Row -> 0..MaxInt]
  /\ reserved \in [Row -> 0..MaxInt]
  /\ \A r \in Row : reserved[r] <= quantity[r]
  /\ \A r \in Row \ rows : quantity[r] = 0 /\ reserved[r] = 0

\* Every change of the tables that Stock allows keeps them so.
LEMMA ShiftKeepsTables ==
  ASSUME NEW take \in Units, NEW give \in Units, TablesOK, S!Shift(take, give)
  PROVE  TablesOK' /\ reserved' = reserved
<1>1. MaxInt \in Nat
  BY AmountsAssumption
<1>2. /\ rows' = rows \cup {r \in Row : give[r] > 0}
      /\ quantity' = [r \in Row |-> (quantity[r] - take[r]) + give[r]]
      /\ reserved' = reserved
  BY DEF S!Shift, S!Row, Row
<1>3. ASSUME NEW r \in Row
      PROVE  /\ quantity'[r] \in 0..MaxInt
             /\ reserved'[r] <= quantity'[r]
             /\ r \notin rows' => quantity'[r] = 0 /\ reserved'[r] = 0
  <2> DEFINE q == quantity[r]
             x == reserved[r]
             t == take[r]
             g == give[r]
  <2>1. q \in 0..MaxInt /\ x \in 0..MaxInt /\ t \in Nat /\ g \in Nat /\ x <= q
    BY DEF TablesOK, Units
  <2>2. quantity'[r] = (q - t) + g /\ reserved'[r] = x
    BY <1>2
  <2>3. t > 0 => r \in rows /\ S!Spare(q, r) >= t
    BY DEF S!Shift, S!Row, Row
  <2>4. t > 0 => t <= q - x
    BY <2>1, <2>3 DEF S!Spare
  <2>5. g > 0 => q + g <= MaxInt
    BY DEF S!Shift, S!Row, Row
  <2>6. r \notin rows' => q = 0 /\ x = 0 /\ t = 0 /\ g = 0
    <3>1. r \notin rows' => r \notin rows /\ ~(g > 0)
      BY <1>2
    <3>2. r \notin rows => q = 0 /\ x = 0 /\ t = 0
      BY <2>1, <2>3 DEF TablesOK
    <3>3. QED
      BY <2>1, <3>1, <3>2
  <2> HIDE DEF q, x, t, g
  <2>7. QED
    BY <1>1, <2>1, <2>2, <2>4, <2>5, <2>6
<1>4. rows' \in SUBSET Row
  BY <1>2 DEF TablesOK
<1>5. quantity' \in [Row -> 0..MaxInt] /\ reserved' \in [Row -> 0..MaxInt]
  BY <1>2, <1>3 DEF TablesOK
<1>6. QED
  BY <1>2, <1>3, <1>4, <1>5 DEF TablesOK

\* The units of a bill are natural numbers.
LEMMA NeedsType ==
  ASSUME NEW b \in Bundles, NEW bill \in Bills[b], NEW wh \in Warehouses,
         NEW n \in Amounts
  PROVE  S!Needs(bill, wh, n) \in Units
<1> DEFINE Lines == [component : Products, quantity : Nat \ {0}]
<1>1. bill \in Seq(Lines) /\ n \in Nat
  BY CatalogueAssumption, AmountsAssumption
<1>2. \A i \in DOMAIN bill : bill[i].quantity \in Nat
  <2>1. \A l \in Lines : l.quantity \in Nat
    OBVIOUS
  <2> HIDE DEF Lines
  <2>2. DOMAIN bill = 1..Len(bill) /\ \A i \in 1..Len(bill) : bill[i] \in Lines
    BY <1>1
  <2>3. QED
    BY <2>1, <2>2
<1>3. \A i \in DOMAIN bill : bill[i].quantity * n \in Nat
  BY <1>1, <1>2
<1>4. ASSUME NEW r \in Row PROVE S!Needs(bill, wh, n)[r] \in Nat
  <2> DEFINE I == {i \in DOMAIN bill : <<bill[i].component, wh>> = r}
             c == CHOOSE i \in I : TRUE
  <2>1. S!Needs(bill, wh, n)[r] = IF I = {} THEN 0 ELSE bill[c].quantity * n
    BY DEF S!Needs, S!Row, Row
  <2>2. I # {} => c \in DOMAIN bill
    OBVIOUS
  <2> HIDE DEF c, I
  <2>3. QED
    BY <1>3, <2>1, <2>2
<1>5. S!Needs(bill, wh, n) = [r \in Row |-> S!Needs(bill, wh, n)[r]]
  BY DEF S!Needs, S!Row, Row
<1>6. QED
  BY <1>4, <1>5 DEF Units

LEMMA OnlyType ==
  ASSUME NEW r \in Row, NEW n \in Amounts
  PROVE  S!Only(r, n) \in Units /\ S!Nothing \in Units
  BY AmountsAssumption DEF S!Only, S!Nothing, S!Row, Row, Units

\* So does every service call.
LEMMA ServiceKeepsTables ==
  ASSUME TablesOK, S!Next
  PROVE  TablesOK' /\ reserved' = reserved
<1>1. PICK n \in Amounts, wh \in Warehouses :
        \/ \E p \in Physical :
             \/ S!Add(<<p, wh>>, n)
             \/ S!Remove(<<p, wh>>, n)
             \/ \E to \in Warehouses \ {wh} : S!Transfer(<<p, wh>>, <<p, to>>, n)
        \/ \E b \in Bundles \cap Physical : \E bill \in Bills[b] \ {<<>>} :
             S!Assemble(b, wh, bill, n) \/ S!Disassemble(b, wh, bill, n)
  BY DEF S!Next
<1>2. \A p \in Products, v \in Warehouses :
        <<p, v>> \in Row /\ S!Only(<<p, v>>, n) \in Units /\ S!Nothing \in Units
  BY OnlyType DEF Row
<1>3. PICK take \in Units, give \in Units : S!Shift(take, give)
  <2>1. ASSUME NEW p \in Physical, S!Add(<<p, wh>>, n)
        PROVE  \E take, give \in Units : S!Shift(take, give)
    BY <1>2, <2>1, CatalogueAssumption DEF S!Add
  <2>2. ASSUME NEW p \in Physical, S!Remove(<<p, wh>>, n)
        PROVE  \E take, give \in Units : S!Shift(take, give)
    BY <1>2, <2>2, CatalogueAssumption DEF S!Remove
  <2>3. ASSUME NEW p \in Physical, NEW to \in Warehouses,
               S!Transfer(<<p, wh>>, <<p, to>>, n)
        PROVE  \E take, give \in Units : S!Shift(take, give)
    BY <1>2, <2>3, CatalogueAssumption DEF S!Transfer
  <2>4. ASSUME NEW b \in Bundles, NEW bill \in Bills[b],
               S!Assemble(b, wh, bill, n) \/ S!Disassemble(b, wh, bill, n)
        PROVE  \E take, give \in Units : S!Shift(take, give)
    BY <1>2, <2>4, NeedsType, CatalogueAssumption DEF S!Assemble, S!Disassemble
  <2>5. QED
    BY <1>1, <2>1, <2>2, <2>3, <2>4
<1>4. QED
  BY <1>3, ShiftKeepsTables
-----------------------------------------------------------------------------
(* The inductive invariant: what a receipt read, and what it is about to   *)
(* write, covers the reservations of the row.                              *)

Located == \A s \in Shipments : Exists(s) => dest[s] \in Warehouses
StaleCovered == \A w \in Workers : AtStore(w) => reserved[Target(w)] <= stale[w]
DraftsCovered == \A w \in Workers : \A r \in held[w] : reserved[r] <= draft[w][r]

IInv == TypeOK /\ TablesOK /\ Located /\ StaleCovered /\ DraftsCovered

LEMMA TargetType ==
  ASSUME TypeOK, NEW w \in Workers, AtItem(w)
  PROVE  Target(w) \in Row /\ ItemAt(w).quantity \in Nat
<1> DEFINE i == (pc[w] + 1) \div 2
<1>1. job[w] \in Job /\ pc[w] \in Nat /\ pc[w] # 0
  BY DEF TypeOK, AtItem, Receiving, Active
<1>2. job[w].cargo \in Seq(Item) /\ job[w].dest \in Warehouses
  BY <1>1 DEF Job
<1>3. Len(job[w].cargo) \in Nat /\ pc[w] <= 2 * Len(job[w].cargo)
  BY <1>2 DEF AtItem
<1>4. i \in 1..Len(job[w].cargo)
  BY <1>1, <1>3
<1>5. ItemAt(w) \in Item
  BY <1>2, <1>4 DEF ItemAt
<1>6. QED
  BY <1>2, <1>5 DEF Item, Target, Row

LEMMA InitInvariant == Init => IInv
<1> SUFFICES ASSUME Init PROVE IInv
  OBVIOUS
<1>1. TablesOK
  BY DEF Init, S!Init, S!Row, Row, TablesOK
<1>2. \A w \in Workers : pc[w] = 0 /\ held[w] = {} /\ job[w] = NoJob
  BY DEF Init
<1>3. TypeOK
  <2>1. 0 \in 0..MaxInt
    BY AmountsAssumption
  <2>2. /\ status \in [Shipments -> Statuses \cup {"unborn", "deleted"}]
        /\ dest \in [Shipments -> Warehouses \cup {Nowhere}]
        /\ cargo \in [Shipments -> Seq(Item)]
    BY DEF Init
  <2>3. /\ job \in [Workers -> Job \cup {NoJob}] /\ pc \in [Workers -> Nat]
        /\ stale \in [Workers -> 0..MaxInt] /\ held \in [Workers -> SUBSET Row]
        /\ draft \in [Workers -> [Row -> 0..MaxInt]]
    BY <2>1 DEF Init
  <2>4. QED
    BY <1>1, <1>2, <2>2, <2>3 DEF TypeOK, TablesOK, Active
<1>4. Located
  BY StatusAssumption DEF Init, Located, Exists, Statuses, Received
<1>5. StaleCovered /\ DraftsCovered
  BY <1>2 DEF StaleCovered, DraftsCovered, AtStore, AtItem, Receiving, Active
<1>6. QED
  BY <1>1, <1>3, <1>4, <1>5 DEF IInv

\* The tables: a service keeps them, a receipt adds to what it read.
LEMMA TablesStep ==
  ASSUME IInv, [Next]_vars
  PROVE  TablesOK' /\ reserved' = reserved
<1>1. ASSUME NEW w \in Workers, Service(w)
      PROVE  TablesOK' /\ reserved' = reserved
  <2>1. CASE S!Next
    BY <2>1, ServiceKeepsTables DEF IInv
  <2>2. CASE UNCHANGED stockVars
    BY <2>2 DEF IInv, TablesOK, stockVars
  <2>3. QED
    BY <1>1, <2>1, <2>2 DEF Service
<1>2. ASSUME NEW w \in Workers, CommitReceipt(w)
      PROVE  TablesOK' /\ reserved' = reserved
  <2>1. /\ rows' = rows \cup held[w]
        /\ quantity' = [r \in Row |-> IF r \in held[w] THEN draft[w][r] ELSE quantity[r]]
        /\ reserved' = reserved
    BY <1>2 DEF CommitReceipt, Publish
  <2>2. held[w] \subseteq Row /\ draft[w] \in [Row -> 0..MaxInt]
    BY DEF IInv, TypeOK
  <2>3. \A r \in held[w] : reserved[r] <= draft[w][r]
    BY DEF IInv, DraftsCovered
  <2>4. QED
    BY <2>1, <2>2, <2>3 DEF IInv, TablesOK
<1>3. CASE UNCHANGED stockVars
  BY <1>3 DEF IInv, TablesOK, stockVars
<1>4. ASSUME NEW w \in Workers, Call(w), ~Service(w) PROVE UNCHANGED stockVars
  BY <1>4 DEF Call, Request, Create, UpdateStatus, Patch, Delete, Open
<1>5. ASSUME NEW w \in Workers, Proceed(w), ~CommitReceipt(w) PROVE UNCHANGED stockVars
  BY <1>5 DEF Proceed, FindItemsGone, Fetch, Insert, Store, Overflow, SaveShipment,
              Destroy, Advance, Abandon
<1>6. ASSUME NEW w \in Workers, DeadlockAbort(w) \/ Kill(w) PROVE UNCHANGED stockVars
  BY <1>6 DEF DeadlockAbort, Kill, Abandon
<1>7. CASE UNCHANGED vars
  BY <1>3, <1>7 DEF vars, stockVars
<1>8. QED
  BY <1>1, <1>2, <1>3, <1>4, <1>5, <1>6, <1>7 DEF Next

\* The shipments: a deletion keeps them typed, a save puts back a full copy.
LEMMA ShipmentStep ==
  ASSUME IInv, [Next]_vars
  PROVE  /\ status' \in [Shipments -> Statuses \cup {"unborn", "deleted"}]
         /\ dest' \in [Shipments -> Warehouses \cup {Nowhere}]
         /\ cargo' \in [Shipments -> Seq(Item)]
         /\ Located'
<1> DEFINE Goal == /\ status' \in [Shipments -> Statuses \cup {"unborn", "deleted"}]
                   /\ dest' \in [Shipments -> Warehouses \cup {Nowhere}]
                   /\ cargo' \in [Shipments -> Seq(Item)]
                   /\ Located'
<1>1. /\ status \in [Shipments -> Statuses \cup {"unborn", "deleted"}]
      /\ dest \in [Shipments -> Warehouses \cup {Nowhere}]
      /\ cargo \in [Shipments -> Seq(Item)]
      /\ Located
      /\ "CREATED" \in Statuses /\ "deleted" \notin Statuses
  BY StatusAssumption DEF IInv, TypeOK, Statuses, Received
<1>2. CASE UNCHANGED shipmentVars
  BY <1>1, <1>2 DEF shipmentVars, Located, Exists
<1>3. ASSUME NEW w \in Workers, NEW s \in Shipments, NEW to \in Warehouses,
             NEW load \in Loads, Create(w, s, to, load)
      PROVE  Goal
  BY <1>1, <1>3, LoadsAssumption DEF Create, Located, Exists
<1>4. ASSUME NEW w \in Workers, SaveShipment(w) PROVE Goal
  <2>1. job[w] \in Job
    BY <1>4 DEF IInv, TypeOK, SaveShipment
  <2>2. /\ job[w].shipment \in Shipments /\ job[w].status \in Statuses
        /\ job[w].dest \in Warehouses
    BY <2>1 DEF Job
  <2>3. QED
    BY <1>1, <1>4, <2>2 DEF SaveShipment, Located, Exists
<1>5. ASSUME NEW w \in Workers, Destroy(w) PROVE Goal
  <2>1. job[w] \in Job
    BY <1>5 DEF IInv, TypeOK, Destroy
  <2>2. job[w].shipment \in Shipments
    BY <2>1 DEF Job
  <2>3. QED
    BY <1>1, <1>5, <2>2 DEF Destroy, Located, Exists
<1>6. ASSUME NEW w \in Workers, Service(w) PROVE UNCHANGED shipmentVars
  BY <1>6 DEF Service
<1>7. ASSUME NEW w \in Workers, NEW s \in Shipments,
             \/ \E new \in Statuses : UpdateStatus(w, s, new)
             \/ \E new \in Statuses, to \in Warehouses : Patch(w, s, new, to)
             \/ Delete(w, s)
      PROVE  UNCHANGED shipmentVars
  BY <1>7 DEF UpdateStatus, Patch, Delete, Open
<1>8. ASSUME NEW w \in Workers,
             \/ FindItemsGone(w) \/ Fetch(w) \/ Insert(w) \/ Store(w)
             \/ CommitReceipt(w) \/ Overflow(w)
      PROVE  UNCHANGED shipmentVars
  BY <1>8 DEF FindItemsGone, Fetch, Insert, Store, CommitReceipt, Overflow, Advance, Abandon
<1>9. ASSUME NEW w \in Workers, DeadlockAbort(w) \/ Kill(w)
      PROVE  UNCHANGED shipmentVars
  BY <1>9 DEF DeadlockAbort, Kill, Abandon
<1>10. UNCHANGED vars => UNCHANGED shipmentVars
  BY DEF vars, shipmentVars
<1>11. QED
  BY <1>2, <1>3, <1>4, <1>5, <1>6, <1>7, <1>8, <1>9, <1>10 DEF Next, Call, Request, Proceed

-----------------------------------------------------------------------------
(* The requests.                                                           *)

\* What a request and its transaction look like, for one worker.
Served(w) ==
  /\ job[w] \in Job \cup {NoJob} /\ pc[w] \in Nat
  /\ stale[w] \in 0..MaxInt
  /\ held[w] \in SUBSET Row /\ draft[w] \in [Row -> 0..MaxInt]
  /\ IF Active(w) THEN job[w] \in Job ELSE job[w] = NoJob /\ held[w] = {}
  /\ held[w] # {} => Receiving(w)
  /\ AtStore(w) => reserved[Target(w)] <= stale[w]
  /\ \A r \in held[w] : reserved[r] <= draft[w][r]

JobFunctions ==
  /\ job = [w \in Workers |-> job[w]] /\ pc = [w \in Workers |-> pc[w]]
  /\ stale = [w \in Workers |-> stale[w]]
  /\ held = [w \in Workers |-> held[w]] /\ draft = [w \in Workers |-> draft[w]]

LEMMA ServedFromInvariant ==
  ASSUME IInv
  PROVE  JobFunctions /\ \A w \in Workers : Served(w)
BY DEF IInv, TypeOK, StaleCovered, DraftsCovered, JobFunctions, Served

\* A worker's part depends on its own variables and on the reservations.
LEMMA ServedAlone ==
  ASSUME NEW w, Served(w), reserved' = reserved, job'[w] = job[w], pc'[w] = pc[w],
         stale'[w] = stale[w], held'[w] = held[w], draft'[w] = draft[w]
  PROVE  Served(w)'
BY DEF Served, Active, Receiving, AtStore, AtItem, Target, ItemAt

\* An idle worker, whatever happened to its request.
LEMMA ServedIdle ==
  ASSUME NEW w \in Workers, job'[w] = NoJob, pc'[w] = 0, stale'[w] = 0,
         held'[w] = {}, draft'[w] \in [Row -> 0..MaxInt]
  PROVE  Served(w)'
<1>1. 0 \in 0..MaxInt
  BY AmountsAssumption
<1>2. ~Active(w)'
  BY DEF Active
<1>3. ~Receiving(w)' /\ ~AtStore(w)'
  BY <1>2 DEF Receiving, AtStore, AtItem
<1>4. QED
  BY <1>1, <1>2, <1>3 DEF Served

\* A worker that holds nothing and starts, or goes on to, the request j.
LEMMA ServedAtStart ==
  ASSUME NEW w \in Workers, Served(w), NEW j \in Job,
         job'[w] = j, pc'[w] = 1, stale'[w] = stale[w],
         held'[w] = {}, draft'[w] \in [Row -> 0..MaxInt]
  PROVE  Served(w)'
<1>1. Active(w)' /\ ~AtStore(w)'
  BY DEF Active, AtStore
<1>2. QED
  BY <1>1 DEF Served

\* w's step leaves the other workers alone.
Alone(w) ==
  /\ job' = [job EXCEPT ![w] = job'[w]] /\ pc' = [pc EXCEPT ![w] = pc'[w]]
  /\ stale' = [stale EXCEPT ![w] = stale'[w]]
  /\ held' = [held EXCEPT ![w] = held'[w]] /\ draft' = [draft EXCEPT ![w] = draft'[w]]

LEMMA ServedStep ==
  ASSUME IInv, reserved' = reserved, NEW w \in Workers, Alone(w), Served(w)'
  PROVE  JobFunctions' /\ \A v \in Workers : Served(v)'
<1>1. JobFunctions /\ \A v \in Workers : Served(v)
  BY ServedFromInvariant
<1>2. JobFunctions'
  BY <1>1 DEF JobFunctions, Alone
<1>3. ASSUME NEW v \in Workers, v # w PROVE Served(v)'
  <2>1. /\ job'[v] = job[v] /\ pc'[v] = pc[v] /\ stale'[v] = stale[v]
        /\ held'[v] = held[v] /\ draft'[v] = draft[v]
    BY <1>1, <1>3 DEF JobFunctions, Alone
  <2>2. QED
    BY <1>1, <2>1, ServedAlone
<1>4. QED
  BY <1>2, <1>3

\* The steps of a receipt.
LEMMA ItemsGoneStep ==
  ASSUME IInv, NEW w \in Workers, FindItemsGone(w)
  PROVE  /\ Alone(w) /\ Served(w)'
         /\ job[w] \in Job /\ job'[w] = [job[w] EXCEPT !.cargo = <<>>]
         /\ \A v \in Workers : v # w => job'[v] = job[v]
         /\ UNCHANGED <<pc, stale, held, draft, stockVars, shipmentVars>>
         /\ Receiving(w) /\ pc[w] = 1
<1>1. JobFunctions /\ Served(w)
  BY ServedFromInvariant
<1>2. /\ job' = [job EXCEPT ![w].cargo = <<>>] /\ Receiving(w) /\ pc[w] = 1
      /\ UNCHANGED <<pc, stale, held, draft, stockVars, shipmentVars>>
  BY DEF FindItemsGone, txnVars
<1>3. job[w] \in Job
  BY <1>1, <1>2 DEF Served, Receiving
<1> DEFINE j == [job[w] EXCEPT !.cargo = <<>>]
<1>4. j \in Job /\ j.kind = job[w].kind
  <2>1. \A lines \in Seq(Item) : /\ [job[w] EXCEPT !.cargo = lines] \in Job
                                 /\ [job[w] EXCEPT !.cargo = lines].kind = job[w].kind
    BY <1>3 DEF Job
  <2>2. <<>> \in Seq(Item)
    OBVIOUS
  <2>3. QED
    BY ONLY <2>1, <2>2
<1>5. job'[w] = j /\ Alone(w) /\ \A v \in Workers : v # w => job'[v] = job[v]
  <2>1. job' = [job EXCEPT ![w] = j] /\ JobFunctions
    BY ONLY <1>1, <1>2 DEF JobFunctions
  <2> HIDE DEF j
  <2>2. job'[w] = j /\ \A v \in Workers : v # w => job'[v] = job[v]
    BY <2>1 DEF JobFunctions
  <2>3. Alone(w)
    BY <1>2, <2>1, <2>2 DEF Alone, JobFunctions
  <2>4. QED
    BY <2>2, <2>3
<1>6. Active(w)' /\ Receiving(w)' /\ ~AtStore(w)'
  BY <1>2, <1>4, <1>5 DEF Active, Receiving, AtStore
<1>7. reserved' = reserved
  BY <1>2 DEF stockVars
<1> HIDE DEF j
<1>8. Served(w)'
  BY <1>1, <1>2, <1>4, <1>5, <1>6, <1>7 DEF Served
<1>9. QED
  BY <1>2, <1>3, <1>5, <1>8 DEF j

LEMMA FetchStep ==
  ASSUME IInv, NEW w \in Workers, Fetch(w)
  PROVE  Alone(w) /\ Served(w)'
<1>1. JobFunctions /\ Served(w)
  BY ServedFromInvariant
<1>2. /\ job' = job /\ held' = held /\ draft' = draft /\ reserved' = reserved
      /\ pc' = [pc EXCEPT ![w] = @ + 1]
      /\ stale' = [stale EXCEPT ![w] = quantity[Target(w)]]
  BY DEF Fetch, Advance, stockVars, txnVars
<1>3. Alone(w) /\ pc'[w] = pc[w] + 1 /\ stale'[w] = quantity[Target(w)]
  BY <1>1, <1>2 DEF Alone, JobFunctions
<1>4. Target(w) \in Row
  BY TargetType DEF Fetch, AtFetch, IInv
<1>5. stale'[w] \in 0..MaxInt /\ reserved[Target(w)] <= stale'[w]
  BY <1>3, <1>4 DEF IInv, TablesOK
<1>6. pc[w] \in Nat /\ pc[w] % 2 = 1 /\ Active(w) /\ Receiving(w)
  BY <1>1 DEF Fetch, AtFetch, AtItem, Receiving, Served
<1>7. Active(w)' /\ Receiving(w)'
  BY <1>2, <1>3, <1>6 DEF Active, Receiving
<1>8. Target(w)' = Target(w)
  <2>1. \A n \in Nat : n % 2 = 1 => (n + 1 + 1) \div 2 = (n + 1) \div 2
    OBVIOUS
  <2>2. (pc'[w] + 1) \div 2 = (pc[w] + 1) \div 2
    BY <1>3, <1>6, <2>1
  <2>3. QED
    BY <1>2, <2>2 DEF Target, ItemAt
<1>9. QED
  BY <1>1, <1>2, <1>3, <1>5, <1>6, <1>7, <1>8 DEF Served

LEMMA InsertStep ==
  ASSUME IInv, NEW w \in Workers, Insert(w)
  PROVE  Alone(w) /\ Served(w)'
<1>1. JobFunctions /\ Served(w)
  BY ServedFromInvariant
<1>2. /\ job' = job /\ draft' = draft /\ reserved' = reserved
      /\ held' = [held EXCEPT ![w] = @ \cup {Target(w)}]
      /\ pc' = [pc EXCEPT ![w] = @ + 1]
      /\ stale' = [stale EXCEPT ![w] = 0]
  BY DEF Insert, Advance, stockVars
<1>3. Alone(w) /\ pc'[w] = pc[w] + 1 /\ stale'[w] = 0 /\ held'[w] = held[w] \cup {Target(w)}
  BY <1>1, <1>2 DEF Alone, JobFunctions
<1>4. Target(w) \in Row
  BY TargetType DEF Insert, AtFetch, IInv
<1>5. reserved[Target(w)] = 0 /\ 0 \in 0..MaxInt
  BY <1>4, AmountsAssumption DEF Insert, IInv, TablesOK
<1>6. pc[w] \in Nat /\ pc[w] % 2 = 1 /\ Active(w) /\ Receiving(w)
  BY <1>1 DEF Insert, AtFetch, AtItem, Receiving, Served
<1>7. Active(w)' /\ Receiving(w)'
  BY <1>2, <1>3, <1>6 DEF Active, Receiving
<1>8. Target(w)' = Target(w)
  <2>1. \A n \in Nat : n % 2 = 1 => (n + 1 + 1) \div 2 = (n + 1) \div 2
    OBVIOUS
  <2>2. (pc'[w] + 1) \div 2 = (pc[w] + 1) \div 2
    BY <1>3, <1>6, <2>1
  <2>3. QED
    BY <1>2, <2>2 DEF Target, ItemAt
<1>9. \A r \in held'[w] : reserved[r] <= draft[w][r]
  <2>1. draft[w][Target(w)] \in 0..MaxInt
    BY <1>1, <1>4 DEF Served
  <2>2. QED
    BY <1>1, <1>3, <1>5, <2>1 DEF Served
<1>10. QED
  BY <1>1, <1>2, <1>3, <1>4, <1>5, <1>6, <1>7, <1>8, <1>9 DEF Served

LEMMA StoreStep ==
  ASSUME IInv, NEW w \in Workers, Store(w)
  PROVE  Alone(w) /\ Served(w)'
<1> DEFINE q == stale[w] + ItemAt(w).quantity
<1>1. JobFunctions /\ Served(w)
  BY ServedFromInvariant
<1>2. /\ job' = job /\ reserved' = reserved
      /\ held' = [held EXCEPT ![w] = @ \cup {Target(w)}]
      /\ draft' = [draft EXCEPT ![w][Target(w)] = q]
      /\ pc' = [pc EXCEPT ![w] = @ + 1]
      /\ stale' = [stale EXCEPT ![w] = 0]
  BY DEF Store, Advance, stockVars
<1>3. /\ Alone(w) /\ pc'[w] = pc[w] + 1 /\ stale'[w] = 0
      /\ held'[w] = held[w] \cup {Target(w)}
      /\ draft'[w] = [draft[w] EXCEPT ![Target(w)] = q]
  BY <1>1, <1>2 DEF Alone, JobFunctions
<1>4. Target(w) \in Row /\ ItemAt(w).quantity \in Nat
  BY TargetType DEF Store, AtStore, IInv
<1>5. /\ reserved[Target(w)] <= stale[w] /\ stale[w] \in 0..MaxInt
      /\ q <= MaxInt /\ 0 \in 0..MaxInt
      /\ reserved[Target(w)] \in Nat
  BY <1>1, <1>4, AmountsAssumption DEF Served, Store, IInv, TablesOK
<1>6. q \in 0..MaxInt /\ reserved[Target(w)] <= q
  BY <1>4, <1>5, AmountsAssumption
<1>7. pc[w] \in Nat /\ pc[w] % 2 = 0 /\ Active(w) /\ Receiving(w)
  BY <1>1 DEF Store, AtStore, AtItem, Receiving, Served
<1>8. Active(w)' /\ Receiving(w)'
  BY <1>2, <1>3, <1>7 DEF Active, Receiving
<1>9. ~AtStore(w)'
  <2>1. \A n \in Nat : n % 2 = 0 => (n + 1) % 2 # 0
    OBVIOUS
  <2>2. QED
    BY <1>3, <1>7, <2>1 DEF AtStore
<1> HIDE DEF q
<1>10. draft'[w] \in [Row -> 0..MaxInt]
  BY <1>1, <1>3, <1>4, <1>6 DEF Served
<1>11. \A r \in held'[w] : reserved[r] <= draft'[w][r]
  <2>1. draft'[w][Target(w)] = q
    BY <1>1, <1>3, <1>4 DEF Served
  <2>2. \A r \in held[w] : r # Target(w) => draft'[w][r] = draft[w][r]
    BY <1>1, <1>3, <1>4 DEF Served
  <2>3. QED
    BY <1>1, <1>3, <1>6, <2>1, <2>2 DEF Served
<1>12. QED
  BY <1>1, <1>2, <1>3, <1>4, <1>5, <1>7, <1>8, <1>9, <1>10, <1>11 DEF Served

LEMMA CommitReceiptStep ==
  ASSUME IInv, NEW w \in Workers, CommitReceipt(w)
  PROVE  Alone(w) /\ Served(w)'
<1> DEFINE j == [job[w] EXCEPT !.kind = "received"]
<1>1. JobFunctions /\ Served(w)
  BY ServedFromInvariant
<1>2. /\ job' = [job EXCEPT ![w].kind = "received"] /\ pc' = [pc EXCEPT ![w] = 1]
      /\ stale' = stale
      /\ held' = [held EXCEPT ![w] = {}]
      /\ draft' = [draft EXCEPT ![w] = [r \in Row |-> 0]]
  BY DEF CommitReceipt, Release
<1>3. /\ Alone(w) /\ job'[w] = j /\ pc'[w] = 1 /\ stale'[w] = stale[w]
      /\ held'[w] = {} /\ draft'[w] = [r \in Row |-> 0]
  BY <1>1, <1>2 DEF Alone, JobFunctions
<1>4. j \in Job
  BY <1>1 DEF Served, CommitReceipt, Receiving, Job
<1>5. draft'[w] \in [Row -> 0..MaxInt]
  BY <1>3, AmountsAssumption
<1> HIDE DEF j
<1>6. QED
  BY <1>1, <1>3, <1>4, <1>5, ServedAtStart

\* The end of a request that holds nothing any more, or gives up what it holds.
LEMMA EndStep ==
  ASSUME IInv, NEW w \in Workers, Abandon(w) \/ SaveShipment(w) \/ Destroy(w)
  PROVE  Alone(w) /\ Served(w)'
<1>1. JobFunctions /\ Served(w)
  BY ServedFromInvariant
<1>2. Idle(w)
  BY DEF Abandon, SaveShipment, Destroy
<1>3. \/ Release(w)
      \/ /\ held' = held /\ draft' = draft
         /\ job[w].kind # "receive"
  BY DEF Abandon, SaveShipment, Destroy, txnVars
<1>4. CASE Release(w)
  <2>1. /\ Alone(w) /\ job'[w] = NoJob /\ pc'[w] = 0 /\ stale'[w] = 0
        /\ held'[w] = {} /\ draft'[w] = [r \in Row |-> 0]
    BY <1>1, <1>2, <1>4 DEF Idle, Release, Alone, JobFunctions
  <2>2. draft'[w] \in [Row -> 0..MaxInt]
    BY <2>1, AmountsAssumption
  <2>3. QED
    BY <2>1, <2>2, ServedIdle
<1>5. CASE held' = held /\ draft' = draft /\ job[w].kind # "receive"
  <2>1. held[w] = {} /\ draft[w] \in [Row -> 0..MaxInt]
    BY <1>1, <1>5 DEF Served, Receiving
  <2>2. /\ Alone(w) /\ job'[w] = NoJob /\ pc'[w] = 0 /\ stale'[w] = 0
        /\ held'[w] = {} /\ draft'[w] = draft[w]
    BY <1>1, <1>2, <1>5, <2>1 DEF Idle, Alone, JobFunctions
  <2>3. QED
    BY <2>1, <2>2, ServedIdle
<1>6. QED
  BY <1>3, <1>4, <1>5

\* get_object(): the copy is a proper one, because the shipment exists.
LEMMA OpenStep ==
  ASSUME IInv, NEW w \in Workers, NEW s \in Shipments, NEW new \in Statuses,
         NEW kind \in {"receive", "status", "patch", "delete"},
         NEW to \in Warehouses, Open(w, kind, s, new, to)
  PROVE  Alone(w) /\ Served(w)'
<1> DEFINE j == [kind |-> kind, shipment |-> s, status |-> new, dest |-> to,
                 cargo |-> cargo[s]]
<1>1. JobFunctions /\ Served(w)
  BY ServedFromInvariant
<1>2. j \in Job
  BY DEF IInv, TypeOK, Job
<1>3. /\ job' = [job EXCEPT ![w] = j] /\ pc' = [pc EXCEPT ![w] = 1]
      /\ stale' = stale /\ held' = held /\ draft' = draft /\ ~Active(w)
  BY DEF Open, txnVars
<1> HIDE DEF j
<1>4. held[w] = {} /\ draft[w] \in [Row -> 0..MaxInt]
  BY <1>1, <1>3 DEF Served
<1>5. /\ Alone(w) /\ job'[w] = j /\ pc'[w] = 1 /\ stale'[w] = stale[w]
      /\ held'[w] = {} /\ draft'[w] = draft[w]
  BY <1>1, <1>3, <1>4 DEF Alone, JobFunctions
<1>6. QED
  BY <1>1, <1>2, <1>4, <1>5, ServedAtStart

\* Every step keeps every worker's part.
LEMMA RequestStep ==
  ASSUME IInv, [Next]_vars
  PROVE  JobFunctions' /\ \A v \in Workers : Served(v)'
<1> DEFINE Goal == JobFunctions' /\ \A v \in Workers : Served(v)'
           Same == UNCHANGED <<job, pc, stale, held, draft>>
<1>1. reserved' = reserved
  BY TablesStep
<1>2. ASSUME Same PROVE Goal
  <2>1. JobFunctions /\ \A v \in Workers : Served(v)
    BY ServedFromInvariant
  <2>2. JobFunctions'
    BY <1>2, <2>1 DEF JobFunctions
  <2>3. QED
    BY <1>1, <1>2, <2>1, <2>2, ServedAlone
<1>3. ASSUME NEW w \in Workers, Alone(w) /\ Served(w)' PROVE Goal
  BY <1>1, <1>3, ServedStep
<1>4. ASSUME NEW w \in Workers, Service(w) PROVE Same
  BY <1>4 DEF Service, txnVars
<1>5. ASSUME NEW w \in Workers, NEW s \in Shipments, NEW to \in Warehouses,
             NEW load \in Loads, Create(w, s, to, load)
      PROVE  Same
  BY <1>5 DEF Create, txnVars
<1>6. ASSUME NEW w \in Workers, NEW s \in Shipments, NEW new \in Statuses,
             UpdateStatus(w, s, new)
      PROVE  Alone(w) /\ Served(w)'
  <2>1. dest[s] \in Warehouses
    BY <1>6 DEF UpdateStatus, Open, IInv, Located
  <2>2. QED
    BY <1>6, <2>1, OpenStep DEF UpdateStatus
<1>7. ASSUME NEW w \in Workers, NEW s \in Shipments, NEW new \in Statuses,
             NEW to \in Warehouses, Patch(w, s, new, to)
      PROVE  Alone(w) /\ Served(w)'
  BY <1>7, OpenStep DEF Patch
<1>8. ASSUME NEW w \in Workers, NEW s \in Shipments, Delete(w, s)
      PROVE  Alone(w) /\ Served(w)'
  <2>1. dest[s] \in Warehouses /\ status[s] \in Statuses
    BY <1>8 DEF Delete, Open, Exists, IInv, Located
  <2>2. QED
    BY <1>8, <2>1, OpenStep DEF Delete
<1>9. ASSUME NEW w \in Workers, Proceed(w) PROVE Alone(w) /\ Served(w)'
  BY <1>9, ItemsGoneStep, FetchStep, InsertStep, StoreStep, CommitReceiptStep, EndStep
     DEF Proceed, Overflow
<1>10. ASSUME NEW w \in Workers, DeadlockAbort(w) \/ Kill(w)
       PROVE  Alone(w) /\ Served(w)'
  BY <1>10, EndStep DEF DeadlockAbort, Kill
<1>11. UNCHANGED vars => Same
  BY DEF vars
<1> HIDE DEF Goal, Same
<1>12. ASSUME NEW w \in Workers, Call(w) PROVE Goal
  BY <1>2, <1>3, <1>4, <1>5, <1>6, <1>7, <1>8, <1>12 DEF Call, Request
<1>13. QED
  <2>1. Goal
    BY <1>2, <1>3, <1>9, <1>10, <1>11, <1>12 DEF Next
  <2>2. QED
    BY <2>1 DEF Goal

LEMMA StepInvariant == IInv /\ [Next]_vars => IInv'
<1> SUFFICES ASSUME IInv, [Next]_vars PROVE IInv'
  OBVIOUS
<1>1. TablesOK'
  BY TablesStep
<1>2. /\ status' \in [Shipments -> Statuses \cup {"unborn", "deleted"}]
      /\ dest' \in [Shipments -> Warehouses \cup {Nowhere}]
      /\ cargo' \in [Shipments -> Seq(Item)]
      /\ Located'
  BY ShipmentStep
<1>3. JobFunctions' /\ \A v \in Workers : Served(v)'
  BY RequestStep
<1>4. /\ job' \in [Workers -> Job \cup {NoJob}] /\ pc' \in [Workers -> Nat]
      /\ stale' \in [Workers -> 0..MaxInt] /\ held' \in [Workers -> SUBSET Row]
      /\ draft' \in [Workers -> [Row -> 0..MaxInt]]
  BY <1>3 DEF JobFunctions, Served
<1>5. TypeOK'
  BY <1>1, <1>2, <1>3, <1>4 DEF TypeOK, TablesOK, Served
<1>6. StaleCovered' /\ DraftsCovered'
  BY <1>3 DEF StaleCovered, DraftsCovered, Served
<1>7. QED
  BY <1>1, <1>2, <1>5, <1>6 DEF IInv

LEMMA Invariance == Spec => []IInv
BY InitInvariant, StepInvariant, PTL DEF Spec

-----------------------------------------------------------------------------
(* Results.                                                                *)

\* Every variable keeps its type: in particular no quantity, committed or about
\* to be, leaves the column's range, and only a receipt under way holds rows.
THEOREM TypeCorrect == Spec => []TypeOK
<1>1. IInv => TypeOK
  BY DEF IInv
<1>2. QED
  BY <1>1, Invariance, PTL

\* Unlocked receipts lose movements, but never leave less in a row than what is
\* reserved of it.
THEOREM StockStaysCovered == Spec => []StockCovered
<1>1. IInv => StockCovered
  BY DEF IInv, TablesOK, StockCovered
<1>2. QED
  BY <1>1, Invariance, PTL

-----------------------------------------------------------------------------
(* The books.  What a receipt read is what the row holds, unless the row   *)
(* was crossed; what it is about to write is that and the item.            *)

Place(w, i) == <<job[w].cargo[i].product, job[w].dest>>
Distinct(lines) == \A i, j \in 1..Len(lines) : lines[i].product = lines[j].product => i = j

AuditTyped ==
  /\ ledger \in [Row -> Int]
  /\ stocked \in [Shipments -> Nat] /\ entered \in [Shipments -> Nat] /\ deaths \in Nat
  /\ crossed \in SUBSET Row /\ overlapped \in SUBSET Shipments

CargoDistinct ==
  /\ \A s \in Shipments : Distinct(cargo[s])
  /\ \A w \in Workers : Active(w) => Distinct(job[w].cargo)

HeldApart == \A v, w \in Workers : v # w => held[v] \cap held[w] = {}

Reads(w) ==
  Receiving(w) =>
    /\ AtStore(w) => Target(w) \in crossed \/ stale[w] = quantity[Target(w)]
    /\ \A i \in 1..Len(job[w].cargo) : 2 * i < pc[w] =>
         /\ Place(w, i) \in held[w]
         /\ \/ Place(w, i) \in crossed
            \/ draft[w][Place(w, i)] = quantity[Place(w, i)] + job[w].cargo[i].quantity
    /\ \A r \in held[w] : \E i \in 1..Len(job[w].cargo) : 2 * i <= pc[w] /\ r = Place(w, i)

BInv ==
  /\ IInv /\ AuditTyped /\ CargoDistinct /\ HeldApart /\ MovementsKept
  /\ \A w \in Workers : Reads(w)

\* The audit only watches.
LEMMA AuditWatches ==
  /\ AInit => Init
  /\ [ANext]_<<vars, auditVars>> => [Next]_vars
<1>1. AInit => Init
  BY DEF AInit
<1>2. ASSUME NEW w \in Workers, ARequest(w) PROVE Next
  <2>1. Call(w) \/ Proceed(w) \/ DeadlockAbort(w) \/ Kill(w)
    BY <1>2 DEF ARequest, AUpdateStatus, AService, ACommitReceipt, ASaveShipment, AKill,
                AOther, Call, Request, Proceed
  <2>2. QED
    BY <2>1 DEF Next
<1>3. QED
  BY <1>1, <1>2 DEF ANext

\* The row that a receipt is at is that of the item it is at.
LEMMA ItemPlace ==
  ASSUME TypeOK, NEW w \in Workers, AtItem(w)
  PROVE  \E i \in 1..Len(job[w].cargo) :
           /\ Target(w) = Place(w, i) /\ ItemAt(w) = job[w].cargo[i]
           /\ AtFetch(w) => pc[w] = 2 * i - 1
           /\ AtStore(w) => pc[w] = 2 * i
           /\ (pc[w] + 1) \div 2 = i
<1>1. job[w] \in Job /\ pc[w] \in Nat /\ pc[w] # 0
  BY DEF TypeOK, AtItem, Receiving, Active
<1>2. job[w].cargo \in Seq(Item)
  BY <1>1 DEF Job
<1> DEFINE i == (pc[w] + 1) \div 2
<1>3. Len(job[w].cargo) \in Nat /\ pc[w] <= 2 * Len(job[w].cargo)
  BY <1>2 DEF AtItem
<1>4. /\ i \in 1..Len(job[w].cargo)
      /\ pc[w] % 2 = 1 => pc[w] = 2 * i - 1
      /\ pc[w] % 2 = 0 => pc[w] = 2 * i
  <2>1. \A n \in Nat : /\ n % 2 = 1 => n = 2 * ((n + 1) \div 2) - 1
                       /\ n % 2 = 0 => n = 2 * ((n + 1) \div 2)
    OBVIOUS
  <2>2. i \in 1..Len(job[w].cargo)
    BY <1>1, <1>3
  <2>3. QED
    BY <1>1, <2>1, <2>2
<1>5. QED
  BY <1>4 DEF Target, ItemAt, Place, AtFetch, AtStore

\* The part of a worker that did nothing, whatever others did to the rows.
LEMMA ReadsOn ==
  ASSUME NEW w \in Workers, Reads(w), job'[w] = job[w], pc'[w] = pc[w],
         stale'[w] = stale[w], held'[w] = held[w], draft'[w] = draft[w],
         crossed \subseteq crossed',
         \A r \in held[w] : quantity'[r] = quantity[r],
         AtStore(w) => \/ quantity'[Target(w)] = quantity[Target(w)]
                       \/ Target(w) \in crossed'
  PROVE  Reads(w)'
<1>1. /\ Receiving(w)' = Receiving(w) /\ AtStore(w)' = AtStore(w)
      /\ Target(w)' = Target(w)
      /\ \A i : Place(w, i)' = Place(w, i)
  BY DEF Receiving, Active, AtStore, AtItem, Target, ItemAt, Place
<1>2. QED
  BY <1>1 DEF Reads

\* A worker that receives nothing, or is about to start.
LEMMA ReadsNothing ==
  ASSUME NEW w \in Workers,
         \/ ~Receiving(w)'
         \/ pc'[w] = 1 /\ held'[w] = {}
  PROVE  Reads(w)'
<1>1. CASE ~Receiving(w)'
  BY <1>1 DEF Reads
<1>2. CASE pc'[w] = 1 /\ held'[w] = {}
  <2>1. ~AtStore(w)'
    BY <1>2 DEF AtStore
  <2>2. \A i \in 1..Len(job'[w].cargo) : ~(2 * i < pc'[w])
    BY <1>2
  <2>3. QED
    BY <1>2, <2>1, <2>2 DEF Reads
<1>3. QED
  BY <1>1, <1>2

\* Of the workers, only w does something, and to no row that another one holds.
LEMMA ReadsStep ==
  ASSUME BInv, NEW w \in Workers, Alone(w), Reads(w)', Observe,
         \A v \in Workers \ {w} : \A r \in held[v] : quantity'[r] = quantity[r]
  PROVE  \A v \in Workers : Reads(v)'
<1>1. SUFFICES ASSUME NEW v \in Workers, v # w PROVE Reads(v)'
  OBVIOUS
<1>2. /\ job'[v] = job[v] /\ pc'[v] = pc[v] /\ stale'[v] = stale[v]
      /\ held'[v] = held[v] /\ draft'[v] = draft[v] /\ Reads(v)
  BY <1>1, ServedFromInvariant DEF BInv, Alone, JobFunctions
<1>3. crossed \subseteq crossed'
  BY DEF Observe
<1>4. ASSUME AtStore(v), quantity'[Target(v)] # quantity[Target(v)]
      PROVE  Target(v) \in crossed'
  <2>1. Target(v) \in Row
    BY <1>4, TargetType DEF BInv, IInv, AtStore
  <2>2. AtStore(v)' /\ Target(v)' = Target(v)
    BY <1>2, <1>4 DEF AtStore, AtItem, Receiving, Active, Target, ItemAt
  <2>3. QED
    BY <1>4, <2>1, <2>2 DEF Observe, ReliesOn
<1>5. QED
  BY <1>1, <1>2, <1>3, <1>4, ReadsOn

\* What the audit writes down is typed.
LEMMA AuditTypedStep ==
  ASSUME IInv, AuditTyped, [ANext]_<<vars, auditVars>>
  PROVE  AuditTyped'
<1> DEFINE Counts == /\ ledger' \in [Row -> Int] /\ stocked' \in [Shipments -> Nat]
                     /\ entered' \in [Shipments -> Nat] /\ deaths' \in Nat
<1>1. AuditTyped /\ quantity \in [Row -> 0..MaxInt] /\ quantity' \in [Row -> 0..MaxInt]
  BY AuditWatches, StepInvariant DEF IInv, TablesOK
<1>2. \A r \in Row : quantity[r] \in Int /\ quantity'[r] \in Int
  BY <1>1, AmountsAssumption
<1>3. ASSUME UNCHANGED books PROVE Counts
  BY <1>1, <1>3 DEF AuditTyped, books
<1>4. ASSUME NEW w \in Workers, AService(w) PROVE Counts
  <2>1. \A r \in Row : ledger[r] + (quantity'[r] - quantity[r]) \in Int
    BY <1>1, <1>2 DEF AuditTyped
  <2>2. QED
    BY <1>1, <1>4, <2>1 DEF AuditTyped, AService
<1>5. ASSUME NEW w \in Workers, ACommitReceipt(w) PROVE Counts
  <2>1. \A r \in Row : Brought(w, r) \in Int
    <3>1. job[w] \in Job
      BY <1>5 DEF ACommitReceipt, CommitReceipt, Receiving, IInv, TypeOK
    <3>2. job[w].cargo \in Seq(Item)
      BY <3>1 DEF Job
    <3>3. \A i \in DOMAIN job[w].cargo : job[w].cargo[i].quantity \in Nat
      <4>1. \A line \in Item : line.quantity \in Nat
        BY DEF Item
      <4>2. \A i \in DOMAIN job[w].cargo : job[w].cargo[i] \in Item
        BY <3>2
      <4>3. QED
        BY <4>1, <4>2
    <3>4. QED
      BY <3>3 DEF Brought
  <2>2. \A r \in Row : ledger[r] + Brought(w, r) \in Int
    BY <1>1, <2>1 DEF AuditTyped
  <2>3. \A s \in Shipments : stocked'[s] \in Nat
    BY <1>1, <1>5 DEF AuditTyped, ACommitReceipt
  <2>4. stocked' \in [Shipments -> Nat]
    BY <1>1, <1>5, <2>3 DEF AuditTyped, ACommitReceipt
  <2>5. ledger' \in [Row -> Int]
    BY <1>5, <2>2 DEF ACommitReceipt
  <2>6. QED
    BY <1>1, <1>5, <2>4, <2>5 DEF AuditTyped, ACommitReceipt
<1>6. ASSUME NEW w \in Workers, ASaveShipment(w) PROVE Counts
  <2>1. \A s \in Shipments : entered[s] + (IF Enters(w, s) THEN 1 ELSE 0) \in Nat
    BY <1>1 DEF AuditTyped
  <2>2. QED
    BY <1>1, <1>6, <2>1 DEF AuditTyped, ASaveShipment
<1>7. ASSUME NEW w \in Workers, AKill(w) PROVE Counts
  BY <1>1, <1>7 DEF AuditTyped, AKill
<1>8. ASSUME NEW w \in Workers, ARequest(w) PROVE Counts
  <2>1. CASE AOther(w) \/ \E s \in Shipments, new \in Statuses : AUpdateStatus(w, s, new)
    BY <1>3, <2>1 DEF AOther, AUpdateStatus
  <2>2. QED
    BY <1>4, <1>5, <1>6, <1>7, <1>8, <2>1 DEF ARequest
<1>9. Counts
  BY <1>3, <1>8 DEF ANext, auditVars, books
<1>10. crossed' \in SUBSET Row /\ overlapped' \in SUBSET Shipments
  BY <1>1 DEF ANext, Observe, AuditTyped, auditVars
<1>11. QED
  BY <1>9, <1>10 DEF AuditTyped

\* No list of items names a product twice, neither the tables' nor a copy.
LEMMA CargoStep ==
  ASSUME BInv, [Next]_vars
  PROVE  CargoDistinct'
<1> USE DEF CargoDistinct
<1>1. CargoDistinct /\ JobFunctions /\ cargo \in [Shipments -> Seq(Item)]
  BY ServedFromInvariant DEF BInv, IInv, TypeOK
<1>2. ASSUME UNCHANGED <<cargo, job, pc>> PROVE CargoDistinct'
  BY <1>1, <1>2 DEF Active
<1>3. ASSUME NEW w \in Workers, Idle(w), cargo' = cargo PROVE CargoDistinct'
  <2>1. \A v \in Workers : Active(v)' => v # w /\ Active(v) /\ job'[v] = job[v]
    BY <1>1, <1>3 DEF Idle, Active, JobFunctions
  <2>2. QED
    BY <1>1, <1>3, <2>1
<1>4. ASSUME NEW w \in Workers, NEW kind, NEW s \in Shipments, NEW new, NEW to,
             Open(w, kind, s, new, to)
      PROVE  CargoDistinct'
  <2>1. job'[w].cargo = cargo[s] /\ cargo' = cargo
    BY <1>1, <1>4 DEF Open, JobFunctions, shipmentVars
  <2>2. \A v \in Workers : v # w /\ Active(v)' => Active(v) /\ job'[v] = job[v]
    BY <1>1, <1>4 DEF Open, Active, JobFunctions
  <2>3. QED
    BY <1>1, <2>1, <2>2
<1>5. ASSUME NEW w \in Workers, NEW s \in Shipments, NEW to, NEW load \in Loads,
             Create(w, s, to, load)
      PROVE  CargoDistinct'
  <2>1. Distinct(load)
    BY LoadsAssumption DEF Distinct
  <2>2. \A t \in Shipments : cargo'[t] = cargo[t] \/ cargo'[t] = load
    BY <1>1, <1>5 DEF Create
  <2>3. QED
    BY <1>1, <1>5, <2>1, <2>2 DEF Create, Active
<1>6. ASSUME NEW w \in Workers, Fetch(w) \/ Insert(w) \/ Store(w) PROVE CargoDistinct'
  <2>1. \A v \in Workers : Active(v)' => Active(v)
    BY <1>1, <1>6 DEF Fetch, Insert, Store, Advance, AtFetch, AtStore, AtItem, Receiving,
                      Active, JobFunctions
  <2>2. QED
    BY <1>1, <1>6, <2>1 DEF Fetch, Insert, Store, Advance, shipmentVars
<1>13. ASSUME NEW w \in Workers, FindItemsGone(w) PROVE CargoDistinct'
  <2>1. /\ job[w] \in Job /\ job'[w] = [job[w] EXCEPT !.cargo = <<>>]
        /\ \A v \in Workers : v # w => job'[v] = job[v]
        /\ pc' = pc /\ cargo' = cargo
    BY <1>13, ItemsGoneStep DEF BInv, shipmentVars
  <2>2. job'[w].cargo = <<>>
    BY <2>1 DEF Job
  <2>3. \A v \in Workers : Active(v)' => Active(v)
    BY <2>1 DEF Active
  <2>4. ASSUME NEW v \in Workers, Active(v)' PROVE Distinct(job'[v].cargo)
    <3>1. CASE v = w
      BY <2>2, <3>1 DEF Distinct
    <3>2. CASE v # w
      BY <1>1, <2>1, <2>3, <2>4, <3>2
    <3>3. QED
      BY <3>1, <3>2
  <2>5. QED
    BY <1>1, <2>1, <2>4
<1>7. ASSUME NEW w \in Workers, CommitReceipt(w) PROVE CargoDistinct'
  <2>1. \A v \in Workers : job'[v].cargo = job[v].cargo /\ (Active(v)' => Active(v))
    <3>1. job[w] \in Job /\ job' = [job EXCEPT ![w] = [job[w] EXCEPT !.kind = "received"]]
      BY <1>7 DEF CommitReceipt, Receiving, BInv, IInv, TypeOK
    <3>2. [job[w] EXCEPT !.kind = "received"].cargo = job[w].cargo
      BY <3>1 DEF Job
    <3>3. \A v \in Workers : job'[v] = IF v = w THEN [job[w] EXCEPT !.kind = "received"]
                                               ELSE job[v]
      BY <1>1, <3>1 DEF JobFunctions
    <3>4. \A v \in Workers : job'[v].cargo = job[v].cargo
      BY <3>2, <3>3
    <3>5. \A v \in Workers : Active(v)' => Active(v)
      BY <1>1, <1>7 DEF CommitReceipt, Receiving, Active, JobFunctions
    <3>6. QED
      BY <3>4, <3>5
  <2>2. QED
    BY <1>1, <1>7, <2>1 DEF CommitReceipt, shipmentVars
<1>8. ASSUME NEW w \in Workers, Destroy(w) PROVE CargoDistinct'
  <2>1. Distinct(<<>>)
    BY DEF Distinct
  <2>2. \A t \in Shipments : cargo'[t] = cargo[t] \/ cargo'[t] = <<>>
    BY <1>1, <1>8 DEF Destroy
  <2>3. \A v \in Workers : Active(v)' => v # w /\ Active(v) /\ job'[v] = job[v]
    BY <1>1, <1>8 DEF Destroy, Idle, Active, JobFunctions
  <2>4. QED
    BY <1>1, <2>1, <2>2, <2>3
<1>9. ASSUME NEW w \in Workers, Call(w) PROVE CargoDistinct'
  BY <1>2, <1>4, <1>5, <1>9
     DEF Call, Request, UpdateStatus, Patch, Delete, Service, shipmentVars
<1>10. ASSUME NEW w \in Workers, Proceed(w) PROVE CargoDistinct'
  BY <1>3, <1>6, <1>7, <1>8, <1>10, <1>13
     DEF Proceed, Overflow, Abandon, SaveShipment, shipmentVars
<1>11. ASSUME NEW w \in Workers, DeadlockAbort(w) \/ Kill(w) PROVE CargoDistinct'
  BY <1>3, <1>11 DEF DeadlockAbort, Kill, Abandon, shipmentVars
<1>12. QED
  BY <1>2, <1>9, <1>10, <1>11 DEF Next, vars

\* No two workers hold a row: whoever would write one that is held waits.
LEMMA HeldStep ==
  ASSUME BInv, [Next]_vars
  PROVE  HeldApart'
<1>1. HeldApart /\ JobFunctions
  BY ServedFromInvariant DEF BInv
<1>2. ASSUME held' = held PROVE HeldApart'
  BY <1>1, <1>2 DEF HeldApart
<1>3. ASSUME NEW w \in Workers, Release(w) PROVE HeldApart'
  BY <1>1, <1>3 DEF Release, HeldApart, JobFunctions
<1>4. ASSUME NEW w \in Workers, ~Blocked(w, Target(w)),
             held' = [held EXCEPT ![w] = @ \cup {Target(w)}]
      PROVE  HeldApart'
  <2>1. \A v \in Workers : held'[v] = IF v = w THEN held[w] \cup {Target(w)} ELSE held[v]
    BY <1>1, <1>4 DEF JobFunctions
  <2>2. \A v \in Workers : v # w => Target(w) \notin held[v]
    BY <1>4 DEF Blocked
  <2>3. QED
    BY <1>1, <2>1, <2>2 DEF HeldApart
<1>5. ASSUME NEW w \in Workers, Call(w) PROVE held' = held
  BY <1>5 DEF Call, Request, Create, UpdateStatus, Patch, Delete, Open, Service, txnVars
<1>6. ASSUME NEW w \in Workers, Proceed(w) PROVE HeldApart'
  BY <1>2, <1>3, <1>4, <1>6
     DEF Proceed, FindItemsGone, Fetch, Insert, Store, CommitReceipt, Overflow, Abandon,
         SaveShipment, Destroy, txnVars
<1>7. ASSUME NEW w \in Workers, DeadlockAbort(w) \/ Kill(w) PROVE HeldApart'
  BY <1>3, <1>7 DEF DeadlockAbort, Kill, Abandon
<1>8. QED
  BY <1>2, <1>5, <1>6, <1>7 DEF Next, vars

\* What the rows hold for w to publish: the sum of what was read and the item,
\* in every row of the receipt that was not crossed.
LEMMA ReceiptInHand ==
  ASSUME BInv, NEW w \in Workers, CommitReceipt(w), NEW r \in Row \ crossed
  PROVE  (IF r \in held[w] THEN draft[w][r] ELSE quantity[r]) = quantity[r] + Brought(w, r)
<1> DEFINE I == {i \in DOMAIN job[w].cargo : Place(w, i) = r}
           n == Len(job[w].cargo)
<1>1. job[w] \in Job /\ pc[w] = 2 * n + 1 /\ Receiving(w)
  BY DEF CommitReceipt, Receiving, BInv, IInv, TypeOK
<1>2. job[w].cargo \in Seq(Item) /\ quantity[r] \in 0..MaxInt
  BY <1>1 DEF Job, BInv, IInv, TypeOK
<1>3. n \in Nat /\ DOMAIN job[w].cargo = 1..n /\ quantity[r] \in Int
  BY <1>2, AmountsAssumption
<1>4. Brought(w, r) = IF I = {} THEN 0 ELSE job[w].cargo[CHOOSE i \in I : TRUE].quantity
  BY DEF Brought, Place
<1>5. ASSUME NEW i \in I
      PROVE  (CHOOSE k \in I : TRUE) = i
  <2>1. \A k \in I : k \in 1..n /\ job[w].cargo[k].product = job[w].cargo[i].product
    BY <1>3, <1>5 DEF Place
  <2>2. Distinct(job[w].cargo)
    BY <1>1 DEF BInv, CargoDistinct, Receiving
  <2>3. \A k \in I : k = i
    BY <1>3, <1>5, <2>1, <2>2 DEF Distinct
  <2>4. QED
    BY <1>5, <2>3
<1>6. \A i \in 1..n : 2 * i < pc[w]
  BY <1>1, <1>3
<1>7. CASE r \in held[w]
  <2>1. PICK i \in 1..n : r = Place(w, i)
    BY <1>1, <1>7 DEF BInv, Reads
  <2>2. draft[w][r] = quantity[r] + job[w].cargo[i].quantity
    BY <1>1, <1>6, <2>1 DEF BInv, Reads
  <2>3. i \in I
    BY <1>3, <2>1
  <2>4. I # {} /\ (CHOOSE k \in I : TRUE) = i
    BY <1>5, <2>3
  <2> HIDE DEF I
  <2>5. Brought(w, r) = job[w].cargo[i].quantity
    BY <1>4, <2>4
  <2>6. QED
    BY <1>7, <2>2, <2>5
<1>8. CASE r \notin held[w]
  <2>1. \A i \in 1..n : Place(w, i) # r
    BY <1>1, <1>6, <1>8 DEF BInv, Reads
  <2>2. I = {}
    BY <1>3, <2>1
  <2> HIDE DEF I
  <2>3. QED
    BY <1>3, <1>4, <1>8, <2>2
<1>9. QED
  BY <1>7, <1>8

\* The stock keeps up with its ledger wherever no receipt was crossed.
LEMMA MovementsStep ==
  ASSUME BInv, [ANext]_<<vars, auditVars>>
  PROVE  MovementsKept'
<1> DEFINE Same == quantity' = quantity /\ ledger' = ledger
<1>1. MovementsKept /\ AuditTyped /\ crossed \subseteq crossed'
  BY DEF BInv, ANext, Observe, auditVars
<1>2. \A r \in Row : quantity[r] \in Int /\ quantity'[r] \in Int /\ ledger[r] \in Int
  BY <1>1, AuditWatches, StepInvariant, AmountsAssumption DEF BInv, IInv, TablesOK, AuditTyped
<1>3. ASSUME Same PROVE MovementsKept'
  BY <1>1, <1>3 DEF MovementsKept
<1>4. ASSUME NEW w \in Workers, AService(w) PROVE MovementsKept'
  <2>1. \A r \in Row : ledger'[r] = ledger[r] + (quantity'[r] - quantity[r])
    BY <1>4 DEF AService
  <2>2. \A r \in Row \ crossed' : quantity[r] = ledger[r]
    BY <1>1 DEF MovementsKept
  <2>3. QED
    BY <1>2, <2>1, <2>2 DEF MovementsKept
<1>5. ASSUME NEW w \in Workers, ACommitReceipt(w) PROVE MovementsKept'
  <2>1. \A r \in Row : ledger'[r] = ledger[r] + Brought(w, r)
    BY <1>5 DEF ACommitReceipt
  <2>2. \A r \in Row : quantity'[r] = IF r \in held[w] THEN draft[w][r] ELSE quantity[r]
    BY <1>5 DEF ACommitReceipt, CommitReceipt, Publish
  <2>3. \A r \in Row \ crossed :
          (IF r \in held[w] THEN draft[w][r] ELSE quantity[r]) = quantity[r] + Brought(w, r)
    BY <1>5, ReceiptInHand DEF ACommitReceipt
  <2>4. \A r \in Row \ crossed' : quantity'[r] = ledger'[r]
    BY <1>1, <2>1, <2>2, <2>3 DEF MovementsKept
  <2>5. QED
    BY <2>4 DEF MovementsKept
<1>6. ASSUME NEW w \in Workers, ASaveShipment(w) \/ AKill(w) \/ AOther(w) PROVE Same
  BY <1>6 DEF ASaveShipment, AKill, AOther, SaveShipment, Kill, Create, Patch, Delete, Open,
              FindItemsGone, Fetch, Insert, Store, Advance, Overflow, Destroy, DeadlockAbort,
              Abandon, stockVars, books
<1>7. ASSUME NEW w \in Workers, NEW s \in Shipments, NEW new \in Statuses,
             AUpdateStatus(w, s, new)
      PROVE  Same
  BY <1>7 DEF AUpdateStatus, UpdateStatus, Open, stockVars, books
<1>8. UNCHANGED <<vars, auditVars>> => Same
  BY DEF vars, auditVars
<1>9. QED
  BY <1>3, <1>4, <1>5, <1>6, <1>7, <1>8 DEF ANext, ARequest

\* The steps of a receipt keep what it knows of the rows.
LEMMA FetchReads ==
  ASSUME BInv, NEW w \in Workers, Fetch(w), crossed \subseteq crossed'
  PROVE  Reads(w)'
<1>1. PICK i \in 1..Len(job[w].cargo) :
        /\ Target(w) = Place(w, i) /\ ItemAt(w) = job[w].cargo[i]
        /\ pc[w] = 2 * i - 1 /\ (pc[w] + 1) \div 2 = i
  BY ItemPlace DEF Fetch, AtFetch, BInv, IInv
<1>2. /\ job' = job /\ held' = held /\ draft' = draft /\ quantity' = quantity
      /\ pc'[w] = pc[w] + 1 /\ stale'[w] = quantity[Target(w)]
      /\ Receiving(w)
  BY ServedFromInvariant
     DEF Fetch, AtFetch, AtItem, Advance, stockVars, txnVars, BInv, JobFunctions
<1>3. i \in Nat /\ (2 * i + 1) \div 2 = i
  BY DEF BInv
<1>4. Target(w)' = Target(w)
  BY <1>1, <1>2, <1>3 DEF Target, ItemAt
<1>5. \A k \in 1..Len(job[w].cargo) : 2 * k < pc'[w] => 2 * k < pc[w]
  BY <1>1, <1>2, <1>3
<1>6. \A k \in 1..Len(job[w].cargo) : 2 * k <= pc[w] => 2 * k <= pc'[w]
  BY <1>1, <1>2, <1>3
<1>7. Reads(w)
  BY DEF BInv
<1>8. \A k : Place(w, k)' = Place(w, k)
  BY <1>2 DEF Place
<1>9. QED
  BY <1>2, <1>4, <1>5, <1>6, <1>7, <1>8 DEF Reads

LEMMA InsertReads ==
  ASSUME BInv, NEW w \in Workers, Insert(w), crossed \subseteq crossed'
  PROVE  Reads(w)'
<1>1. PICK i \in 1..Len(job[w].cargo) :
        /\ Target(w) = Place(w, i) /\ ItemAt(w) = job[w].cargo[i]
        /\ pc[w] = 2 * i - 1 /\ (pc[w] + 1) \div 2 = i
  BY ItemPlace DEF Insert, AtFetch, BInv, IInv
<1>2. /\ job' = job /\ draft' = draft /\ quantity' = quantity
      /\ held'[w] = held[w] \cup {Target(w)}
      /\ pc'[w] = pc[w] + 1 /\ stale'[w] = 0
      /\ Receiving(w)
  BY ServedFromInvariant
     DEF Insert, AtFetch, AtItem, Advance, stockVars, txnVars, BInv, JobFunctions
<1>3. i \in Nat /\ (2 * i + 1) \div 2 = i
  BY DEF BInv
<1>4. Target(w)' = Target(w)
  BY <1>1, <1>2, <1>3 DEF Target, ItemAt
<1>5. quantity[Target(w)] = 0
  BY TargetType DEF Insert, AtFetch, BInv, IInv, TablesOK
<1>6. \A k \in 1..Len(job[w].cargo) : 2 * k < pc'[w] => 2 * k < pc[w]
  BY <1>1, <1>2, <1>3
<1>7. \A k \in 1..Len(job[w].cargo) : 2 * k <= pc[w] => 2 * k <= pc'[w]
  BY <1>1, <1>2, <1>3
<1>8. 2 * i <= pc'[w]
  BY <1>1, <1>2, <1>3
<1>9. Reads(w)
  BY DEF BInv
<1>10. \A k : Place(w, k)' = Place(w, k)
  BY <1>2 DEF Place
<1>11. QED
  BY <1>1, <1>2, <1>4, <1>5, <1>6, <1>7, <1>8, <1>9, <1>10 DEF Reads

LEMMA StoreReads ==
  ASSUME BInv, NEW w \in Workers, Store(w), crossed \subseteq crossed'
  PROVE  Reads(w)'
<1> DEFINE q == stale[w] + ItemAt(w).quantity
           n == Len(job[w].cargo)
<1>1. PICK i \in 1..n :
        /\ Target(w) = Place(w, i) /\ ItemAt(w) = job[w].cargo[i]
        /\ pc[w] = 2 * i /\ (pc[w] + 1) \div 2 = i
  BY ItemPlace DEF Store, AtStore, BInv, IInv
<1>2. /\ job' = job /\ quantity' = quantity
      /\ held'[w] = held[w] \cup {Target(w)}
      /\ draft'[w] = [draft[w] EXCEPT ![Target(w)] = q]
      /\ pc'[w] = pc[w] + 1
      /\ Receiving(w) /\ AtStore(w)
  BY ServedFromInvariant
     DEF Store, AtStore, AtItem, Advance, stockVars, BInv, JobFunctions
<1>3. i \in Nat
  BY DEF BInv
<1>4. ~AtStore(w)'
  <2>1. (2 * i + 1) % 2 = 1
    BY <1>3
  <2>2. QED
    BY <1>1, <1>2, <2>1 DEF AtStore
<1>5. Target(w) \in Row /\ draft[w] \in [Row -> 0..MaxInt]
  BY <1>2, TargetType DEF AtStore, BInv, IInv, TypeOK
<1>6. \A k \in 1..n : 2 * k < pc'[w] => 2 * k < pc[w] \/ k = i
  BY <1>1, <1>2, <1>3
<1>7. \A k \in 1..n : 2 * k <= pc[w] => 2 * k <= pc'[w]
  BY <1>1, <1>2, <1>3
<1>8. \A k : Place(w, k)' = Place(w, k)
  BY <1>2 DEF Place
<1>9. Reads(w) /\ Distinct(job[w].cargo)
  BY <1>2 DEF BInv, CargoDistinct, Receiving
<1>10. ASSUME NEW k \in 1..n, k # i PROVE Place(w, k) # Target(w)
  BY <1>1, <1>9, <1>10 DEF Distinct, Place
<1>11. \/ Target(w) \in crossed
       \/ q = quantity[Place(w, i)] + job[w].cargo[i].quantity
  BY <1>1, <1>2, <1>9 DEF Reads
<1> HIDE DEF q
<1>12. ASSUME NEW k \in 1..n, 2 * k < pc'[w]
       PROVE  /\ Place(w, k) \in held'[w]
              /\ \/ Place(w, k) \in crossed'
                 \/ draft'[w][Place(w, k)] = quantity[Place(w, k)] + job[w].cargo[k].quantity
  <2>1. CASE k = i
    <3>1. draft'[w][Target(w)] = q
      BY <1>2, <1>5
    <3>2. QED
      BY <1>1, <1>2, <1>11, <2>1, <3>1
  <2>2. CASE k # i
    <3>1. 2 * k < pc[w] /\ Place(w, k) # Target(w)
      BY <1>6, <1>10, <1>12, <2>2
    <3>2. draft'[w][Place(w, k)] = draft[w][Place(w, k)]
      BY <1>2, <1>5, <3>1
    <3>3. /\ Place(w, k) \in held[w]
          /\ \/ Place(w, k) \in crossed
             \/ draft[w][Place(w, k)] = quantity[Place(w, k)] + job[w].cargo[k].quantity
      BY <1>2, <1>9, <3>1 DEF Reads
    <3>4. QED
      BY <1>2, <3>2, <3>3
  <2>3. QED
    BY <2>1, <2>2
<1>13. \A r \in held'[w] : \E k \in 1..n : 2 * k <= pc'[w] /\ r = Place(w, k)
  <2>1. \A r \in held[w] : \E k \in 1..n : 2 * k <= pc[w] /\ r = Place(w, k)
    BY <1>2, <1>9 DEF Reads
  <2>2. 2 * i <= pc'[w]
    BY <1>1, <1>2, <1>3
  <2>3. QED
    BY <1>1, <1>2, <1>7, <2>1, <2>2
<1>14. QED
  BY <1>2, <1>4, <1>8, <1>12, <1>13, ZenonT(30) DEF Reads

\* Every step keeps what the receipts know.
LEMMA ReadsOfAllStep ==
  ASSUME BInv, [ANext]_<<vars, auditVars>>
  PROVE  \A v \in Workers : Reads(v)'
<1> DEFINE Goal == \A v \in Workers : Reads(v)'
           Kept(w) == \A v \in Workers \ {w} : \A r \in held[v] : quantity'[r] = quantity[r]
<1>1. ASSUME UNCHANGED <<vars, auditVars>> PROVE Goal
  BY <1>1, ReadsOn DEF vars, auditVars, BInv
<1>2. SUFFICES ASSUME NEW w \in Workers, ARequest(w), Observe PROVE Goal
  BY <1>1 DEF ANext
<1>3. ASSUME Alone(w), Reads(w)', Kept(w) PROVE Goal
  BY <1>2, <1>3, ReadsStep
<1>4. ASSUME Alone(w), Reads(w)', quantity' = quantity PROVE Goal
  BY <1>3, <1>4
<1>5. ASSUME UNCHANGED <<quantity, job, pc, stale, held, draft>> PROVE Goal
  <2>1. crossed \subseteq crossed'
    BY <1>2 DEF Observe
  <2>2. QED
    BY <1>5, <2>1, ReadsOn DEF BInv
<1>6. crossed \subseteq crossed' /\ IInv
  BY <1>2 DEF Observe, BInv
<1>7. CASE AService(w)
  <2>1. /\ UNCHANGED <<job, pc, stale, held, draft>> /\ ~Active(w)
        /\ \A v \in Workers : \A r \in held[v] : quantity'[r] = quantity[r]
    <3>1. \A v \in Workers : held[v] \subseteq Row
      BY <1>6 DEF IInv, TypeOK
    <3>2. QED
      BY <1>7, <3>1 DEF AService, Service, txnVars
  <2>2. Alone(w)
    BY <1>6, <2>1, ServedFromInvariant DEF Alone, JobFunctions
  <2>3. ~Receiving(w)'
    BY <2>1 DEF Active, Receiving
  <2>4. Reads(w)'
    BY <2>3, ReadsNothing
  <2>5. QED
    BY <1>3, <2>1, <2>2, <2>4
<1>8. CASE ACommitReceipt(w)
  <2>1. Alone(w)
    BY <1>6, <1>8, CommitReceiptStep DEF ACommitReceipt
  <2>2. quantity' = [r \in Row |-> IF r \in held[w] THEN draft[w][r] ELSE quantity[r]]
    BY <1>8 DEF ACommitReceipt, CommitReceipt, Publish
  <2>3. Kept(w)
    <3>1. \A v \in Workers \ {w} : held[v] \subseteq Row /\ held[v] \cap held[w] = {}
      BY <1>2, <1>6 DEF IInv, TypeOK, BInv, HeldApart
    <3>2. QED
      BY <2>2, <3>1
  <2>4. pc'[w] = 1 /\ held'[w] = {}
    BY <1>6, <1>8, ServedFromInvariant DEF ACommitReceipt, CommitReceipt, Release, JobFunctions
  <2>5. QED
    BY <1>3, <2>1, <2>3, <2>4, ReadsNothing
<1>9. ASSUME Abandon(w) \/ SaveShipment(w) \/ Destroy(w) PROVE Goal
  <2>1. Alone(w)
    BY <1>6, <1>9, EndStep
  <2>2. pc'[w] = 0 /\ quantity' = quantity
    BY <1>6, <1>9, ServedFromInvariant
       DEF Abandon, SaveShipment, Destroy, Idle, stockVars, JobFunctions
  <2>3. ~Receiving(w)'
    BY <2>2 DEF Receiving, Active
  <2>4. QED
    BY <1>4, <2>1, <2>2, <2>3, ReadsNothing
<1>10. ASSUME NEW kind \in {"receive", "status", "patch", "delete"}, NEW s \in Shipments,
              NEW new \in Statuses, NEW to \in Warehouses, Open(w, kind, s, new, to)
       PROVE  Goal
  <2>1. Alone(w)
    BY <1>6, <1>10, OpenStep
  <2>2. pc'[w] = 1 /\ held'[w] = {} /\ quantity' = quantity
    BY <1>6, <1>10, ServedFromInvariant
       DEF Open, stockVars, txnVars, JobFunctions, Served
  <2>3. QED
    BY <1>4, <2>1, <2>2, ReadsNothing
<1>11. ASSUME NEW s \in Shipments, NEW new \in Statuses, UpdateStatus(w, s, new) PROVE Goal
  <2>1. dest[s] \in Warehouses
    BY <1>6, <1>11 DEF UpdateStatus, Open, IInv, Located
  <2>2. QED
    BY <1>10, <1>11, <2>1 DEF UpdateStatus
<1>12. ASSUME NEW s \in Shipments, Delete(w, s) PROVE Goal
  <2>1. dest[s] \in Warehouses /\ status[s] \in Statuses
    BY <1>6, <1>12 DEF Delete, Open, Exists, IInv, Located
  <2>2. QED
    BY <1>10, <1>12, <2>1 DEF Delete
<1>13. ASSUME NEW s \in Shipments, NEW to, NEW load, Create(w, s, to, load) PROVE Goal
  BY <1>5, <1>13 DEF Create, stockVars, txnVars
<1>14. ASSUME Fetch(w) \/ Insert(w) \/ Store(w) PROVE Goal
  <2>1. Alone(w)
    BY <1>6, <1>14, FetchStep, InsertStep, StoreStep
  <2>2. Reads(w)'
    BY <1>6, <1>14, FetchReads, InsertReads, StoreReads
  <2>3. quantity' = quantity
    BY <1>14 DEF Fetch, Insert, Store, Advance, stockVars
  <2>4. QED
    BY <1>4, <2>1, <2>2, <2>3
<1>17. ASSUME FindItemsGone(w) PROVE Goal
  <2>1. /\ Alone(w) /\ Receiving(w) /\ pc[w] = 1 /\ pc' = pc /\ held' = held
        /\ quantity' = quantity
    BY <1>6, <1>17, ItemsGoneStep DEF stockVars
  <2>2. \A r \in held[w] : \E i \in 1..Len(job[w].cargo) : 2 * i <= pc[w]
    BY <1>2, <2>1 DEF BInv, Reads
  <2>3. held[w] = {}
    BY <2>1, <2>2
  <2>4. QED
    BY <1>4, <2>1, <2>3, ReadsNothing
<1>15. CASE AOther(w)
  BY <1>9, <1>10, <1>12, <1>13, <1>14, <1>15, <1>17
     DEF AOther, Overflow, DeadlockAbort, Patch
<1>16. QED
  BY <1>2, <1>7, <1>8, <1>9, <1>11, <1>15
     DEF ARequest, ASaveShipment, AKill, Kill, AUpdateStatus

LEMMA BooksInit == AInit => BInv
<1> SUFFICES ASSUME AInit PROVE BInv
  OBVIOUS
<1>1. IInv
  BY AuditWatches, InitInvariant
<1>2. AuditTyped
  <2>1. \A r \in Row : quantity[r] \in Int
    BY <1>1, AmountsAssumption DEF IInv, TablesOK
  <2>2. QED
    BY <1>1, <2>1 DEF AInit, AuditTyped, IInv, TablesOK
<1>3. \A w \in Workers : held[w] = {} /\ ~Active(w)
  BY DEF AInit, Init, Active
<1>4. CargoDistinct
  BY <1>3 DEF AInit, Init, CargoDistinct, Distinct
<1>5. MovementsKept
  BY DEF AInit, MovementsKept
<1>6. QED
  BY <1>1, <1>2, <1>3, <1>4, <1>5 DEF BInv, HeldApart, Reads, Receiving

LEMMA BooksStep == BInv /\ [ANext]_<<vars, auditVars>> => BInv'
<1> SUFFICES ASSUME BInv, [ANext]_<<vars, auditVars>> PROVE BInv'
  OBVIOUS
<1>1. [Next]_vars
  BY AuditWatches
<1>2. IInv'
  BY <1>1, StepInvariant DEF BInv
<1>3. QED
  BY <1>1, <1>2, AuditTypedStep, CargoStep, HeldStep, MovementsStep, ReadsOfAllStep DEF BInv

\* Whatever interleaves, overflows or dies, for any number of workers: a movement
\* is lost only on a row that changed between a receipt's read and its save.
THEOREM MovementsStayKept == ASpec => []MovementsKept
<1>1. BInv => MovementsKept
  BY DEF BInv
<1>2. QED
  BY <1>1, BooksInit, BooksStep, PTL DEF ASpec

\* With a single worker, as with requests served one at a time, no row is crossed:
\* the stock is the sum of all that was done to it.
THEOREM AloneTheBooksBalance ==
  ASSUME \A v, w \in Workers : v = w
  PROVE  ASpec => []BooksBalance
<1> DEFINE CInv == BInv /\ crossed = {}
<1>1. AInit => CInv
  BY BooksInit DEF AInit
<1>2. CInv /\ [ANext]_<<vars, auditVars>> => CInv'
  <2> SUFFICES ASSUME CInv, [ANext]_<<vars, auditVars>> PROVE CInv'
    OBVIOUS
  <2>1. BInv'
    BY BooksStep
  <2>2. CASE UNCHANGED <<vars, auditVars>>
    BY <2>1, <2>2 DEF auditVars
  <2>3. ASSUME NEW w \in Workers, ARequest(w), Observe PROVE crossed' = {}
    <3>1. CASE quantity' = quantity
      BY <2>3, <3>1 DEF Observe
    <3>2. CASE AService(w)
      <4>1. ~AtStore(w)'
        BY <3>2 DEF AService, Service, AtStore, AtItem, Receiving, Active
      <4>2. QED
        BY <2>3, <4>1 DEF Observe, ReliesOn
    <3>3. CASE ACommitReceipt(w)
      <4>1. pc'[w] = 1
        BY <3>3, ServedFromInvariant DEF ACommitReceipt, CommitReceipt, JobFunctions, BInv
      <4>2. ~AtStore(w)'
        BY <4>1 DEF AtStore
      <4>3. QED
        BY <2>3, <4>2 DEF Observe, ReliesOn
    <3>4. CASE ASaveShipment(w) \/ AKill(w) \/ AOther(w)
               \/ \E s \in Shipments, new \in Statuses : AUpdateStatus(w, s, new)
      <4>1. quantity' = quantity
        BY <3>4 DEF ASaveShipment, AKill, AOther, SaveShipment, Kill, Create, Patch, Delete,
                    Open, FindItemsGone, Fetch, Insert, Store, Advance, Overflow, Destroy,
                    DeadlockAbort, Abandon, AUpdateStatus, UpdateStatus, stockVars
      <4>2. QED
        BY <3>1, <4>1
    <3>5. QED
      BY <2>3, <3>2, <3>3, <3>4 DEF ARequest
  <2>4. QED
    BY <2>1, <2>2, <2>3 DEF ANext
<1>3. CInv => BooksBalance
  <2> SUFFICES ASSUME CInv PROVE BooksBalance
    OBVIOUS
  <2>1. quantity \in [Row -> 0..MaxInt] /\ ledger \in [Row -> Int]
    BY DEF BInv, IInv, TablesOK, AuditTyped
  <2>2. \A r \in Row : quantity[r] = ledger[r]
    BY DEF BInv, MovementsKept
  <2>3. QED
    BY <2>1, <2>2 DEF BooksBalance
<1>4. QED
  BY <1>1, <1>2, <1>3, PTL DEF ASpec

-----------------------------------------------------------------------------
(* The receipts.  A worker that is alone with a shipment knows whether it  *)
(* has been received, so every receipt is entered unless a request dies.   *)

Overlapping ==
  \A s \in Shipments, v, w \in Workers :
    v # w /\ Serves(v, s) /\ Serves(w, s) => s \in overlapped

Informed(w) ==
  LET s == job[w].shipment IN
  Active(w) /\ s \notin overlapped =>
    /\ job[w].kind \in {"receive", "received"} =>
         job[w].status = Received /\ status[s] # Received
    /\ job[w].kind = "status" /\ job[w].status = Received => status[s] = Received

RInv ==
  /\ IInv /\ AuditTyped /\ Overlapping /\ ReceiptsAccounted
  /\ \A w \in Workers : Informed(w)

LEMMA ReceiptsInit == AInit => RInv
<1> SUFFICES ASSUME AInit PROVE RInv
  OBVIOUS
<1>1. IInv /\ AuditTyped
  BY BooksInit DEF BInv
<1>2. \A w \in Workers : ~Active(w)
  BY DEF AInit, Init, Active
<1>3. Overlapping
  BY <1>2 DEF Overlapping, Serves
<1>4. \A s \in Shipments : Late(s) = 0 /\ stocked[s] = 0 /\ entered[s] = 0 /\ deaths = 0
  BY <1>2 DEF Late, IsLate, Serves, AInit
<1>5. QED
  BY <1>1, <1>2, <1>3, <1>4 DEF RInv, Informed, ReceiptsAccounted

\* Nobody else opens, ends or takes a shipment further, and only whoever serves it
\* changes its status, but for its creation.
LEMMA OthersOnly ==
  ASSUME IInv, NEW w \in Workers, ARequest(w)
  PROVE  /\ \A v \in Workers \ {w} : job'[v] = job[v] /\ pc'[v] = pc[v]
         /\ \A s \in Shipments :
              \/ status'[s] = status[s]
              \/ Serves(w, s) /\ (SaveShipment(w) \/ Destroy(w))
              \/ status[s] = "unborn" /\ status'[s] = "CREATED"
<1>1. JobFunctions /\ status \in [Shipments -> Statuses \cup {"unborn", "deleted"}]
  BY ServedFromInvariant DEF IInv, TypeOK
<1> DEFINE Same == job' = job /\ pc' = pc
           Goal == /\ \A v \in Workers \ {w} : job'[v] = job[v] /\ pc'[v] = pc[v]
                   /\ \A s \in Shipments :
                        \/ status'[s] = status[s]
                        \/ Serves(w, s) /\ (SaveShipment(w) \/ Destroy(w))
                        \/ status[s] = "unborn" /\ status'[s] = "CREATED"
<1>2. ASSUME Idle(w), status' = status PROVE Goal
  BY <1>1, <1>2 DEF Idle, JobFunctions
<1>3. ASSUME NEW kind, NEW s, NEW new, NEW to, Open(w, kind, s, new, to) PROVE Goal
  BY <1>1, <1>3 DEF Open, JobFunctions, shipmentVars
<1>4. ASSUME NEW s \in Shipments, NEW to, NEW load, Create(w, s, to, load) PROVE Goal
  BY <1>1, <1>4 DEF Create
<1>5. ASSUME SaveShipment(w) \/ Destroy(w) PROVE Goal
  BY <1>1, <1>5 DEF SaveShipment, Destroy, Idle, JobFunctions, Serves
<1>6. ASSUME \/ FindItemsGone(w) \/ Fetch(w) \/ Insert(w) \/ Store(w)
             \/ CommitReceipt(w)
      PROVE  Goal
  BY <1>1, <1>6 DEF FindItemsGone, Fetch, Insert, Store, CommitReceipt, Advance, JobFunctions, shipmentVars
<1>7. ASSUME Service(w) PROVE Goal
  BY <1>7 DEF Service, shipmentVars
<1>8. ASSUME Overflow(w) \/ DeadlockAbort(w) \/ Kill(w) PROVE Goal
  BY <1>2, <1>8 DEF Overflow, DeadlockAbort, Kill, Abandon, shipmentVars
<1>9. Goal
  BY <1>3, <1>4, <1>5, <1>6, <1>7, <1>8
     DEF ARequest, AUpdateStatus, UpdateStatus, AService, ACommitReceipt, ASaveShipment,
         AKill, AOther, Patch, Delete
<1>10. QED
  BY <1>9

LEMMA OverlappingStep ==
  ASSUME RInv, [ANext]_<<vars, auditVars>>
  PROVE  Overlapping'
<1>1. CASE UNCHANGED <<vars, auditVars>>
  BY <1>1 DEF RInv, Overlapping, Serves, Active, vars, auditVars
<1>2. CASE Observe
  BY <1>2 DEF Overlapping, Observe
<1>3. QED
  BY <1>1, <1>2 DEF ANext

LEMMA InformedStep ==
  ASSUME RInv, NEW w \in Workers, ARequest(w), Observe
  PROVE  \A v \in Workers : Informed(v)'
<1>1. IInv /\ Overlapping /\ JobFunctions /\ overlapped \subseteq overlapped'
  BY ServedFromInvariant DEF RInv, Observe
<1>2. ASSUME NEW v \in Workers, v # w PROVE Informed(v)'
  <2> DEFINE s == job[v].shipment
  <2>1. job'[v] = job[v] /\ pc'[v] = pc[v] /\ Informed(v)
    BY <1>1, <1>2, OthersOnly DEF RInv
  <2>2. SUFFICES ASSUME Active(v), s \notin overlapped' PROVE Informed(v)'
    BY <2>1 DEF Informed, Active
  <2>3. s \in Shipments
    BY <1>1, <2>2 DEF IInv, TypeOK, Job
  <2>4. ~Serves(w, s)
    BY <1>1, <1>2, <2>2, <2>3 DEF Overlapping, Serves
  <2>5. status'[s] = status[s] \/ (status[s] = "unborn" /\ status'[s] = "CREATED")
    BY <1>1, <2>3, <2>4, OthersOnly
  <2>6. "unborn" # Received /\ "CREATED" # Received
    BY DEF Received
  <2>7. QED
    BY <1>1, <2>1, <2>2, <2>5, <2>6 DEF Informed, Active
<1>3. Informed(w)'
  <2>1. ASSUME ~Active(w)' PROVE Informed(w)'
    BY <2>1 DEF Informed
  <2>2. ASSUME job'[w] = job[w], Active(w), status' = status PROVE Informed(w)'
    BY <1>1, <2>2 DEF RInv, Informed
  <2>3. ASSUME Idle(w) PROVE Informed(w)'
    BY <1>1, <2>1, <2>3 DEF Idle, Active, JobFunctions
  <2>4. ASSUME NEW s \in Shipments, NEW new \in Statuses, UpdateStatus(w, s, new)
        PROVE  Informed(w)'
    <3>1. /\ job'[w].kind = IF Receives(s, new) THEN "receive" ELSE "status"
          /\ job'[w].shipment = s /\ job'[w].status = new /\ status' = status
      BY <1>1, <2>4 DEF UpdateStatus, Open, JobFunctions, shipmentVars
    <3>2. QED
      BY <3>1 DEF Informed, Receives
  <2>5. ASSUME NEW kind \in {"patch", "delete"}, NEW s, NEW new, NEW to,
               Open(w, kind, s, new, to)
        PROVE  Informed(w)'
    <3>1. job'[w].kind = kind
      BY <1>1, <2>5 DEF Open, JobFunctions
    <3>2. QED
      BY <3>1 DEF Informed
  <2>6. ASSUME Fetch(w) \/ Insert(w) \/ Store(w) PROVE Informed(w)'
    BY <1>1, <2>2, <2>6
       DEF Fetch, Insert, Store, Advance, AtFetch, AtStore, AtItem, Receiving, shipmentVars
  <2>10. ASSUME FindItemsGone(w) PROVE Informed(w)'
    <3>1. /\ job[w] \in Job /\ job'[w] = [job[w] EXCEPT !.cargo = <<>>]
          /\ pc' = pc /\ status' = status
      BY <1>1, <2>10, ItemsGoneStep DEF shipmentVars
    <3>2. /\ job'[w].kind = job[w].kind /\ job'[w].shipment = job[w].shipment
          /\ job'[w].status = job[w].status
      BY <3>1 DEF Job
    <3>3. QED
      BY <1>1, <3>1, <3>2 DEF RInv, Informed, Active
  <2>7. ASSUME CommitReceipt(w) PROVE Informed(w)'
    <3>1. job[w] \in Job /\ Receiving(w) /\ status' = status
      BY <1>1, <2>7 DEF CommitReceipt, Receiving, IInv, TypeOK, shipmentVars
    <3>2. job'[w] = [job[w] EXCEPT !.kind = "received"]
      BY <1>1, <2>7 DEF CommitReceipt, JobFunctions
    <3>3. /\ job'[w].kind = "received" /\ job'[w].shipment = job[w].shipment
          /\ job'[w].status = job[w].status
      BY <3>1, <3>2 DEF Job
    <3>4. QED
      BY <1>1, <3>1, <3>3 DEF RInv, Informed, Receiving
  <2>8. ASSUME Service(w) \/ \E s \in Shipments, to \in Warehouses, load \in Loads :
                               Create(w, s, to, load)
        PROVE  Informed(w)'
    BY <2>1, <2>8 DEF Service, Create, Active
  <2>9. QED
    BY <2>3, <2>4, <2>5, <2>6, <2>7, <2>8, <2>10
       DEF ARequest, AUpdateStatus, AService, ACommitReceipt, ASaveShipment, AKill,
           AOther, Patch, Delete, Overflow, DeadlockAbort, Kill, Abandon, SaveShipment, Destroy
<1>4. QED
  BY <1>2, <1>3

\* Whether s has been stocked and not saved yet depends on its one server.
LEMMA LateOfServer ==
  ASSUME Overlapping, NEW s \in Shipments \ overlapped, NEW w \in Workers, Serves(w, s)
  PROVE  Late(s) = IF job[w].kind = "received" THEN 1 ELSE 0
BY DEF Overlapping, Late, IsLate

LEMMA LateOfNobody ==
  ASSUME NEW s, \A w \in Workers : ~Serves(w, s)
  PROVE  Late(s) = 0
BY DEF Late, IsLate

\* A step of w on anything else leaves the account of s as it was.
LEMMA LateElsewhere ==
  ASSUME IInv, NEW w \in Workers, ARequest(w), NEW s \in Shipments,
         IsLate(w, s)' <=> IsLate(w, s)
  PROVE  Late(s)' = Late(s)
<1>1. \A v \in Workers \ {w} : IsLate(v, s)' <=> IsLate(v, s)
  BY OthersOnly DEF IsLate, Serves, Active
<1>2. \A v \in Workers : IsLate(v, s)' <=> IsLate(v, s)
  BY <1>1
<1>3. QED
  BY <1>2 DEF Late

Balanced(s) == stocked[s] - Late(s) \in entered[s]..(entered[s] + deaths)

LEMMA ReceiptsStep ==
  ASSUME RInv, NEW w \in Workers, ARequest(w), Observe,
         NEW s \in Shipments, s \notin overlapped'
  PROVE  Balanced(s)'
<1>1. /\ IInv /\ Overlapping /\ JobFunctions /\ s \notin overlapped
      /\ Informed(w) /\ Balanced(s)
  BY ServedFromInvariant DEF RInv, Observe, ReceiptsAccounted, Balanced
<1>2. /\ stocked[s] \in Nat /\ entered[s] \in Nat /\ deaths \in Nat
      /\ stocked \in [Shipments -> Nat] /\ entered \in [Shipments -> Nat]
      /\ status \in [Shipments -> Statuses \cup {"unborn", "deleted"}]
  BY DEF RInv, AuditTyped, IInv, TypeOK
<1>3. ASSUME Late(s)' = Late(s), stocked'[s] = stocked[s], entered'[s] = entered[s],
             deaths' \in Nat, deaths' >= deaths
      PROVE  Balanced(s)'
  <2>1. Late(s) \in Int
    BY DEF Late
  <2> DEFINE l == Late(s)
  <2>2. l \in Int /\ Late(s)' = l /\ stocked[s] - l \in entered[s]..(entered[s] + deaths)
    BY <1>1, <1>3, <2>1 DEF Balanced
  <2> HIDE DEF l
  <2>3. stocked'[s] - Late(s)' \in entered'[s]..(entered'[s] + deaths')
    BY <1>2, <1>3, <2>2
  <2>4. QED
    BY <2>3 DEF Balanced
<1>4. CASE ACommitReceipt(w)
  <2>1. Receiving(w) /\ job[w] \in Job
    BY <1>1, <1>4 DEF ACommitReceipt, CommitReceipt, Receiving, IInv, TypeOK
  <2>2. /\ job'[w].kind = "received" /\ job'[w].shipment = job[w].shipment /\ Active(w)'
    <3>1. job'[w] = [job[w] EXCEPT !.kind = "received"] /\ pc'[w] = 1
      BY <1>1, <1>4 DEF ACommitReceipt, CommitReceipt, JobFunctions
    <3>2. QED
      BY <2>1, <3>1 DEF Job, Active
  <2>3. /\ stocked' = [stocked EXCEPT ![job[w].shipment] = @ + 1]
        /\ entered' = entered /\ deaths' = deaths
    BY <1>4 DEF ACommitReceipt
  <2>4. CASE job[w].shipment = s
    <3>1. Late(s) = 0
      <4>1. Serves(w, s)
        BY <2>1, <2>4 DEF Serves, Receiving
      <4>2. QED
        BY <1>1, <2>1, <4>1, LateOfServer DEF Receiving
    <3>2. Late(s)' = 1
      BY <2>2, <2>4 DEF Late, IsLate, Serves
    <3>3. stocked'[s] = stocked[s] + 1
      BY <1>2, <2>3, <2>4
    <3>4. stocked[s] - 0 \in entered[s]..(entered[s] + deaths)
      BY <1>1, <3>1 DEF Balanced
    <3>5. stocked'[s] - 1 \in entered'[s]..(entered'[s] + deaths')
      BY <1>2, <2>3, <3>3, <3>4
    <3>6. QED
      BY <3>2, <3>5 DEF Balanced
  <2>5. CASE job[w].shipment # s
    <3>1. IsLate(w, s)' <=> IsLate(w, s)
      BY <2>2, <2>5 DEF IsLate, Serves
    <3>2. Late(s)' = Late(s)
      BY <1>1, <3>1, LateElsewhere
    <3>3. stocked'[s] = stocked[s]
      BY <1>2, <2>3, <2>5
    <3>4. QED
      BY <1>2, <1>3, <2>3, <3>2, <3>3
  <2>6. QED
    BY <2>4, <2>5
<1>5. ASSUME Idle(w), ~IsLate(w, s), stocked' = stocked, entered' = entered,
             deaths' \in Nat, deaths' >= deaths
      PROVE  Balanced(s)'
  <2>1. ~IsLate(w, s)'
    BY <1>1, <1>5 DEF Idle, IsLate, Serves, Active, JobFunctions
  <2>2. Late(s)' = Late(s)
    BY <1>1, <1>5, <2>1, LateElsewhere
  <2>3. QED
    BY <1>3, <1>5, <2>2
<1>6. ASSUME IsLate(w, s), Idle(w)
      PROVE  Late(s) = 1 /\ Late(s)' = 0
  <2>1. Late(s) = 1
    BY <1>6 DEF Late
  <2>2. ~Serves(w, s)'
    BY <1>1, <1>6 DEF Idle, Serves, Active, JobFunctions
  <2>3. \A v \in Workers \ {w} : ~Serves(v, s)
    BY <1>1, <1>6 DEF IsLate, Overlapping
  <2>4. \A v \in Workers \ {w} : ~Serves(v, s)'
    BY <1>1, <2>3, OthersOnly DEF Serves, Active
  <2>5. \A v \in Workers : ~IsLate(v, s)'
    BY <2>2, <2>4 DEF IsLate
  <2>6. Late(s)' = 0
    BY <2>5 DEF Late
  <2>7. QED
    BY <2>1, <2>6
<1>7. CASE AKill(w)
  <2>1. Idle(w) /\ deaths' = deaths + 1 /\ stocked' = stocked /\ entered' = entered
    BY <1>7 DEF AKill, Kill, Abandon
  <2>2. CASE IsLate(w, s)
    <3>1. stocked[s] - 1 \in entered[s]..(entered[s] + deaths)
      BY <1>1, <1>6, <2>1, <2>2 DEF Balanced
    <3>2. stocked'[s] - 0 \in entered'[s]..(entered'[s] + deaths')
      BY <1>2, <2>1, <3>1
    <3>3. QED
      BY <1>6, <2>1, <2>2, <3>2 DEF Balanced
  <2>3. CASE ~IsLate(w, s)
    BY <1>2, <1>5, <2>1, <2>3
  <2>4. QED
    BY <2>2, <2>3
<1>8. CASE ASaveShipment(w)
  <2>1. /\ Idle(w) /\ Active(w) /\ stocked' = stocked /\ deaths' = deaths
        /\ entered'[s] = entered[s] + (IF Enters(w, s) THEN 1 ELSE 0)
        /\ job[w].shipment = s => status'[s] = job[w].status
    BY <1>2, <1>8 DEF ASaveShipment, SaveShipment
  <2>2. CASE IsLate(w, s)
    <3>1. Enters(w, s)
      BY <1>1, <2>1, <2>2 DEF IsLate, Serves, Informed, Enters
    <3>2. entered'[s] = entered[s] + 1
      BY <2>1, <3>1
    <3>3. stocked[s] - 1 \in entered[s]..(entered[s] + deaths)
      BY <1>1, <1>6, <2>1, <2>2 DEF Balanced
    <3>4. stocked'[s] - 0 \in entered'[s]..(entered'[s] + deaths')
      BY <1>2, <2>1, <3>2, <3>3
    <3>5. QED
      BY <1>6, <2>1, <2>2, <3>4 DEF Balanced
  <2>3. CASE ~IsLate(w, s)
    <3>1. ~Enters(w, s)
      <4>1. SUFFICES ASSUME Enters(w, s) PROVE FALSE
        OBVIOUS
      <4>2. /\ job[w].kind = "status" /\ job[w].shipment = s
            /\ status[s] # Received /\ job[w].status = Received
        BY <2>1, <2>3, <4>1 DEF Enters, IsLate, Serves
      <4>3. QED
        BY <1>1, <2>1, <4>2 DEF Informed
    <3>2. entered'[s] = entered[s]
      BY <1>2, <2>1, <3>1
    <3>3. ~IsLate(w, s)'
      BY <1>1, <2>1 DEF Idle, IsLate, Serves, Active, JobFunctions
    <3>4. Late(s)' = Late(s)
      BY <1>1, <2>3, <3>3, LateElsewhere
    <3>5. QED
      BY <1>2, <1>3, <2>1, <3>2, <3>4
  <2>4. QED
    BY <2>2, <2>3
<1>9. ASSUME UNCHANGED books, ~IsLate(w, s), ~IsLate(w, s)' PROVE Balanced(s)'
  <2>1. Late(s)' = Late(s)
    BY <1>1, <1>9, LateElsewhere
  <2>2. QED
    BY <1>2, <1>3, <1>9, <2>1 DEF books
<1>10. ASSUME UNCHANGED books, job'[w] = job[w], Active(w) = Active(w)' PROVE Balanced(s)'
  <2>1. IsLate(w, s)' <=> IsLate(w, s)
    BY <1>10 DEF IsLate, Serves
  <2>2. Late(s)' = Late(s)
    BY <1>1, <2>1, LateElsewhere
  <2>3. QED
    BY <1>2, <1>3, <1>10, <2>2 DEF books
<1>11. CASE AService(w)
  <2>1. IsLate(w, s)' <=> IsLate(w, s)
    BY <1>11 DEF AService, Service, IsLate, Serves, Active
  <2>2. Late(s)' = Late(s)
    BY <1>1, <2>1, LateElsewhere
  <2>3. QED
    BY <1>2, <1>3, <1>11, <2>2 DEF AService
<1>12. ASSUME NEW kind \in {"receive", "status", "patch", "delete"}, NEW t, NEW new, NEW to,
              Open(w, kind, t, new, to), UNCHANGED books
       PROVE  Balanced(s)'
  <2>1. job'[w].kind = kind /\ ~Active(w)
    BY <1>1, <1>12 DEF Open, JobFunctions
  <2>2. QED
    BY <1>9, <1>12, <2>1 DEF IsLate, Serves
<1>13. ASSUME NEW t \in Shipments, NEW new \in Statuses, AUpdateStatus(w, t, new)
       PROVE  Balanced(s)'
  BY <1>12, <1>13 DEF AUpdateStatus, UpdateStatus
<1>14. CASE AOther(w)
  <2>1. UNCHANGED books
    BY <1>14 DEF AOther
  <2>2. ASSUME NEW t \in Shipments, NEW to, NEW load, Create(w, t, to, load)
        PROVE  Balanced(s)'
    BY <1>10, <2>1, <2>2 DEF Create, Active
  <2>3. ASSUME NEW t, NEW new, NEW to, Patch(w, t, new, to) \/ Delete(w, t)
        PROVE  Balanced(s)'
    BY <1>12, <2>1, <2>3 DEF Patch, Delete
  <2>4. ASSUME Fetch(w) \/ Insert(w) \/ Store(w) PROVE Balanced(s)'
    <3>1. pc[w] \in Nat /\ pc'[w] = pc[w] + 1 /\ job' = job /\ Active(w)
      BY <1>1, <2>4 DEF Fetch, Insert, Store, Advance, AtFetch, AtStore, AtItem, Receiving,
                        JobFunctions, IInv, TypeOK
    <3>2. Active(w)'
      BY <3>1 DEF Active
    <3>3. QED
      BY <1>10, <2>1, <3>1, <3>2
  <2>7. ASSUME FindItemsGone(w) PROVE Balanced(s)'
    <3>1. /\ job[w] \in Job /\ job'[w] = [job[w] EXCEPT !.cargo = <<>>] /\ pc' = pc
          /\ Receiving(w)
      BY <1>1, <2>7, ItemsGoneStep
    <3>2. job'[w].kind = job[w].kind
      BY <3>1 DEF Job
    <3>3. QED
      BY <1>9, <2>1, <3>1, <3>2 DEF IsLate, Receiving
  <2>5. ASSUME Overflow(w) \/ DeadlockAbort(w) \/ Destroy(w) PROVE Balanced(s)'
    <3>1. Idle(w)
      BY <2>5 DEF Overflow, DeadlockAbort, Abandon, Destroy
    <3>2. job[w].kind # "received"
      BY <2>5 DEF Overflow, DeadlockAbort, Deadlocked, WaitsFor, Destroy, AtFetch, AtStore,
                  AtItem, Receiving
    <3>3. deaths' = deaths /\ stocked' = stocked /\ entered' = entered
      BY <2>1 DEF books
    <3>4. QED
      BY <1>2, <1>5, <3>1, <3>2, <3>3 DEF IsLate
  <2>6. QED
    BY <1>14, <2>2, <2>3, <2>4, <2>5, <2>7 DEF AOther
<1>15. QED
  BY <1>4, <1>7, <1>8, <1>11, <1>13, <1>14 DEF ARequest

LEMMA ReceiptsInvariant == ASpec => []RInv
<1>1. RInv /\ [ANext]_<<vars, auditVars>> => RInv'
  <2> SUFFICES ASSUME RInv, [ANext]_<<vars, auditVars>> PROVE RInv'
    OBVIOUS
  <2>1. IInv' /\ Overlapping'
    BY AuditWatches, StepInvariant, OverlappingStep DEF RInv
  <2>2. AuditTyped'
    BY AuditTypedStep DEF RInv
  <2>3. CASE UNCHANGED <<vars, auditVars>>
    <3>1. ReceiptsAccounted' = ReceiptsAccounted
      BY <2>3 DEF ReceiptsAccounted, Late, IsLate, Serves, Active, vars, auditVars
    <3>2. \A w \in Workers : Informed(w)' = Informed(w)
      BY <2>3 DEF Informed, Active, vars, auditVars
    <3>3. QED
      BY <2>1, <2>2, <3>1, <3>2 DEF RInv
  <2>4. ASSUME NEW w \in Workers, ARequest(w), Observe PROVE RInv'
    <3>1. \A v \in Workers : Informed(v)'
      BY <2>4, InformedStep
    <3>2. \A s \in Shipments : s \notin overlapped' => Balanced(s)'
      BY <2>4, ReceiptsStep
    <3>3. ReceiptsAccounted'
      BY <3>2 DEF ReceiptsAccounted, Balanced
    <3>4. QED
      BY <2>1, <2>2, <3>1, <3>3 DEF RInv
  <2>5. QED
    BY <2>3, <2>4 DEF ANext
<1>2. QED
  BY <1>1, ReceiptsInit, PTL DEF ASpec

\* Whatever interleaves or dies: a shipment that no two requests had open at once
\* is stocked once for every time update_status made it RECEIVED, plus at most once
\* for every request that died, plus the receipt under way.
THEOREM ReceiptsStayAccounted == ASpec => []ReceiptsAccounted
<1>1. RInv => ReceiptsAccounted
  BY DEF RInv
<1>2. QED
  BY <1>1, ReceiptsInvariant, PTL

\* Nor does update_status make such a shipment RECEIVED without stocking it.
THEOREM ReceivedIsStocked == ASpec => ReceivedMeansStocked
<1> DEFINE Stocks == \A w \in Workers, s \in Shipments \ overlapped :
                       SaveShipment(w) /\ Enters(w, s) => job[w].kind = "received"
<1>1. RInv => Stocks
  <2> SUFFICES ASSUME RInv, NEW w \in Workers, NEW s \in Shipments \ overlapped,
                      SaveShipment(w), Enters(w, s)
               PROVE  job[w].kind = "received"
    OBVIOUS
  <2>1. Active(w) /\ Informed(w) /\ job[w].shipment = s
    BY DEF RInv, SaveShipment, Enters
  <2>2. status'[s] = job[w].status
    BY <2>1 DEF RInv, IInv, TypeOK, SaveShipment
  <2>3. job[w].status = Received /\ status[s] # Received
    BY <2>2 DEF Enters
  <2>4. job[w].kind # "status"
    BY <2>1, <2>3 DEF Informed
  <2>5. QED
    BY <2>4 DEF Enters
<1>2. RInv => [Stocks]_<<vars, auditVars>>
  BY <1>1
<1>3. QED
  BY <1>2, ReceiptsInvariant, PTL DEF ReceivedMeansStocked

=============================================================================
