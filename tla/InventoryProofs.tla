-------------------------- MODULE InventoryProofs ---------------------------
(***************************************************************************)
(* Proofs about Inventory, for any workers, catalogue, bills and bounds.   *)
(***************************************************************************)
EXTENDS Inventory, FiniteSetTheorems, TLAPS

-----------------------------------------------------------------------------
(* The plans of the service calls.                                         *)

\* A request that passed the validation that precedes the transaction.
Valid(q) ==
  /\ q \in Request
  /\ q.product \in Physical
  /\ q.op = "transfer" => q.at # q.to
  /\ q.op \in {"assemble", "disassemble"} =>
       q.product \in Bundles /\ q.bill \in Bills[q.product] \ {<<>>}

Statements == [act : {"check", "draw", "put"}, row : Row, n : Nat \ {0}]

LEMMA BillFacts ==
  ASSUME NEW q, Valid(q), q.op \in {"assemble", "disassemble"}
  PROVE  /\ Len(q.bill) \in Nat
         /\ \A i \in 1..Len(q.bill) :
              /\ q.bill[i] \in Line
              /\ Part(q, i) \in Row
              /\ Part(q, i) # Home(q)
              /\ Needed(q, i) \in Nat \ {0}
         /\ \A i, j \in 1..Len(q.bill) : Part(q, i) = Part(q, j) => i = j
<1> DEFINE k == Len(q.bill)
<1>1. /\ q.product \in Products /\ q.at \in Warehouses /\ q.n \in Nat \ {0}
      /\ q.product \in Bundles /\ q.bill \in Bills[q.product]
  BY AmountsAssumption DEF Valid, Request
<1>2. /\ q.bill \in Seq(Line)
      /\ \A i \in 1..k : q.bill[i].component # q.product
      /\ \A i, j \in 1..k : q.bill[i].component = q.bill[j].component => i = j
  BY <1>1, BillsAssumption
<1>3. k \in Nat /\ \A i \in 1..k : q.bill[i] \in Line
  BY <1>2
<1>4. \A a, b \in Nat \ {0} : a * b \in Nat \ {0}
  OBVIOUS
<1>5. ASSUME NEW i \in 1..k
      PROVE  Part(q, i) \in Row /\ Part(q, i) # Home(q) /\ Needed(q, i) \in Nat \ {0}
  BY <1>1, <1>2, <1>3, <1>4 DEF Part, Home, Needed, Row, Line
<1>6. QED
  BY <1>2, <1>3, <1>5 DEF Part

\* Every statement of a plan names a row and a positive amount.
LEMMA PlanType ==
  ASSUME NEW q, Valid(q)
  PROVE  /\ Len(Plan(q)) \in Nat
         /\ \A i \in 1..Len(Plan(q)) : Plan(q)[i] \in Statements
<1>1. /\ Home(q) \in Row /\ <<q.product, q.to>> \in Row
      /\ q.n \in Nat \ {0}
      /\ q.op \in {"add", "remove", "transfer", "assemble", "disassemble"}
  BY AmountsAssumption DEF Valid, Request, Home, Row
<1>2. CASE q.op = "add"
  BY <1>1, <1>2 DEF Plan, AddPlan, Check, Draw, Put, Statements
<1>3. CASE q.op = "remove"
  BY <1>1, <1>3 DEF Plan, RemovePlan, Check, Draw, Put, Statements
<1>4. CASE q.op = "transfer"
  BY <1>1, <1>4 DEF Plan, TransferPlan, Check, Draw, Put, Statements
<1>5. CASE q.op = "assemble"
  <2>1. Plan(q) = AssemblePlan(q)
    BY <1>5 DEF Plan
  <2>2. QED
    BY <1>1, <1>5, <2>1, BillFacts DEF AssemblePlan, Check, Draw, Put, Statements
<1>6. CASE q.op = "disassemble"
  <2>1. Plan(q) = DisassemblePlan(q)
    BY <1>6 DEF Plan
  <2>2. QED
    BY <1>1, <1>6, <2>1, BillFacts DEF DisassemblePlan, Check, Draw, Put, Statements
<1>7. QED
  BY <1>1, <1>2, <1>3, <1>4, <1>5, <1>6

\* No plan writes a row twice.
LEMMA OneWrite ==
  ASSUME NEW q, Valid(q),
         NEW i \in 1..Len(Plan(q)), NEW j \in 1..Len(Plan(q)),
         Plan(q)[i].act # "check", Plan(q)[j].act # "check",
         Plan(q)[i].row = Plan(q)[j].row
  PROVE  i = j
<1>1. q.op \in {"add", "remove", "transfer", "assemble", "disassemble"}
  BY DEF Valid, Request
<1>2. CASE q.op = "add"
  BY <1>2 DEF Plan, AddPlan, Check, Draw, Put
<1>3. CASE q.op = "remove"
  BY <1>3 DEF Plan, RemovePlan, Check, Draw, Put
<1>4. CASE q.op = "transfer"
  BY <1>4 DEF Plan, TransferPlan, Check, Draw, Put, Home, Valid
<1>5. CASE q.op = "assemble"
  <2> DEFINE k == Len(q.bill)
  <2>1. Plan(q) = AssemblePlan(q) /\ k \in Nat /\ Len(Plan(q)) = 2 * k + 1
    BY <1>5, BillFacts DEF Plan, AssemblePlan
  <2>2. ASSUME NEW h \in 1..Len(Plan(q)), Plan(q)[h].act # "check"
        PROVE  /\ h > k
               /\ h <= 2 * k => Plan(q)[h].row = Part(q, h - k)
               /\ h > 2 * k => h = 2 * k + 1 /\ Plan(q)[h].row = Home(q)
    <3>1. h \in 1..(2 * k + 1) /\ AssemblePlan(q)[h].act # "check"
      BY <2>1, <2>2
    <3>2. CASE h <= k
      BY <2>1, <3>1, <3>2 DEF AssemblePlan, Check
    <3>3. CASE h > k /\ h <= 2 * k
      BY <2>1, <3>1, <3>3 DEF AssemblePlan, Draw
    <3>4. CASE h > 2 * k
      <4>1. h = 2 * k + 1 /\ h > k
        BY <2>1, <3>1, <3>4
      <4>2. AssemblePlan(q)[h] = Put(Home(q), q.n)
        BY <2>1, <3>1, <3>4, <4>1 DEF AssemblePlan
      <4>3. QED
        BY <2>1, <4>1, <4>2 DEF Put
    <3>5. QED
      BY <2>1, <3>1, <3>2, <3>3, <3>4
  <2>3. \A h \in (k + 1)..(2 * k) :
          h - k \in 1..k /\ Part(q, h - k) # Home(q)
    <3>1. \A h \in (k + 1)..(2 * k) : h - k \in 1..k
      BY <2>1
    <3>2. \A h \in 1..k : Part(q, h) # Home(q)
      BY <1>5, BillFacts
    <3>3. QED
      BY <3>1, <3>2
  <2>4. i > k /\ j > k
    BY <2>2
  <2>5. CASE i <= 2 * k /\ j <= 2 * k
    <3>1. Part(q, i - k) = Part(q, j - k) /\ i - k \in 1..k /\ j - k \in 1..k
      BY <2>1, <2>2, <2>3, <2>4, <2>5
    <3>2. i - k = j - k
      BY <1>5, <3>1, BillFacts
    <3>3. QED
      BY <2>1, <3>2
  <2>6. QED
    BY <2>1, <2>2, <2>3, <2>4, <2>5, SMTT(30)
<1>6. CASE q.op = "disassemble"
  <2> DEFINE k == Len(q.bill)
  <2>1. Plan(q) = DisassemblePlan(q) /\ k \in Nat /\ Len(Plan(q)) = k + 2
    BY <1>6, BillFacts DEF Plan, DisassemblePlan
  <2>2. ASSUME NEW h \in 1..Len(Plan(q)), Plan(q)[h].act # "check"
        PROVE  /\ h >= 2
               /\ h > 2 => Plan(q)[h].row = Part(q, h - 2)
               /\ h = 2 => Plan(q)[h].row = Home(q)
    BY <2>1, <2>2 DEF DisassemblePlan, Check, Draw, Put
  <2>3. \A h \in 3..(k + 2) : h - 2 \in 1..k /\ Part(q, h - 2) # Home(q)
    <3>1. \A h \in 3..(k + 2) : h - 2 \in 1..k
      BY <2>1
    <3>2. \A h \in 1..k : Part(q, h) # Home(q)
      BY <1>6, BillFacts
    <3>3. QED
      BY <3>1, <3>2
  <2>4. i >= 2 /\ j >= 2
    BY <2>2
  <2>5. CASE i > 2 /\ j > 2
    <3>1. Part(q, i - 2) = Part(q, j - 2) /\ i - 2 \in 1..k /\ j - 2 \in 1..k
      BY <2>1, <2>2, <2>3, <2>5
    <3>2. i - 2 = j - 2
      BY <1>6, <3>1, BillFacts
    <3>3. QED
      BY <2>1, <3>2
  <2>6. QED
    BY <2>1, <2>2, <2>3, <2>4, <2>5
<1>7. QED
  BY <1>1, <1>2, <1>3, <1>4, <1>5, <1>6

\* Every draw follows a check of the same row for the same amount.
LEMMA DrawIsChecked ==
  ASSUME NEW q, Valid(q), NEW i \in 1..Len(Plan(q)), Plan(q)[i].act = "draw"
  PROVE  \E j \in 1..(i - 1) : Plan(q)[j] = Check(Plan(q)[i].row, Plan(q)[i].n)
<1>1. q.op \in {"add", "remove", "transfer", "assemble", "disassemble"}
  BY DEF Valid, Request
<1>2. CASE q.op = "add"
  BY <1>2 DEF Plan, AddPlan, Check, Draw, Put
<1>3. CASE q.op = "remove"
  <2>1. i = 2
    BY <1>3 DEF Plan, RemovePlan, Check, Draw, Put
  <2>2. Plan(q)[1] = Check(Plan(q)[i].row, Plan(q)[i].n)
    BY <1>3, <2>1 DEF Plan, RemovePlan, Check, Draw, Put
  <2>3. QED
    BY <2>1, <2>2
<1>4. CASE q.op = "transfer"
  <2>1. i = 2
    BY <1>4 DEF Plan, TransferPlan, Check, Draw, Put
  <2>2. Plan(q)[1] = Check(Plan(q)[i].row, Plan(q)[i].n)
    BY <1>4, <2>1 DEF Plan, TransferPlan, Check, Draw, Put
  <2>3. QED
    BY <2>1, <2>2
<1>5. CASE q.op = "assemble"
  <2> DEFINE k == Len(q.bill)
  <2>1. Plan(q) = AssemblePlan(q) /\ k \in Nat
    BY <1>5, BillFacts DEF Plan
  <2>2. i > k /\ i <= 2 * k
    BY <2>1 DEF AssemblePlan, Check, Draw, Put
  <2>3. Plan(q)[i - k] = Check(Plan(q)[i].row, Plan(q)[i].n)
    BY <2>1, <2>2 DEF AssemblePlan, Check, Draw, Put
  <2>4. QED
    BY <2>1, <2>2, <2>3
<1>6. CASE q.op = "disassemble"
  <2>1. Plan(q) = DisassemblePlan(q) /\ Len(q.bill) \in Nat
    BY <1>6, BillFacts DEF Plan
  <2>2. i = 2
    BY <2>1 DEF DisassemblePlan, Check, Draw, Put
  <2>3. Plan(q)[1] = Check(Plan(q)[i].row, Plan(q)[i].n)
    BY <2>1, <2>2 DEF DisassemblePlan, Check, Draw, Put
  <2>4. QED
    BY <2>2, <2>3
<1>7. QED
  BY <1>1, <1>2, <1>3, <1>4, <1>5, <1>6
\* A row that is checked has not been touched before.
LEMMA CheckIsFirst ==
  ASSUME NEW q, Valid(q), NEW i \in 1..Len(Plan(q)), Plan(q)[i].act = "check",
         NEW j \in 1..(i - 1)
  PROVE  Plan(q)[j].row # Plan(q)[i].row
<1>1. q.op \in {"add", "remove", "transfer", "assemble", "disassemble"}
  BY DEF Valid, Request
<1>2. CASE q.op = "add"
  BY <1>2 DEF Plan, AddPlan, Check, Draw, Put
<1>3. CASE q.op = "remove"
  BY <1>3 DEF Plan, RemovePlan, Check, Draw, Put
<1>4. CASE q.op = "transfer"
  BY <1>4 DEF Plan, TransferPlan, Check, Draw, Put
<1>5. CASE q.op = "assemble"
  <2> DEFINE k == Len(q.bill)
  <2>1. Plan(q) = AssemblePlan(q) /\ k \in Nat /\ Len(Plan(q)) = 2 * k + 1
    BY <1>5, BillFacts DEF Plan, AssemblePlan
  <2>2. i <= k /\ i \in 1..(2 * k + 1)
    <3>1. i \in 1..(2 * k + 1) /\ AssemblePlan(q)[i].act = "check"
      BY <2>1
    <3>2. QED
      BY <2>1, <3>1 DEF AssemblePlan, Draw, Put
  <2>3. Plan(q)[i].row = Part(q, i) /\ Plan(q)[j].row = Part(q, j)
    BY <2>1, <2>2 DEF AssemblePlan, Check
  <2>4. i \in 1..k /\ j \in 1..k /\ i # j
    BY <2>1, <2>2
  <2>5. QED
    BY <1>5, <2>3, <2>4, BillFacts
<1>6. CASE q.op = "disassemble"
  <2>1. Plan(q) = DisassemblePlan(q) /\ Len(q.bill) \in Nat
    BY <1>6, BillFacts DEF Plan
  <2>2. i = 1
    BY <2>1 DEF DisassemblePlan, Check, Draw, Put
  <2>3. QED
    BY <2>2
<1>7. QED
  BY <1>1, <1>2, <1>3, <1>4, <1>5, <1>6

\* Effect before the first statement, and what one more statement adds.
LEMMA EffectStart ==
  ASSUME NEW q, NEW r
  PROVE  Effect(q, 1, r) = 0
<1>1. Writes(q, 1, r) = {}
  BY DEF Writes
<1>2. QED
  BY <1>1 DEF Effect, Net

\* The single write of r among the statements before i, when there is one.
LEMMA EffectIs ==
  ASSUME NEW q, Valid(q), NEW i \in 1..(Len(Plan(q)) + 1), NEW r,
         NEW j \in 1..(i - 1), Plan(q)[j].row = r, Plan(q)[j].act # "check"
  PROVE  Effect(q, i, r) = IF Plan(q)[j].act = "put" THEN Plan(q)[j].n
                                                     ELSE -Plan(q)[j].n
<1> DEFINE c == CHOOSE h \in Writes(q, i, r) : TRUE
<1>1. Len(Plan(q)) \in Nat
  BY PlanType
<1>2. j \in Writes(q, i, r) /\ c \in Writes(q, i, r)
  BY DEF Writes
<1>3. c \in 1..Len(Plan(q)) /\ j \in 1..Len(Plan(q))
  BY <1>1, <1>2 DEF Writes
<1>4. c = j
  <2>1. Plan(q)[c].row = r /\ Plan(q)[c].act # "check"
    BY <1>2 DEF Writes
  <2>2. QED
    BY <1>3, <2>1, OneWrite
<1>5. Writes(q, i, r) # {}
  BY <1>2
<1>6. QED
  BY <1>4, <1>5 DEF Effect, Net

LEMMA EffectNone ==
  ASSUME NEW q, NEW i, NEW r,
         \A j \in 1..(i - 1) : Plan(q)[j].row = r => Plan(q)[j].act = "check"
  PROVE  Effect(q, i, r) = 0
<1>1. Writes(q, i, r) = {}
  BY DEF Writes
<1>2. QED
  BY <1>1 DEF Effect, Net

LEMMA EffectStep ==
  ASSUME NEW q, Valid(q), NEW i \in 1..Len(Plan(q)), NEW r
  PROVE  LET s == Plan(q)[i] IN
         /\ s.row # r \/ s.act = "check" => Effect(q, i + 1, r) = Effect(q, i, r)
         /\ s.row = r /\ s.act = "put" =>
              Effect(q, i, r) = 0 /\ Effect(q, i + 1, r) = s.n
         /\ s.row = r /\ s.act = "draw" =>
              Effect(q, i, r) = 0 /\ Effect(q, i + 1, r) = -s.n
<1> DEFINE s == Plan(q)[i]
<1>1. /\ Len(Plan(q)) \in Nat
      /\ s.act \in {"check", "draw", "put"}
  BY PlanType DEF Statements
<1>2. ASSUME s.row # r \/ s.act = "check"
      PROVE  Effect(q, i + 1, r) = Effect(q, i, r)
  <2>1. Writes(q, i + 1, r) = Writes(q, i, r)
    <3>1. \A h : h \in 1..(i + 1 - 1) <=> h \in 1..(i - 1) \/ h = i
      BY <1>1
    <3>2. QED
      <4>1. \A h : h \in Writes(q, i + 1, r) <=> h \in Writes(q, i, r)
        BY <1>2, <3>1 DEF Writes
      <4>2. QED
        BY <4>1
  <2>2. QED
    BY <2>1 DEF Effect
<1>3. ASSUME s.row = r, s.act # "check"
      PROVE  /\ Effect(q, i, r) = 0
             /\ Effect(q, i + 1, r) = IF s.act = "put" THEN s.n ELSE -s.n
  <2>1. \A j \in 1..(i - 1) : Plan(q)[j].row = r => Plan(q)[j].act = "check"
    <3> SUFFICES ASSUME NEW j \in 1..(i - 1), Plan(q)[j].row = r,
                        Plan(q)[j].act # "check"
                 PROVE  FALSE
      OBVIOUS
    <3>1. j \in 1..Len(Plan(q)) /\ j # i
      BY <1>1
    <3>2. QED
      BY <1>3, <3>1, OneWrite
  <2>2. i + 1 \in 1..(Len(Plan(q)) + 1) /\ i \in 1..(i + 1 - 1)
    BY <1>1
  <2>3. QED
    BY <1>3, <2>1, <2>2, EffectNone, EffectIs, SMTT(30)
<1>4. QED
  BY <1>1, <1>2, <1>3
-----------------------------------------------------------------------------
(* The inductive invariant. To show that drafts stay fresh one needs that   *)
(* nobody else writes a held row; that they stay non-negative, that the     *)
(* check which precedes a draw still holds when the row is drawn, because   *)
(* the row has been held since.                                             *)

\* The rows of the statements executed so far are held,
RowsHeld(w) ==
  \A i \in 1..(pc[w] - 1) : Plan(req[w])[i].row \in held[w]

\* no others are,
HeldRowsUsed(w) ==
  \A r \in held[w] : \E i \in 1..(pc[w] - 1) : Plan(req[w])[i].row = r

\* and what was checked still holds.
ChecksHold(w) ==
  \A i \in 1..(pc[w] - 1) :
    LET s == Plan(req[w])[i] IN
    s.act = "check" => s.row \in rows /\ Spare(quantity[s.row], s.row) >= s.n

InFlight(w) ==
  /\ Valid(req[w])
  /\ pc[w] \in 1..(Len(Plan(req[w])) + 1)
  /\ RowsHeld(w) /\ HeldRowsUsed(w) /\ ChecksHold(w)

IInv ==
  /\ TypeOK
  /\ LocksExclusive
  /\ DraftsFresh
  /\ NeverNegative
  /\ \A w \in Workers : Active(w) => InFlight(w)

LEMMA InitIInv == Init => IInv
<1> SUFFICES ASSUME Init PROVE IInv
  OBVIOUS
<1>1. /\ \A w \in Workers : pc[w] = 0 /\ ~Active(w)
      /\ \A w \in Workers : held[w] = {} /\ req[w] = NoRequest
  BY DEF Init, Active
<1>2. bom \in [Bundles -> Seq(Line)]
  <2>1. \A b \in Bundles : bom[b] \in Seq(Line)
    BY BillsAssumption DEF Init
  <2>2. QED
    BY <2>1 DEF Init
<1>3. TypeOK
  BY <1>1, <1>2, MaxIntAssumption DEF Init, TypeOK
<1>4. LocksExclusive /\ DraftsFresh
  BY <1>1 DEF LocksExclusive, DraftsFresh
<1>5. NeverNegative
  BY <1>1 DEF Init, NeverNegative
<1>6. QED
  BY <1>1, <1>3, <1>4, <1>5 DEF IInv

\* A new service call.
LEMMA BeginIInv ==
  ASSUME IInv, NEW w \in Workers, NEW q, Valid(q), Begin(w, q)
  PROVE  IInv'
<1>1. /\ UNCHANGED <<rows, quantity, reserved, moved, bom, held, draft>>
      /\ req' = [req EXCEPT ![w] = q] /\ pc' = [pc EXCEPT ![w] = 1]
      /\ pc[w] = 0
  BY DEF Begin, stockVars, Active
<1>2. TypeOK /\ LocksExclusive /\ DraftsFresh /\ NeverNegative
  BY DEF IInv
<1>3. q \in Request /\ Len(Plan(q)) \in Nat
  BY PlanType DEF Valid
<1>4. /\ held[w] = {}
      /\ pc'[w] = 1 /\ req'[w] = q /\ Active(w)'
      /\ \A v \in Workers \ {w} :
           pc'[v] = pc[v] /\ req'[v] = req[v] /\ (Active(v)' <=> Active(v))
  BY <1>1, <1>2 DEF TypeOK, Active
<1>5. TypeOK'
  BY <1>1, <1>2, <1>3, <1>4 DEF TypeOK
<1>6. LocksExclusive' /\ NeverNegative'
  BY <1>1, <1>2 DEF LocksExclusive, NeverNegative
<1>7. DraftsFresh'
  BY <1>1, <1>2, <1>4 DEF DraftsFresh
<1>8. ASSUME NEW v \in Workers, Active(v)'
      PROVE  InFlight(v)'
  <2>1. CASE v = w
    BY <1>1, <1>3, <1>4, <2>1 DEF InFlight, RowsHeld, HeldRowsUsed, ChecksHold
  <2>2. CASE v # w
    <3>1. InFlight(v)
      BY <1>4, <1>8, <2>2 DEF IInv
    <3>2. QED
      BY <1>1, <1>4, <2>2, <3>1 DEF InFlight, RowsHeld, HeldRowsUsed, ChecksHold, Spare
  <2>3. QED
    BY <2>1, <2>2
<1>9. QED
  BY <1>5, <1>6, <1>7, <1>8 DEF IInv

\* A transaction that ends without a trace.
LEMMA RollbackIInv ==
  ASSUME IInv, NEW w \in Workers, Rollback(w)
  PROVE  IInv'
<1>1. /\ UNCHANGED <<rows, quantity, reserved, moved, bom>>
      /\ req' = [req EXCEPT ![w] = NoRequest] /\ pc' = [pc EXCEPT ![w] = 0]
      /\ held' = [held EXCEPT ![w] = {}]
      /\ draft' = [draft EXCEPT ![w] = [r \in Row |-> 0]]
  BY DEF Rollback, Finish, stockVars
<1>2. TypeOK /\ LocksExclusive /\ DraftsFresh /\ NeverNegative
  BY DEF IInv
<1>3. /\ pc'[w] = 0 /\ req'[w] = NoRequest /\ held'[w] = {} /\ ~Active(w)'
      /\ \A v \in Workers \ {w} :
           /\ pc'[v] = pc[v] /\ req'[v] = req[v]
           /\ held'[v] = held[v] /\ draft'[v] = draft[v]
           /\ Active(v)' <=> Active(v)
  BY <1>1, <1>2 DEF TypeOK, Active
<1>4. TypeOK'
  BY <1>1, <1>2, <1>3 DEF TypeOK
<1>5. LocksExclusive'
  BY <1>2, <1>3 DEF LocksExclusive
<1>6. NeverNegative' /\ DraftsFresh'
  BY <1>1, <1>2, <1>3 DEF NeverNegative, DraftsFresh
<1>7. ASSUME NEW v \in Workers, Active(v)'
      PROVE  InFlight(v)'
  <2>1. v # w /\ InFlight(v)
    BY <1>3, <1>7 DEF IInv
  <2>2. QED
    BY <1>1, <1>3, <2>1 DEF InFlight, RowsHeld, HeldRowsUsed, ChecksHold, Spare
<1>8. QED
  BY <1>4, <1>5, <1>6, <1>7 DEF IInv
\* What is known when worker w executes a statement.
LEMMA AtFacts ==
  ASSUME IInv, NEW w \in Workers, NEW act, AtStatement(w, act)
  PROVE  LET s == Statement(w) IN
         /\ InFlight(w) /\ Valid(req[w])
         /\ pc[w] \in 1..Len(Plan(req[w])) /\ Len(Plan(req[w])) \in Nat
         /\ s = Plan(req[w])[pc[w]] /\ s.act = act
         /\ s.row \in Row /\ s.n \in Nat \ {0}
         /\ Seen(w, s.row) = quantity[s.row] + Effect(req[w], pc[w], s.row)
         /\ Seen(w, s.row) \in 0..MaxInt /\ quantity[s.row] \in 0..MaxInt
<1> DEFINE s == Statement(w)
<1>1. InFlight(w)
  BY DEF IInv, AtStatement
<1>2. Valid(req[w]) /\ Len(Plan(req[w])) \in Nat
  BY <1>1, PlanType DEF InFlight
<1>3. pc[w] \in 1..Len(Plan(req[w])) /\ s = Plan(req[w])[pc[w]] /\ s.act = act
  BY <1>1, <1>2 DEF InFlight, AtStatement, Statement
<1>4. s \in Statements
  BY <1>2, <1>3, PlanType
<1>5. s.row \in Row /\ s.n \in Nat \ {0}
  BY <1>4 DEF Statements
<1>6. quantity[s.row] \in 0..MaxInt
  BY <1>5 DEF IInv, NeverNegative
<1>7. /\ Seen(w, s.row) = quantity[s.row] + Effect(req[w], pc[w], s.row)
      /\ Seen(w, s.row) \in 0..MaxInt
  <2>1. CASE s.row \in held[w]
    <3>1. Seen(w, s.row) = draft[w][s.row]
      BY <2>1 DEF Seen
    <3>2. DraftsFresh /\ NeverNegative
      BY DEF IInv
    <3>3. draft[w][s.row] = quantity[s.row] + Effect(req[w], pc[w], s.row)
      BY <2>1, <3>2 DEF DraftsFresh
    <3>4. draft[w][s.row] \in 0..MaxInt
      BY <2>1, <3>2 DEF NeverNegative
    <3>5. QED
      BY <3>1, <3>3, <3>4
  <2>2. CASE s.row \notin held[w]
    <3>1. \A j \in 1..(pc[w] - 1) : Plan(req[w])[j].row # s.row
      BY <1>1, <2>2 DEF InFlight, RowsHeld
    <3>2. Effect(req[w], pc[w], s.row) = 0
      BY <3>1, EffectNone
    <3>3. Seen(w, s.row) = quantity[s.row]
      BY <2>2 DEF Seen
    <3>4. QED
      BY <1>6, <3>2, <3>3
  <2>3. QED
    BY <2>1, <2>2
<1>8. QED
  BY <1>1, <1>2, <1>3, <1>5, <1>6, <1>7

\* A statement that leaves the row as its plan says, within bounds.
LEMMA GraspIInv ==
  ASSUME IInv, NEW w \in Workers, NEW act, AtStatement(w, act), NEW x \in 0..MaxInt,
         LET s == Statement(w) IN
         /\ Free(w, s.row)
         /\ Grasp(w, s.row, x)
         /\ x = quantity[s.row] + Effect(req[w], pc[w] + 1, s.row)
         /\ act = "check" =>
              s.row \in rows /\ Spare(quantity[s.row], s.row) >= s.n
  PROVE  IInv'
<1> DEFINE s == Statement(w)
           q == req[w]
           i == pc[w]
<1>1. /\ UNCHANGED <<rows, quantity, reserved, moved, bom, req>>
      /\ held' = [held EXCEPT ![w] = @ \cup {s.row}]
      /\ draft' = [draft EXCEPT ![w][s.row] = x]
      /\ pc' = [pc EXCEPT ![w] = @ + 1]
  BY DEF Grasp, stockVars
<1>2. TypeOK /\ LocksExclusive /\ DraftsFresh /\ NeverNegative
  BY DEF IInv
<1>3. /\ InFlight(w) /\ Valid(q)
      /\ i \in 1..Len(Plan(q)) /\ Len(Plan(q)) \in Nat
      /\ s = Plan(q)[i] /\ s.act = act
      /\ s.row \in Row /\ s.n \in Nat \ {0}
  BY AtFacts
<1>4. /\ pc'[w] = i + 1 /\ held'[w] = held[w] \cup {s.row}
      /\ draft'[w][s.row] = x
      /\ \A r \in Row \ {s.row} : draft'[w][r] = draft[w][r]
      /\ Active(w) /\ Active(w)'
  BY <1>1, <1>2, <1>3, SMTT(30) DEF TypeOK, Active
<1>5. \A v \in Workers \ {w} :
        /\ pc'[v] = pc[v] /\ held'[v] = held[v] /\ draft'[v] = draft[v]
        /\ Active(v)' <=> Active(v)
  BY <1>1, <1>2 DEF TypeOK, Active
<1>6. TypeOK'
  <2>1. draft' \in [Workers -> [Row -> Int]]
    <3>1. x \in Int
      OBVIOUS
    <3>2. QED
      BY <1>1, <1>2, <1>3, <3>1 DEF TypeOK
  <2>2. held' \in [Workers -> SUBSET Row] /\ pc' \in [Workers -> Nat]
    BY <1>1, <1>2, <1>3, SMTT(30) DEF TypeOK
  <2>3. req'[w] \in Request /\ pc'[w] \in 1..(Len(Plan(req'[w])) + 1)
    <3>1. q \in Request /\ i + 1 \in 1..(Len(Plan(q)) + 1)
      BY <1>3, SMTT(30) DEF Valid
    <3>2. QED
      BY <1>1, <1>4, <3>1
  <2>4. ASSUME NEW v \in Workers
        PROVE  IF Active(v)'
                 THEN req'[v] \in Request /\ pc'[v] \in 1..(Len(Plan(req'[v])) + 1)
                 ELSE req'[v] = NoRequest /\ held'[v] = {}
    BY <1>1, <1>2, <1>4, <1>5, <2>3 DEF TypeOK
  <2>5. QED
    BY <1>1, <1>2, <2>1, <2>2, <2>4 DEF TypeOK
<1>7. LocksExclusive'
  <2>1. \A v \in Workers \ {w} : s.row \notin held[v]
    BY DEF Free
  <2>2. QED
    BY <1>2, <1>4, <1>5, <2>1 DEF LocksExclusive
<1>8. NeverNegative'
  BY <1>1, <1>2, <1>4, <1>5 DEF NeverNegative, TypeOK
<1>9. DraftsFresh'
  <2>1. ASSUME NEW r \in held'[w]
        PROVE  draft'[w][r] = quantity[r] + Effect(q, i + 1, r)
    <3>1. CASE r = s.row
      BY <1>4, <3>1
    <3>2. CASE r # s.row
      <4>1. Effect(q, i + 1, r) = Effect(q, i, r)
        BY <1>3, <3>2, EffectStep, SMTT(30)
      <4>2. r \in held[w] /\ r \in Row
        BY <1>2, <1>4, <3>2 DEF TypeOK
      <4>3. QED
        BY <1>2, <1>4, <3>2, <4>1, <4>2 DEF DraftsFresh
    <3>3. QED
      BY <3>1, <3>2
  <2>2. QED
    BY <1>1, <1>2, <1>4, <1>5, <2>1 DEF DraftsFresh
<1>10. ASSUME NEW v \in Workers, Active(v)'
       PROVE  InFlight(v)'
  <2>1. CASE v # w
    <3>1. InFlight(v)
      BY <1>5, <1>10, <2>1 DEF IInv
    <3>2. QED
      BY <1>1, <1>5, <2>1, <3>1 DEF InFlight, RowsHeld, HeldRowsUsed, ChecksHold, Spare
  <2>2. CASE v = w
    <3>1. i + 1 \in 1..(Len(Plan(q)) + 1)
      BY <1>3, SMTT(30)
    <3>2. ASSUME NEW j \in 1..(i + 1 - 1)
          PROVE  /\ Plan(q)[j].row \in held'[w]
                 /\ Plan(q)[j].act = "check" =>
                      /\ Plan(q)[j].row \in rows
                      /\ Spare(quantity[Plan(q)[j].row], Plan(q)[j].row) >= Plan(q)[j].n
      <4>1. CASE j = i
        BY <1>3, <1>4, <4>1
      <4>2. CASE j # i
        <5>1. j \in 1..(i - 1)
          BY <1>3, <4>2, SMTT(30)
        <5>2. QED
          BY <1>3, <1>4, <5>1 DEF InFlight, RowsHeld, ChecksHold
      <4>3. QED
        BY <4>1, <4>2
    <3>3. ASSUME NEW r \in held'[w]
          PROVE  \E j \in 1..(i + 1 - 1) : Plan(q)[j].row = r
      <4>1. CASE r = s.row
        BY <1>3, <4>1, SMTT(30)
      <4>2. CASE r \in held[w]
        <5>1. PICK j \in 1..(i - 1) : Plan(q)[j].row = r
          BY <1>3, <4>2 DEF InFlight, HeldRowsUsed
        <5>2. j \in 1..(i + 1 - 1)
          BY <1>3, SMTT(30)
        <5>3. QED
          BY <5>1, <5>2
      <4>3. QED
        BY <1>4, <4>1, <4>2
    <3>4. QED
      <4>1. /\ req'[w] = q /\ pc'[w] = i + 1 /\ Valid(q)
            /\ rows' = rows /\ quantity' = quantity /\ reserved' = reserved
        BY <1>1, <1>3, <1>4
      <4> i \in Int
        BY <1>3, SMTT(30)
      <4>2. RowsHeld(w)'
        BY <3>2, <4>1 DEF RowsHeld
      <4>3. HeldRowsUsed(w)'
        BY <3>3, <4>1 DEF HeldRowsUsed
      <4>4. ChecksHold(w)'
        <5>1. \A a, b : Spare(a, b)' = Spare(a, b)
          BY <4>1 DEF Spare
        <5>2. QED
          BY <3>2, <4>1, <5>1 DEF ChecksHold
      <4>5. QED
        BY <2>2, <3>1, <4>1, <4>2, <4>3, <4>4 DEF InFlight
  <2>3. QED
    BY <2>1, <2>2
<1>11. QED
  BY <1>6, <1>7, <1>8, <1>9, <1>10 DEF IInv
LEMMA CheckRowIInv ==
  ASSUME IInv, NEW w \in Workers, CheckRow(w)
  PROVE  IInv'
<1> DEFINE s == Statement(w)
           x == Seen(w, s.row)
<1>1. /\ AtStatement(w, "check") /\ Exists(w, s.row) /\ Free(w, s.row)
      /\ Spare(x, s.row) >= s.n /\ Grasp(w, s.row, x)
  BY DEF CheckRow
<1>2. /\ InFlight(w) /\ Valid(req[w])
      /\ pc[w] \in 1..Len(Plan(req[w]))
      /\ s = Plan(req[w])[pc[w]] /\ s.act = "check"
      /\ x = quantity[s.row] + Effect(req[w], pc[w], s.row)
      /\ x \in 0..MaxInt
  BY <1>1, AtFacts
<1>3. s.row \notin held[w]
  <2>1. \A j \in 1..(pc[w] - 1) : Plan(req[w])[j].row # s.row
    BY <1>2, CheckIsFirst
  <2>2. QED
    BY <1>2, <2>1 DEF InFlight, HeldRowsUsed
<1>4. s.row \in rows /\ x = quantity[s.row]
  BY <1>1, <1>3 DEF Exists, Seen
<1>5. x = quantity[s.row] + Effect(req[w], pc[w] + 1, s.row)
  BY <1>2, EffectStep
<1>6. QED
  BY <1>1, <1>2, <1>4, <1>5, GraspIInv

\* A row that is drawn still has what its check found available.
LEMMA DrawIsCovered ==
  ASSUME NEW w \in Workers, InFlight(w),
         NEW i \in 1..Len(Plan(req[w])), i <= pc[w], Plan(req[w])[i].act = "draw"
  PROVE  LET s == Plan(req[w])[i] IN
         s.row \in rows \cap held[w] /\ Spare(quantity[s.row], s.row) >= s.n
<1> DEFINE s == Plan(req[w])[i]
<1>1. Valid(req[w]) /\ pc[w] \in Int /\ i \in Int
  BY PlanType DEF InFlight
<1>2. PICK j \in 1..(i - 1) : Plan(req[w])[j] = Check(s.row, s.n)
  BY <1>1, DrawIsChecked
<1>3. j \in 1..(pc[w] - 1)
  BY <1>1
<1>4. /\ Plan(req[w])[j].act = "check" /\ Plan(req[w])[j].row = s.row
      /\ Plan(req[w])[j].n = s.n
  BY <1>2 DEF Check
<1>5. QED
  BY <1>3, <1>4 DEF InFlight, RowsHeld, ChecksHold

\* No more is available than is on hand and not reserved.
LEMMA SpareBound ==
  ASSUME NEW a \in Nat, NEW r, reserved[r] \in Nat, NEW n \in Nat \ {0},
         Spare(a, r) >= n
  PROVE  a >= n /\ a - n >= reserved[r]
<1>1. CASE a > reserved[r]
  BY <1>1 DEF Spare
<1>2. CASE ~(a > reserved[r])
  BY <1>2 DEF Spare
<1>3. QED
  BY <1>1, <1>2

LEMMA DrawRowIInv ==
  ASSUME IInv, NEW w \in Workers, DrawRow(w)
  PROVE  IInv'
<1> DEFINE s == Statement(w)
           x == Seen(w, s.row) - s.n
<1>1. AtStatement(w, "draw") /\ Free(w, s.row) /\ Grasp(w, s.row, x)
  BY DEF DrawRow
<1>2. /\ InFlight(w) /\ Valid(req[w])
      /\ pc[w] \in 1..Len(Plan(req[w])) /\ Len(Plan(req[w])) \in Nat
      /\ s = Plan(req[w])[pc[w]] /\ s.act = "draw"
      /\ s.row \in Row /\ s.n \in Nat \ {0}
      /\ Seen(w, s.row) = quantity[s.row] + Effect(req[w], pc[w], s.row)
      /\ quantity[s.row] \in 0..MaxInt
  BY <1>1, AtFacts
<1>3. /\ Effect(req[w], pc[w], s.row) = 0
      /\ Effect(req[w], pc[w] + 1, s.row) = -s.n
  BY <1>2, EffectStep
<1>4. Spare(quantity[s.row], s.row) >= s.n
  BY <1>2, DrawIsCovered
<1>5. reserved[s.row] \in Nat
  BY <1>2 DEF IInv, TypeOK
<1>6. quantity[s.row] >= s.n
  <2>1. quantity[s.row] \in Nat
    BY <1>2, MaxIntAssumption
  <2>2. QED
    BY <1>2, <1>4, <1>5, <2>1, SpareBound
<1>7. /\ x = quantity[s.row] + Effect(req[w], pc[w] + 1, s.row)
      /\ x \in 0..MaxInt
  <2>1. \A a, b, c, d \in Int :
          /\ d = a + 0 => d - c = a + (-c)
          /\ a \in 0..b /\ c >= 0 /\ a >= c => a - c \in 0..b
    OBVIOUS
  <2>2. quantity[s.row] \in Int /\ s.n \in Int /\ s.n >= 0
    BY <1>2
  <2>3. Seen(w, s.row) = quantity[s.row] + 0 /\ quantity[s.row] + 0 = quantity[s.row]
    BY <1>2, <1>3, <2>2
  <2>4. QED
    BY <1>2, <1>3, <1>6, <2>1, <2>2, <2>3, MaxIntAssumption, SMTT(30)
<1>8. QED
  BY <1>1, <1>7, GraspIInv

LEMMA PutRowIInv ==
  ASSUME IInv, NEW w \in Workers, PutRow(w)
  PROVE  IInv'
<1> DEFINE s == Statement(w)
           x == Seen(w, s.row) + s.n
<1>1. /\ AtStatement(w, "put") /\ Free(w, s.row) /\ x <= MaxInt
      /\ Grasp(w, s.row, x)
  BY DEF PutRow
<1>2. /\ Valid(req[w]) /\ pc[w] \in 1..Len(Plan(req[w]))
      /\ s = Plan(req[w])[pc[w]] /\ s.act = "put"
      /\ s.n \in Nat \ {0}
      /\ Seen(w, s.row) = quantity[s.row] + Effect(req[w], pc[w], s.row)
      /\ quantity[s.row] \in 0..MaxInt
  BY <1>1, AtFacts
<1>3. /\ Effect(req[w], pc[w], s.row) = 0
      /\ Effect(req[w], pc[w] + 1, s.row) = s.n
  BY <1>2, EffectStep
<1>4. /\ x = quantity[s.row] + Effect(req[w], pc[w] + 1, s.row)
      /\ x \in 0..MaxInt
  BY <1>1, <1>2, <1>3, MaxIntAssumption, SMTT(30)
<1>5. QED
  BY <1>1, <1>4, GraspIInv

\* Updating a function twice leaves it a function.
LEMMA TwoUpdates ==
  ASSUME NEW D, NEW f \in [D -> Int], NEW a, NEW b, NEW x \in Int, NEW y \in Int
  PROVE  [f EXCEPT ![a] = x, ![b] = y] \in [D -> Int]
OBVIOUS

\* A commit changes only rows that no other transaction holds.
LEMMA CommitIInv ==
  ASSUME IInv, NEW w \in Workers, Commit(w)
  PROVE  IInv'
<1>1. /\ rows' = rows \cup held[w]
      /\ quantity' = [r \in Row |-> Seen(w, r)]
      /\ moved' = Recorded(req[w])
      /\ UNCHANGED <<reserved, bom>>
      /\ req' = [req EXCEPT ![w] = NoRequest] /\ pc' = [pc EXCEPT ![w] = 0]
      /\ held' = [held EXCEPT ![w] = {}]
      /\ draft' = [draft EXCEPT ![w] = [r \in Row |-> 0]]
      /\ InFlight(w)
  BY DEF Commit, Finish, IInv
<1>2. TypeOK /\ LocksExclusive /\ DraftsFresh /\ NeverNegative
  BY DEF IInv
<1>3. /\ pc'[w] = 0 /\ req'[w] = NoRequest /\ held'[w] = {} /\ ~Active(w)'
      /\ \A v \in Workers \ {w} :
           /\ pc'[v] = pc[v] /\ req'[v] = req[v]
           /\ held'[v] = held[v] /\ draft'[v] = draft[v]
           /\ Active(v)' <=> Active(v)
  BY <1>1, <1>2 DEF TypeOK, Active
<1>4. \A r \in Row : quantity'[r] \in 0..MaxInt
  BY <1>1, <1>2 DEF NeverNegative, Seen, TypeOK
<1>5. \A v \in Workers \ {w} : \A r \in held[v] :
        r \in Row /\ quantity'[r] = quantity[r]
  BY <1>1, <1>2 DEF LocksExclusive, Seen, TypeOK
<1>6. moved' \in [Row -> Int]
  <2> DEFINE q == req[w]
  <2>1. q \in Request
    BY <1>1 DEF InFlight, Valid
  <2>2. q.n \in Int /\ Home(q) \in Row /\ <<q.product, q.to>> \in Row
    <3>1. /\ q.n \in Amounts /\ q.product \in Products
          /\ q.at \in Warehouses /\ q.to \in Warehouses
      BY <2>1 DEF Request
    <3>2. \A a \in Amounts : a \in Int
      BY AmountsAssumption
    <3>3. QED
      BY <3>1, <3>2 DEF Home, Row
  <2>3. moved \in [Row -> Int]
    BY <1>2 DEF TypeOK
  <2>4. /\ moved[Home(q)] - q.n \in Int
        /\ moved[<<q.product, q.to>>] + q.n \in Int
    BY <2>2, <2>3
  <2>5. Recorded(q) \in [Row -> Int]
    BY <2>3, <2>4, TwoUpdates DEF Recorded
  <2>6. QED
    BY <1>1, <2>5
<1>7. TypeOK'
  <2>1. quantity' \in [Row -> Int] /\ rows' \in SUBSET Row
    BY <1>1, <1>2, <1>4 DEF TypeOK
  <2>2. QED
    BY <1>1, <1>2, <1>3, <1>6, <2>1 DEF TypeOK
<1>8. LocksExclusive'
  BY <1>2, <1>3 DEF LocksExclusive
<1>9. NeverNegative'
  <2>1. \A r \in Row \ rows' : quantity'[r] = 0
    BY <1>1, <1>2 DEF NeverNegative, Seen
  <2>2. QED
    BY <1>2, <1>3, <1>4, <2>1 DEF NeverNegative
<1>10. DraftsFresh'
  BY <1>2, <1>3, <1>5 DEF DraftsFresh
<1>11. ASSUME NEW v \in Workers, Active(v)'
       PROVE  InFlight(v)'
  <2>1. v # w /\ InFlight(v)
    BY <1>3, <1>11 DEF IInv
  <2>2. /\ pc'[v] = pc[v] /\ req'[v] = req[v] /\ held'[v] = held[v]
        /\ \A r \in held[v] : quantity'[r] = quantity[r]
        /\ \A a, b : Spare(a, b)' = Spare(a, b)
    BY <1>1, <1>3, <1>5, <2>1 DEF Spare
  <2>3. RowsHeld(v)' /\ HeldRowsUsed(v)'
    BY <2>1, <2>2 DEF InFlight, RowsHeld, HeldRowsUsed
  <2>4. ChecksHold(v)'
    <3> SUFFICES ASSUME NEW i \in 1..(pc[v] - 1), Plan(req[v])[i].act = "check"
                 PROVE  LET s == Plan(req[v])[i] IN
                        s.row \in rows' /\ Spare(quantity'[s.row], s.row) >= s.n
      BY <2>2 DEF ChecksHold
    <3>1. Plan(req[v])[i].row \in held[v]
      BY <2>1 DEF InFlight, RowsHeld
    <3>2. QED
      BY <1>1, <2>1, <2>2, <3>1 DEF InFlight, ChecksHold
  <2>5. QED
    BY <2>1, <2>2, <2>3, <2>4 DEF InFlight
<1>12. QED
  BY <1>7, <1>8, <1>9, <1>10, <1>11 DEF IInv

\* Editing a bill does not concern the transactions that have read it.
LEMMA EditBillIInv ==
  ASSUME IInv, NEW b \in Bundles, NEW bill \in Bills[b], EditBill(b, bill)
  PROVE  IInv'
<1>1. /\ UNCHANGED <<rows, quantity, reserved, moved, req, pc, held, draft>>
      /\ bom' = [bom EXCEPT ![b] = bill]
  BY DEF EditBill, stockVars, txnVars
<1>2. bill \in Seq(Line)
  BY BillsAssumption
<1>3. TypeOK'
  BY <1>1, <1>2 DEF IInv, TypeOK, Active
<1>4. (LocksExclusive /\ DraftsFresh /\ NeverNegative)'
  BY <1>1 DEF IInv, LocksExclusive, DraftsFresh, NeverNegative
<1>5. \A v \in Workers : Active(v)' => InFlight(v)'
  BY <1>1 DEF IInv, Active, InFlight, RowsHeld, HeldRowsUsed, ChecksHold, Spare
<1>6. QED
  BY <1>3, <1>4, <1>5 DEF IInv

\* Every service call starts a transaction with a valid request.
LEMMA CallIInv ==
  ASSUME IInv, NEW w \in Workers, Call(w)
  PROVE  IInv'
<1>1. <<>> \in Seq(Line)
  OBVIOUS
<1>2. PICK n \in Amounts, wh \in Warehouses :
        \/ \E p \in Products :
             \/ AddStock(w, p, wh, n)
             \/ RemoveStock(w, p, wh, n)
             \/ \E to \in Warehouses : TransferStock(w, p, wh, to, n)
        \/ \E b \in Bundles :
             \/ AssembleBundle(w, b, wh, n)
             \/ DisassembleBundle(w, b, wh, n)
  BY DEF Call
<1>3. ASSUME NEW p \in Products, p \in Physical,
             NEW op \in {"add", "remove", "transfer"}, NEW to \in Warehouses,
             op = "transfer" => wh # to
      PROVE  Valid([op |-> op, product |-> p, at |-> wh, to |-> to,
                    n |-> n, bill |-> <<>>])
  BY <1>1, <1>3 DEF Valid, Request
<1>4. ASSUME NEW b \in Bundles, b \in Physical, bom[b] # <<>>, NEW op \in {"assemble", "disassemble"}
      PROVE  Valid([op |-> op, product |-> b, at |-> wh, to |-> wh,
                    n |-> n, bill |-> bom[b]])
  <2>1. b \in Products /\ bom[b] \in Bills[b] /\ bom[b] \in Seq(Line)
    BY CatalogueAssumption DEF IInv, TypeOK
  <2>2. QED
    BY <1>4, <2>1 DEF Valid, Request
<1>5. ASSUME NEW p \in Products, AddStock(w, p, wh, n)
      PROVE  IInv'
  BY <1>3, <1>5, BeginIInv DEF AddStock
<1>6. ASSUME NEW p \in Products, RemoveStock(w, p, wh, n)
      PROVE  IInv'
  BY <1>3, <1>6, BeginIInv DEF RemoveStock
<1>7. ASSUME NEW p \in Products, NEW to \in Warehouses, TransferStock(w, p, wh, to, n)
      PROVE  IInv'
  BY <1>3, <1>7, BeginIInv DEF TransferStock
<1>8. ASSUME NEW b \in Bundles, AssembleBundle(w, b, wh, n)
      PROVE  IInv'
  BY <1>4, <1>8, BeginIInv DEF AssembleBundle
<1>9. ASSUME NEW b \in Bundles, DisassembleBundle(w, b, wh, n)
      PROVE  IInv'
  BY <1>4, <1>9, BeginIInv DEF DisassembleBundle
<1>10. QED
  BY <1>2, <1>5, <1>6, <1>7, <1>8, <1>9

LEMMA StutterIInv ==
  ASSUME IInv, UNCHANGED vars
  PROVE  IInv'
<1>1. UNCHANGED <<rows, quantity, reserved, moved, bom, req, pc, held, draft>>
  BY DEF vars
<1>2. TypeOK'
  BY <1>1 DEF IInv, TypeOK, Active
<1>3. (LocksExclusive /\ DraftsFresh /\ NeverNegative)'
  BY <1>1 DEF IInv, LocksExclusive, DraftsFresh, NeverNegative
<1>4. \A v \in Workers : Active(v)' => InFlight(v)'
  BY <1>1 DEF IInv, Active, InFlight, RowsHeld, HeldRowsUsed, ChecksHold, Spare
<1>5. QED
  BY <1>2, <1>3, <1>4 DEF IInv

LEMMA NextIInv == IInv /\ [Next]_vars => IInv'
<1> SUFFICES ASSUME IInv, [Next]_vars PROVE IInv'
  OBVIOUS
<1>1. ASSUME NEW w \in Workers, Call(w) PROVE IInv'
  BY <1>1, CallIInv
<1>2. ASSUME NEW w \in Workers, Proceed(w) PROVE IInv'
  <2>1. CASE CheckRow(w)
    BY <2>1, CheckRowIInv
  <2>2. CASE DrawRow(w)
    BY <2>2, DrawRowIInv
  <2>3. CASE PutRow(w)
    BY <2>3, PutRowIInv
  <2>4. CASE Commit(w)
    BY <2>4, CommitIInv
  <2>5. CASE Refuse(w)
    BY <2>5, RollbackIInv DEF Refuse
  <2>6. CASE Overflow(w)
    BY <2>6, RollbackIInv DEF Overflow
  <2>7. QED
    BY <1>2, <2>1, <2>2, <2>3, <2>4, <2>5, <2>6 DEF Proceed
<1>3. ASSUME NEW w \in Workers, DeadlockAbort(w) PROVE IInv'
  BY <1>3, RollbackIInv DEF DeadlockAbort
<1>4. ASSUME NEW w \in Workers, Kill(w) PROVE IInv'
  BY <1>4, RollbackIInv DEF Kill
<1>5. ASSUME NEW b \in Bundles, NEW bill \in Bills[b], EditBill(b, bill) PROVE IInv'
  BY <1>5, EditBillIInv
<1>6. CASE UNCHANGED vars
  BY <1>6, StutterIInv
<1>7. QED
  BY <1>1, <1>2, <1>3, <1>4, <1>5, <1>6 DEF Next

-----------------------------------------------------------------------------
(* The theorems.                                                           *)

\* The inductive invariant holds throughout.
THEOREM Invariance == Spec => []IInv
<1>1. QED
  BY InitIInv, NextIInv, PTL DEF Spec

\* Every variable keeps its type in any number of concurrent service calls.
THEOREM TypeCorrect == Spec => []TypeOK
<1>1. IInv => TypeOK
  BY DEF IInv
<1>2. QED
  BY <1>1, Invariance, PTL

\* A row is locked or inserted by at most one transaction at a time.
THEOREM LocksAreExclusive == Spec => []LocksExclusive
<1>1. IInv => LocksExclusive
  BY DEF IInv
<1>2. QED
  BY <1>1, Invariance, PTL

\* What a transaction sees of a row it holds is the committed quantity plus
\* its own write: no service works from a stale read.
THEOREM DraftsAreFresh == Spec => []DraftsFresh
<1>1. IInv => DraftsFresh
  BY DEF IInv
<1>2. QED
  BY <1>1, Invariance, PTL

\* No quantity is ever negative or beyond its column, committed or about to be:
\* the services do not need the CHECK constraint.
THEOREM StockNeverNegative == Spec => []NeverNegative
<1>1. IInv => NeverNegative
  BY DEF IInv
<1>2. QED
  BY <1>1, Invariance, PTL

\* A smaller quantity is committed only for a row that the transaction drew,
\* and the draw was checked against the reservations while the row was held.
LEMMA CommitCovered ==
  ASSUME IInv, NEW w \in Workers, Commit(w), NEW r \in Row, quantity'[r] < quantity[r]
  PROVE  quantity'[r] >= reserved'[r]
<1> DEFINE q == req[w]
           e == Effect(q, pc[w], r)
<1>1. /\ InFlight(w) /\ pc[w] = Len(Plan(q)) + 1 /\ reserved' = reserved
      /\ quantity'[r] = Seen(w, r)
  BY DEF Commit, IInv
<1>2. /\ quantity[r] \in Nat /\ reserved[r] \in Nat
      /\ Valid(q) /\ Len(Plan(q)) \in Nat
  <2>1. Valid(q)
    BY <1>1 DEF InFlight
  <2>2. quantity[r] \in 0..MaxInt /\ reserved[r] \in Nat
    BY DEF IInv, NeverNegative, TypeOK
  <2>3. QED
    BY <2>1, <2>2, PlanType, MaxIntAssumption
<1>3. r \in held[w]
  BY <1>1, <1>2 DEF Seen
<1>4. quantity'[r] = quantity[r] + e
  BY <1>1, <1>3 DEF IInv, DraftsFresh, Seen
<1>5. PICK j \in 1..(pc[w] - 1) : Plan(q)[j].row = r /\ Plan(q)[j].act # "check"
  <2>1. e # 0
    BY <1>2, <1>4
  <2>2. QED
    BY <2>1, EffectNone
<1>6. /\ j \in 1..Len(Plan(q)) /\ pc[w] \in 1..(Len(Plan(q)) + 1) /\ j <= pc[w]
      /\ Plan(q)[j].act \in {"draw", "put"} /\ Plan(q)[j].n \in Nat \ {0}
  BY <1>1, <1>2, <1>5, PlanType DEF Statements
<1>7. e = IF Plan(q)[j].act = "put" THEN Plan(q)[j].n ELSE -Plan(q)[j].n
  BY <1>2, <1>5, <1>6, EffectIs
<1>8. Plan(q)[j].act = "draw" /\ e = -Plan(q)[j].n
  BY <1>2, <1>4, <1>6, <1>7
<1>9. Spare(quantity[r], r) >= Plan(q)[j].n
  BY <1>1, <1>5, <1>6, <1>8, DrawIsCovered
<1>10. quantity[r] - Plan(q)[j].n >= reserved[r]
  BY <1>2, <1>6, <1>9, SpareBound
<1>11. QED
  BY <1>1, <1>2, <1>4, <1>6, <1>8, <1>10

\* Only a commit changes the tables.
LEMMA OnlyCommitWrites ==
  ASSUME [Next]_vars, ~UNCHANGED stockVars
  PROVE  \E w \in Workers : Commit(w)
<1>1. ASSUME NEW w \in Workers, Call(w) PROVE UNCHANGED stockVars
  BY <1>1 DEF Call, AddStock, RemoveStock, TransferStock, AssembleBundle,
              DisassembleBundle, Begin
<1>2. ASSUME NEW w \in Workers, Proceed(w), ~Commit(w) PROVE UNCHANGED stockVars
  BY <1>2 DEF Proceed, CheckRow, DrawRow, PutRow, Refuse, Overflow, Rollback, Grasp
<1>3. ASSUME NEW w \in Workers, DeadlockAbort(w) \/ Kill(w) PROVE UNCHANGED stockVars
  BY <1>3 DEF DeadlockAbort, Kill, Rollback
<1>4. ASSUME NEW b \in Bundles, NEW bill \in Bills[b], EditBill(b, bill)
      PROVE  UNCHANGED stockVars
  BY <1>4 DEF EditBill
<1>5. UNCHANGED vars => UNCHANGED stockVars
  BY DEF vars, stockVars
<1>6. QED
  BY <1>1, <1>2, <1>3, <1>4, <1>5 DEF Next

\* Stock that leaves a row leaves its reservation covered.
Covered == \A r \in Row : quantity'[r] < quantity[r] => quantity'[r] >= reserved'[r]

LEMMA StepCovered ==
  ASSUME IInv, [Next]_vars
  PROVE  Covered
<1>1. CASE UNCHANGED stockVars
  <2>1. \A r \in Row : quantity'[r] = quantity[r] /\ quantity[r] \in Int
    BY <1>1 DEF stockVars, IInv, TypeOK
  <2>2. \A a \in Int : ~(a < a)
    OBVIOUS
  <2>3. QED
    BY <2>1, <2>2 DEF Covered
<1>2. CASE ~UNCHANGED stockVars
  BY <1>2, OnlyCommitWrites, CommitCovered DEF Covered
<1>3. QED
  BY <1>1, <1>2

\* It does so in every step of any number of concurrent service calls.
THEOREM ReservationsStayCovered == Spec => ReservationsCovered
<1>1. IInv /\ [Next]_vars => [Covered]_vars
  BY StepCovered
<1>2. QED
  BY <1>1, Invariance, PTL DEF Spec, ReservationsCovered, Covered

-----------------------------------------------------------------------------
(* Assemblies.  Each waits for a component older than all it holds, unless *)
(* it waits to put its bundle, so a ring of them has no oldest component.  *)

\* The least member of a family of subsets of a finite set.
LEMMA SmallestMember ==
  ASSUME NEW A, IsFiniteSet(A), NEW F \in SUBSET SUBSET A, F # {}
  PROVE  \E T \in F : \A U \in F : U \subseteq T => U = T
<1>1. IsWellFoundedOn(StrictSubsetOrdering(A), SUBSET A)
  BY FS_StrictSubsetOrderingWellFounded, FS_FiniteSubsetsOfFinite
<1>2. \E T \in F : \A U \in F : ~(<<U, T>> \in StrictSubsetOrdering(A))
  BY <1>1, WFMin
<1>3. QED
  BY <1>2 DEF StrictSubsetOrdering

\* A finite set has a member that no other is above.
LEMMA Topmost ==
  ASSUME NEW A, IsFiniteSet(A), A # {}, NEW f \in [A -> Int]
  PROVE  \E u \in A : \A v \in A : ~(f[u] < f[v])
<1> SUFFICES ASSUME \A u \in A : \E v \in A : f[u] < f[v] PROVE FALSE
  OBVIOUS
<1> DEFINE F == {T \in SUBSET A : T # {} /\ \A u \in T : \E v \in T : f[u] < f[v]}
<1>1. A \in F /\ F \in SUBSET SUBSET A
  OBVIOUS
<1>2. \E T \in F : \A U \in F : U \subseteq T => U = T
  <2> HIDE DEF F
  <2>1. F # {}
    BY <1>1
  <2>2. QED
    BY <1>1, <2>1, SmallestMember
<1>3. PICK T \in F : \A U \in F : U \subseteq T => U = T
  BY <1>2
<1>4. T \in SUBSET A /\ T # {} /\ \A u \in T : \E v \in T : f[u] < f[v]
  BY <1>3
<1>5. PICK x \in T : TRUE
  BY <1>4
<1> DEFINE U == {v \in T : f[x] < f[v]}
<1>6. U \in SUBSET A /\ U \subseteq T /\ U # {}
  BY <1>4, <1>5
<1>7. ASSUME NEW u \in U PROVE \E v \in U : f[u] < f[v]
  <2>1. PICK v \in T : f[u] < f[v]
    BY <1>4, <1>7
  <2>2. f[x] \in Int /\ f[u] \in Int /\ f[v] \in Int /\ f[x] < f[u]
    BY <1>4, <1>5, <1>7, <2>1
  <2>3. f[x] < f[v]
    BY <2>1, <2>2
  <2>4. QED
    BY <2>1, <2>3
<1>8. U \in F
  <2> HIDE DEF U
  <2>1. QED
    BY <1>6, <1>7
<1>9. U = T
  <2> HIDE DEF F, U
  <2>1. QED
    BY <1>3, <1>6, <1>8
<1>10. f[x] < f[x] /\ f[x] \in Int
  BY <1>4, <1>5, <1>9
<1>11. QED
  BY <1>10

\* Bills list their components by age, newest first; a component may be a bundle.
Ordered(Age) ==
  /\ Age \in [Products -> Int]
  /\ \A b \in Bundles : \A bill \in Bills[b] : \A i, j \in 1..Len(bill) :
       i < j => Age[bill[i].component] < Age[bill[j].component]

Assembling(w) == Active(w) /\ req[w].op = "assemble"
Checking(w) == pc[w] <= Len(req[w].bill)

\* The statements of an assembly, and what it holds.
LEMMA AssemblyFacts ==
  ASSUME IInv, NEW w \in Workers, Assembling(w)
  PROVE  LET q == req[w]
             k == Len(q.bill)
         IN  /\ Valid(q) /\ k \in Nat
             /\ pc[w] \in 1..(2 * k + 2)
             /\ Len(Plan(q)) = 2 * k + 1
             /\ \A i \in 1..k : Plan(q)[i].row = Part(q, i)
             /\ \A i \in (k + 1)..(2 * k) : Plan(q)[i].row = Part(q, i - k)
             /\ Plan(q)[2 * k + 1].row = Home(q)
             /\ \A i \in 1..(pc[w] - 1) : Plan(q)[i].row \in held[w]
             /\ \A r \in held[w] : \E i \in 1..(pc[w] - 1) : Plan(q)[i].row = r
<1> DEFINE q == req[w]
           k == Len(q.bill)
<1>1. InFlight(w) /\ Valid(q)
  BY DEF IInv, Assembling, InFlight
<1>2. Plan(q) = AssemblePlan(q) /\ k \in Nat /\ Len(Plan(q)) = 2 * k + 1
  BY <1>1, BillFacts DEF Assembling, Plan, AssemblePlan
<1>3. pc[w] \in 1..(2 * k + 2)
  BY <1>1, <1>2 DEF InFlight
<1>4. \A i \in 1..k : Plan(q)[i].row = Part(q, i)
  BY <1>2 DEF AssemblePlan, Check
<1>5. ASSUME NEW i \in (k + 1)..(2 * k) PROVE Plan(q)[i].row = Part(q, i - k)
  <2>1. i \in 1..(2 * k + 1) /\ ~(i <= k) /\ i <= 2 * k
    BY <1>2
  <2>2. AssemblePlan(q)[i] = Draw(Part(q, i - k), Needed(q, i - k))
    BY <1>2, <2>1 DEF AssemblePlan
  <2>3. QED
    BY <1>2, <2>2 DEF Draw
<1>6. Plan(q)[2 * k + 1].row = Home(q)
  <2>1. 2 * k + 1 \in 1..(2 * k + 1) /\ ~(2 * k + 1 <= k) /\ ~(2 * k + 1 <= 2 * k)
    BY <1>2
  <2>2. AssemblePlan(q)[2 * k + 1] = Put(Home(q), q.n)
    BY <1>2, <2>1 DEF AssemblePlan
  <2>3. QED
    BY <1>2, <2>2 DEF Put
<1>7. QED
  BY <1>1, <1>2, <1>3, <1>4, <1>5, <1>6 DEF InFlight, RowsHeld, HeldRowsUsed

\* A row that an assembly holds is one of its components, or its own if it has
\* nothing left to do.
LEMMA AssemblyHolds ==
  ASSUME IInv, NEW w \in Workers, Assembling(w), NEW r \in held[w]
  PROVE  LET q == req[w]
             k == Len(q.bill)
         IN  \/ \E i \in 1..k : r = Part(q, i) /\ i < pc[w]
             \/ r = Home(q) /\ pc[w] = 2 * k + 2
<1> DEFINE q == req[w]
           k == Len(q.bill)
<1>1. PICK i \in 1..(pc[w] - 1) : Plan(q)[i].row = r
  BY AssemblyFacts
<1>2. k \in Nat /\ pc[w] \in 1..(2 * k + 2)
  BY AssemblyFacts
<1>3. i \in 1..(2 * k + 1) /\ i < pc[w]
  BY <1>2
<1>4. CASE i <= k
  <2>1. i \in 1..k
    BY <1>3, <1>4
  <2>2. r = Part(q, i)
    BY <1>1, <2>1, AssemblyFacts
  <2>3. QED
    BY <1>3, <2>1, <2>2
<1>5. CASE k < i /\ i <= 2 * k
  <2>1. i \in (k + 1)..(2 * k) /\ i - k \in 1..k /\ i - k < pc[w]
    <3>1. i \in Int /\ pc[w] \in Int /\ k \in Nat
      BY <1>2, <1>3
    <3> HIDE DEF k
    <3>2. QED
      BY <1>3, <1>5, <3>1
  <2>2. r = Part(q, i - k)
    BY <1>1, <2>1, AssemblyFacts
  <2>3. QED
    BY <2>1, <2>2
<1>6. CASE i = 2 * k + 1
  <2>1. r = Home(q)
    BY <1>1, <1>6, AssemblyFacts
  <2>2. pc[w] = 2 * k + 2
    BY <1>2, <1>3, <1>6
  <2>3. QED
    BY <2>1, <2>2
<1>7. i <= k \/ (k < i /\ i <= 2 * k) \/ i = 2 * k + 1
  <2> HIDE DEF k
  <2>1. QED
    BY ONLY <1>2, <1>3
<1>8. QED
  BY ONLY <1>4, <1>5, <1>6, <1>7

\* Between assemblies, one that waits for one that waits, and that does not consume
\* what the first one makes, is at its checks.
LEMMA WaitsAtCheck ==
  ASSUME IInv, NEW u \in Workers, NEW v \in Workers, NEW t \in Workers,
         Assembling(u), Assembling(v), WaitsFor(u, v), WaitsFor(v, t),
         ~Consumes(req[v], req[u].product)
  PROVE  Checking(u)
<1> DEFINE q == req[u]
           k == Len(q.bill)
           i == pc[u]
           r == Statement(u).row
<1>1. u # v /\ r \in held[v] /\ r = Plan(q)[i].row /\ i <= Len(Plan(q))
  BY DEF WaitsFor, Statement
<1>2. k \in Nat /\ i \in 1..(2 * k + 1) /\ Valid(q)
  BY <1>1, AssemblyFacts
<1>3. r \notin held[u]
  BY <1>1 DEF IInv, LocksExclusive
<1>4. ~(k < i /\ i <= 2 * k)
  <2> SUFFICES ASSUME k < i, i <= 2 * k PROVE FALSE
    OBVIOUS
  <2>1. i \in (k + 1)..(2 * k) /\ i - k \in 1..k /\ i - k \in 1..(i - 1)
    <3>1. k \in Nat /\ i \in Int /\ k < i /\ i <= 2 * k
      BY <1>2
    <3> HIDE DEF k, i
    <3>2. QED
      BY ONLY <3>1
  <2>2. r = Part(q, i - k) /\ Plan(q)[i - k].row = Part(q, i - k)
    BY <1>1, <2>1, AssemblyFacts
  <2>3. r \in held[u]
    BY <2>1, <2>2, AssemblyFacts
  <2>4. QED
    BY <1>3, <2>3
<1>5. i # 2 * k + 1
  <2> SUFFICES ASSUME i = 2 * k + 1 PROVE FALSE
    OBVIOUS
  <2>1. r = Home(q)
    BY <1>1, AssemblyFacts
  <2>2. r[1] = q.product
    BY <2>1 DEF Home
  <2>3. pc[v] <= Len(Plan(req[v]))
    BY DEF WaitsFor
  <2>4. Len(req[v].bill) \in Nat /\ pc[v] # 2 * Len(req[v].bill) + 2 /\ Valid(req[v])
    BY <2>3, AssemblyFacts
  <2>5. PICK j \in 1..Len(req[v].bill) : r = Part(req[v], j)
    BY <1>1, <2>4, AssemblyHolds
  <2>6. r[1] = req[v].bill[j].component
    BY <2>5 DEF Part
  <2>7. QED
    BY <2>2, <2>5, <2>6 DEF Consumes
<1>6. QED
  BY <1>2, <1>4, <1>5 DEF Checking

\* The component that an assembly waits for.
Awaited(w) == req[w].bill[pc[w]].component

\* Of two assemblies at their checks, the one waited for awaits the later component.
LEMMA AwaitedAscends ==
  ASSUME IInv, NEW Age, Ordered(Age), NEW u \in Workers, NEW v \in Workers,
         Assembling(u), Assembling(v), WaitsFor(u, v), Checking(u), Checking(v)
  PROVE  Age[Awaited(u)] < Age[Awaited(v)]
<1> DEFINE q == req[u]
           k == Len(q.bill)
           r == Statement(u).row
           p == req[v]
           l == Len(p.bill)
<1>1. r \in held[v] /\ r = Plan(q)[pc[u]].row
  BY DEF WaitsFor, Statement
<1>2. k \in Nat /\ pc[u] \in 1..k /\ l \in Nat /\ pc[v] \in 1..l /\ Valid(p)
  BY AssemblyFacts DEF Checking
<1>3. r = Part(q, pc[u])
  BY <1>1, <1>2, AssemblyFacts
<1>4. pc[v] # 2 * l + 2
  BY <1>2
<1>5. PICK j \in 1..l : r = Part(p, j) /\ j < pc[v]
  BY <1>1, <1>4, AssemblyHolds
<1>6. Awaited(u) = p.bill[j].component
  BY <1>3, <1>5 DEF Awaited, Part
<1>7. p.product \in Bundles /\ p.bill \in Bills[p.product]
  BY <1>2 DEF Valid, Assembling
<1>8. Age[p.bill[j].component] < Age[p.bill[pc[v]].component]
  BY <1>2, <1>5, <1>7 DEF Ordered
<1>9. QED
  BY <1>6, <1>8 DEF Awaited

\* Bills list components newest first, ties aside: any rank that agrees with the
\* bills will do. Bills may nest and share components; a ring of assemblies still
\* needs one that makes what another of the ring consumes.
THEOREM AssembliesDoNotDeadlock ==
  ASSUME IsFiniteSet(Workers), NEW CONSTANT Age, Ordered(Age)
  PROVE  Spec => []AssembliesNeverDeadlock
<1>1. IInv => AssembliesNeverDeadlock
  <2> SUFFICES ASSUME IInv,
                      NEW ring \in SUBSET {w \in Workers : Active(w) /\ req[w].op = "assemble"},
                      ring # {}, \A u \in ring : \E v \in ring : WaitsFor(u, v),
                      \A u, v \in ring : ~Consumes(req[u], req[v].product)
               PROVE  FALSE
    BY DEF AssembliesNeverDeadlock
  <2>1. ring \subseteq Workers /\ \A w \in ring : Assembling(w)
    BY DEF Assembling
  <2>2. IsFiniteSet(ring)
    BY <2>1, FS_Subset
  <2>3. \A u \in ring : Checking(u)
    BY <2>1, WaitsAtCheck
  <2> DEFINE f == [u \in ring |-> Age[Awaited(u)]]
  <2>4. f \in [ring -> Int]
    <3>1. ASSUME NEW u \in ring PROVE Age[Awaited(u)] \in Int
      <4>1. Valid(req[u]) /\ pc[u] \in 1..Len(req[u].bill)
        BY <2>1, <2>3, AssemblyFacts DEF Checking
      <4>2. req[u].bill[pc[u]] \in Line
        BY <2>1, <4>1, BillFacts DEF Assembling
      <4>3. Awaited(u) \in Products
        BY <4>2 DEF Awaited, Line
      <4>4. QED
        BY <4>3 DEF Ordered
    <3>2. QED
      BY <3>1
  <2>5. \A u \in ring : \E v \in ring : f[u] < f[v]
    <3>1. ASSUME NEW u \in ring PROVE \E v \in ring : f[u] < f[v]
      <4>1. PICK v \in ring : WaitsFor(u, v)
        OBVIOUS
      <4>2. Age[Awaited(u)] < Age[Awaited(v)]
        BY <2>1, <2>3, <4>1, AwaitedAscends
      <4>3. QED
        BY <4>2
    <3>2. QED
      BY <3>1
  <2> HIDE DEF f
  <2>6. \E u \in ring : \A v \in ring : ~(f[u] < f[v])
    BY ONLY <2>2, <2>4, ring # {}, Topmost
  <2>7. QED
    BY <2>5, <2>6
<1>2. QED
  BY <1>1, Invariance, PTL
=============================================================================
