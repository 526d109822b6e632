--------------------------- MODULE StockRefinement --------------------------
(***************************************************************************)
(* Inventory implements Stock, for every value of the constants: a commit  *)
(* is the atomic service call, and every other step leaves the tables. The *)
(* same holds beside any transactions that respect row locks, and beside   *)
(* receipts in particular: Warehouse implements Shipments.                 *)
(***************************************************************************)
EXTENDS InventoryProofs, Warehouse

\* What the draws and the puts of request q do to each row, all at once.
Takes(q, take) ==
  /\ take \in [Row -> Nat]
  /\ \A i \in 1..Len(Plan(q)) :
       Plan(q)[i].act = "draw" => take[Plan(q)[i].row] = Plan(q)[i].n
  /\ \A r \in Row : take[r] > 0 =>
       \E i \in 1..Len(Plan(q)) : Plan(q)[i].act = "draw" /\ Plan(q)[i].row = r

Gives(q, give) ==
  /\ give \in [Row -> Nat]
  /\ \A i \in 1..Len(Plan(q)) :
       Plan(q)[i].act = "put" => give[Plan(q)[i].row] = Plan(q)[i].n
  /\ \A r \in Row : give[r] > 0 =>
       \E i \in 1..Len(Plan(q)) : Plan(q)[i].act = "put" /\ Plan(q)[i].row = r

\* The effect of a whole plan on a row is what it gives less what it takes.
LEMMA WholeEffect ==
  ASSUME NEW q, Valid(q), NEW take, Takes(q, take), NEW give, Gives(q, give),
         NEW r \in Row
  PROVE  /\ Effect(q, Len(Plan(q)) + 1, r) = give[r] - take[r]
         /\ give[r] = 0 \/ take[r] = 0
<1> DEFINE L == Len(Plan(q))
           e == Effect(q, L + 1, r)
<1>1. /\ L \in Nat
      /\ \A i \in 1..L : Plan(q)[i].act \in {"check", "draw", "put"}
      /\ take[r] \in Nat /\ give[r] \in Nat
  BY PlanType DEF Statements, Takes, Gives
<1>2. \A i, j \in 1..L :
        /\ Plan(q)[i].act # "check" /\ Plan(q)[j].act # "check"
        /\ Plan(q)[i].row = Plan(q)[j].row
        => i = j
  BY OneWrite
<1>3. \A i \in 1..L : Plan(q)[i].row = r /\ Plan(q)[i].act # "check" =>
        e = IF Plan(q)[i].act = "put" THEN Plan(q)[i].n ELSE -Plan(q)[i].n
  <2>1. L + 1 \in 1..(L + 1) /\ \A i \in 1..L : i \in 1..(L + 1 - 1)
    BY <1>1
  <2>2. QED
    BY <2>1, EffectIs
<1>4. CASE take[r] > 0
  <2>1. PICK i \in 1..L : Plan(q)[i].act = "draw" /\ Plan(q)[i].row = r
    BY <1>4 DEF Takes
  <2>2. take[r] = Plan(q)[i].n
    BY <2>1 DEF Takes
  <2>3. give[r] = 0
    <3> SUFFICES ASSUME give[r] > 0 PROVE FALSE
      BY <1>1
    <3>1. PICK j \in 1..L : Plan(q)[j].act = "put" /\ Plan(q)[j].row = r
      BY DEF Gives
    <3>2. QED
      BY <1>2, <2>1, <3>1
  <2>4. e = -take[r]
    BY <1>3, <2>1, <2>2
  <2>5. QED
    BY <1>1, <2>3, <2>4
<1>5. CASE give[r] > 0
  <2>1. PICK i \in 1..L : Plan(q)[i].act = "put" /\ Plan(q)[i].row = r
    BY <1>5 DEF Gives
  <2>2. give[r] = Plan(q)[i].n
    BY <2>1 DEF Gives
  <2>3. take[r] = 0
    <3> SUFFICES ASSUME take[r] > 0 PROVE FALSE
      BY <1>1
    <3>1. PICK j \in 1..L : Plan(q)[j].act = "draw" /\ Plan(q)[j].row = r
      BY DEF Takes
    <3>2. QED
      BY <1>2, <2>1, <3>1
  <2>4. e = give[r]
    BY <1>3, <2>1, <2>2
  <2>5. QED
    BY <1>1, <2>3, <2>4
<1>6. CASE take[r] = 0 /\ give[r] = 0
  <2>1. \A i \in 1..L : Plan(q)[i].row = r => Plan(q)[i].act = "check"
    <3> SUFFICES ASSUME NEW i \in 1..L, Plan(q)[i].row = r, Plan(q)[i].act # "check"
                 PROVE  FALSE
      OBVIOUS
    <3>1. Plan(q)[i].n \in Nat \ {0}
      BY PlanType DEF Statements
    <3>2. Plan(q)[i].n = 0
      BY <1>1, <1>6 DEF Takes, Gives
    <3>3. QED
      BY <3>1, <3>2
  <2>2. \A i \in 1..(L + 1 - 1) : i \in 1..L
    BY <1>1
  <2>3. e = 0
    BY <2>1, <2>2, EffectNone
  <2>4. QED
    BY <1>6, <2>3
<1>7. QED
  BY <1>1, <1>4, <1>5, <1>6

\* A commit takes and gives what its plan says, in one step.
LEMMA CommitShifts ==
  ASSUME IInv, NEW w \in Workers, Commit(w),
         NEW take, Takes(req[w], take), NEW give, Gives(req[w], give)
  PROVE  S!Shift(take, give)
<1> DEFINE q == req[w]
           L == Len(Plan(q))
<1>1. /\ InFlight(w) /\ Valid(q) /\ L \in Nat /\ pc[w] = L + 1
      /\ rows' = rows \cup held[w] /\ reserved' = reserved
      /\ quantity' = [r \in Row |-> Seen(w, r)]
  BY PlanType DEF Commit, IInv, InFlight
<1>2. \A i \in 1..L : i \in 1..(pc[w] - 1) /\ i <= pc[w]
  BY <1>1
<1>3. /\ \A i \in 1..L : Plan(q)[i].row \in held[w]
      /\ \A r \in held[w] : \E i \in 1..L : Plan(q)[i].row = r
      /\ held[w] \subseteq Row
  <2>1. pc[w] - 1 = L
    BY <1>1
  <2>2. QED
    BY <1>1, <2>1 DEF InFlight, RowsHeld, HeldRowsUsed, IInv, TypeOK
<1>4. ASSUME NEW r \in Row
      PROVE  /\ quantity[r] \in 0..MaxInt /\ reserved[r] \in Nat
             /\ take[r] \in Nat /\ give[r] \in Nat
  BY DEF IInv, NeverNegative, TypeOK, Takes, Gives
<1>5. ASSUME NEW r \in Row, r \notin held[w]
      PROVE  take[r] = 0 /\ give[r] = 0
  <2>1. \A i \in 1..L : Plan(q)[i].row # r
    BY <1>3, <1>5
  <2>2. ~(take[r] > 0) /\ ~(give[r] > 0)
    BY <2>1 DEF Takes, Gives
  <2>3. QED
    BY <1>4, <2>2
<1>6. ASSUME NEW r \in Row
      PROVE  quantity'[r] = (quantity[r] - take[r]) + give[r]
  <2>1. CASE r \in held[w]
    <3>1. quantity'[r] = quantity[r] + Effect(q, L + 1, r)
      BY <1>1, <2>1 DEF IInv, DraftsFresh, Seen
    <3>2. Effect(q, L + 1, r) = give[r] - take[r]
      BY <1>1, WholeEffect
    <3>3. \A a, b, c \in Int : a + (b - c) = (a - c) + b
      OBVIOUS
    <3>4. quantity[r] \in Int /\ take[r] \in Int /\ give[r] \in Int
      BY <1>4
    <3>5. QED
      BY <3>1, <3>2, <3>3, <3>4
  <2>2. CASE r \notin held[w]
    BY <1>1, <1>4, <1>5, <2>2 DEF Seen
  <2>3. QED
    BY <2>1, <2>2
<1>7. ASSUME NEW r \in Row, take[r] > 0
      PROVE  r \in rows /\ S!Spare(quantity[r], r) >= take[r]
  <2>1. PICK i \in 1..L : Plan(q)[i].act = "draw" /\ Plan(q)[i].row = r
    BY <1>7 DEF Takes
  <2>2. take[r] = Plan(q)[i].n
    BY <2>1 DEF Takes
  <2>3. r \in rows /\ Spare(quantity[r], r) >= take[r]
    BY <1>1, <1>2, <2>1, <2>2, DrawIsCovered
  <2>4. QED
    BY <2>3 DEF Spare, S!Spare
<1>8. ASSUME NEW r \in Row, give[r] > 0
      PROVE  quantity[r] + give[r] <= MaxInt
  <2>1. r \in held[w]
    BY <1>4, <1>5, <1>8
  <2>2. quantity'[r] \in 0..MaxInt
    BY <1>1, <2>1 DEF IInv, NeverNegative, Seen
  <2>3. take[r] = 0
    BY <1>1, <1>4, <1>8, WholeEffect
  <2>4. QED
    BY <1>4, <1>6, <2>2, <2>3, MaxIntAssumption
<1>9. rows' = rows \cup {r \in Row : give[r] > 0}
  <2>1. ASSUME NEW r \in held[w], r \notin rows
        PROVE  give[r] > 0
    <3>1. PICK i \in 1..L : Plan(q)[i].row = r
      BY <1>3
    <3>2. Plan(q)[i].act # "check"
      BY <1>1, <1>2, <2>1, <3>1 DEF InFlight, ChecksHold
    <3>3. Plan(q)[i].act # "draw"
      BY <1>1, <1>2, <2>1, <3>1, DrawIsCovered
    <3>4. Plan(q)[i].act \in {"check", "draw", "put"} /\ Plan(q)[i].n \in Nat \ {0}
      BY <1>1, PlanType DEF Statements
    <3>5. QED
      BY <3>1, <3>2, <3>3, <3>4 DEF Gives
  <2>2. \A r \in Row : give[r] > 0 => r \in held[w]
    BY <1>4, <1>5
  <2>3. QED
    BY <1>1, <1>3, <2>1, <2>2
<1>10. quantity' = [r \in Row |-> (quantity[r] - take[r]) + give[r]]
  BY <1>1, <1>6
<1>11. QED
  BY <1>1, <1>7, <1>8, <1>9, <1>10 DEF S!Shift, S!Row, Row

\* The maps of Stock, for a single row and for a bill.
LEMMA OneRow ==
  ASSUME NEW r \in Row, NEW n \in Nat \ {0}
  PROVE  /\ S!Only(r, n) \in [Row -> Nat] /\ S!Nothing \in [Row -> Nat]
         /\ \A h \in Row : S!Only(r, n)[h] = IF h = r THEN n ELSE 0
         /\ \A h \in Row : S!Nothing[h] = 0
BY DEF S!Only, S!Nothing, S!Row, Row

LEMMA BillRows ==
  ASSUME NEW q, Valid(q), q.op \in {"assemble", "disassemble"}
  PROVE  /\ S!Needs(q.bill, q.at, q.n) \in [Row -> Nat]
         /\ \A i \in 1..Len(q.bill) :
              S!Needs(q.bill, q.at, q.n)[Part(q, i)] = Needed(q, i)
         /\ \A r \in Row : S!Needs(q.bill, q.at, q.n)[r] > 0 =>
              \E i \in 1..Len(q.bill) : Part(q, i) = r
<1> DEFINE I(r) == {i \in DOMAIN q.bill : <<q.bill[i].component, q.at>> = r}
           N(r) == IF I(r) = {} THEN 0 ELSE q.bill[CHOOSE i \in I(r) : TRUE].quantity * q.n
           f == S!Needs(q.bill, q.at, q.n)
<1>1. DOMAIN q.bill = 1..Len(q.bill)
  <2>1. q.bill \in Seq(Line)
    BY DEF Valid, Request
  <2>2. QED
    BY <2>1
<1>2. f = [r \in Row |-> N(r)]
  BY DEF S!Needs, S!Row, Row
<1>3. ASSUME NEW r \in Row, NEW i \in 1..Len(q.bill), Part(q, i) = r
      PROVE  N(r) = Needed(q, i)
  <2>1. i \in I(r)
    BY <1>1, <1>3 DEF Part
  <2>2. (CHOOSE h \in I(r) : TRUE) \in I(r)
    BY <2>1
  <2> DEFINE c == CHOOSE h \in I(r) : TRUE
  <2>3. c \in 1..Len(q.bill) /\ Part(q, c) = Part(q, i)
    BY <1>1, <1>3, <2>2 DEF Part
  <2>4. c = i
    BY <2>3, BillFacts
  <2>5. QED
    BY <2>1, <2>4 DEF Needed
<1>4. ASSUME NEW r \in Row, \A i \in 1..Len(q.bill) : Part(q, i) # r
      PROVE  N(r) = 0
  <2>1. I(r) = {}
    BY <1>1, <1>4 DEF Part
  <2>2. QED
    BY <2>1
<1> HIDE DEF N, I
<1>5. \A i \in 1..Len(q.bill) : Part(q, i) \in Row /\ Needed(q, i) \in Nat
  BY BillFacts
<1>6. \A r \in Row : N(r) \in Nat
  BY <1>3, <1>4, <1>5
<1>7. QED
  BY <1>2, <1>3, <1>4, <1>5, <1>6

-----------------------------------------------------------------------------
(* Each service call maps to its atomic counterpart.                       *)

LEMMA StatementParts ==
  ASSUME NEW r, NEW n
  PROVE  /\ Draw(r, n).act = "draw" /\ Draw(r, n).row = r /\ Draw(r, n).n = n
         /\ Put(r, n).act = "put" /\ Put(r, n).row = r /\ Put(r, n).n = n
BY DEF Draw, Put

LEMMA AddMaps ==
  ASSUME NEW q, Valid(q), q.op = "add"
  PROVE  Takes(q, S!Nothing) /\ Gives(q, S!Only(Home(q), q.n))
<1>1. Home(q) \in Row /\ q.n \in Nat \ {0}
  BY AmountsAssumption DEF Valid, Request, Home, Row
<1>2. Plan(q) = << Put(Home(q), q.n) >>
  BY DEF Plan, AddPlan
<1>3. QED
  BY <1>1, <1>2, OneRow DEF Takes, Gives, Put

LEMMA RemoveMaps ==
  ASSUME NEW q, Valid(q), q.op = "remove"
  PROVE  Takes(q, S!Only(Home(q), q.n)) /\ Gives(q, S!Nothing)
<1>1. Home(q) \in Row /\ q.n \in Nat \ {0}
  BY AmountsAssumption DEF Valid, Request, Home, Row
<1>2. Plan(q) = << Check(Home(q), q.n), Draw(Home(q), q.n) >>
  BY DEF Plan, RemovePlan
<1>3. /\ Len(Plan(q)) = 2 /\ Plan(q)[1].act = "check"
      /\ Plan(q)[2].act = "draw" /\ Plan(q)[2].row = Home(q) /\ Plan(q)[2].n = q.n
  BY <1>2 DEF Check, Draw
<1>4. \A i \in 1..2 : i = 1 \/ i = 2
  OBVIOUS
<1>5. Takes(q, S!Only(Home(q), q.n))
  BY <1>1, <1>3, <1>4, OneRow DEF Takes
<1>6. Gives(q, S!Nothing)
  BY <1>1, <1>3, <1>4, OneRow DEF Gives
<1>7. QED
  BY <1>5, <1>6

LEMMA TransferMaps ==
  ASSUME NEW q, Valid(q), q.op = "transfer"
  PROVE  /\ Takes(q, S!Only(Home(q), q.n))
         /\ Gives(q, S!Only(<<q.product, q.to>>, q.n))
<1>1. Home(q) \in Row /\ <<q.product, q.to>> \in Row /\ q.n \in Nat \ {0}
  BY AmountsAssumption DEF Valid, Request, Home, Row
<1>2. Plan(q) = << Check(Home(q), q.n), Draw(Home(q), q.n), Put(<<q.product, q.to>>, q.n) >>
  BY DEF Plan, TransferPlan
<1>3. /\ Len(Plan(q)) = 3 /\ Plan(q)[1].act = "check"
      /\ Plan(q)[2].act = "draw" /\ Plan(q)[2].row = Home(q) /\ Plan(q)[2].n = q.n
      /\ Plan(q)[3].act = "put" /\ Plan(q)[3].row = <<q.product, q.to>>
      /\ Plan(q)[3].n = q.n
  BY <1>2 DEF Check, Draw, Put
<1>4. \A i \in 1..3 : i = 1 \/ i = 2 \/ i = 3
  OBVIOUS
<1>5. Takes(q, S!Only(Home(q), q.n))
  BY <1>1, <1>3, <1>4, OneRow DEF Takes
<1>6. Gives(q, S!Only(<<q.product, q.to>>, q.n))
  <2> DEFINE d == <<q.product, q.to>>
  <2>1. /\ S!Only(d, q.n) \in [Row -> Nat]
        /\ \A h \in Row : S!Only(d, q.n)[h] = IF h = d THEN q.n ELSE 0
        /\ Plan(q)[3].row = d /\ d \in Row
    BY <1>1, <1>3, OneRow
  <2> HIDE DEF d
  <2>2. Gives(q, S!Only(d, q.n))
    BY <1>1, <1>3, <1>4, <2>1 DEF Gives
  <2>3. QED
    BY <2>2 DEF d
<1>7. QED
  BY <1>5, <1>6

LEMMA AssembleMaps ==
  ASSUME NEW q, Valid(q), q.op = "assemble"
  PROVE  /\ Takes(q, S!Needs(q.bill, q.at, q.n))
         /\ Gives(q, S!Only(Home(q), q.n))
<1> DEFINE k == Len(q.bill)
           take == S!Needs(q.bill, q.at, q.n)
           give == S!Only(Home(q), q.n)
<1>1. Home(q) \in Row /\ q.n \in Nat \ {0}
  BY AmountsAssumption DEF Valid, Request, Home, Row
<1>2. /\ k \in Nat /\ Plan(q) = AssemblePlan(q) /\ Len(Plan(q)) = 2 * k + 1
  BY BillFacts DEF Plan, AssemblePlan
<1>3. /\ take \in [Row -> Nat]
      /\ \A i \in 1..k : take[Part(q, i)] = Needed(q, i)
      /\ \A r \in Row : take[r] > 0 => \E i \in 1..k : Part(q, i) = r
  BY BillRows
<1>4. /\ give \in [Row -> Nat]
      /\ \A r \in Row : give[r] = IF r = Home(q) THEN q.n ELSE 0
  BY <1>1, OneRow
<1> HIDE DEF take, give
<1>5. ASSUME NEW i \in 1..(2 * k + 1)
      PROVE  /\ i <= k => Plan(q)[i].act = "check"
             /\ i > k /\ i <= 2 * k => Plan(q)[i] = Draw(Part(q, i - k), Needed(q, i - k))
             /\ i > 2 * k => i = 2 * k + 1 /\ Plan(q)[i] = Put(Home(q), q.n)
  BY <1>2 DEF AssemblePlan, Check
<1>6. ASSUME NEW i \in 1..(2 * k + 1), Plan(q)[i].act = "draw"
      PROVE  take[Plan(q)[i].row] = Plan(q)[i].n
  <2>1. i > k /\ i <= 2 * k
    BY <1>2, <1>5, <1>6 DEF Put
  <2>2. i - k \in 1..k
    BY <1>2, <2>1
  <2>3. Plan(q)[i].row = Part(q, i - k) /\ Plan(q)[i].n = Needed(q, i - k)
    <3>1. Plan(q)[i] = Draw(Part(q, i - k), Needed(q, i - k))
      BY <1>5, <2>1
    <3>2. QED
      BY <3>1, StatementParts
  <2>4. QED
    BY <1>3, <2>2, <2>3
<1>7. ASSUME NEW r \in Row, take[r] > 0
      PROVE  \E i \in 1..(2 * k + 1) : Plan(q)[i].act = "draw" /\ Plan(q)[i].row = r
  <2>1. PICK h \in 1..k : Part(q, h) = r
    BY <1>3, <1>7
  <2>2. h + k \in 1..(2 * k + 1) /\ h + k > k /\ h + k <= 2 * k /\ (h + k) - k = h
    BY <1>2
  <2>3. Plan(q)[h + k] = Draw(r, Needed(q, h))
    BY <1>5, <2>1, <2>2
  <2>4. QED
    BY <2>2, <2>3 DEF Draw
<1>8. ASSUME NEW i \in 1..(2 * k + 1), Plan(q)[i].act = "put"
      PROVE  give[Plan(q)[i].row] = Plan(q)[i].n
  <2>1. ~(i <= k) /\ ~(i > k /\ i <= 2 * k)
    <3>1. i > k /\ i <= 2 * k => Plan(q)[i].act = "draw"
      BY <1>5, StatementParts
    <3>2. QED
      BY <1>5, <1>8, <3>1
  <2>2. Plan(q)[i] = Put(Home(q), q.n)
    BY <1>2, <1>5, <2>1
  <2>3. Plan(q)[i].row = Home(q) /\ Plan(q)[i].n = q.n
    BY <2>2, StatementParts
  <2>4. QED
    BY <1>1, <1>4, <2>3
<1>9. ASSUME NEW r \in Row, give[r] > 0
      PROVE  \E i \in 1..(2 * k + 1) : Plan(q)[i].act = "put" /\ Plan(q)[i].row = r
  <2>1. r = Home(q)
    BY <1>4, <1>9
  <2>2. 2 * k + 1 \in 1..(2 * k + 1) /\ 2 * k + 1 > 2 * k
    BY <1>2
  <2>3. Plan(q)[2 * k + 1] = Put(Home(q), q.n)
    BY <1>5, <2>2
  <2>4. QED
    BY <2>1, <2>2, <2>3 DEF Put
<1>10. QED
  BY <1>2, <1>3, <1>4, <1>6, <1>7, <1>8, <1>9 DEF Takes, Gives, take, give

LEMMA DisassembleMaps ==
  ASSUME NEW q, Valid(q), q.op = "disassemble"
  PROVE  /\ Takes(q, S!Only(Home(q), q.n))
         /\ Gives(q, S!Needs(q.bill, q.at, q.n))
<1> DEFINE k == Len(q.bill)
           give == S!Needs(q.bill, q.at, q.n)
           take == S!Only(Home(q), q.n)
<1>1. Home(q) \in Row /\ q.n \in Nat \ {0}
  BY AmountsAssumption DEF Valid, Request, Home, Row
<1>2. /\ k \in Nat /\ Plan(q) = DisassemblePlan(q) /\ Len(Plan(q)) = k + 2
  BY BillFacts DEF Plan, DisassemblePlan
<1>3. /\ give \in [Row -> Nat]
      /\ \A i \in 1..k : give[Part(q, i)] = Needed(q, i)
      /\ \A r \in Row : give[r] > 0 => \E i \in 1..k : Part(q, i) = r
  BY BillRows
<1>4. /\ take \in [Row -> Nat]
      /\ \A r \in Row : take[r] = IF r = Home(q) THEN q.n ELSE 0
  BY <1>1, OneRow
<1> HIDE DEF take, give
<1>5. ASSUME NEW i \in 1..(k + 2)
      PROVE  /\ i = 1 => Plan(q)[i].act = "check"
             /\ i = 2 => Plan(q)[i] = Draw(Home(q), q.n)
             /\ i > 2 => Plan(q)[i] = Put(Part(q, i - 2), Needed(q, i - 2))
  BY <1>2 DEF DisassemblePlan, Check
<1>6. ASSUME NEW i \in 1..(k + 2), Plan(q)[i].act = "put"
      PROVE  give[Plan(q)[i].row] = Plan(q)[i].n
  <2>1. i > 2
    BY <1>2, <1>5, <1>6 DEF Draw
  <2>2. i - 2 \in 1..k
    BY <1>2, <2>1
  <2>3. Plan(q)[i].row = Part(q, i - 2) /\ Plan(q)[i].n = Needed(q, i - 2)
    <3>1. Plan(q)[i] = Put(Part(q, i - 2), Needed(q, i - 2))
      BY <1>5, <2>1
    <3>2. QED
      BY <3>1, StatementParts
  <2>4. QED
    BY <1>3, <2>2, <2>3
<1>7. ASSUME NEW r \in Row, give[r] > 0
      PROVE  \E i \in 1..(k + 2) : Plan(q)[i].act = "put" /\ Plan(q)[i].row = r
  <2>1. PICK h \in 1..k : Part(q, h) = r
    BY <1>3, <1>7
  <2>2. h + 2 \in 1..(k + 2) /\ h + 2 > 2 /\ (h + 2) - 2 = h
    BY <1>2
  <2>3. Plan(q)[h + 2] = Put(r, Needed(q, h))
    BY <1>5, <2>1, <2>2
  <2>4. QED
    BY <2>2, <2>3 DEF Put
<1>8. ASSUME NEW i \in 1..(k + 2), Plan(q)[i].act = "draw"
      PROVE  take[Plan(q)[i].row] = Plan(q)[i].n
  <2>1. i = 2
    <3>1. i > 2 => Plan(q)[i].act = "put"
      BY <1>5, StatementParts
    <3>2. i # 1 /\ ~(i > 2)
      BY <1>5, <1>8, <3>1
    <3>3. QED
      BY <1>2, <3>2
  <2>2. Plan(q)[i] = Draw(Home(q), q.n)
    BY <1>5, <2>1
  <2>3. Plan(q)[i].row = Home(q) /\ Plan(q)[i].n = q.n
    BY <2>2, StatementParts
  <2>4. QED
    BY <1>1, <1>4, <2>3
<1>9. ASSUME NEW r \in Row, take[r] > 0
      PROVE  \E i \in 1..(k + 2) : Plan(q)[i].act = "draw" /\ Plan(q)[i].row = r
  <2>1. r = Home(q)
    BY <1>4, <1>9
  <2>2. 2 \in 1..(k + 2)
    BY <1>2
  <2>3. Plan(q)[2] = Draw(Home(q), q.n)
    BY <1>5, <2>2
  <2>4. QED
    BY <2>1, <2>2, <2>3 DEF Draw
<1>10. QED
  BY <1>2, <1>3, <1>4, <1>6, <1>7, <1>8, <1>9 DEF Takes, Gives, take, give

LEMMA CommitMaps ==
  ASSUME IInv, NEW w \in Workers, Commit(w)
  PROVE  S!Next
<1> DEFINE q == req[w]
<1>1. /\ Valid(q) /\ moved' = Recorded(q)
  BY DEF Commit, IInv, InFlight
<1>2. /\ q.product \in Products /\ q.product \in Physical
      /\ q.at \in Warehouses /\ q.to \in Warehouses /\ q.n \in Amounts
      /\ q.op \in {"add", "remove", "transfer", "assemble", "disassemble"}
  BY <1>1 DEF Valid, Request
<1>3. CASE q.op = "add"
  <2>1. S!Shift(S!Nothing, S!Only(Home(q), q.n))
    BY <1>1, <1>3, AddMaps, CommitShifts
  <2>2. S!Add(<<q.product, q.at>>, q.n)
    BY <1>1, <1>3, <2>1 DEF S!Add, Home, Recorded
  <2>3. QED
    BY <1>2, <2>2 DEF S!Next
<1>4. CASE q.op = "remove"
  <2>1. S!Shift(S!Only(Home(q), q.n), S!Nothing)
    BY <1>1, <1>4, RemoveMaps, CommitShifts
  <2>2. S!Remove(<<q.product, q.at>>, q.n)
    BY <1>1, <1>4, <2>1 DEF S!Remove, Home, Recorded
  <2>3. QED
    BY <1>2, <2>2 DEF S!Next
<1>5. CASE q.op = "transfer"
  <2>1. S!Shift(S!Only(Home(q), q.n), S!Only(<<q.product, q.to>>, q.n))
    BY <1>1, <1>5, TransferMaps, CommitShifts
  <2>2. S!Transfer(<<q.product, q.at>>, <<q.product, q.to>>, q.n)
    BY <1>1, <1>5, <2>1 DEF S!Transfer, Home, Recorded
  <2>3. q.to \in Warehouses \ {q.at}
    BY <1>1, <1>2, <1>5 DEF Valid
  <2>4. QED
    BY <1>2, <2>2, <2>3 DEF S!Next
<1>6. CASE q.op \in {"assemble", "disassemble"}
  <2>1. q.product \in Bundles \cap Physical /\ q.bill \in Bills[q.product] \ {<<>>}
    BY <1>1, <1>6 DEF Valid
  <2>2. CASE q.op = "assemble"
    <3>1. S!Shift(S!Needs(q.bill, q.at, q.n), S!Only(Home(q), q.n))
      BY <1>1, <2>2, AssembleMaps, CommitShifts
    <3>2. S!Assemble(q.product, q.at, q.bill, q.n)
      BY <1>1, <2>2, <3>1 DEF S!Assemble, Home, Recorded
    <3>3. QED
      BY <1>2, <2>1, <3>2 DEF S!Next
  <2>3. CASE q.op = "disassemble"
    <3>1. S!Shift(S!Only(Home(q), q.n), S!Needs(q.bill, q.at, q.n))
      BY <1>1, <2>3, DisassembleMaps, CommitShifts
    <3>2. S!Disassemble(q.product, q.at, q.bill, q.n)
      BY <1>1, <2>3, <3>1 DEF S!Disassemble, Home, Recorded
    <3>3. QED
      BY <1>2, <2>1, <3>2 DEF S!Next
  <2>4. QED
    BY <1>6, <2>2, <2>3
<1>7. QED
  BY <1>2, <1>3, <1>4, <1>5, <1>6

\* However the statements of any number of service calls interleave, abort and
\* crash, the tables change as if each call were a single step, or nothing.
THEOREM InventoryImplementsStock == Spec => ImplementsStock
<1>1. Init => S!Init
  BY MaxIntAssumption DEF Init, S!Init, S!Row, Row
<1>2. IInv /\ [Next]_vars => [S!Next]_(S!stockVars)
  <2> SUFFICES ASSUME IInv, [Next]_vars, ~UNCHANGED stockVars
               PROVE  S!Next
    BY DEF stockVars, S!stockVars
  <2>1. QED
    BY OnlyCommitWrites, CommitMaps
<1>3. QED
  BY <1>1, <1>2, Invariance, PTL DEF Spec, ImplementsStock, S!Spec

-----------------------------------------------------------------------------
(* Beside any other transaction: a receipt, a PATCH of inventory rows, an  *)
(* edit in the admin site.                                                 *)

\* It commits. An UPDATE, an INSERT and a DELETE wait for the locks on a row, so
\* what services hold stays as it is, and the columns and their constraints bound
\* what is written elsewhere.
Outside ==
  /\ rows' \in SUBSET Row
  /\ quantity' \in [Row -> 0..MaxInt] /\ reserved' \in [Row -> Nat]
  /\ moved' \in [Row -> Int]
  /\ \A r \in Row \ rows' : quantity'[r] = 0
  /\ \A w \in Workers : \A r \in held[w] :
       /\ r \in rows' <=> r \in rows
       /\ quantity'[r] = quantity[r] /\ reserved'[r] = reserved[r]
  /\ UNCHANGED <<bom, txnVars>>

\* Whatever writes only rows that no service holds disturbs no service.
LEMMA OutsideIInv ==
  ASSUME IInv, Outside
  PROVE  IInv'
<1>1. bom' = bom /\ req' = req /\ pc' = pc /\ held' = held /\ draft' = draft
  BY DEF Outside, txnVars
<1>2. TypeOK /\ LocksExclusive /\ DraftsFresh /\ NeverNegative
  BY DEF IInv
<1>3. \A w \in Workers : Active(w)' <=> Active(w)
  BY <1>1 DEF Active
<1>4. TypeOK'
  <2>1. quantity' \in [Row -> Int]
    BY MaxIntAssumption DEF Outside
  <2>2. QED
    BY <1>1, <1>2, <1>3, <2>1 DEF TypeOK, Outside
<1>5. LocksExclusive'
  BY <1>1, <1>2 DEF LocksExclusive
<1>6. DraftsFresh'
  BY <1>1, <1>2 DEF DraftsFresh, Outside
<1>7. NeverNegative'
  BY <1>1, <1>2 DEF NeverNegative, Outside
<1>8. ASSUME NEW v \in Workers, Active(v)'
      PROVE  InFlight(v)'
  <2>1. InFlight(v) /\ held[v] \subseteq Row
    BY <1>2, <1>3, <1>8 DEF IInv, TypeOK
  <2>2. RowsHeld(v)' /\ HeldRowsUsed(v)'
    BY <1>1, <2>1 DEF InFlight, RowsHeld, HeldRowsUsed
  <2>3. ChecksHold(v)'
    <3> SUFFICES ASSUME NEW i \in 1..(pc[v] - 1), Plan(req[v])[i].act = "check",
                        NEW r, r = Plan(req[v])[i].row
                 PROVE  r \in rows' /\ Spare(quantity[r], r)' >= Plan(req[v])[i].n
      BY <1>1 DEF ChecksHold
    <3>1. r \in held[v]
      BY <2>1 DEF InFlight, RowsHeld
    <3>2. quantity'[r] = quantity[r] /\ reserved'[r] = reserved[r]
          /\ (r \in rows' <=> r \in rows)
      BY <3>1 DEF Outside
    <3>3. r \in rows /\ Spare(quantity[r], r) >= Plan(req[v])[i].n
      BY <2>1 DEF InFlight, ChecksHold
    <3>4. QED
      BY <3>2, <3>3 DEF Spare
  <2>4. QED
    BY <1>1, <2>1, <2>2, <2>3 DEF InFlight
<1>9. QED
  BY <1>4, <1>5, <1>6, <1>7, <1>8 DEF IInv

\* So it disturbs no run of them.
Beside == Init /\ [][Next \/ Outside]_vars

LEMMA BesideInvariance == Beside => []IInv
<1>1. IInv /\ [Next \/ Outside]_vars => IInv'
  BY NextIInv, OutsideIInv
<1>2. QED
  BY <1>1, InitIInv, PTL DEF Beside

\* Beside transactions that do anything at all to the other rows, each step of a
\* service call still does what Stock allows, or nothing,
THEOREM ServicesAreAtomicBesideOthers ==
  Beside => [][UNCHANGED txnVars \/ [S!Next]_(S!stockVars)]_vars
<1>1. IInv /\ [Next \/ Outside]_vars
      => [UNCHANGED txnVars \/ [S!Next]_(S!stockVars)]_vars
  <2>1. IInv /\ [Next]_vars => [S!Next]_(S!stockVars)
    BY OnlyCommitWrites, CommitMaps DEF stockVars, S!stockVars
  <2>2. Outside => UNCHANGED txnVars
    BY DEF Outside
  <2>3. QED
    BY <2>1, <2>2
<1>2. QED
  BY <1>1, BesideInvariance, PTL DEF Beside

\* and none works from a stale read or writes what the column refuses.
THEOREM ServicesUndisturbedByOthers ==
  Beside => [](LocksExclusive /\ DraftsFresh /\ NeverNegative)
<1>1. IInv => LocksExclusive /\ DraftsFresh /\ NeverNegative
  BY DEF IInv
<1>2. QED
  BY <1>1, BesideInvariance, PTL

\* Nor does one take units that are reserved when it commits, though a PATCH may
\* have reserved them after the call began.
THEOREM ReservationsCoveredBesideOthers ==
  Beside => [][UNCHANGED txnVars \/ Covered]_vars
<1>1. IInv /\ [Next \/ Outside]_vars => [UNCHANGED txnVars \/ Covered]_vars
  BY StepCovered DEF Outside
<1>2. QED
  BY <1>1, BesideInvariance, PTL DEF Beside

-----------------------------------------------------------------------------
(* Beside receipts.  What ShipmentProofs shows of one step of Shipments is *)
(* cited here of the step that the composition takes. The audit variables  *)
(* of ShipmentAudit occur in none of it, and any value serves for them.    *)

P == INSTANCE ShipmentProofs WITH
       pc <- step, held <- taken, draft <- saved, MaxMoved <- MaxNet,
       MaxStocked <- 0, MaxDeaths <- 0, ledger <- 0, stocked <- 0, entered <- 0,
       deaths <- 0, crossed <- 0, overlapped <- 0

\* What Shipments assumes of its constants.
LEMMA ShipmentAssumptions ==
  /\ \A load \in Loads :
       /\ load \in Seq(P!Item)
       /\ \A i, j \in 1..Len(load) : load[i].product = load[j].product => i = j
  /\ {"unborn", "deleted", P!Received} \cap Underway = {}
  /\ "CREATED" \in Underway
  /\ Nowhere \notin Warehouses
  /\ Bundles \subseteq Products /\ Physical \subseteq Products
  /\ \A b \in Bundles :
       Bills[b] \subseteq Seq([component : Products, quantity : Nat \ {0}])
  /\ MaxInt \in Nat /\ Amounts \subseteq Nat \ {0}
  /\ NoJob \notin P!Job
BY LoadsAssumption, StatusAssumption, NowhereAssumption, NoJobAssumption,
   CatalogueAssumption, BillsAssumption, AmountsAssumption, MaxIntAssumption
   DEF Line, R!Item, P!Item, R!Received, P!Received, R!Statuses, P!Statuses, R!Job, P!Job

\* R and P are the same module: a step of one is a step of the other.
LEMMA SameSteps == R!Next => P!Next
BY DEF R!Next, P!Next, R!Call, P!Call, R!Request, P!Request, R!Service, P!Service,
       R!Create, P!Create, R!UpdateStatus, P!UpdateStatus, R!Patch, P!Patch,
       R!Delete, P!Delete, R!Open, P!Open, R!Receives, P!Receives, R!Exists,
       P!Exists, R!Active, P!Active, R!Proceed, P!Proceed, R!Fetch, P!Fetch,
       R!FindItemsGone, P!FindItemsGone,
       R!Insert, P!Insert, R!Store, P!Store, R!CommitReceipt, P!CommitReceipt,
       R!Overflow, P!Overflow, R!SaveShipment, P!SaveShipment, R!Destroy,
       P!Destroy, R!AtFetch, P!AtFetch, R!AtStore, P!AtStore, R!AtItem,
       P!AtItem, R!Receiving, P!Receiving, R!ItemAt, P!ItemAt, R!Target,
       P!Target, R!Blocked, P!Blocked, R!Advance, P!Advance, R!Publish,
       P!Publish, R!Release, P!Release, R!Abandon, P!Abandon, R!Idle, P!Idle,
       R!DeadlockAbort, P!DeadlockAbort, R!Kill, P!Kill, R!Deadlocked,
       P!Deadlocked, R!WaitsFor, P!WaitsFor, R!Statuses, P!Statuses, R!Received,
       P!Received, R!vars, P!vars, R!stockVars, P!stockVars, R!shipmentVars,
       P!shipmentVars, R!txnVars, P!txnVars, R!Row, P!Row, R!S!Next, P!S!Next,
       R!S!Add, P!S!Add, R!S!Remove, P!S!Remove, R!S!Transfer, P!S!Transfer,
       R!S!Assemble, P!S!Assemble, R!S!Disassemble, P!S!Disassemble, R!S!Shift,
       P!S!Shift, R!S!Needs, P!S!Needs, R!S!Only, P!S!Only, R!S!Nothing,
       P!S!Nothing, R!S!Spare, P!S!Spare, R!S!Row, P!S!Row

LEMMA SameStock == S!Next => R!S!Next
BY DEF S!Next, R!S!Next, S!Add, R!S!Add, S!Remove, R!S!Remove, S!Transfer,
       R!S!Transfer, S!Assemble, R!S!Assemble, S!Disassemble, R!S!Disassemble,
       S!Shift, R!S!Shift, S!Needs, R!S!Needs, S!Only, R!S!Only, S!Nothing,
       R!S!Nothing, S!Spare, R!S!Spare, S!Row, R!S!Row

LEMMA ReceiptsStart == R!Init => P!IInv
<1>1. R!Init => P!Init
  BY DEF R!Init, P!Init, R!S!Init, P!S!Init, R!S!Row, P!S!Row, R!Row, P!Row
<1>2. QED
  BY <1>1, ShipmentAssumptions, P!InitInvariant

LEMMA ReceiptsStep ==
  ASSUME P!IInv, [R!Next]_(R!vars)
  PROVE  P!IInv'
<1>1. [P!Next]_(P!vars)
  BY SameSteps DEF R!vars, P!vars
<1>2. QED
  BY <1>1, ShipmentAssumptions, P!StepInvariant

\* Of which only this is needed.
ReceiptsOK ==
  /\ rows \in SUBSET Row
  /\ quantity \in [Row -> 0..MaxInt]
  /\ \A r \in Row \ rows : quantity[r] = 0
  /\ \A r \in Row : reserved[r] <= quantity[r]
  /\ step \in [Workers -> Nat] /\ taken \in [Workers -> SUBSET Row]
  /\ saved \in [Workers -> [Row -> 0..MaxInt]]
  /\ \A w \in Workers : ~R!Active(w) => taken[w] = {}
  /\ \A w \in Workers : R!AtItem(w) => R!Target(w) \in Row

LEMMA ReceiptsFacts == P!IInv => ReceiptsOK
<1> SUFFICES ASSUME P!IInv PROVE ReceiptsOK
  OBVIOUS
<1>1. P!TypeOK /\ P!TablesOK
  BY DEF P!IInv
<1>2. ASSUME NEW w \in Workers, R!AtItem(w)
      PROVE  R!Target(w) \in Row
  <2>1. P!AtItem(w)
    BY <1>2 DEF R!AtItem, P!AtItem, R!Receiving, P!Receiving, R!Active, P!Active
  <2>2. P!Target(w) \in P!Row
    BY <1>1, <2>1, ShipmentAssumptions, P!TargetType
  <2>3. QED
    BY <2>2 DEF R!Target, P!Target, R!ItemAt, P!ItemAt, P!Row, Row
<1>3. QED
  BY <1>1, <1>2 DEF P!TypeOK, P!TablesOK, P!Active, R!Active, P!Row, Row, ReceiptsOK

-----------------------------------------------------------------------------
(* The composition: who has which rows, and what each statement writes.    *)

\* The invariant of the composition: those of its parts, and locks that keep
\* them apart.
WInv == IInv /\ P!IInv /\ RowsApart

\* A worker that serves a request of one kind has no rows of the other.
LEMMA OneKind ==
  ASSUME WInv, NEW w \in Workers
  PROVE  /\ Active(w) => ~R!Active(w) /\ taken[w] = {}
         /\ R!Active(w) => ~Active(w) /\ held[w] = {}
<1>1. ReceiptsOK
  BY ReceiptsFacts DEF WInv
<1>2. QED
  BY <1>1 DEF WInv, RowsApart, ReceiptsOK, IInv, TypeOK

\* No two workers of either kind have a row in common.
LEMMA ApartStep ==
  ASSUME WInv, NEW w \in Workers, ~Active(w)' \/ ~R!Active(w)',
         \A v \in Workers \ {w} :
           /\ Has(v)' = Has(v)
           /\ (Active(v)' <=> Active(v)) /\ (R!Active(v)' <=> R!Active(v)),
         \/ Has(w)' \subseteq Has(w)
         \/ ~Waiting(w) /\ Has(w)' \subseteq Has(w) \cup Wants(w)
  PROVE  RowsApart'
<1>1. \A v \in Workers : ~Active(v)' \/ ~R!Active(v)'
  BY DEF WInv, RowsApart
<1>2. \A v \in Workers \ {w} : Has(w)' \cap Has(v)' = {}
  BY DEF WInv, RowsApart, Waiting, WaitsOn
<1>3. \A u, v \in Workers \ {w} : u # v => Has(u)' \cap Has(v)' = {}
  BY DEF WInv, RowsApart
<1>4. \A u, v \in Workers : u # v => Has(u)' \cap Has(v)' = {}
  BY <1>2, <1>3
<1>5. QED
  BY <1>1, <1>4 DEF RowsApart

\* A statement of a service takes no other row than the one it waits for.
LEMMA ServiceTakes ==
  ASSUME IInv, NEW w \in Workers, Proceed(w)
  PROVE  /\ Active(w)
         /\ held'[w] \subseteq held[w] \cup Wants(w)
         /\ \A v \in Workers \ {w} : held'[v] = held[v] /\ pc'[v] = pc[v]
<1>1. /\ held \in [Workers -> SUBSET Row] /\ pc \in [Workers -> Nat]
  BY DEF IInv, TypeOK
<1>2. ASSUME NEW act \in {"check", "draw", "put"}, AtStatement(w, act),
             NEW q, Grasp(w, Statement(w).row, q),
             Exists(w, Statement(w).row) \/ act = "put"
      PROVE  /\ Active(w)
             /\ held'[w] \subseteq held[w] \cup Wants(w)
             /\ \A v \in Workers \ {w} : held'[v] = held[v] /\ pc'[v] = pc[v]
  <2>1. /\ Active(w) /\ pc[w] <= Len(Plan(req[w])) /\ Statement(w).act = act
    BY <1>2 DEF AtStatement
  <2>2. Statement(w).row \in Row
    BY <1>2, AtFacts
  <2>3. Statement(w).row \in Wants(w)
    BY <1>2, <2>1, <2>2 DEF Wants
  <2>4. /\ held' = [held EXCEPT ![w] = @ \cup {Statement(w).row}]
        /\ pc' = [pc EXCEPT ![w] = @ + 1]
    BY <1>2 DEF Grasp
  <2>5. QED
    BY <1>1, <2>1, <2>3, <2>4
<1>3. ASSUME Finish(w), Active(w)
      PROVE  /\ Active(w)
             /\ held'[w] \subseteq held[w] \cup Wants(w)
             /\ \A v \in Workers \ {w} : held'[v] = held[v] /\ pc'[v] = pc[v]
  BY <1>1, <1>3 DEF Finish
<1>4. CASE CheckRow(w)
  BY <1>2, <1>4 DEF CheckRow
<1>5. CASE DrawRow(w)
  <2> DEFINE s == Statement(w)
  <2>1. AtStatement(w, "draw") /\ Grasp(w, s.row, Seen(w, s.row) - s.n)
    BY <1>5 DEF DrawRow
  <2>2. /\ InFlight(w) /\ Valid(req[w]) /\ pc[w] \in 1..Len(Plan(req[w]))
        /\ Statement(w) = Plan(req[w])[pc[w]] /\ Statement(w).act = "draw"
    BY <2>1, AtFacts
  <2>3. Statement(w).row \in rows
    BY <2>2, DrawIsCovered
  <2>4. QED
    BY <1>2, <2>1, <2>3 DEF Exists
<1>6. CASE PutRow(w)
  BY <1>2, <1>6 DEF PutRow
<1>7. CASE Commit(w)
  BY <1>3, <1>7 DEF Commit
<1>8. CASE Refuse(w) \/ Overflow(w)
  BY <1>3, <1>8 DEF Refuse, Overflow, Rollback, AtStatement
<1>9. QED
  BY <1>4, <1>5, <1>6, <1>7, <1>8 DEF Proceed

\* So does a statement of a shipment request.
LEMMA ShipmentTakes ==
  ASSUME P!IInv, NEW w \in Workers, R!Proceed(w)
  PROVE  /\ R!Active(w)
         /\ taken'[w] \subseteq taken[w] \cup Wants(w)
         /\ \A v \in Workers \ {w} : taken'[v] = taken[v] /\ step'[v] = step[v]
<1>1. ReceiptsOK
  BY ReceiptsFacts
<1>2. taken \in [Workers -> SUBSET Row] /\ step \in [Workers -> Nat]
  BY <1>1 DEF ReceiptsOK
<1>11. CASE R!FindItemsGone(w)
  BY <1>2, <1>11 DEF R!FindItemsGone, R!Receiving, R!txnVars
<1>3. CASE R!Fetch(w)
  BY <1>2, <1>3 DEF R!Fetch, R!AtFetch, R!AtItem, R!Receiving, R!Advance, R!txnVars
<1>4. CASE R!Insert(w)
  <2>1. R!Target(w) \in Wants(w) /\ R!Active(w)
    BY <1>1, <1>4 DEF R!Insert, R!AtFetch, R!AtItem, R!Receiving, ReceiptsOK, Wants
  <2>2. QED
    BY <1>2, <1>4, <2>1 DEF R!Insert, R!Advance
<1>5. CASE R!Store(w)
  <2>1. R!Target(w) \in Wants(w) /\ R!Active(w)
    BY <1>1, <1>5 DEF R!Store, R!AtStore, R!AtItem, R!Receiving, ReceiptsOK, Wants
  <2>2. QED
    BY <1>2, <1>5, <2>1 DEF R!Store, R!Advance
<1>6. CASE R!CommitReceipt(w)
  BY <1>2, <1>6 DEF R!CommitReceipt, R!Receiving, R!Release
<1>7. CASE R!Overflow(w)
  BY <1>2, <1>7 DEF R!Overflow, R!AtStore, R!AtItem, R!Receiving, R!Abandon,
                    R!Idle, R!Release
<1>8. CASE R!SaveShipment(w)
  BY <1>2, <1>8 DEF R!SaveShipment, R!Idle, R!txnVars
<1>9. CASE R!Destroy(w)
  BY <1>2, <1>9 DEF R!Destroy, R!Idle, R!txnVars
<1>10. QED
  BY <1>3, <1>4, <1>5, <1>6, <1>7, <1>8, <1>9, <1>11 DEF R!Proceed

-----------------------------------------------------------------------------
(* Every step of the composition is one of Shipments, or a stutter.        *)

\* A commit writes only rows that its own transaction holds.
LEMMA CommitIsService ==
  ASSUME WInv, NEW w \in Workers, Commit(w), UNCHANGED shipmentVars,
         \A r \in Row : moved'[r] \in -MaxNet..MaxNet
  PROVE  R!Service(w)
<1>1. /\ Active(w) /\ rows' = rows \cup held[w]
      /\ quantity' = [r \in Row |-> Seen(w, r)]
  BY DEF Commit
<1>2. ~R!Active(w) /\ taken[w] = {}
  BY <1>1, OneKind
<1>3. R!S!Next
  BY CommitMaps, SameStock DEF WInv
<1>4. ASSUME NEW r \in Row, NEW v \in Workers, r \in taken[v]
      PROVE  quantity'[r] = quantity[r] /\ (r \in rows' <=> r \in rows)
  <2>1. v # w /\ r \notin held[w]
    BY <1>2, <1>4 DEF WInv, RowsApart, Has
  <2>2. QED
    BY <1>1, <2>1 DEF Seen
<1>5. QED
  BY <1>2, <1>3, <1>4 DEF R!Service, R!Row, Row, R!shipmentVars, R!txnVars, shipmentVars

\* Only one action of a shipment request writes the tables, and only rows that
\* the request has taken.
LEMMA ShipmentWrites ==
  ASSUME WInv, NEW w \in Workers, R!Request(w) \/ R!Proceed(w) \/ R!Kill(w),
         UNCHANGED <<bom, txnVars>>
  PROVE  IInv'
<1>1. R!Next
  BY DEF R!Next, R!Call
<1>2. P!IInv'
  BY <1>1, ReceiptsStep DEF WInv
<1>3. ReceiptsOK /\ ReceiptsOK'
  BY <1>2, ReceiptsFacts, PTL DEF WInv
<1>4. CASE R!CommitReceipt(w)
  <2>1. /\ rows' = rows \cup taken[w] /\ reserved' = reserved /\ moved' = moved
        /\ \A r \in Row \ taken[w] : quantity'[r] = quantity[r]
    BY <1>4 DEF R!CommitReceipt, R!Publish, R!Row, Row
  <2>2. R!Active(w)
    BY <1>4 DEF R!CommitReceipt, R!Receiving
  <2>3. \A v \in Workers : held[v] \in SUBSET (Row \ taken[w])
    BY <2>2, OneKind DEF WInv, RowsApart, Has, IInv, TypeOK
  <2>4. reserved \in [Row -> Nat] /\ moved \in [Row -> Int]
    BY DEF WInv, IInv, TypeOK
  <2>5. Outside
    BY <1>3, <2>1, <2>3, <2>4 DEF Outside, ReceiptsOK
  <2>6. QED
    BY <2>5, OutsideIInv DEF WInv
<1>5. CASE ~R!CommitReceipt(w)
  <2>1. UNCHANGED stockVars
    <3>1. ASSUME R!Request(w) PROVE UNCHANGED stockVars
      BY <3>1 DEF R!Request, R!Create, R!UpdateStatus, R!Patch, R!Delete, R!Open,
                  R!stockVars, stockVars
    <3>2. ASSUME R!Proceed(w) PROVE UNCHANGED stockVars
      BY <1>5, <3>2 DEF R!Proceed, R!FindItemsGone, R!Fetch, R!Insert, R!Store,
           R!Overflow, R!SaveShipment, R!Destroy, R!Advance, R!Abandon, R!stockVars, stockVars
    <3>3. ASSUME R!Kill(w) PROVE UNCHANGED stockVars
      BY <3>3 DEF R!Kill, R!Abandon, R!stockVars, stockVars
    <3>4. QED
      BY <3>1, <3>2, <3>3
  <2>2. UNCHANGED vars
    BY <2>1 DEF stockVars, txnVars, vars
  <2>3. QED
    BY <2>2, StutterIInv DEF WInv
<1>6. QED
  BY <1>4, <1>5

\* One step of the composition.
LEMMA StepWInv ==
  ASSUME WInv, [Step]_allVars
  PROVE  WInv' /\ [R!Next]_(R!vars)
<1> DEFINE Goal == WInv' /\ [R!Next]_(R!vars)
<1>1. ASSUME [Next]_vars, UNCHANGED shipmentVars, RowsApart',
             UNCHANGED stockVars \/ \E w \in Workers : R!Service(w)
      PROVE  Goal
  <2>1. [R!Next]_(R!vars)
    BY <1>1 DEF R!Next, R!Call, stockVars, shipmentVars, R!vars
  <2>2. P!IInv'
    BY <2>1, ReceiptsStep DEF WInv
  <2>3. IInv'
    BY <1>1, NextIInv DEF WInv
  <2>4. QED
    BY <1>1, <2>1, <2>2, <2>3 DEF WInv
<1>2. ASSUME NEW w \in Workers, R!Request(w) \/ R!Proceed(w) \/ R!Kill(w),
             UNCHANGED <<bom, txnVars>>, RowsApart'
      PROVE  Goal
  <2>1. R!Next
    BY <1>2 DEF R!Next, R!Call
  <2>2. P!IInv'
    BY <2>1, ReceiptsStep DEF WInv
  <2>3. IInv'
    BY <1>2, ShipmentWrites
  <2>4. QED
    BY <1>2, <2>1, <2>2, <2>3 DEF WInv
<1>3. /\ held \in [Workers -> SUBSET Row] /\ pc \in [Workers -> Nat]
      /\ taken \in [Workers -> SUBSET Row] /\ step \in [Workers -> Nat]
  BY ReceiptsFacts DEF WInv, IInv, TypeOK, ReceiptsOK
\* What a service step leaves to the receipts, and a receipt to the services.
<1>4. UNCHANGED shipmentVars =>
        \A v \in Workers : (R!Active(v)' <=> R!Active(v)) /\ taken'[v] = taken[v]
  BY DEF shipmentVars, R!Active
<1>5. UNCHANGED txnVars =>
        \A v \in Workers : (Active(v)' <=> Active(v)) /\ held'[v] = held[v]
  BY DEF txnVars, Active
<1>6. ASSUME NEW w \in Workers, ServiceCall(w) PROVE Goal
  <2>1. Call(w) /\ UNCHANGED shipmentVars /\ ~R!Active(w)
    BY <1>6 DEF ServiceCall, Idle
  <2>2. [Next]_vars
    BY <2>1 DEF Next
  <2>3. /\ held' = held /\ UNCHANGED stockVars
        /\ \A v \in Workers \ {w} : Active(v)' <=> Active(v)
    BY <1>3, <2>1 DEF Call, AddStock, RemoveStock, TransferStock, AssembleBundle,
       DisassembleBundle, Begin, Active
  <2>4. RowsApart'
    BY <1>4, <2>1, <2>3, ApartStep DEF Has
  <2>5. QED
    BY <1>1, <2>1, <2>2, <2>3, <2>4
<1>7. ASSUME NEW w \in Workers, ServiceStep(w) PROVE Goal
  <2>1. /\ Proceed(w) /\ UNCHANGED shipmentVars /\ ~Waiting(w)
        /\ \A r \in Row : moved'[r] \in -MaxNet..MaxNet
    BY <1>7 DEF ServiceStep
  <2>2. [Next]_vars
    BY <2>1 DEF Next
  <2>3. /\ Active(w) /\ held'[w] \subseteq held[w] \cup Wants(w)
        /\ \A v \in Workers \ {w} : held'[v] = held[v] /\ pc'[v] = pc[v]
    BY <2>1, ServiceTakes DEF WInv
  <2>4. ~R!Active(w) /\ \A v \in Workers \ {w} : Active(v)' <=> Active(v)
    BY <2>3, OneKind DEF Active
  <2>5. RowsApart'
    BY <1>4, <2>1, <2>3, <2>4, ApartStep DEF Has
\* A service takes effect in its commit.
  <2>6. UNCHANGED stockVars \/ R!Service(w)
    <3>1. ASSUME ~Commit(w) PROVE UNCHANGED stockVars
      BY <2>1, <3>1 DEF Proceed, CheckRow, DrawRow, PutRow, Refuse, Overflow,
                        Rollback, Grasp
    <3>2. ASSUME Commit(w) PROVE R!Service(w)
      BY <2>1, <3>2, CommitIsService
    <3>3. QED
      BY <3>1, <3>2
  <2>7. QED
    BY <1>1, <2>1, <2>2, <2>5, <2>6
<1>8. ASSUME NEW w \in Workers, ServiceEnd(w) PROVE Goal
  <2>1. Kill(w) /\ UNCHANGED shipmentVars
    BY <1>8 DEF ServiceEnd
  <2>2. [Next]_vars
    BY <2>1 DEF Next
  <2>3. /\ held'[w] = {} /\ UNCHANGED stockVars /\ Active(w)
        /\ \A v \in Workers \ {w} : held'[v] = held[v] /\ (Active(v)' <=> Active(v))
    BY <1>3, <2>1 DEF Kill, Rollback, Finish, Active
  <2>4. ~R!Active(w)
    BY <2>3, OneKind
  <2>5. RowsApart'
    BY <1>4, <2>1, <2>3, <2>4, ApartStep DEF Has
  <2>6. QED
    BY <1>1, <2>1, <2>2, <2>3, <2>5
<1>9. ASSUME NEW w \in Workers, ShipmentCall(w) PROVE Goal
  <2>1. R!Request(w) /\ UNCHANGED <<bom, txnVars>> /\ ~Active(w)
    BY <1>9 DEF ShipmentCall, Idle
  <2>2. /\ taken' = taken
        /\ \A v \in Workers \ {w} : R!Active(v)' <=> R!Active(v)
    BY <1>3, <2>1 DEF R!Request, R!Create, R!UpdateStatus, R!Patch, R!Delete, R!Open,
       R!txnVars, R!Active
  <2>3. RowsApart'
    BY <1>5, <2>1, <2>2, ApartStep DEF Has
  <2>4. QED
    BY <1>2, <2>1, <2>3
<1>10. ASSUME NEW w \in Workers, ShipmentStep(w) PROVE Goal
  <2>1. R!Proceed(w) /\ UNCHANGED <<bom, txnVars>> /\ ~Waiting(w)
    BY <1>10 DEF ShipmentStep
  <2>2. /\ R!Active(w) /\ taken'[w] \subseteq taken[w] \cup Wants(w)
        /\ \A v \in Workers \ {w} : taken'[v] = taken[v] /\ step'[v] = step[v]
    BY <2>1, ShipmentTakes DEF WInv
  <2>3. ~Active(w) /\ \A v \in Workers \ {w} : R!Active(v)' <=> R!Active(v)
    BY <2>2, OneKind DEF R!Active
  <2>4. RowsApart'
    BY <1>5, <2>1, <2>2, <2>3, ApartStep DEF Has
  <2>5. QED
    BY <1>2, <2>1, <2>4
<1>11. ASSUME NEW w \in Workers, ShipmentEnd(w) PROVE Goal
  <2>1. R!Kill(w) /\ UNCHANGED <<bom, txnVars>>
    BY <1>11 DEF ShipmentEnd
  <2>2. /\ R!Active(w) /\ taken'[w] = {}
        /\ \A v \in Workers \ {w} : taken'[v] = taken[v] /\ (R!Active(v)' <=> R!Active(v))
    BY <1>3, <2>1 DEF R!Kill, R!Abandon, R!Idle, R!Release, R!Active
  <2>3. ~Active(w)
    BY <2>2, OneKind
  <2>4. RowsApart'
    BY <1>5, <2>1, <2>2, <2>3, ApartStep DEF Has
  <2>5. QED
    BY <1>2, <2>1, <2>4
<1>12. ASSUME NEW b \in Bundles, NEW bill \in Bills[b], Edit(b, bill) PROVE Goal
  <2>1. EditBill(b, bill) /\ UNCHANGED shipmentVars
    BY <1>12 DEF Edit
  <2>2. [Next]_vars /\ UNCHANGED <<stockVars, txnVars>>
    BY <2>1 DEF Next, EditBill
  <2>3. RowsApart'
    BY <1>4, <1>5, <2>1, <2>2 DEF WInv, RowsApart, Has
  <2>4. QED
    BY <1>1, <2>1, <2>2, <2>3
<1>13. CASE UNCHANGED allVars
  <2>1. UNCHANGED vars /\ UNCHANGED shipmentVars /\ UNCHANGED txnVars
    BY <1>13 DEF allVars, vars, shipmentVars, txnVars
  <2>2. RowsApart'
    BY <1>4, <1>5, <2>1 DEF WInv, RowsApart, Has
  <2>3. QED
    BY <1>1, <2>1, <2>2 DEF vars, stockVars
<1>14. QED
  BY <1>6, <1>7, <1>8, <1>9, <1>10, <1>11, <1>12, <1>13 DEF Step

LEMMA StartWInv == Start => WInv
<1> SUFFICES ASSUME Start PROVE WInv
  OBVIOUS
<1>1. IInv /\ P!IInv
  BY InitIInv, ReceiptsStart DEF Start
<1>2. \A w \in Workers : ~Active(w) /\ ~R!Active(w) /\ held[w] = {} /\ taken[w] = {}
  BY DEF Start, Init, R!Init, Active, R!Active
<1>3. QED
  BY <1>1, <1>2 DEF WInv, RowsApart, Has

LEMMA WholeInvariance == Together => []WInv
<1>1. WInv /\ [Step]_allVars => WInv'
  BY StepWInv
<1>2. QED
  BY <1>1, StartWInv, PTL DEF Together

\* Services and receipts that interleave statement by statement behave as if each
\* service call were one step between the statements of the receipts.
THEOREM ServicesAreAtomicBesideReceipts == Together => ImplementsShipments
<1>1. Start => R!Init
  BY DEF Start
<1>2. WInv /\ [Step]_allVars => [R!Next]_(R!vars)
  BY StepWInv
<1>3. QED
  BY <1>1, <1>2, WholeInvariance, PTL DEF Together, ImplementsShipments, R!Spec

\* Beside receipts, too, no service works from a stale read,
THEOREM DraftsStayFreshBesideReceipts == Together => []DraftsFresh
<1>1. WInv => DraftsFresh
  BY DEF WInv, IInv
<1>2. QED
  BY <1>1, WholeInvariance, PTL

\* or needs the CHECK constraint that keeps quantities from being negative,
THEOREM StockNeverNegativeBesideReceipts == Together => []NeverNegative
<1>1. WInv => NeverNegative
  BY DEF WInv, IInv
<1>2. QED
  BY <1>1, WholeInvariance, PTL

\* no two transactions of any kind have a row at a time,
THEOREM RowsStayApart == Together => []RowsApart
<1>1. WInv => RowsApart
  BY DEF WInv
<1>2. QED
  BY <1>1, WholeInvariance, PTL

\* and no row holds less than what is reserved of it.
THEOREM StockCoveredBesideReceipts == Together => []R!StockCovered
<1>1. WInv => R!StockCovered
  BY ReceiptsFacts DEF WInv, ReceiptsOK, R!StockCovered, R!Row, Row
<1>2. QED
  BY <1>1, WholeInvariance, PTL
=============================================================================
