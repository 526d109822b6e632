------------------------------- MODULE Stock --------------------------------
(***************************************************************************)
(* What the inventory service layer (products/services.py) promises, seen  *)
(* from outside: every add, removal, transfer, assembly and disassembly    *)
(* changes the stock table in one indivisible step, or not at all.         *)
(* Inventory.tla is the detailed specification that implements this one.   *)
(***************************************************************************)
EXTENDS Integers, Sequences

CONSTANTS
  Products,    \* catalogue products
  Warehouses,
  Bundles,     \* products with is_bundle = True
  Physical,    \* products with is_physical = True
  Bills,       \* Bills[b]: the bills of materials bundle b may have
  Amounts,     \* the quantities a request may name
  MaxInt       \* largest value of a PositiveIntegerField column

Row == Products \X Warehouses
Line == [component : Products, quantity : Nat \ {0}]

VARIABLES
  rows,        \* (product, warehouse) pairs that have an Inventory row
  quantity,    \* Inventory.quantity; 0 where there is no row
  reserved,    \* Inventory.reserved; 0 where there is no row
  moved        \* net quantity of the COMPLETED InventoryTransfer records, per row

stockVars == <<rows, quantity, reserved, moved>>

\* Any table the database can hold before the first request.
Init ==
  /\ rows \in SUBSET Row
  /\ quantity \in [Row -> 0..MaxInt]
  /\ reserved \in [Row -> 0..MaxInt]
  /\ \A r \in Row \ rows : quantity[r] = 0 /\ reserved[r] = 0
  /\ moved = [r \in Row |-> 0]

\* Inventory.available, for a row that holds q units.
Spare(q, r) == IF q > reserved[r] THEN q - reserved[r] ELSE 0

Nothing == [r \in Row |-> 0]
Only(r, n) == [Nothing EXCEPT ![r] = n]

\* The components of n bundles built in warehouse wh from the given bill.
Needs(bill, wh, n) ==
  [r \in Row |->
     LET I == {i \in DOMAIN bill : <<bill[i].component, wh>> = r}
     IN  IF I = {} THEN 0 ELSE bill[CHOOSE i \in I : TRUE].quantity * n]

\* Take and give units, row by row, all at once.
Shift(take, give) ==
  /\ \A r \in Row : take[r] > 0 => r \in rows /\ Spare(quantity[r], r) >= take[r]
  /\ \A r \in Row : give[r] > 0 => quantity[r] + give[r] <= MaxInt
  /\ rows' = rows \cup {r \in Row : give[r] > 0}
  /\ quantity' = [r \in Row |-> (quantity[r] - take[r]) + give[r]]
  /\ UNCHANGED reserved

Add(r, n) == Shift(Nothing, Only(r, n)) /\ UNCHANGED moved

Remove(r, n) == Shift(Only(r, n), Nothing) /\ UNCHANGED moved

Transfer(src, dst, n) ==
  /\ Shift(Only(src, n), Only(dst, n))
  /\ moved' = [moved EXCEPT ![src] = @ - n, ![dst] = @ + n]

Assemble(b, wh, bill, n) ==
  Shift(Needs(bill, wh, n), Only(<<b, wh>>, n)) /\ UNCHANGED moved

Disassemble(b, wh, bill, n) ==
  Shift(Only(<<b, wh>>, n), Needs(bill, wh, n)) /\ UNCHANGED moved

Next ==
  \E n \in Amounts, wh \in Warehouses :
    \/ \E p \in Physical :
         \/ Add(<<p, wh>>, n)
         \/ Remove(<<p, wh>>, n)
         \/ \E to \in Warehouses \ {wh} : Transfer(<<p, wh>>, <<p, to>>, n)
    \/ \E b \in Bundles \cap Physical : \E bill \in Bills[b] \ {<<>>} :
         Assemble(b, wh, bill, n) \/ Disassemble(b, wh, bill, n)

Spec == Init /\ [][Next]_stockVars
=============================================================================
