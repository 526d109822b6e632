--------------------------- MODULE InventoryEdit ---------------------------
(***************************************************************************)
(* PATCH /inventory for the rows of one product                            *)
(* (src/products/serializers.py, InventorySerializer.update; the view is   *)
(* in src/products/views.py), beside the services that change the same     *)
(* rows under their locks.  A PATCH works on a copy it read without a lock *)
(* and saves every column of it.                                           *)
(***************************************************************************)
EXTENDS Integers, Sequences, FiniteSets, Functions

CONSTANTS
  Editors,       \* managers with a PATCH request
  Places,        \* warehouses
  Amounts,       \* quantities a request may give
  FirstShelf,    \* the rows at first: [place, quantity, reserved] by id
  MaxShelved,    \* bound: rows ever created
  MaxEdits,      \* bound: PATCH requests
  MaxUnits       \* bound: units in a row, for the services

Ids == 1..MaxShelved
NoShelf == [place |-> "none", quantity |-> 0, reserved |-> 0]
Unsaid == -1        \* a field the request does not mention
Stay == "stay"
NoEdit == [id |-> 0]

VARIABLES
  shelf,      \* the Inventory rows of the product by id
  shelved,    \* the ids used so far
  edit,       \* each editor's request: the copy it read and what it asks for
  edits,      \* PATCH requests so far
  owed,       \* history: the units and reservations there should be
  overwrote   \* history: a row was saved that was not any more as it was read

shelves == <<shelf, shelved, edit, edits, owed, overwrote>>

\* What the rows ids have together.
Stored(field, ids) == SumFunctionOnSet([i \in Ids |-> shelf[i][field]], ids)

\* Rows of warehouses, as the table admits them, and amounts as the serializer does.
ShelfSound ==
  /\ MaxShelved \in Nat /\ Amounts \subseteq Nat /\ NoShelf.place \notin Places
  /\ Len(FirstShelf) \in 0..MaxShelved /\ DOMAIN FirstShelf = 1..Len(FirstShelf)
  /\ \A i \in DOMAIN FirstShelf :
       FirstShelf[i] \in [place : Places, quantity : Nat, reserved : Nat]

InventoryEditInit ==
  /\ shelf = [i \in Ids |-> IF i \in DOMAIN FirstShelf THEN FirstShelf[i] ELSE NoShelf]
  /\ shelved = Cardinality(DOMAIN FirstShelf)
  /\ edit = [e \in Editors |-> NoEdit] /\ edits = 0
  /\ owed = [quantity |-> Stored("quantity", Ids), reserved |-> Stored("reserved", Ids)]
  /\ overwrote = FALSE

At(place) == {i \in Ids : shelf[i].place = place}

-----------------------------------------------------------------------------
(* The services of Inventory, each one locked change of one row             *)

\* add_stock: the row is created where there is none.
AddUnit(place) ==
  /\ \A i \in At(place) : shelf[i].quantity < MaxUnits
  /\ IF At(place) # {}
       THEN /\ \E i \in At(place) : shelf' = [shelf EXCEPT ![i].quantity = @ + 1]
            /\ UNCHANGED <<shelved, edits>>
       ELSE /\ shelved < MaxShelved
            /\ shelved' = shelved + 1
            /\ shelf' = [shelf EXCEPT ![shelved + 1] =
                           [place |-> place, quantity |-> 1, reserved |-> 0]]
  /\ owed' = [owed EXCEPT !.quantity = @ + 1]
  /\ UNCHANGED <<edit, edits, overwrote>>

\* remove_stock: reserved units stay.
RemoveUnit(place) ==
  /\ \E i \in At(place) :
       /\ shelf[i].quantity > shelf[i].reserved
       /\ shelf' = [shelf EXCEPT ![i].quantity = @ - 1]
  /\ owed' = [owed EXCEPT !.quantity = @ - 1]
  /\ UNCHANGED <<shelved, edit, edits, overwrote>>

-----------------------------------------------------------------------------
(* PATCH                                                                    *)

\* get_object() reads the row; place, quantity and reserved are what the request
\* says of them.
OpenEdit(e, i, place, quantity, reserved) ==
  /\ edit[e] = NoEdit /\ shelf[i] # NoShelf
  /\ edits < MaxEdits /\ edits' = edits + 1
  /\ edit' = [edit EXCEPT ![e] = [id |-> i, copy |-> shelf[i], place |-> place,
                                  quantity |-> quantity, reserved |-> reserved]]
  /\ UNCHANGED <<shelf, shelved, owed, overwrote>>

Moving(r) == r.place \notin {Stay, r.copy.place}

\* The row of the target warehouse, which a move locks, merges and deletes.
Conflicts(r) == IF Moving(r) THEN At(r.place) \ {r.id} ELSE {}

\* A bug: the merged row's reservations are dropped with it.
MergedUnits(r, field) ==
  r.copy[field] + IF field = "quantity"
                    THEN Stored(field, Conflicts(r)) ELSE 0

Merged(r, field) ==
  r.copy[field] + Stored(field, Conflicts(r))

Given(value, else) == IF value = Unsaid THEN else ELSE value

\* What is saved: what the request says wins over what was merged.
Saved(r) ==
  [place |-> IF Moving(r) THEN r.place ELSE r.copy.place,
   quantity |-> Given(r.quantity, Merged(r, "quantity")),
   reserved |-> Given(r.reserved, Merged(r, "reserved"))]

\* full_clean() judges a move only; the table refuses a second row for the place.
Accepted(r) ==
  /\ Moving(r) => Saved(r).reserved <= Saved(r).quantity
  /\ At(Saved(r).place) \subseteq {r.id} \cup Conflicts(r)

\* What the request means to add to the product's units and reservations.
Meant(r, field, value) ==
  IF value = Unsaid THEN 0
  ELSE value - r.copy[field] - Stored(field, Conflicts(r))

\* instance.save(): a row that another move merged away meanwhile is inserted
\* again.
SaveEdit(e) ==
  LET r == edit[e]
  IN /\ r # NoEdit
     /\ IF Accepted(r)
          THEN /\ shelf' = [i \in Ids |-> CASE i = r.id -> Saved(r)
                                           [] i \in Conflicts(r) -> NoShelf
                                           [] OTHER -> shelf[i]]
               /\ owed' = [quantity |-> owed.quantity + Meant(r, "quantity", r.quantity),
                           reserved |-> owed.reserved + Meant(r, "reserved", r.reserved)]
               /\ overwrote' = (overwrote \/ shelf[r.id] # r.copy)
          ELSE UNCHANGED <<shelf, owed, overwrote>>
     /\ edit' = [edit EXCEPT ![e] = NoEdit]
     /\ UNCHANGED <<shelved, edits>>

InventoryEditNext ==
  \/ \E place \in Places : AddUnit(place) \/ RemoveUnit(place)
  \/ \E e \in Editors, i \in Ids, place \in Places \cup {Stay} :
       \E quantity, reserved \in Amounts \cup {Unsaid} :
         OpenEdit(e, i, place, quantity, reserved)
  \/ \E e \in Editors : SaveEdit(e)

InventoryEditSpec == InventoryEditInit /\ [][InventoryEditNext]_shelves

-----------------------------------------------------------------------------
\* Until a row is saved that changed since it was read, moves and merges neither
\* lose nor invent a unit or a reservation, whatever the services do between.
EditsConserve ==
  ~overwrote => /\ Stored("quantity", Ids) = owed.quantity
                /\ Stored("reserved", Ids) = owed.reserved
=============================================================================
