--------------------------- MODULE MCBackOffice ----------------------------
(***************************************************************************)
(* Five parts of the back office that do not wait for each other: one run  *)
(* explores them one after the other.  desk says which one is at work; the *)
(* variables of the others do not move.                                    *)
(***************************************************************************)
EXTENDS QuickBooksToken, Billing, Invitations, InventoryEdit, Catalogue, TLC

VARIABLE desk

WorkerSymmetry == Permutations(Workers)

-----------------------------------------------------------------------------
(* Billing: a handful of products known to both sides, prices and discounts *)
(* that do not divide evenly.                                               *)

KnownProducts == [mug |-> "p1", box |-> "p2"]
KnownMappings == {<<>>, [p1 |-> "71"], [p1 |-> "cup"], [p1 |-> "gone"], [p2 |-> "72"]}

OdooProducts == [mug |-> "o1"]
QbItems == <<[id |-> "71", name |-> "cup", sku |-> "", group |-> FALSE],
             [id |-> "72", name |-> "mug", sku |-> "box", group |-> TRUE],
             [id |-> "73", name |-> "tea", sku |-> "mug", group |-> FALSE]>>

Partners == [chat |-> 1, pos |-> 2, shop |-> 3]
OdooAccount == [partners |-> Partners, default |-> "o9", discount |-> "o8", shipping |-> "o7"]
QbAccount == [partners |-> Partners, default |-> NoItem, shipping |-> "74"]

SmallLines == [sku: {"mug", "box", "new"}, title: {"tea"}, unit: {0, 5},
               quantity: {1, 2, 3}, discount: {0, 1, 7}]
LargeLine == [sku |-> "mug", title |-> "hat", unit |-> 3, quantity |-> 4, discount |-> 2]

SomePayloads ==
  [lines: {<<l>> : l \in SmallLines} \cup {<<l, LargeLine>> : l \in SmallLines},
   source: {"pos", "web"}, identifier: {FALSE}, app: {FALSE},
   tags: {{}, {"origin:flowcart"}}, cash: {FALSE}, financial: {"paid"},
   fulfillment: {"partial"}, currency: {""}, discount: {0, 2}, shipping: {1},
   methods: BOOLEAN]

ASSUME BillingAssumption == PayloadsSound /\ NoPrice \notin Int

-----------------------------------------------------------------------------
(* Inventory rows: two rows to merge and one place without a row.           *)

TwoShelves == <<[place |-> "north", quantity |-> 2, reserved |-> 1],
                [place |-> "south", quantity |-> 1, reserved |-> 1]>>

ASSUME ShelvesAssumption == ShelfSound

-----------------------------------------------------------------------------
(* The catalogue: a kit whose parts are named by SKU, by variant and by     *)
(* product, one of which may be a kit itself.                               *)

Item(sku, quantity) ==
  [sku |-> sku, quantity |-> quantity, variant |-> "", product |-> ""]

Kit == [id |-> "p1", variants |-> <<[id |-> "v1", sku |-> "K"]>>, tags |-> {"bundle"},
        kind |-> "", names |-> {"bundle"},
        items |-> <<Item("A", 2), [Item("", 0) EXCEPT !.variant = "v2"],
                    [Item("", 1) EXCEPT !.product = "p3"], Item("A", 1), Item("K", 1)>>]
PartA == [id |-> "p2", variants |-> <<[id |-> "v2", sku |-> "A"], [id |-> "v3", sku |-> ""]>>,
          tags |-> {}, kind |-> "", names |-> {}, items |-> <<>>]
PartB == [id |-> "p3", variants |-> <<[id |-> "v4", sku |-> "B"]>>,
          tags |-> {}, kind |-> "", names |-> {}, items |-> <<>>]
KitB == [PartB EXCEPT !.tags = {"bundle"}, !.items = <<Item("A", 1)>>]

SomeListings == {<<Kit, PartA, PartB>>, <<Kit, PartA, KitB>>}
OneKit == [s \in Skus |-> IF s = "K" THEN Bundle ELSE Plain]
OneRow == <<[bundle |-> "K", component |-> "A", quantity |-> 1]>>

ASSUME CatalogueAssumption == CatalogueSound

-----------------------------------------------------------------------------
\* Where a desk is not at work, one payload and one listing stand for all.
OfficeInit ==
  /\ desk \in {"tokens", "billing", "invitations", "shelves", "catalogue"}
  /\ Init /\ InvitationsInit /\ InventoryEditInit
  /\ CatalogueInit
  /\ desk # "catalogue" => listing = CHOOSE l \in Listings : TRUE
  /\ BillInit
  /\ desk # "billing" => payload = (CHOOSE p \in Payloads : TRUE) /\ mapping = <<>>

OfficeNext ==
  /\ UNCHANGED desk
  /\ \/ desk = "tokens" /\ Next
        /\ UNCHANGED <<bill, invitations, shelves, catalogue>>
     \/ desk = "billing" /\ BillNext
        /\ UNCHANGED <<vars, invitations, shelves, catalogue>>
     \/ desk = "invitations" /\ InvitationsNext
        /\ UNCHANGED <<vars, bill, shelves, catalogue>>
     \/ desk = "shelves" /\ InventoryEditNext
        /\ UNCHANGED <<vars, bill, invitations, catalogue>>
     \/ desk = "catalogue" /\ CatalogueNext
        /\ UNCHANGED <<vars, bill, invitations, shelves>>

OfficeSpec ==
  OfficeInit /\ [][OfficeNext]_<<desk, vars, bill, invitations, shelves, catalogue>>
=============================================================================
