----------------------------- MODULE Catalogue ------------------------------
(***************************************************************************)
(* The products and their bills of materials: what Shopify's webhooks and  *)
(* imports make of them (src/integrations/services.py,                     *)
(* import_shopify_products and what it calls) and what staff change        *)
(* (src/products/serializers.py).  Staff requests validate a copy and save *)
(* every column of it later.                                               *)
(***************************************************************************)
EXTENDS Integers, Sequences, FiniteSets, SequencesExt, FiniteSetsExt

CONSTANTS
  Skus,         \* the products, by SKU
  Listings,     \* what Shopify may list: sequences of shop products
  FirstIs,      \* is_bundle of the products there are at first, by SKU
  FirstBill,    \* the first bill-of-materials rows, a sequence
  Sessions,     \* staff at work
  MaxChanges,   \* bound: requests of staff
  MaxBillRows   \* bound: bill-of-materials rows ever created

BillRows == 1..MaxBillRows
NoSku == ""
NoBillRow == [bundle |-> NoSku, component |-> NoSku, quantity |-> 0]
NoTask == [what |-> "none"]

VARIABLES
  listing,    \* what Shopify lists
  isBundle,   \* Product.is_bundle by SKU: Bundle, Plain, or NotListed
  billRows,   \* ProductBundle by id
  billed,     \* ids used so far
  changes,    \* requests of staff so far
  task,       \* each member of staff: a validated request
  imported    \* history: the bundles as the last import left them

catalogue == <<listing, isBundle, billRows, billed, changes, task, imported>>

NotListed == "not listed"
\* is_bundle as a word: a product may also be absent.
Plain == "plain"
Bundle == "bundle"

CatalogueInit ==
  /\ listing \in Listings
  /\ isBundle = [s \in Skus |-> IF s \in DOMAIN FirstIs THEN FirstIs[s] ELSE NotListed]
  /\ billRows = [i \in BillRows |->
                   IF i <= Len(FirstBill) THEN FirstBill[i] ELSE NoBillRow]
  /\ billed = Len(FirstBill) /\ changes = 0
  /\ task = [s \in Sessions |-> NoTask]
  /\ imported = {}

RowsOf(rows, sku) == {i \in BillRows : rows[i].bundle = sku}
PairTaken(rows, row, i) ==
  \E j \in BillRows \ {i} :
    rows[j].bundle = row.bundle /\ rows[j].component = row.component /\ row.bundle # NoSku

-----------------------------------------------------------------------------
(* Shopify's products                                                       *)

\* A shop product: names are the namespaces and keys of its metafields, items the
\* components that their values and then the bundle: tag list.
ShopProduct ==
  [id : STRING, variants : Seq([id : STRING, sku : STRING]), tags : SUBSET STRING,
   kind : STRING, names : SUBSET STRING,
   items : Seq([sku : STRING, variant : STRING, product : STRING, quantity : Int])]

\* What a catalogue may start from.
CatalogueSound ==
  /\ IsFiniteSet(Skus) /\ NoSku \notin Skus
  /\ MaxBillRows \in Nat
  /\ Listings \subseteq Seq(ShopProduct)
  /\ FirstBill \in Seq([bundle : STRING, component : STRING, quantity : Int])
  /\ \A i \in 1..Len(FirstBill) : FirstBill[i].bundle # FirstBill[i].component

\* Its tags, product type or metafields mention bundles.
IsBundleProduct(p) == "bundle" \in p.tags \/ p.kind = "bundle" \/ "bundle" \in p.names

\* The SKU that a variant's id or a product's id stands for; the last variant
\* with an id wins, the first SKU of a product.
VariantSku(products, id) ==
  LET all == FlattenSeq([i \in DOMAIN products |-> products[i].variants])
      named == SelectSeq(all, LAMBDA v : v.id = id /\ v.sku # NoSku)
  IN IF named = <<>> THEN NoSku ELSE Last(named).sku

FirstSku(p) ==
  LET named == SelectSeq(p.variants, LAMBDA v : v.sku # NoSku)
  IN IF named = <<>> THEN NoSku ELSE Head(named).sku

ProductSku(products, id) ==
  LET named == SelectSeq(products, LAMBDA p : p.id = id /\ FirstSku(p) # NoSku)
  IN IF named = <<>> THEN NoSku ELSE FirstSku(Last(named))

\* A component of a metafield names its SKU, or a variant, or a product.
ComponentSku(products, item) ==
  CASE item.sku # NoSku -> item.sku
    [] item.sku = NoSku /\ VariantSku(products, item.variant) # NoSku ->
         VariantSku(products, item.variant)
    [] OTHER -> ProductSku(products, item.product)

\* int(quantity or 1), and at least 1.
AtLeastOne(quantity) == IF quantity < 1 THEN 1 ELSE quantity

\* _parse_bundle_components: the parts that a shop product names, in turn. What has
\* no SKU is never Usable.
NamedParts(products, p) ==
  [i \in 1..Len(p.items) |-> [sku |-> ComponentSku(products, p.items[i]),
                              quantity |-> AtLeastOne(p.items[i].quantity)]]

\* Fault: the last quantity named for a part counts, not the sum.
PartsLast(products, p) ==
  LET named == NamedParts(products, p)
  IN [sku \in {named[i].sku : i \in DOMAIN named} |->
        named[Max({i \in DOMAIN named : named[i].sku = sku})].quantity]

\* The quantities by SKU, added up one part after the other.
Parts(products, p) ==
  LET named == NamedParts(products, p)
      aggregated[n \in 0..Len(named)] ==
        IF n = 0 THEN <<>>
        ELSE LET old == aggregated[n - 1]
             IN [sku \in DOMAIN old \cup {named[n].sku} |->
                   (IF sku \in DOMAIN old THEN old[sku] ELSE 0)
                     + (IF sku = named[n].sku THEN named[n].quantity ELSE 0)]
  IN aggregated[Len(named)]

VariantSkus(p) == {v.sku : v \in ToSet(p.variants)} \ {NoSku}

\* First pass: every variant with a SKU becomes a product, or updates one; of two
\* shop products with one SKU the last one wins.
Upserted(products, is) ==
  FoldLeft(LAMBDA acc, p :
             [s \in Skus |-> IF s \in VariantSkus(p)
                               THEN IF IsBundleProduct(p) THEN Bundle ELSE Plain
                               ELSE acc[s]],
           is, products)

ParentSku(p) == IF p.variants = <<>> THEN NoSku ELSE Head(p.variants).sku

\* The products whose bills the second pass replaces.
IsParent(is, p) ==
  IsBundleProduct(p) /\ ParentSku(p) # NoSku /\ is[ParentSku(p)] = Bundle

\* Components that are bundles, unknown or the parent itself are left out.
Usable(is, sku, parent) == sku \in Skus /\ is[sku] = Plain /\ sku # parent

NewRows(products, is, p) ==
  LET parts == Parts(products, p)
  IN SetToSeq({[bundle |-> ParentSku(p), component |-> sku, quantity |-> parts[sku]] :
                 sku \in {c \in DOMAIN parts : Usable(is, c, ParentSku(p))}})

\* The rows with sku's replaced by new ones, from id n on.
Replace(rows, sku, new, n) ==
  [i \in BillRows |-> IF i \in (n + 1)..(n + Len(new)) THEN new[i - n]
                      ELSE IF i \in RowsOf(rows, sku) THEN NoBillRow ELSE rows[i]]

\* Second pass, over the shop products in turn.
Rebuilt(products, is, rows, n) ==
  LET bills[k \in 0..Len(products)] ==
        IF k = 0 THEN [rows |-> rows, n |-> n]
        ELSE LET old == bills[k - 1]
                 p == products[k]
                 new == NewRows(products, is, p)
             IN IF IsParent(is, p)
                  THEN [rows |-> Replace(old.rows, ParentSku(p), new, old.n),
                        n |-> old.n + Len(new)]
                  ELSE old
  IN bills[Len(products)]

\* import_shopify_products: one transaction over all of Shopify's active products.
ImportProducts ==
  LET is == Upserted(listing, isBundle)
      bills == Rebuilt(listing, is, billRows, billed)
  IN /\ bills.n <= MaxBillRows
     /\ isBundle' = is
     /\ billRows' = bills.rows
     /\ billed' = bills.n
     /\ imported' = {i \in DOMAIN listing : IsParent(is, listing[i])}
     /\ UNCHANGED <<listing, changes, task>>

\* A products/create or products/update webhook: the product's variants, and the
\* bill of the first one is deleted and not built again.
ProductWebhook ==
  /\ \E p \in ToSet(listing) :
       /\ p.variants # <<>>
       /\ isBundle' = Upserted(<<p>>, isBundle)
       /\ billRows' = IF IsBundleProduct(p) /\ ParentSku(p) # NoSku
                        THEN Replace(billRows, ParentSku(p), <<>>, billed) ELSE billRows
       /\ imported' = {}
  /\ UNCHANGED <<listing, billed, changes, task>>

-----------------------------------------------------------------------------
(* Staff                                                                    *)

Change == changes < MaxChanges /\ changes' = changes + 1

Begins(s, t) ==
  /\ Change
  /\ task[s] = NoTask
  /\ task' = [task EXCEPT ![s] = t]
  /\ UNCHANGED <<listing, isBundle, billRows, billed, imported>>

ValidPair(bundle, component) ==
  bundle # component /\ isBundle[component] = Plain

\* PATCH /bundle-items names a bundle or a component; the rest is the copy's.
OpenLine(s, i, bundle, component) ==
  /\ billRows[i] # NoBillRow
  /\ isBundle[component] # NotListed
  /\ bundle # billRows[i].bundle => isBundle[bundle] = Bundle
  /\ LET row == [bundle |-> bundle, component |-> component,
                 quantity |-> billRows[i].quantity]
     IN /\ ValidPair(bundle, component)
        /\ ~PairTaken(billRows, row, i)
        /\ Begins(s, [what |-> "line", id |-> i, row |-> row, read |-> billRows[i]])

\* A bug: only the columns of the request are saved.
SavedFields(t) ==
  [(IF billRows[t.id] = NoBillRow THEN t.row ELSE billRows[t.id]) EXCEPT
     !.bundle = IF t.row.bundle # t.read.bundle THEN t.row.bundle ELSE @,
     !.component = IF t.row.component # t.read.component THEN t.row.component ELSE @]

SavedLine(t) == t.row

\* The tables refuse a pair twice and a product that was deleted.
LineStorable(row, i) ==
  /\ ~PairTaken(billRows, row, i)
  /\ isBundle[row.bundle] # NotListed /\ isBundle[row.component] # NotListed

\* instance.save(): a line that was deleted meanwhile comes back.
SaveLine(s) ==
  /\ task[s].what = "line"
  /\ LET row == SavedLine(task[s])
     IN billRows' = IF LineStorable(row, task[s].id)
                      THEN [billRows EXCEPT ![task[s].id] = row] ELSE billRows
  /\ task' = [task EXCEPT ![s] = NoTask]
  /\ imported' = {}
  /\ UNCHANGED <<listing, isBundle, billed, changes>>

\* POST and DELETE /bundle-items
AddLine(bundle, component) ==
  /\ Change
  /\ billed < MaxBillRows
  /\ isBundle[bundle] = Bundle
  /\ ValidPair(bundle, component)
  /\ LET row == [bundle |-> bundle, component |-> component, quantity |-> 1]
     IN /\ LineStorable(row, billed + 1)
        /\ billRows' = [billRows EXCEPT ![billed + 1] = row]
  /\ billed' = billed + 1
  /\ imported' = {}
  /\ UNCHANGED <<listing, isBundle, task>>

DropLine(i) ==
  /\ Change
  /\ billRows[i] # NoBillRow
  /\ billRows' = [billRows EXCEPT ![i] = NoBillRow]
  /\ imported' = {}
  /\ UNCHANGED <<listing, isBundle, billed, task>>

\* DELETE /products takes the lines that name the product with it.
DropProduct(sku) ==
  /\ Change
  /\ isBundle[sku] # NotListed
  /\ isBundle' = [isBundle EXCEPT ![sku] = NotListed]
  /\ billRows' = [i \in BillRows |->
       IF sku \in {billRows[i].bundle, billRows[i].component} THEN NoBillRow ELSE billRows[i]]
  /\ imported' = {}
  /\ UNCHANGED <<listing, billed, task>>

\* PATCH /products: is_bundle, and components where the request lists any,
\* validated together.
OpenProduct(s, sku, is, listed, parts) ==
  /\ isBundle[sku] # NotListed
  /\ parts # {} => listed /\ is = Bundle
  /\ \A c \in parts : isBundle[c] = Plain /\ c # sku
  /\ Begins(s, [what |-> "product", sku |-> sku, is |-> is, listed |-> listed,
                parts |-> parts])

\* ProductSerializer.update: the product's row, then its bill, in a transaction
\* that fails where a component was deleted.
SaveProduct(s) ==
  /\ task[s].what = "product"
  /\ LET t == task[s]
         new == SetToSeq({[bundle |-> t.sku, component |-> c, quantity |-> 1] : c \in t.parts})
     IN IF \A c \in t.parts : isBundle[c] # NotListed
          THEN /\ billed + Len(new) <= MaxBillRows
               /\ isBundle' = [isBundle EXCEPT ![t.sku] = t.is]
               /\ billRows' = IF t.is = Plain \/ t.listed
                                THEN Replace(billRows, t.sku, new, billed) ELSE billRows
               /\ billed' = billed + Len(new)
               /\ imported' = {}
          ELSE UNCHANGED <<isBundle, billRows, billed, imported>>
  /\ task' = [task EXCEPT ![s] = NoTask]
  /\ UNCHANGED <<listing, changes>>

CatalogueNext ==
  \/ ImportProducts \/ ProductWebhook
  \/ \E s \in Sessions : SaveLine(s) \/ SaveProduct(s)
  \/ \E s \in Sessions, i \in BillRows, b, c \in Skus : OpenLine(s, i, b, c)
  \/ \E b, c \in Skus : AddLine(b, c)
  \/ \E i \in BillRows : DropLine(i)
  \/ \E sku \in Skus : DropProduct(sku)
  \/ \E s \in Sessions, sku \in Skus :
       \E is \in {Plain, Bundle}, listed \in BOOLEAN, parts \in SUBSET Skus :
         Cardinality(parts) <= 1 /\ OpenProduct(s, sku, is, listed, parts)

CatalogueSpec == CatalogueInit /\ [][CatalogueNext]_catalogue

-----------------------------------------------------------------------------
\* "A bundle cannot contain itself", however the changes of staff overlap.
NoSelfBundle ==
  \A i \in BillRows : billRows[i] # NoBillRow => billRows[i].bundle # billRows[i].component

\* How many of part c Shopify names for shop product p.
Named(p, c) ==
  LET parts == NamedParts(listing, p)
  IN SumFunctionOnSet([i \in DOMAIN parts |-> parts[i].quantity],
                      {i \in DOMAIN parts : parts[i].sku = c})

\* After an import each imported bundle has exactly the parts that Shopify names
\* for it, in the sum of their quantities, and none of them is a bundle; of two
\* shop products for one bundle the later one counts.
ImportFaithful ==
  \A i \in imported :
    LET bundle == ParentSku(listing[i])
        last == \A j \in imported : ParentSku(listing[j]) = bundle => j <= i
        Due(c) == IF isBundle[c] = Plain THEN Named(listing[i], c) ELSE 0
        Billed(c) == SumFunctionOnSet([r \in BillRows |-> billRows[r].quantity],
                       {r \in RowsOf(billRows, bundle) : billRows[r].component = c})
    IN last => \A c \in Skus : Billed(c) = Due(c)
=============================================================================
