---------------------------- MODULE ErpDocuments ----------------------------
(***************************************************************************)
(* The documents an order becomes in Odoo and in QuickBooks                *)
(* (src/integrations/services.py, create_odoo_sales_order to               *)
(* update_quickbooks_invoice).  creds is the credentials row of an         *)
(* integration; a document is [partner, lines], a line                     *)
(* [kind, price, quantity, amount, item].                                  *)
(***************************************************************************)
EXTENDS ShopifyPayload

CONSTANT NoItem   \* a line without product_id or ItemRef

\* The configured partner or customer; 0 where none is, and the push fails.
Partner(creds, order) ==
  CASE order.tags \cap ChatTags # {} -> creds.partners.chat
    [] order.tags \cap ChatTags = {} /\ order.channel = "POS" -> creds.partners.pos
    [] OTHER -> creds.partners.shop

UnitPriceListed(item) == item.unit            \* a bug: the discount is forgotten
UnitPrice(item) == IF item.sale # NoPrice THEN item.sale ELSE item.unit

Line(kind, price, quantity, amount, item) ==
  [kind |-> kind, price |-> price, quantity |-> quantity, amount |-> amount,
   item |-> item]

\* A discount is a line with a negative price.
DiscountLines(order, item) ==
  IF order.discount > 0
    THEN <<Line("discount", -order.discount, 1, -order.discount, item)>> ELSE <<>>

\* Shipping is billed only where an account or an item is configured for it.
ShippingLines(creds, order, item) ==
  IF order.shipping > 0 /\ creds.shipping # NoItem
    THEN <<Line("shipping", order.shipping, 1, order.shipping, item)>> ELSE <<>>

LinesOf(order, LineOf(_)) == [i \in 1..Len(order.items) |-> LineOf(order.items[i])]

-----------------------------------------------------------------------------
(* Odoo                                                                     *)

\* found: the products of Odoo that the company may use, by internal reference.
OdooProduct(creds, found, item) ==
  IF item.sku \in DOMAIN found THEN found[item.sku] ELSE creds.default

OdooLine(creds, found, item) ==
  Line("item", UnitPrice(item), item.quantity, UnitPrice(item) * item.quantity,
       OdooProduct(creds, found, item))

\* sale.order, created and updated with the same lines.
OdooSalesOrder(creds, found, order) ==
  [partner |-> Partner(creds, order),
   lines |-> LinesOf(order, LAMBDA item : OdooLine(creds, found, item))
             \o DiscountLines(order, NoItem) \o ShippingLines(creds, order, NoItem)]

\* account.move: its discount has a product, its shipping an account.
OdooInvoice(creds, found, order) ==
  [partner |-> Partner(creds, order),
   lines |-> LinesOf(order, LAMBDA item : OdooLine(creds, found, item))
             \o DiscountLines(order, creds.discount)
             \o ShippingLines(creds, order, creds.shipping)]

-----------------------------------------------------------------------------
(* QuickBooks                                                               *)

\* The last item that claims a key; an item claims its name and its SKU.
QbSkuMap(catalogue) ==
  LET keys == UNION {{catalogue[i].name, catalogue[i].sku} : i \in DOMAIN catalogue}
  IN [key \in keys \ {""} |->
        LET last == CHOOSE i \in DOMAIN catalogue :
                      /\ key \in {catalogue[i].name, catalogue[i].sku}
                      /\ \A j \in DOMAIN catalogue :
                           key \in {catalogue[j].name, catalogue[j].sku} => j <= i
        IN catalogue[last].id]

QbGroups(catalogue) == {catalogue[i].id : i \in {j \in DOMAIN catalogue : catalogue[j].group}}

QbIds(skus) == {skus[key] : key \in DOMAIN skus}

\* _resolve_qb_item_ref: the mapping, as an id and as a SKU, then the order
\* line's SKU, its name, and the default.
QbItemRef(creds, skus, mapped, item) ==
  CASE mapped \in QbIds(skus) -> mapped
    [] mapped \notin QbIds(skus) /\ mapped \in DOMAIN skus -> skus[mapped]
    [] mapped \notin QbIds(skus) \cup DOMAIN skus /\ item.sku \in DOMAIN skus ->
         skus[item.sku]
    [] mapped \notin QbIds(skus) \cup DOMAIN skus /\ item.sku \notin DOMAIN skus
         /\ item.label \in DOMAIN skus -> skus[item.label]
    [] OTHER -> creds.default

\* mappings: ProductIntegrationMapping.external_sku by product.
QbMapped(mappings, item) ==
  IF item.product \in DOMAIN mappings THEN mappings[item.product] ELSE ""

\* A group is sent without an amount: QuickBooks computes it.
QbLine(creds, catalogue, bundles, mappings, item) ==
  LET ref == QbItemRef(creds, QbSkuMap(catalogue), QbMapped(mappings, item), item)
      group == ref \in QbGroups(catalogue) \/ item.product \in bundles
  IN IF group /\ ref # NoItem
       THEN Line("group", NoPrice, item.quantity, NoPrice, ref)
       ELSE Line("item", UnitPrice(item), item.quantity, item.total, ref)

QbItemLines(creds, catalogue, bundles, mappings, order) ==
  LinesOf(order, LAMBDA item : QbLine(creds, catalogue, bundles, mappings, item))

\* create_quickbooks_sales_invoice sends no line for the discount...
QbInvoice(creds, catalogue, bundles, mappings, order) ==
  [partner |-> Partner(creds, order),
   lines |-> QbItemLines(creds, catalogue, bundles, mappings, order)
             \o ShippingLines(creds, order, creds.shipping)]

\* ...and update_quickbooks_invoice does.
QbUpdatedInvoice(creds, catalogue, bundles, mappings, order) ==
  [partner |-> Partner(creds, order),
   lines |-> QbItemLines(creds, catalogue, bundles, mappings, order)
             \o DiscountLines(order, NoItem)
             \o ShippingLines(creds, order, creds.shipping)]
=============================================================================
