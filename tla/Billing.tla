------------------------------ MODULE Billing -------------------------------
(***************************************************************************)
(* One order on its way from Shopify's payload through the database to the *)
(* documents in Odoo and QuickBooks: what the conversions of               *)
(* ShopifyPayload and ErpDocuments make of each other's results.           *)
(***************************************************************************)
EXTENDS ErpDocuments, Functions

CONSTANTS
  Payloads,      \* orders that Shopify may send
  Market,        \* the market of the shop's integration
  Products,      \* the local catalogue: product by SKU
  Bundles,       \* the products marked as bundles
  Mappings,      \* external_sku by product: the choices of a catalogue manager
  Odoo, Found,   \* Odoo's credentials row and its products by reference
  Qb, QbCatalogue  \* QuickBooks' credentials row and its active items

VARIABLES payload, order, mapping, saleOrder, odooInvoice, qbInvoice

bill == <<payload, order, mapping, saleOrder, odooInvoice, qbInvoice>>

None == [lines |-> <<>>, stage |-> "none"]
As(stage, document) == [lines |-> document.lines, partner |-> document.partner,
                        stage |-> stage]

\* What Shopify sends: amounts that are not negative, and line quantities of
\* at least 1, for which `int(line.get("quantity") or 1)` stands in.
PayloadsSound ==
  \A raw \in Payloads :
    /\ Len(raw.lines) \in Nat /\ raw.discount \in Nat /\ raw.shipping \in Nat
    /\ \A i \in 1..Len(raw.lines) :
         LET line == raw.lines[i]
         IN line.unit \in Nat /\ line.discount \in Nat /\ line.quantity \in Nat \ {0}

BillInit ==
  /\ payload \in Payloads /\ mapping \in Mappings
  /\ order = None
  /\ saleOrder = None /\ odooInvoice = None /\ qbInvoice = None

Upsert ==
  /\ order = None
  /\ order' = OrderFrom(Market, Products, payload)
  /\ UNCHANGED <<payload, mapping, saleOrder, odooInvoice, qbInvoice>>

PushToOdoo ==
  /\ order # None /\ saleOrder = None
  /\ Partner(Odoo, order) # 0
  /\ saleOrder' = As("created", OdooSalesOrder(Odoo, Found, order))
  /\ odooInvoice' = As("created", OdooInvoice(Odoo, Found, order))
  /\ UNCHANGED <<payload, order, mapping, qbInvoice>>

PushToQuickBooks ==
  /\ order # None /\ qbInvoice = None
  /\ Partner(Qb, order) # 0
  /\ qbInvoice' = As("created", QbInvoice(Qb, QbCatalogue, Bundles, mapping, order))
  /\ UNCHANGED <<payload, order, mapping, saleOrder, odooInvoice>>

UpdateQuickBooks ==
  /\ qbInvoice.stage = "created"
  /\ qbInvoice' = As("updated", QbUpdatedInvoice(Qb, QbCatalogue, Bundles, mapping, order))
  /\ UNCHANGED <<payload, order, mapping, saleOrder, odooInvoice>>

BillNext == Upsert \/ PushToOdoo \/ PushToQuickBooks \/ UpdateQuickBooks

BillSpec == BillInit /\ [][BillNext]_bill

-----------------------------------------------------------------------------
Total(lines) == SumFunction([i \in DOMAIN lines |-> lines[i].amount])

Whole(lines) == \A i \in DOMAIN lines : lines[i].kind # "group"

\* How far the price of a unit, rounded to a cent, can carry a document of
\* Odoo away from the totals of the lines: half a cent for each unit.
Slack == SumFunction([i \in DOMAIN order.items |-> order.items[i].quantity])

Distance(a, b) == IF a > b THEN a - b ELSE b - a

\* What a platform should ask for: the lines' totals, less the order's discount,
\* plus shipping where it is billed.
Due(creds) ==
  SumFunction([i \in DOMAIN order.items |-> order.items[i].total]) - order.discount
  + IF creds.shipping = NoItem THEN 0 ELSE order.shipping

\* The sales order and the invoice in Odoo ask for the same money, and that is
\* the order's up to half a cent a unit.
OdooBillsOrder ==
  saleOrder # None =>
    /\ Total(saleOrder.lines) = Total(odooInvoice.lines)
    /\ 2 * Distance(Total(saleOrder.lines), Due(Odoo)) <= Slack

\* QuickBooks asks for the order's money to the cent once its invoice was
\* updated; an invoice just created asks for the discount too much.
QuickBooksBillsOrder ==
  qbInvoice # None /\ Whole(qbInvoice.lines) =>
    Total(qbInvoice.lines) =
      Due(Qb) + IF qbInvoice.stage = "created" THEN order.discount ELSE 0

\* All documents of an order ask for the order's money.
MoneyAgrees == OdooBillsOrder /\ QuickBooksBillsOrder

\* An amount is its price times its quantity up to half a cent a unit, and no
\* line asks for less than nothing but the discount.
AmountsFollow ==
  \A i \in DOMAIN qbInvoice.lines :
    LET l == qbInvoice.lines[i]
    IN l.kind # "group" =>
         /\ 2 * Distance(l.amount, l.price * l.quantity) <= l.quantity
         /\ l.amount >= 0 \/ l.kind = "discount"

\* Every reference sent names an active item of QuickBooks or the configured
\* default, and a mapping that names one wins over what the line says.
ReferencesActive ==
  \A i \in DOMAIN qbInvoice.lines :
    LET l == qbInvoice.lines[i]
        skus == QbSkuMap(QbCatalogue)
    IN l.kind \in {"item", "group"} =>
         /\ l.item \in QbIds(skus) \cup {Qb.default}
         /\ QbMapped(mapping, order.items[i]) \in QbIds(skus) =>
              l.item = QbMapped(mapping, order.items[i])

\* The documents go to the partner of the order's channel, except that a tagged
\* order from a till goes to the one of the chats.
PartnerFollowsChannel ==
  saleOrder # None /\ ~(order.channel = "POS" /\ order.tags \cap ChatTags # {}) =>
    saleOrder.partner = CASE order.channel = "POS" -> Odoo.partners.pos
                          [] order.channel = "WHATSAPP" -> Odoo.partners.chat
                          [] OTHER -> Odoo.partners.shop

\* Each line of a QuickBooks invoice has its price and its item, and the
\* documents in Odoo their customer.
LinesRight == AmountsFollow /\ ReferencesActive /\ PartnerFollowsChannel
=============================================================================
