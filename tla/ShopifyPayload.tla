--------------------------- MODULE ShopifyPayload ---------------------------
(***************************************************************************)
(* How an order payload of Shopify becomes the row of an order: channel,   *)
(* payment, statuses, market and the prices of its lines                   *)
(* (src/integrations/services.py).  Amounts are whole cents, as the        *)
(* DecimalFields with two places store them.                               *)
(***************************************************************************)
EXTENDS Integers, Sequences

CONSTANTS NoPrice, NoProduct   \* a NULL sale_price; no local product

ChatTags == {"origin:sukhiba", "origin:flowcart"}

\* A payload says it comes from a till in three places.
IsPosOrder(raw) == raw.source \in {"pos", "shopify_pos"} \/ raw.identifier \/ raw.app

OrderChannel(raw) ==
  CASE IsPosOrder(raw) -> "POS"
    [] ~IsPosOrder(raw) /\ raw.tags \cap ChatTags # {} -> "WHATSAPP"
    [] OTHER -> "WEBSITE"

PaymentMethod(raw) == IF raw.cash THEN "CASH_ON_DELIVERY" ELSE "PREPAID"

\* A status of Shopify by one of the tables, and what stands for the others.
Mapped(table, status, otherwise) ==
  IF status \in DOMAIN table THEN table[status] ELSE otherwise

PaymentStatus(raw) ==
  Mapped([paid |-> "PAID", authorized |-> "AUTHORIZED",
          partially_paid |-> "PARTIALLY_PAID", refunded |-> "REFUNDED",
          partially_refunded |-> "PARTIALLY_REFUNDED", voided |-> "VOIDED",
          pending |-> "PENDING"], raw.financial, "PENDING")

FulfillmentStatus(raw) ==
  Mapped([fulfilled |-> "FULFILLED", partial |-> "PARTIALLY_FULFILLED",
          partially_fulfilled |-> "PARTIALLY_FULFILLED", restocked |-> "RESTOCKED",
          unfulfilled |-> "UNFULFILLED"], raw.fulfillment, "UNFULFILLED")

\* A Kenyan shop trades in Kenya and in shillings, whatever the payload says.
MarketAndCurrency(market, raw) ==
  IF market \in {"kenya", "kenyan", "ke"} THEN <<"Kenya", "KES">>
  ELSE <<market, IF raw.currency = "" THEN "USD" ELSE raw.currency>>

Most(a, b) == IF a > b THEN a ELSE b

RoundDown(a, b) == a \div b   \* a bug: a cent is lost

\* a / b to the nearest whole, a half to the even neighbour.
RoundHalfEven(a, b) ==
  LET q == a \div b
      r == a % b
  IN IF 2 * r > b \/ (2 * r = b /\ q % 2 = 1) THEN q + 1 ELSE q

\* What a unit costs once the line's discount is spread over its units.
SalePrice(line) ==
  IF line.discount > 0
    THEN RoundHalfEven(Most(0, line.unit * line.quantity - line.discount), line.quantity)
    ELSE NoPrice

\* total_price is computed before the price of a unit is rounded.
TotalPrice(line) ==
  IF line.discount > 0 THEN Most(0, line.unit * line.quantity - line.discount)
  ELSE line.unit * line.quantity

\* One OrderItem; products is the catalogue's products by SKU.
OrderItem(products, line) ==
  [sku |-> line.sku, label |-> line.title, quantity |-> line.quantity,
   unit |-> line.unit, sale |-> SalePrice(line), total |-> TotalPrice(line),
   product |-> IF line.sku \in DOMAIN products THEN products[line.sku] ELSE NoProduct]

\* _upsert_shopify_order_from_payload: the row and its items. Without
\* shipping_lines the shipping price is 0.
OrderFrom(market, products, raw) ==
  [items |-> [i \in 1..Len(raw.lines) |-> OrderItem(products, raw.lines[i])],
   market |-> MarketAndCurrency(market, raw), tags |-> raw.tags,
   channel |-> OrderChannel(raw), method |-> PaymentMethod(raw),
   payment |-> PaymentStatus(raw), fulfillment |-> FulfillmentStatus(raw),
   discount |-> raw.discount,
   shipping |-> IF raw.methods THEN raw.shipping ELSE 0]
=============================================================================
