--------------------------- MODULE DeliveryLedger ---------------------------
(***************************************************************************)
(* What the webhook endpoint promises Shopify of each delivery: it takes   *)
(* effect at least once before it is settled and never again after.        *)
(***************************************************************************)
EXTENDS Naturals

CONSTANT Deliveries

VARIABLES
  effects,   \* how often each delivery has written the order
  settled    \* the deliveries that are over

vars == <<effects, settled>>

Init == effects = [d \in Deliveries |-> 0] /\ settled = {}

Apply(d) ==
  /\ d \notin settled
  /\ effects' = [effects EXCEPT ![d] = @ + 1]
  /\ UNCHANGED settled

Settle(d) ==
  /\ effects[d] > 0
  /\ settled' = settled \cup {d}
  /\ UNCHANGED effects

Next == \E d \in Deliveries : Apply(d) \/ Settle(d)

Spec == Init /\ [][Next]_vars
=============================================================================
