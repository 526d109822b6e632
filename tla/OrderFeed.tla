----------------------------- MODULE OrderFeed ------------------------------
(***************************************************************************)
(* How one Shopify order reaches the database: webhook deliveries that     *)
(* Shopify sends again until they are answered with success, imports of a  *)
(* whole period, and staff who edit the order meanwhile                    *)
(* (src/integrations/services.py, src/integrations/views.py,               *)
(* src/orders/serializers.py).                                             *)
(*                                                                         *)
(* Delivery d carries version d of the order.  A handler commits after     *)
(* each statement, so the handlers of two deliveries, and two handlers of  *)
(* one, interleave at every step.  An import runs in one transaction that  *)
(* holds the order's row from its first statement on, and whoever touches  *)
(* the order or its lines waits for it: it takes effect when it commits.   *)
(***************************************************************************)
EXTENDS Integers, FiniteSets

CONSTANTS
  Workers,       \* the processes that serve requests
  MaxVersions,   \* bound: versions of the order that Shopify announces
  NumLines,      \* lines of each version
  Others,        \* who else writes the order: "import", "edit"
  MaxFaults      \* bound: failures, deaths and answers that come too late

ASSUME ConstantsAssumption ==
  /\ MaxVersions \in Nat \ {0} /\ NumLines \in Nat \ {0} /\ MaxFaults \in Nat
  /\ Others \subseteq {"import", "edit"}

Deliveries == 1..MaxVersions
Edited == MaxVersions + 1            \* what staff made of the order
Versions == 1..Edited
Lines == Versions \X (1..NumLines)
Absent == 0

VARIABLES
  order,      \* the version in the order's row, or Absent
  items,      \* how many OrderItem rows there are of each line
  delivery,   \* ShopifyWebhookDelivery.status, or "none"
  pc, job,    \* where each worker is, and the delivery or the kind of request
  writes,     \* the version the worker is writing
  created,    \* what update_or_create told it
  line,       \* the next line it creates
  announced, answered,   \* Shopify: versions announced, deliveries answered
  effects, pushes, undone, faults, alone, intact   \* history, for the properties

shopify == <<announced, answered>>
local   == <<pc, job, writes, created, line>>
past    == <<effects, pushes, undone, faults, alone, intact>>
vars    == <<order, items, delivery, local, shopify, past>>

NoItems == [l \in Lines |-> 0]
LinesOf(v) == [l \in Lines |-> IF l[1] = v THEN 1 ELSE 0]

Init ==
  /\ order = Absent /\ items = NoItems
  /\ delivery = [d \in Deliveries |-> "none"]
  /\ pc = [k \in Workers |-> "idle"] /\ job = [k \in Workers |-> "none"]
  /\ writes = [k \in Workers |-> Absent] /\ created = [k \in Workers |-> FALSE]
  /\ line = [k \in Workers |-> 1]
  /\ announced = 0 /\ answered = {}
  /\ effects = [d \in Deliveries |-> 0]
  /\ pushes = 0 /\ undone = 0 /\ faults = 0
  /\ alone = [k \in Workers |-> FALSE] /\ intact = TRUE

Goto(k, where) == pc' = [pc EXCEPT ![k] = where]

\* The worker's request is over.
Leave(k) ==
  /\ Goto(k, "idle")
  /\ job' = [job EXCEPT ![k] = "none"]
  /\ writes' = [writes EXCEPT ![k] = Absent]
  /\ created' = [created EXCEPT ![k] = FALSE]
  /\ line' = [line EXCEPT ![k] = 1]
  /\ alone' = [alone EXCEPT ![k] = FALSE]

Delivering(k) == job[k] = "webhook"
Rewriting == {k \in Workers : pc[k] \in {"wipe", "lines"}}

\* Worker k starts to replace the order and its lines: it does so undisturbed
\* until somebody else starts too.
StartRewrite(k) ==
  /\ alone' = [j \in Workers |-> j = k /\ Rewriting \ {k} = {}]
  /\ intact' = FALSE

-----------------------------------------------------------------------------
(* Shopify                                                                  *)

\* The order is placed or changed in the shop.
Announce ==
  /\ announced < MaxVersions
  /\ announced' = announced + 1
  /\ UNCHANGED <<order, items, delivery, local, answered, past>>

ClaimableAlways(d) == TRUE                    \* a bug: no guard against duplicates
ClaimableNew(d) == delivery[d] = "none"       \* a bug: no second attempt
Claimable(d) == delivery[d] # "PROCESSED"

\* A delivery is sent, or sent again while nobody answered it in time, and
\* claimed: only one that is already PROCESSED is recognised as a duplicate.
Claim(k, d) ==
  /\ pc[k] = "idle"
  /\ d <= announced /\ d \notin answered
  /\ \/ /\ delivery[d] = "PROCESSED"
        /\ answered' = answered \cup {d}
        /\ UNCHANGED <<delivery, local>>
     \/ /\ Claimable(d)
        /\ delivery' = [delivery EXCEPT ![d] = "RECEIVED"]
        /\ job' = [job EXCEPT ![k] = "webhook"]
        /\ writes' = [writes EXCEPT ![k] = d]
        /\ Goto(k, "upsert")
        /\ UNCHANGED <<created, line, answered>>
  /\ UNCHANGED <<order, items, announced, past>>

-----------------------------------------------------------------------------
(* process_shopify_webhook_event                                            *)

\* Order.objects.update_or_create: every column, whatever version was there.
Upsert(k) ==
  /\ pc[k] = "upsert"
  /\ order' = writes[k]
  /\ created' = [created EXCEPT ![k] = order = Absent]
  /\ effects' = [effects EXCEPT ![writes[k]] = @ + 1]
  /\ StartRewrite(k)
  /\ Goto(k, "wipe")
  /\ UNCHANGED <<items, delivery, job, writes, line, shopify, pushes, undone, faults>>

\* A bug: the lines of the version before stay.
WipeNothing(k) ==
  /\ pc[k] = "wipe"
  /\ Goto(k, "lines")
  /\ UNCHANGED <<order, items, delivery, job, writes, created, line, shopify, past>>

\* order.items.all().delete()
Wipe(k) ==
  /\ pc[k] = "wipe"
  /\ items' = NoItems
  /\ Goto(k, "lines")
  /\ UNCHANGED <<order, delivery, job, writes, created, line, shopify, past>>

LastLineMissed(k) == line[k] > NumLines       \* a bug: one line too many
LastLine(k) == line[k] = NumLines

\* OrderItem.objects.create, one line after the other. The edit of a member of
\* staff ends there.
CreateLine(k) ==
  /\ pc[k] = "lines"
  /\ items' = [items EXCEPT ![<<writes[k], line[k]>>] = @ + 1]
  /\ IF ~LastLine(k)
       THEN /\ line' = [line EXCEPT ![k] = @ + 1]
            /\ UNCHANGED <<pc, job, writes, created, alone, intact>>
       ELSE /\ intact' = alone[k]
            /\ IF Delivering(k)
                 THEN /\ Goto(k, "push") /\ line' = [line EXCEPT ![k] = 1]
                      /\ alone' = [alone EXCEPT ![k] = FALSE]
                      /\ UNCHANGED <<job, writes, created>>
                 ELSE Leave(k)
  /\ UNCHANGED <<order, delivery, shopify, effects, pushes, undone, faults>>

IsNewAlways(k) == TRUE                        \* a bug: updates are pushed as new
IsNew(k) == created[k]

\* Only the delivery that created the order pushes it to the ERP platforms.
Push(k) ==
  /\ pc[k] = "push"
  /\ pushes' = IF IsNew(k) THEN pushes + 1 ELSE pushes
  /\ created' = [created EXCEPT ![k] = FALSE]
  /\ Goto(k, "mark")
  /\ UNCHANGED <<order, items, delivery, job, writes, line, shopify, effects,
                 undone, faults, alone, intact>>

\* The delivery is marked PROCESSED and answered; the answer may come too late.
Mark(k) ==
  /\ pc[k] = "mark"
  /\ delivery' = [delivery EXCEPT ![writes[k]] = "PROCESSED"]
  /\ \/ answered' = answered \cup {writes[k]} /\ UNCHANGED faults
     \/ faults < MaxFaults /\ faults' = faults + 1 /\ UNCHANGED answered
  /\ Leave(k)
  /\ UNCHANGED <<order, items, announced, effects, pushes, undone, intact>>

\* An exception outside the push, whose own are caught: the delivery is marked
\* FAILED, whatever another handler of it has done by now, and the answer is an
\* error.
Fail(k) ==
  /\ Delivering(k) /\ pc[k] # "push" /\ faults < MaxFaults
  /\ faults' = faults + 1
  /\ delivery' = [delivery EXCEPT ![writes[k]] = "FAILED"]
  /\ Leave(k)
  /\ UNCHANGED <<order, items, shopify, effects, pushes, undone, intact>>

-----------------------------------------------------------------------------
(* Imports and edits                                                        *)

\* sync: the order is fetched as Shopify shows it at that moment...
Fetch(k) ==
  /\ pc[k] = "idle" /\ "import" \in Others
  /\ announced > 0
  /\ job' = [job EXCEPT ![k] = "import"]
  /\ writes' = [writes EXCEPT ![k] = announced]
  /\ Goto(k, "import")
  /\ UNCHANGED <<order, items, delivery, created, line, shopify, past>>

\* ...and written in one transaction; a failure undoes all of it, but not what a
\* new order's push did to the ERP platforms.
Import(k) ==
  /\ pc[k] = "import"
  /\ LET new == order = Absent
         push == IF new THEN pushes + 1 ELSE pushes
     IN \/ /\ order' = writes[k] /\ items' = LinesOf(writes[k])
           /\ pushes' = push
           /\ intact' = (Rewriting = {})
           /\ pc' = [pc EXCEPT ![k] = "idle"]
           /\ alone' = [j \in Workers |-> FALSE]
           /\ UNCHANGED <<undone, faults>>
        \/ /\ faults < MaxFaults /\ faults' = faults + 1
           /\ \/ UNCHANGED <<pushes, undone>>
              \/ new /\ pushes' = push /\ undone' = undone + 1
           /\ pc' = [pc EXCEPT ![k] = "idle"]
           /\ UNCHANGED <<order, items, intact, alone>>
  /\ job' = [job EXCEPT ![k] = "none"]
  /\ writes' = [writes EXCEPT ![k] = Absent]
  /\ UNCHANGED <<delivery, created, line, shopify, effects>>

\* PATCH /orders with items: the order is saved, then its lines are replaced.
Edit(k) ==
  /\ pc[k] = "idle" /\ "edit" \in Others
  /\ order # Absent
  /\ job' = [job EXCEPT ![k] = "edit"]
  /\ writes' = [writes EXCEPT ![k] = Edited]
  /\ order' = Edited
  /\ StartRewrite(k)
  /\ Goto(k, "wipe")
  /\ UNCHANGED <<items, delivery, created, line, shopify, effects, pushes, undone, faults>>

\* gunicorn kills a worker that takes too long.
Die(k) ==
  /\ pc[k] # "idle" /\ faults < MaxFaults
  /\ faults' = faults + 1
  /\ Leave(k)
  /\ UNCHANGED <<order, items, delivery, shopify, effects, pushes, undone, intact>>

Step(k) ==
  Upsert(k) \/ Wipe(k) \/ CreateLine(k) \/ Push(k) \/ Mark(k) \/ Import(k)

Send(d) == \E k \in Workers : Claim(k, d)

Next ==
  \/ Announce
  \/ \E d \in Deliveries : Send(d)
  \/ \E k \in Workers : Step(k) \/ Fail(k) \/ Fetch(k) \/ Edit(k) \/ Die(k)

Spec == Init /\ [][Next]_vars

\* A request that is being served goes on, and Shopify sends a delivery again as
\* long as it gets no successful answer.
FairSpec ==
  /\ Spec
  /\ \A k \in Workers : WF_vars(Step(k))
  /\ \A d \in Deliveries : SF_vars(Send(d))

-----------------------------------------------------------------------------
\* Every variable stays in its range.
TypeOK ==
  /\ order \in {Absent} \cup Versions /\ items \in [Lines -> Nat]
  /\ delivery \in [Deliveries -> {"none", "RECEIVED", "PROCESSED", "FAILED"}]
  /\ pc \in [Workers -> {"idle", "upsert", "wipe", "lines", "push", "mark", "import"}]
  /\ job \in [Workers -> {"none", "webhook", "import", "edit"}]
  /\ writes \in [Workers -> {Absent} \cup Versions]
  /\ created \in [Workers -> BOOLEAN] /\ line \in [Workers -> 1..NumLines]
  /\ announced \in 0..MaxVersions /\ answered \subseteq 1..announced
  /\ effects \in [Deliveries -> Nat] /\ pushes \in Nat /\ undone \in Nat
  /\ faults \in 0..MaxFaults
  /\ alone \in [Workers -> BOOLEAN] /\ intact \in BOOLEAN

\* Once the latest rewrite of the order ran to its end and nobody else wrote
\* meanwhile, the lines are those of the version in the row, each once.
LinesWhole ==
  intact => IF order = Absent THEN items = NoItems ELSE items = LinesOf(order)

\* An order is pushed as new at most once, except after an import that was
\* rolled back once it had pushed it.
PushedOnce == pushes <= 1 + undone

\* The deliveries that are over: PROCESSED, and no handler of them at work.
Settled ==
  {d \in Deliveries :
     /\ delivery[d] = "PROCESSED"
     /\ \A k \in Workers : Delivering(k) => writes[k] # d}

Ledger == INSTANCE DeliveryLedger WITH Deliveries <- Deliveries,
                                       effects <- effects, settled <- Settled

\* README.md:63, "Webhook idempotency": a delivery that is settled was applied
\* and is never applied again nor reopened, however often it is sent.
KeepsLedger == Ledger!Spec

\* Every version that Shopify announces is acknowledged in the end.
EveryDeliveryAnswered == \A d \in Deliveries : announced >= d ~> d \in answered
=============================================================================
