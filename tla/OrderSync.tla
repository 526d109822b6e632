----------------------------- MODULE OrderSync -----------------------------
(***************************************************************************)
(* How one order gets its documents in Odoo or in QuickBooks, and how they *)
(* follow it: pushed by the webhook or the import that created it, updated *)
(* by later webhooks and imports, pushed by hand where that failed, while  *)
(* staff move the order on and edit it (src/integrations/services.py,      *)
(* auto_sync_order_to_erp and auto_update_order_in_erp;                    *)
(* src/orders/views.py).                                                   *)
(*                                                                         *)
(* A request works on its own copy of the row and each of its saves writes *)
(* the columns it names, or all of them.  An import is one transaction:    *)
(* it holds the row it has written, and others see what was there before.  *)
(* The lines of an order change with its row here; OrderFeed takes that    *)
(* step apart.                                                             *)
(***************************************************************************)
EXTENDS Integers, Sequences, FiniteSets

CONSTANTS
  Workers,        \* the processes that serve requests
  Platforms,      \* what the market's integration may be: "odoo", "quickbooks"
  MaxVersions,    \* bound: webhooks, imports and edits of the order
  MaxMoves,       \* bound: times that staff move the order on or edit it
  EditStatuses,   \* bound: the statuses that edits give the order
  MaxFaults,      \* bound: lost answers, refusals, deaths and rollbacks
  MaxDocuments    \* bound: documents of one kind, for pushes by hand

Statuses == {"PENDING", "CONFIRMED", "PROCESSING", "SHIPPED", "DELIVERED", "CANCELLED",
             "REFUNDED"}

ASSUME ConstantsAssumption ==
  /\ Platforms \subseteq {"odoo", "quickbooks"} /\ Platforms # {}
  /\ MaxVersions \in Nat \ {0} /\ MaxMoves \in Nat
  /\ EditStatuses \subseteq Statuses /\ MaxFaults \in Nat /\ MaxDocuments \in Nat \ {0}
  /\ "no one" \notin Workers

Kinds == {"so", "inv", "qb"}      \* sales order and invoice in Odoo; QuickBooks
Absent == 0
Tries == 2                        \* max_retries of both clients
NoOne == "no one"
NoIds == [t \in Kinds |-> Absent]
NoLog == [t \in Kinds |-> "none"]

VARIABLES
  platform,   \* the integration of the order's market
  row,        \* the order: [version, status, ids, sync]; version Absent: no row
  log,        \* OrderSyncLog.status of the last attempt for each kind
  docs,       \* documents on the platform: [head, lines, posted, token] by id
  txn,        \* the worker whose import has not committed, or NoOne
  base,       \* [row, log] as committed, while an import is open
  pc, job, copy, todo, tries, got, token,    \* each worker's request
  versions, moves, faults, died, clash,      \* bounds, and what happened so far
  drift       \* edited, or an import undone, since the last webhook or import

open   == <<txn, base>>
local  == <<pc, job, copy, todo, tries, got, token>>
past   == <<versions, moves, faults, died, clash, drift>>
vars   == <<platform, row, log, docs, open, local, past>>

NoRow == [version |-> Absent, status |-> "none", ids |-> NoIds, sync |-> "none"]
NoBase == [row |-> NoRow, log |-> NoLog]

Init ==
  /\ platform \in Platforms
  /\ row = NoRow /\ log = NoLog /\ docs = [t \in Kinds |-> <<>>]
  /\ txn = NoOne /\ base = NoBase
  /\ pc = [k \in Workers |-> "idle"] /\ job = [k \in Workers |-> "none"]
  /\ copy = [k \in Workers |-> NoRow] /\ todo = [k \in Workers |-> <<>>]
  /\ tries = [k \in Workers |-> 0] /\ got = [k \in Workers |-> Absent]
  /\ token = [k \in Workers |-> 0]
  /\ versions = 0 /\ moves = 0 /\ faults = 0
  /\ died = FALSE /\ clash = FALSE /\ drift = FALSE

\* The row as worker k reads it: what an import writes is its own until it
\* commits.
Seen(k) == IF txn \in {NoOne, k} THEN row ELSE base.row

\* An import keeps the order's row locked: others wait to write it, and to log
\* an attempt, which refers to it.
Free(k) == txn \in {NoOne, k}

Targets == IF platform = "odoo" THEN <<"so", "inv">> ELSE <<"qb">>
Kind(k) == Head(todo[k])

\* Worker k takes up a request with its own copy of the row.
Take(k, what, where, order, kinds) ==
  /\ pc[k] = "idle"
  /\ pc' = [pc EXCEPT ![k] = where]
  /\ job' = [job EXCEPT ![k] = what]
  /\ copy' = [copy EXCEPT ![k] = order]
  /\ todo' = [todo EXCEPT ![k] = kinds]
  /\ clash' = (clash \/ \E j \in Workers \ {k} : pc[j] # "idle")
  /\ UNCHANGED <<tries, got, token, platform, log, docs, faults, died>>

\* What its registers hold once a request is over.
Leave(k) ==
  /\ pc' = [pc EXCEPT ![k] = "idle"]
  /\ job' = [job EXCEPT ![k] = "none"]
  /\ copy' = [copy EXCEPT ![k] = NoRow]
  /\ todo' = [todo EXCEPT ![k] = <<>>]
  /\ tries' = [tries EXCEPT ![k] = 0]
  /\ got' = [got EXCEPT ![k] = Absent]
  /\ token' = [token EXCEPT ![k] = 0]

\* The ERP part of a request is over; an import has its commit before it.
Over(k) ==
  IF txn = k
    THEN pc' = [pc EXCEPT ![k] = "commit"]
         /\ UNCHANGED <<job, copy, todo, tries, got, token>>
    ELSE Leave(k)

Goto(k, where) ==
  /\ pc' = [pc EXCEPT ![k] = where]
  /\ UNCHANGED <<job, copy, todo, tries, got, token>>

Fault == faults < MaxFaults /\ faults' = faults + 1

-----------------------------------------------------------------------------
(* Where requests come from                                                 *)

\* The kinds that have a document, in the order they are updated.
IfAny(order, t) == IF order.ids[t] = Absent THEN <<>> ELSE <<t>>
Recorded(order) == IF platform = "odoo" THEN IfAny(order, "so") \o IfAny(order, "inv")
                                        ELSE IfAny(order, "qb")

\* A webhook or an import brings the next version: the row is created or every
\* column that comes from Shopify is overwritten, its status included, and the
\* documents are created, or updated where there are some.
Upsert(k) ==
  /\ txn = NoOne /\ versions < MaxVersions
  /\ versions' = versions + 1
  /\ drift' = FALSE
  /\ LET order == [row EXCEPT !.version = versions + 1, !.status = "CONFIRMED"]
     IN /\ row' = order
        /\ IF row.version = Absent
             THEN Take(k, "sync", "begin", order, Targets)
             ELSE Take(k, "update",
                       IF Recorded(order) = <<>> THEN "leave" ELSE "begin",
                       order, Recorded(order))
  /\ UNCHANGED moves

Webhook(k) == Upsert(k) /\ UNCHANGED open

\* An import does it in its transaction, over new and existing orders.
Import(k) ==
  /\ Upsert(k)
  /\ txn' = k /\ base' = [row |-> row, log |-> log]

Visible(k) == Seen(k).version # Absent

PushableAlways(k, t) == TRUE                  \* a bug: no duplicate guard
Pushable(k, t) == Seen(k).ids[t] = Absent

\* A document is asked for by hand, where the row has none of its kind.
Push(k, t) ==
  /\ Visible(k)
  /\ \E i \in DOMAIN Targets : Targets[i] = t
  /\ Pushable(k, t)
  /\ Len(docs[t]) < MaxDocuments
  /\ Take(k, "push", "call", Seen(k), <<t>>)
  /\ UNCHANGED <<row, open, versions, moves, drift>>

PushToQuickBooks(k) == Push(k, "qb")
CreateOdooSo(k) == Push(k, "so")
CreateOdooInvoice(k) == Push(k, "inv")

\* ship, deliver, cancel: what they make of the status they read.
Moves(status) ==
  CASE status \in {"PENDING", "CONFIRMED"} -> {"SHIPPED", "CANCELLED"}
    [] status = "SHIPPED" -> {"DELIVERED"}
    [] status = "DELIVERED" -> {}
    [] OTHER -> {"CANCELLED"}

Move(k) ==
  /\ Visible(k) /\ moves < MaxMoves
  /\ moves' = moves + 1
  /\ \E status \in Moves(Seen(k).status) :
       Take(k, "move", "save", [Seen(k) EXCEPT !.status = status], <<>>)
  /\ UNCHANGED <<row, open, versions, drift>>

\* PATCH and PUT: staff give the order columns and lines of their own, its
\* status included; nothing tells its documents.
Edit(k) ==
  /\ Visible(k) /\ versions < MaxVersions /\ moves < MaxMoves
  /\ versions' = versions + 1 /\ moves' = moves + 1
  /\ drift' = TRUE
  /\ \E status \in EditStatuses :
       Take(k, "edit", "save",
            [Seen(k) EXCEPT !.version = versions + 1, !.status = status], <<>>)
  /\ UNCHANGED <<row, open>>

-----------------------------------------------------------------------------
(* The steps of a request                                                   *)

\* order.save(): every column, as the copy has it.
Save(k) ==
  /\ pc[k] = "save" /\ Free(k)
  /\ row' = copy[k]
  /\ Leave(k)
  /\ UNCHANGED <<platform, log, docs, open, past>>

\* Nothing to update, or the answer to send.
End(k) ==
  /\ pc[k] = "leave"
  /\ Over(k)
  /\ UNCHANGED <<platform, row, log, docs, open, past>>

NextStep(k, t) == IF job[k] = "update" /\ t = "qb" THEN "read" ELSE "call"

\* The sync status is PENDING while the documents are written.
Begin(k) ==
  /\ pc[k] = "begin" /\ Free(k)
  /\ row' = [row EXCEPT !.sync = "PENDING"]
  /\ Goto(k, NextStep(k, Kind(k)))
  /\ UNCHANGED <<platform, log, docs, open, past>>

\* A document is built from the copy and from the lines as they are now.
Document(k) ==
  [head |-> copy[k].version, lines |-> Seen(k).version, posted |-> FALSE, token |-> 0]

\* The call is refused, or its last try brings no answer.
Refused(k) == Fault /\ Goto(k, "fail") /\ UNCHANGED docs

\* The answer is lost, done is what happened on the platform: the call is
\* tried again.
Lost(k, done) ==
  /\ Fault
  /\ docs' = done
  /\ IF tries[k] + 1 < Tries
       THEN /\ tries' = [tries EXCEPT ![k] = @ + 1]
            /\ UNCHANGED <<pc, job, copy, todo, got, token>>
       ELSE Goto(k, "fail")

\* A bug: the next call has fewer tries left.
AnsweredTired(k, id, where) ==
  /\ got' = [got EXCEPT ![k] = id]
  /\ token' = [token EXCEPT ![k] = 0]
  /\ pc' = [pc EXCEPT ![k] = where]
  /\ UNCHANGED <<job, copy, todo, tries, faults>>

\* The platform answers with the document's id.
Answered(k, id, where) ==
  /\ got' = [got EXCEPT ![k] = id]
  /\ tries' = [tries EXCEPT ![k] = 0]
  /\ token' = [token EXCEPT ![k] = 0]
  /\ pc' = [pc EXCEPT ![k] = where]
  /\ UNCHANGED <<job, copy, todo, faults>>

\* sale.order, account.move or invoice create.
Create(k) ==
  /\ pc[k] = "call" /\ job[k] \in {"sync", "push"}
  /\ LET t == Kind(k)
         done == [docs EXCEPT ![t] = Append(@, Document(k))]
     IN \/ /\ docs' = done
           /\ Answered(k, Len(docs[t]) + 1, IF t = "inv" THEN "post" ELSE "record")
        \/ Lost(k, done)
        \/ Refused(k)
  /\ UNCHANGED <<platform, row, log, open, versions, moves, died, clash, drift>>

\* The invoice that was created, posted.
PostedDocs(k) == [docs EXCEPT !["inv"][got[k]].posted = TRUE]

\* A bug: an invoice that could not be posted is recorded all the same.
PostLeniently(k) ==
  /\ pc[k] = "post"
  /\ \/ docs' = PostedDocs(k) /\ Answered(k, got[k], "record")
     \/ Fault /\ UNCHANGED docs /\ Goto(k, "record")
  /\ UNCHANGED <<platform, row, log, open, versions, moves, died, clash, drift>>

\* action_post: the new invoice leaves its draft state; its id is forgotten when
\* that fails, the refusal to post what a lost try has posted included.
Post(k) ==
  /\ pc[k] = "post"
  /\ \/ docs' = PostedDocs(k) /\ Answered(k, got[k], "record")
     \/ docs["inv"][got[k]].posted /\ Goto(k, "fail") /\ UNCHANGED <<docs, faults>>
     \/ Lost(k, PostedDocs(k))
     \/ Refused(k)
  /\ UNCHANGED <<platform, row, log, open, versions, moves, died, clash, drift>>

\* update_quickbooks_invoice reads the invoice for its SyncToken.
ReadToken(k) ==
  /\ pc[k] = "read"
  /\ token' = [token EXCEPT ![k] = docs["qb"][copy[k].ids["qb"]].token]
  /\ pc' = [pc EXCEPT ![k] = "call"]
  /\ UNCHANGED <<job, copy, todo, tries, got, platform, row, log, docs, open, past>>

\* The platforms' own guards: Odoo changes drafts only, QuickBooks the version
\* that was read.
Writable(k, t, doc) ==
  /\ t = "inv" => ~doc.posted
  /\ t = "qb" => doc.token = token[k]

\* write, or the POST of an invoice that exists.
Rewrite(k) ==
  /\ pc[k] = "call" /\ job[k] = "update"
  /\ LET t == Kind(k)
         id == copy[k].ids[t]
         done == [docs EXCEPT ![t][id] =
                    [Document(k) EXCEPT !.posted = docs[t][id].posted,
                       !.token = IF t = "qb" THEN token[k] + 1 ELSE 0]]
     IN IF Writable(k, t, docs[t][id])
          THEN \/ /\ docs' = done
                  /\ Answered(k, id, "record")
               \/ Lost(k, done)
               \/ Refused(k)
          ELSE Goto(k, "fail") /\ UNCHANGED <<docs, faults>>
  /\ UNCHANGED <<platform, row, log, open, versions, moves, died, clash, drift>>

\* save(update_fields=...): the ids of kinds as the copy has them.
WithIds(kinds, ids) ==
  [t \in Kinds |-> IF t \in kinds THEN ids[t] ELSE row.ids[t]]

SavedIds(k) ==
  CASE job[k] = "sync" -> IF Kind(k) = "qb" THEN {"qb"} ELSE {"so", "inv"}
    [] job[k] = "push" -> {Kind(k)}
    [] OTHER -> {}

RecordIds(k) == WithIds(SavedIds(k), [copy[k].ids EXCEPT ![Kind(k)] = got[k]])

\* The attempt is logged; the ids of a new order's documents are saved together
\* at the end.
Record(k) ==
  /\ pc[k] = "record" /\ Free(k)
  /\ log' = [log EXCEPT ![Kind(k)] = "SUCCESS"]
  /\ IF Tail(todo[k]) # <<>>
       THEN /\ copy' = [copy EXCEPT ![k].ids[Kind(k)] = got[k]]
            /\ todo' = [todo EXCEPT ![k] = Tail(@)]
            /\ got' = [got EXCEPT ![k] = Absent]
            /\ pc' = [pc EXCEPT ![k] = "call"]
            /\ UNCHANGED <<row, job, tries, token>>
       ELSE /\ row' = [row EXCEPT !.sync = "SUCCESS", !.ids = RecordIds(k)]
            /\ Over(k)
  /\ UNCHANGED <<platform, docs, open, past>>

\* What a failed first push still saves: the sales order's id, and with the
\* invoice's attempt the invoice's.
KeptIds(k) ==
  CASE job[k] = "sync" /\ Kind(k) = "so" -> {"so"}
    [] job[k] = "sync" /\ Kind(k) = "inv" -> {"so", "inv"}
    [] OTHER -> {}

FailQuietly(k) ==                             \* a bug: the status stays PENDING
  /\ pc[k] = "fail" /\ Free(k)
  /\ log' = [log EXCEPT ![Kind(k)] = "FAILED"]
  /\ row' = [row EXCEPT !.ids = WithIds(KeptIds(k), copy[k].ids)]
  /\ Over(k)
  /\ UNCHANGED <<platform, docs, open, past>>

\* A bug: a failed attempt leaves no trace and the status says SUCCESS.
FailAsSuccess(k) ==
  /\ pc[k] = "fail" /\ Free(k)
  /\ row' = [row EXCEPT !.sync = "SUCCESS", !.ids = WithIds(KeptIds(k), copy[k].ids)]
  /\ Over(k)
  /\ UNCHANGED <<platform, docs, open, past, log>>

\* The attempt is logged as FAILED, with the status, and ends the request.
Fail(k) ==
  /\ pc[k] = "fail" /\ Free(k)
  /\ log' = [log EXCEPT ![Kind(k)] = "FAILED"]
  /\ row' = [row EXCEPT !.sync = "FAILED", !.ids = WithIds(KeptIds(k), copy[k].ids)]
  /\ Over(k)
  /\ UNCHANGED <<platform, docs, open, past>>

\* What an import has written is undone.
Undo == row' = base.row /\ log' = base.log
Close == txn' = NoOne /\ base' = NoBase

\* The import's transaction: committed, or undone because of a later order.
Commit(k) ==
  /\ pc[k] = "commit"
  /\ \/ UNCHANGED <<row, log, faults, drift>>
     \/ Fault /\ Undo /\ drift' = TRUE
  /\ Close
  /\ Leave(k)
  /\ UNCHANGED <<platform, docs, versions, moves, died, clash>>

\* gunicorn kills the worker; an open import is undone.
Die(k) ==
  /\ pc[k] # "idle" /\ Fault
  /\ died' = TRUE
  /\ IF txn = k THEN Undo /\ Close ELSE UNCHANGED <<row, log, open>>
  /\ Leave(k)
  /\ UNCHANGED <<platform, docs, versions, moves, clash, drift>>

Step(k) ==
  \/ Save(k) \/ End(k) \/ Begin(k) \/ Create(k) \/ Post(k) \/ ReadToken(k)
  \/ Rewrite(k) \/ Record(k) \/ Fail(k) \/ Commit(k)

Next ==
  \E k \in Workers :
    \/ Webhook(k) \/ Import(k) \/ Move(k) \/ Edit(k) \/ Step(k) \/ Die(k)
    \/ PushToQuickBooks(k) \/ CreateOdooSo(k) \/ CreateOdooInvoice(k)

Spec == Init /\ [][Next]_vars

\* A request that is being served goes on.
FairSpec == Spec /\ \A k \in Workers : WF_vars(Step(k))

-----------------------------------------------------------------------------
Rows ==
  [version : 0..MaxVersions,
   status : {"none"} \cup Statuses,
   ids : [Kinds -> Nat], sync : {"none", "PENDING", "SUCCESS", "FAILED"}]
Logs == [Kinds -> {"none", "SUCCESS", "FAILED"}]

\* Every variable stays in its range.
TypeOK ==
  /\ platform \in Platforms /\ row \in Rows /\ txn \in Workers \cup {NoOne}
  /\ log \in Logs /\ base \in [row : Rows, log : Logs]
  /\ docs \in [Kinds -> Seq([head : 1..MaxVersions, lines : 1..MaxVersions,
                             posted : BOOLEAN, token : Nat])]
  /\ pc \in [Workers -> {"idle", "begin", "call", "post", "read", "record", "fail",
                         "save", "commit", "leave"}]
  /\ job \in [Workers -> {"none", "sync", "update", "push", "move", "edit"}]
  /\ copy \in [Workers -> Rows] /\ todo \in [Workers -> Seq(Kinds)]
  /\ tries \in [Workers -> 0..(Tries - 1)]
  /\ got \in [Workers -> Nat] /\ token \in [Workers -> Nat]
  /\ versions \in 0..MaxVersions /\ moves \in 0..MaxMoves /\ faults \in 0..MaxFaults
  /\ died \in BOOLEAN /\ clash \in BOOLEAN /\ drift \in BOOLEAN
  /\ \A k \in Workers : tries[k] > 0 => pc[k] \in {"call", "post", "fail", "commit"}

IdsGenuine ==
  \A t \in Kinds :
    row.ids[t] # Absent =>
      /\ row.ids[t] \in DOMAIN docs[t]
      /\ t = "inv" => docs[t][row.ids[t]].posted

\* Whatever overlaps or fails, an id in the row is one that the platform gave to
\* a document of that kind, and an invoice with a recorded id is posted; unless
\* requests overlapped, an order shown as synchronised has a document.
RowHonest ==
  /\ IdsGenuine
  /\ row.sync = "SUCCESS" => clash \/ \E t \in Kinds : row.ids[t] # Absent

\* As long as no two requests for the order overlap, each failure costs at most
\* one superfluous document of a kind.
FewDuplicates == ~clash => \A t \in Kinds : Len(docs[t]) <= 1 + faults

Quiet == \A k \in Workers : pc[k] = "idle"

\* With no overlap and no death, and with no edit and no undone import since the
\* last webhook or import, an order whose last attempts for its documents all
\* succeeded has documents that say what the order says.
Mirror ==
  (Quiet /\ ~clash /\ ~died /\ ~drift) =>
    ((\A t \in Kinds : row.ids[t] # Absent => log[t] = "SUCCESS") =>
       \A t \in Kinds :
         row.ids[t] # Absent =>
           /\ docs[t][row.ids[t]].head = row.version
           /\ docs[t][row.ids[t]].lines = row.version)

\* An order that is PENDING is settled in the end, unless the worker that was at
\* it died or a save of all columns brought an old PENDING back.
PendingEnds == row.sync = "PENDING" ~> (row.sync # "PENDING" \/ died \/ clash)
=============================================================================
