-------------------------- MODULE ProductRequests ---------------------------
(***************************************************************************)
(* Product requests (product_requests/): their life, their timeline and    *)
(* the e-mails that Celery tasks send about them.                          *)
(*                                                                         *)
(* Every decision reads the request without a lock, tests that copy, and   *)
(* then runs a transaction: an update of the status columns, which locks   *)
(* the row, and the insertion of a timeline event. The e-mail is enqueued  *)
(* after the commit, on a best-effort basis. PATCH saves every column of   *)
(* its copy and replaces the items in two further statements, each of      *)
(* which commits by itself.                                                *)
(***************************************************************************)
EXTENDS Integers, Sequences

CONSTANTS
  Workers,     \* processes that serve requests
  Runners,     \* Celery worker processes
  Requests,    \* identifiers, never reused
  Users,
  Staff,       \* users with the role of a manager or higher
  Superusers,
  Products,
  Warehouses,
  Endpoints,   \* what the clients of a run call: "decide", "edit", "delete",
               \* "reassign"
  WrittenStatuses, \* statuses that clients write by POST or PATCH
  Nobody, NoJob, NoTask

ASSUME UsersAssumption ==
  /\ Superusers \subseteq Staff /\ Staff \subseteq Users
  /\ Nobody \notin Users \cup Workers

VARIABLES
  status, requester, approver, warehouse, items,   \* the request
  manager,     \* of each warehouse
  timeline,    \* the events of a request, in order
  job, pc,     \* per worker: the request it serves, and its next statement
  lock,        \* the worker whose open transaction has updated the request
  queue,       \* tasks the broker holds
  run,         \* per runner: the task it executes
  mails        \* e-mails sent, per task

requestVars == <<status, requester, approver, warehouse, items, manager>>
taskVars == <<queue, run, mails>>
vars == <<status, requester, approver, warehouse, items, manager, timeline, job, pc,
          lock, queue, run, mails>>

Statuses == {"PENDING", "APPROVED", "READY_TO_COLLECT", "COLLECTED", "REJECTED"}
Decisions == {"approve", "reject", "ready", "collect"}

ASSUME StatusAssumption == WrittenStatuses \subseteq Statuses

Needs(op) ==
  CASE op \in {"approve", "reject"} -> "PENDING"
    [] op = "ready"   -> "APPROVED"
    [] op = "collect" -> "READY_TO_COLLECT"

Becomes(op) ==
  CASE op = "create"  -> "PENDING"
    [] op = "approve" -> "APPROVED"
    [] op = "reject"  -> "REJECTED"
    [] op = "ready"   -> "READY_TO_COLLECT"
    [] op = "collect" -> "COLLECTED"

\* Whom a transition notifies, once it has committed.
Notifies(op) ==
  CASE op = "create"  -> {"approver"}
    [] op = "approve" -> {"manager"}
    [] op = "ready"   -> {"requester"}
    [] OTHER          -> {}

Task == [to : {"approver", "manager", "requester"}, request : Requests]

ASSUME TaskAssumption == NoTask \notin [task : Task, stage : {"send", "log"}]

\* Timeline events: transitions with their actor, and e-mails sent.
Event == [type : Decisions \cup {"create"}, by : Users]
           \cup [type : {"mail"}, to : {"approver", "manager", "requester"}]

Exists(r) == status[r] \in Statuses
Active(w) == pc[w] # "idle"
Unlocked(w, r) == lock[r] \in {Nobody, w}
Sees(u, r) == Exists(r) /\ (u \in Staff \/ requester[r] = u)

\* req.warehouse.manager, if the request names a warehouse.
Keeper(r) == IF warehouse[r] = Nobody THEN Nobody ELSE manager[warehouse[r]]

-----------------------------------------------------------------------------
Init ==
  /\ status = [r \in Requests |-> "unborn"]
  /\ requester = [r \in Requests |-> Nobody]
  /\ approver = [r \in Requests |-> Nobody]
  /\ warehouse = [r \in Requests |-> Nobody]
  /\ items = [r \in Requests |-> {}]
  /\ manager \in [Warehouses -> Users]
  /\ timeline = [r \in Requests |-> <<>>]
  /\ job = [w \in Workers |-> NoJob]
  /\ pc = [w \in Workers |-> "idle"]
  /\ lock = [r \in Requests |-> Nobody]
  /\ queue = [t \in Task |-> 0]
  /\ run = [k \in Runners |-> NoTask]
  /\ mails = [t \in Task |-> 0]

Go(w, stage) == pc' = [pc EXCEPT ![w] = stage]
Idle(w) == Go(w, "idle") /\ job' = [job EXCEPT ![w] = NoJob]

\* create_request: the request, its items and its first event commit together.
Create(w, r, u, a, h, I, s) ==
  /\ ~Active(w)
  /\ status[r] = "unborn"
  /\ I # {}
  /\ status' = [status EXCEPT ![r] = s]
  /\ requester' = [requester EXCEPT ![r] = u]
  /\ approver' = [approver EXCEPT ![r] = a]
  /\ warehouse' = [warehouse EXCEPT ![r] = h]
  /\ items' = [items EXCEPT ![r] = I]
  /\ timeline' = [timeline EXCEPT ![r] = <<[type |-> "create", by |-> u]>>]
  /\ job' = [job EXCEPT ![w] = [op |-> "create", request |-> r]]
  /\ Go(w, "enqueue")
  /\ UNCHANGED <<manager, lock, taskVars>>

(* get_object() and the tests of a decision, on the copy.                  *)

\* Fault: nobody asks who approves.
ApprovesAnyone(u, r) == TRUE

MayApprove(u, r) == approver[r] \in {Nobody, u} \/ u \in Superusers
MayPack(u, r) == Keeper(r) \in {Nobody, u} \/ u \in Superusers

\* Fault: a transition that does not test the status.
FitsAlways(op, r) == TRUE

Fits(op, r) == status[r] = Needs(op)

Decide(w, r, u, op) ==
  /\ "decide" \in Endpoints
  /\ ~Active(w)
  /\ Sees(u, r)
  /\ Fits(op, r)
  /\ job' = [job EXCEPT ![w] = [op |-> op, request |-> r, actor |-> u]]
  /\ Go(w, "update")
  /\ UNCHANGED <<requestVars, timeline, lock, taskVars>>

Approve(w, r, u) == MayApprove(u, r) /\ Decide(w, r, u, "approve")
Reject(w, r, u) == MayApprove(u, r) /\ Decide(w, r, u, "reject")
MarkReady(w, r, u) == MayPack(u, r) /\ Decide(w, r, u, "ready")
Collect(w, r, u) == Decide(w, r, u, "collect")

\* Fault: an update that is visible at once.
UpdateInPlace(w) ==
  LET r == job[w].request IN
  /\ pc[w] = "update"
  /\ Unlocked(w, r) /\ Exists(r)
  /\ status' = [status EXCEPT ![r] = Becomes(job[w].op)]
  /\ Go(w, "log")
  /\ UNCHANGED <<requester, approver, warehouse, items, manager, timeline, job, lock,
                 taskVars>>

\* save(update_fields=...): waits for the row, then holds it until the commit.
Update(w) ==
  LET r == job[w].request IN
  /\ pc[w] = "update"
  /\ Unlocked(w, r) /\ Exists(r)
  /\ lock' = [lock EXCEPT ![r] = w]
  /\ Go(w, "log")
  /\ UNCHANGED <<requestVars, timeline, job, taskVars>>

\* _log_event, and the commit, which shows the status and the event at once.
LogAndCommit(w) ==
  LET r == job[w].request
      op == job[w].op
  IN
  /\ pc[w] = "log"
  /\ status' = [status EXCEPT ![r] = Becomes(op)]
  /\ timeline' = [timeline EXCEPT ![r] =
       Append(@, [type |-> op, by |-> job[w].actor])]
  /\ lock' = [lock EXCEPT ![r] = Nobody]
  /\ IF Notifies(op) = {} THEN Idle(w) ELSE Go(w, "enqueue") /\ UNCHANGED job
  /\ UNCHANGED <<requester, approver, warehouse, items, manager, taskVars>>

\* on_commit: task.delay(), whose failure is swallowed.
Enqueue(w) ==
  /\ pc[w] = "enqueue"
  /\ \/ \E to \in Notifies(job[w].op) :
          queue' = [queue EXCEPT ![[to |-> to, request |-> job[w].request]] = @ + 1]
     \/ UNCHANGED queue
  /\ Idle(w)
  /\ UNCHANGED <<requestVars, timeline, lock, run, mails>>

-----------------------------------------------------------------------------
(* The generic endpoints.                                                  *)

\* PATCH: the copy, with the columns the client names replaced; the items are
\* replaced if it names them.
Edit(w, r, u, new) ==
  /\ "edit" \in Endpoints
  /\ ~Active(w)
  /\ Sees(u, r)
  /\ new.status \in {status[r]} \cup WrittenStatuses
  /\ job' = [job EXCEPT ![w] =
       [op |-> "edit", request |-> r, copy |-> new, requester |-> requester[r]]]
  /\ Go(w, "save")
  /\ UNCHANGED <<requestVars, timeline, lock, taskVars>>

\* instance.save(): every column of the copy; a deleted row is inserted again.
Save(w) ==
  LET r == job[w].request
      c == job[w].copy
  IN
  /\ pc[w] = "save"
  /\ Unlocked(w, r)
  /\ status' = [status EXCEPT ![r] = c.status]
  /\ requester' = [requester EXCEPT ![r] = job[w].requester]
  /\ approver' = [approver EXCEPT ![r] = c.approver]
  /\ warehouse' = [warehouse EXCEPT ![r] = c.warehouse]
  /\ IF c.items = {} THEN Idle(w) ELSE Go(w, "clear") /\ UNCHANGED job
  /\ UNCHANGED <<items, manager, timeline, lock, taskVars>>

\* instance.items.all().delete()
ClearItems(w) ==
  /\ pc[w] = "clear"
  /\ items' = [items EXCEPT ![job[w].request] = {}]
  /\ Go(w, "fill")
  /\ UNCHANGED <<status, requester, approver, warehouse, manager, timeline, job, lock,
                 taskVars>>

\* bulk_create: one statement, which fails if a product is there already or the
\* request is not.
FillItems(w) ==
  LET r == job[w].request IN
  /\ pc[w] = "fill"
  /\ items' = IF Exists(r) /\ items[r] \cap job[w].copy.items = {}
                THEN [items EXCEPT ![r] = @ \cup job[w].copy.items]
                ELSE items
  /\ Idle(w)
  /\ UNCHANGED <<status, requester, approver, warehouse, manager, timeline, lock, taskVars>>

\* DELETE, with its items and its timeline; get_object() precedes it.
Delete(w, r, u) ==
  /\ "delete" \in Endpoints
  /\ ~Active(w)
  /\ Sees(u, r)
  /\ job' = [job EXCEPT ![w] = [op |-> "delete", request |-> r]]
  /\ Go(w, "destroy")
  /\ UNCHANGED <<requestVars, timeline, lock, taskVars>>

Destroy(w) ==
  LET r == job[w].request IN
  /\ pc[w] = "destroy"
  /\ Unlocked(w, r)
  /\ status' = [status EXCEPT ![r] = "deleted"]
  /\ requester' = [requester EXCEPT ![r] = Nobody]
  /\ approver' = [approver EXCEPT ![r] = Nobody]
  /\ warehouse' = [warehouse EXCEPT ![r] = Nobody]
  /\ items' = [items EXCEPT ![r] = {}]
  /\ timeline' = [timeline EXCEPT ![r] = <<>>]
  /\ Idle(w)
  /\ UNCHANGED <<manager, lock, taskVars>>

\* PATCH of a warehouse gives it another manager, at any time: nothing in it waits for
\* the requests that name the warehouse. (A save from an older copy of the warehouse
\* writes some manager, too.)
Reassign(h, u) ==
  /\ "reassign" \in Endpoints
  /\ manager' = [manager EXCEPT ![h] = u]
  /\ UNCHANGED <<status, requester, approver, warehouse, items, timeline, job, pc, lock,
                 taskVars>>

\* Fault: a transaction stays open when its worker has died.
AbortLeavesLock(w) ==
  /\ Active(w)
  /\ Idle(w)
  /\ UNCHANGED <<requestVars, timeline, lock, taskVars>>

\* A request ends early: the worker dies, or the row to update has gone. The
\* transaction that it has open is rolled back.
Abort(w) ==
  /\ Active(w)
  /\ lock' = [r \in Requests |-> IF lock[r] = w THEN Nobody ELSE lock[r]]
  /\ Idle(w)
  /\ UNCHANGED <<requestVars, timeline, taskVars>>

-----------------------------------------------------------------------------
(* The tasks. A broker that acknowledges early delivers at most once; in   *)
(* eager mode the serving process executes the task, at the same point.    *)

Addressee(t) ==
  CASE t.to = "approver"  -> approver[t.request]
    [] t.to = "manager"   -> Keeper(t.request)
    [] t.to = "requester" -> requester[t.request]

\* The read of the request; without a request or an addressee nothing is sent.
StartTask(k, t) ==
  /\ run[k] = NoTask
  /\ queue[t] > 0
  /\ queue' = [queue EXCEPT ![t] = @ - 1]
  /\ run' = IF Exists(t.request) /\ Addressee(t) # Nobody
              THEN [run EXCEPT ![k] = [task |-> t, stage |-> "send"]]
              ELSE run
  /\ UNCHANGED <<requestVars, timeline, job, pc, lock, mails>>

\* Fault: the event is stored before the e-mail is sent.
LogFirst(k) ==
  LET t == run[k].task IN
  /\ run[k] # NoTask /\ run[k].stage = "send"
  /\ timeline' = IF Exists(t.request)
                   THEN [timeline EXCEPT ![t.request] =
                           Append(@, [type |-> "mail", to |-> t.to])]
                   ELSE timeline
  /\ run' = [run EXCEPT ![k].stage = "log"]
  /\ UNCHANGED <<requestVars, job, pc, lock, queue, mails>>

\* _send()
SendMail(k) ==
  /\ run[k] # NoTask /\ run[k].stage = "send"
  /\ mails' = [mails EXCEPT ![run[k].task] = @ + 1]
  /\ run' = [run EXCEPT ![k].stage = "log"]
  /\ UNCHANGED <<requestVars, timeline, job, pc, lock, queue>>

\* The insertion fails when the request has been deleted since.
LogMail(k) ==
  LET t == run[k].task IN
  /\ run[k] # NoTask /\ run[k].stage = "log"
  /\ timeline' = IF Exists(t.request)
                   THEN [timeline EXCEPT ![t.request] =
                           Append(@, [type |-> "mail", to |-> t.to])]
                   ELSE timeline
  /\ run' = [run EXCEPT ![k] = NoTask]
  /\ UNCHANGED <<requestVars, job, pc, lock, queue, mails>>

\* The mail server refuses, or the runner dies; no task is retried.
LoseTask(k) ==
  /\ run[k] # NoTask
  /\ run' = [run EXCEPT ![k] = NoTask]
  /\ UNCHANGED <<requestVars, timeline, job, pc, lock, queue, mails>>

-----------------------------------------------------------------------------
Copies == [status : Statuses, approver : Users \cup {Nobody},
           warehouse : Warehouses \cup {Nobody}, items : SUBSET Products]

Call(w) ==
  \E r \in Requests, u \in Users :
    \/ \E a \in Users, h \in Warehouses \cup {Nobody}, I \in SUBSET Products,
          s \in {"PENDING"} \cup WrittenStatuses : Create(w, r, u, a, h, I, s)
    \/ Approve(w, r, u) \/ Reject(w, r, u) \/ MarkReady(w, r, u) \/ Collect(w, r, u)
    \/ \E new \in Copies : Edit(w, r, u, new)
    \/ Delete(w, r, u)

Proceed(w) ==
  \/ Update(w) \/ LogAndCommit(w) \/ Enqueue(w)
  \/ Save(w) \/ ClearItems(w) \/ FillItems(w) \/ Destroy(w)

Next ==
  \/ \E w \in Workers : Call(w) \/ Proceed(w) \/ Abort(w)
  \/ \E h \in Warehouses, u \in Users : Reassign(h, u)
  \/ \E k \in Runners :
       \/ \E t \in Task : StartTask(k, t)
       \/ SendMail(k) \/ LogMail(k) \/ LoseTask(k)

Spec == Init /\ [][Next]_vars

-----------------------------------------------------------------------------
(* Properties.                                                             *)

Job ==
  [op : {"create", "delete"}, request : Requests]
    \cup [op : Decisions, request : Requests, actor : Users]
    \cup [op : {"edit"}, request : Requests, copy : Copies, requester : Users]

TypeOK ==
  /\ status \in [Requests -> Statuses \cup {"unborn", "deleted"}]
  /\ requester \in [Requests -> Users \cup {Nobody}]
  /\ approver \in [Requests -> Users \cup {Nobody}]
  /\ warehouse \in [Requests -> Warehouses \cup {Nobody}]
  /\ items \in [Requests -> SUBSET Products]
  /\ manager \in [Warehouses -> Users]
  /\ timeline \in [Requests -> Seq(Event)]
  /\ job \in [Workers -> Job \cup {NoJob}]
  /\ pc \in [Workers -> {"idle", "update", "log", "enqueue", "save", "clear",
                         "fill", "destroy"}]
  /\ lock \in [Requests -> Workers \cup {Nobody}]
  /\ queue \in [Task -> Nat]
  /\ run \in [Runners -> [task : Task, stage : {"send", "log"}] \cup {NoTask}]
  /\ mails \in [Task -> Nat]
  /\ \A r \in Requests : Exists(r) => requester[r] \in Users
  /\ \A r \in Requests : lock[r] # Nobody => Exists(r)
  /\ \A w \in Workers :
       /\ Active(w) => job[w] \in Job
       /\ pc[w] \in {"update", "log"} => job[w].op \in Decisions
       /\ pc[w] = "enqueue" => job[w].op \in Decisions \cup {"create"}
       /\ pc[w] \in {"save", "clear", "fill"} => job[w].op = "edit"
       /\ \A r \in Requests :
            lock[r] = w <=> pc[w] = "log" /\ job[w].request = r

IsStep(e) == e.type # "mail"

\* Event i of a line is a transition, and none is recorded between it and event j.
LastStepBefore(line, i, j) ==
  /\ IsStep(line[i])
  /\ \A m \in DOMAIN line : i < m /\ m < j => ~IsStep(line[m])

\* The line leads to status s; it has led to it, now or earlier.
LeadsTo(line, s) ==
  \E i \in DOMAIN line :
    LastStepBefore(line, i, Len(line) + 1) /\ Becomes(line[i].type) = s
HasLedTo(line, s, j) ==
  \E i \in 1..(j - 1) : IsStep(line[i]) /\ Becomes(line[i].type) = s

\* The persisted timeline tells where a request stands: the last transition on
\* it led to the request's status, although status and event are two statements.
TimelineTellsStatus ==
  \A r \in Requests : Exists(r) => LeadsTo(timeline[r], status[r])

\* Decisions may race, and one may then be taken again or against another one;
\* still each one has its prerequisite somewhere before it: goods are packed after
\* an approval only, and collected after they were packed.
InOrder(line) ==
  \A j \in DOMAIN line :
    line[j].type \in Decisions => HasLedTo(line, Needs(line[j].type), j)
Prerequisites == \A r \in Requests : InOrder(timeline[r])
=============================================================================
