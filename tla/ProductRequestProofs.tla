------------------------ MODULE ProductRequestProofs ------------------------
(***************************************************************************)
(* Proofs about ProductRequests, for any workers, runners, requests and    *)
(* users: every variable keeps its type; as long as nobody uses the        *)
(* generic PATCH, the timeline tells the status and every decision has its *)
(* prerequisite before it, however decisions race; whatever is used, the   *)
(* decisions on an undisturbed request follow the workflow, e-mails never  *)
(* outnumber their causes, and who decides is whom the request names.      *)
(***************************************************************************)
EXTENDS RequestAudit, FiniteSetTheorems, TLAPS

-----------------------------------------------------------------------------
(* Types.                                                                  *)

Stages == {"idle", "update", "log", "enqueue", "save", "clear", "fill", "destroy"}

RequestsTyped ==
  /\ status \in [Requests -> Statuses \cup {"unborn", "deleted"}]
  /\ requester \in [Requests -> Users \cup {Nobody}]
  /\ approver \in [Requests -> Users \cup {Nobody}]
  /\ warehouse \in [Requests -> Warehouses \cup {Nobody}]
  /\ items \in [Requests -> SUBSET Products]
  /\ manager \in [Warehouses -> Users]
  /\ timeline \in [Requests -> Seq(Event)]
  /\ \A r \in Requests : Exists(r) => requester[r] \in Users
  /\ \A r \in Requests : lock[r] # Nobody => Exists(r)

WellFormed(j, stage) ==
  /\ j \in Job \cup {NoJob}
  /\ stage \in Stages
  /\ stage # "idle" => j \in Job
  /\ stage \in {"update", "log"} => j.op \in Decisions
  /\ stage = "enqueue" => j.op \in Decisions \cup {"create"}
  /\ stage \in {"save", "clear", "fill"} => j.op = "edit"

Holds(w, r) == pc[w] = "log" /\ job[w].request = r

JobsTyped ==
  /\ job \in [Workers -> Job \cup {NoJob}]
  /\ pc \in [Workers -> Stages]
  /\ lock \in [Requests -> Workers \cup {Nobody}]
  /\ \A w \in Workers : WellFormed(job[w], pc[w])
  /\ \A w \in Workers : \A r \in Requests : lock[r] = w <=> Holds(w, r)

TasksTyped ==
  /\ queue \in [Task -> Nat]
  /\ run \in [Runners -> [task : Task, stage : {"send", "log"}] \cup {NoTask}]
  /\ mails \in [Task -> Nat]

LEMMA Parts == TypeOK <=> RequestsTyped /\ JobsTyped /\ TasksTyped
BY ZenonT(30) DEF TypeOK, RequestsTyped, JobsTyped, TasksTyped, WellFormed, Stages, Active, Holds
LEMMA PartsNext == RequestsTyped' /\ JobsTyped' /\ TasksTyped' => TypeOK'
BY DEF TypeOK, RequestsTyped, JobsTyped, TasksTyped, WellFormed, Stages, Active, Holds

\* What the job of an active worker holds.
LEMMA JobFields ==
  ASSUME JobsTyped, NEW w \in Workers, Active(w)
  PROVE  /\ job[w].request \in Requests
         /\ pc[w] \in {"update", "log"} =>
              job[w].op \in Decisions /\ job[w].actor \in Users
         /\ pc[w] = "enqueue" => job[w].op \in Decisions \cup {"create"}
         /\ pc[w] \in {"save", "clear", "fill"} =>
              job[w].requester \in Users /\ job[w].copy \in Copies
<1>1. job[w] \in Job /\ WellFormed(job[w], pc[w])
  BY DEF JobsTyped, WellFormed, Active
<1>2. QED
  BY <1>1 DEF Job, WellFormed, Decisions

\* A worker goes on to another stage, and takes or gives up no lock but its own.
LEMMA WorkerMoves ==
  ASSUME JobsTyped, NEW w \in Workers, NEW j, NEW stage, WellFormed(j, stage),
         job' = [job EXCEPT ![w] = j], pc' = [pc EXCEPT ![w] = stage],
         lock' \in [Requests -> Workers \cup {Nobody}],
         \A r \in Requests : lock'[r] = w <=> stage = "log" /\ j.request = r,
         \A r \in Requests : \A v \in Workers \ {w} : lock'[r] = v <=> lock[r] = v
  PROVE  JobsTyped'
<1>1. /\ job' \in [Workers -> Job \cup {NoJob}]
      /\ pc' \in [Workers -> Stages]
  BY DEF JobsTyped, WellFormed
<1>2. \A v \in Workers : WellFormed(job'[v], pc'[v])
  BY DEF JobsTyped
<1>3. \A v \in Workers : \A r \in Requests : lock'[r] = v <=> Holds(v, r)'
  BY DEF JobsTyped, Holds
<1>4. QED
  BY <1>1, <1>2, <1>3 DEF JobsTyped, Job, Copies

\* The same when it opens its transaction, with its update.
LEMMA WorkerLocks ==
  ASSUME JobsTyped, NEW w \in Workers, NEW j, WellFormed(j, "log"),
         job' = [job EXCEPT ![w] = j], pc' = [pc EXCEPT ![w] = "log"],
         lock' \in [Requests -> Workers \cup {Nobody}],
         \A r \in Requests : lock'[r] = w <=> j.request = r,
         \A r \in Requests : \A v \in Workers \ {w} : lock'[r] = v <=> lock[r] = v
  PROVE  JobsTyped'
<1> DEFINE stage == "log"
<1>1. \A r \in Requests : lock'[r] = w <=> stage = "log" /\ j.request = r
  OBVIOUS
<1>2. WellFormed(j, stage) /\ pc' = [pc EXCEPT ![w] = stage]
  OBVIOUS
<1> HIDE DEF stage
<1>3. QED
  BY <1>1, <1>2, WorkerMoves

\* The same when its transaction ends.
LEMMA WorkerReleases ==
  ASSUME JobsTyped, NEW w \in Workers, NEW j, NEW stage, WellFormed(j, stage),
         job' = [job EXCEPT ![w] = j], pc' = [pc EXCEPT ![w] = stage], stage # "log",
         lock' \in [Requests -> Workers \cup {Nobody}],
         \A r \in Requests : lock'[r] # w,
         \A r \in Requests : \A v \in Workers \ {w} : lock'[r] = v <=> lock[r] = v
  PROVE  JobsTyped'
<1>1. /\ job' \in [Workers -> Job \cup {NoJob}]
      /\ pc' \in [Workers -> Stages]
  BY DEF JobsTyped, WellFormed
<1>2. \A v \in Workers : WellFormed(job'[v], pc'[v])
  BY DEF JobsTyped
<1>3. \A v \in Workers : \A r \in Requests : lock'[r] = v <=> Holds(v, r)'
  BY DEF JobsTyped, Holds
<1>4. QED
  BY <1>1, <1>2, <1>3 DEF JobsTyped, Job, Copies

\* The same when no lock changes.
LEMMA WorkerMovesLockless ==
  ASSUME JobsTyped, NEW w \in Workers, NEW j, NEW stage, WellFormed(j, stage),
         job' = [job EXCEPT ![w] = j], pc' = [pc EXCEPT ![w] = stage],
         lock' = lock, pc[w] # "log", stage # "log"
  PROVE  JobsTyped'
<1>1. /\ lock' \in [Requests -> Workers \cup {Nobody}]
      /\ \A r \in Requests : lock'[r] = w <=> stage = "log" /\ j.request = r
      /\ \A r \in Requests : \A v \in Workers \ {w} : lock'[r] = v <=> lock[r] = v
  BY DEF JobsTyped, Holds
<1>2. QED
  BY <1>1, WorkerMoves

LEMMA InitTyped == Init => TypeOK
<1>1. SUFFICES ASSUME Init PROVE TypeOK
  OBVIOUS
<1>2. RequestsTyped
  BY <1>1 DEF Init, RequestsTyped, Exists, Statuses
<1>3. JobsTyped
  BY <1>1, UsersAssumption DEF Init, JobsTyped, WellFormed, Stages, Holds
<1>4. TasksTyped
  BY <1>1 DEF Init, TasksTyped
<1>5. QED
  BY <1>2, <1>3, <1>4, Parts

\* A call opens a job; it writes no row, unless it creates a request.
LEMMA CallTyped ==
  ASSUME TypeOK, NEW w \in Workers, Call(w)
  PROVE  TypeOK'
<1>1. RequestsTyped /\ JobsTyped /\ TasksTyped /\ (~Active(w) => pc[w] # "log")
  BY Parts DEF Active
<1>2. PICK r \in Requests, u \in Users :
        \/ \E a \in Users, h \in Warehouses \cup {Nobody}, I \in SUBSET Products,
              s \in {"PENDING"} \cup WrittenStatuses : Create(w, r, u, a, h, I, s)
        \/ \E op \in Decisions : Decide(w, r, u, op)
        \/ \E new \in Copies : Edit(w, r, u, new)
        \/ Delete(w, r, u)
  BY DEF Call, Approve, Reject, MarkReady, Collect, Decisions
<1>3. ASSUME NEW a \in Users, NEW h \in Warehouses \cup {Nobody}, NEW I \in SUBSET Products,
             NEW s \in {"PENDING"} \cup WrittenStatuses, Create(w, r, u, a, h, I, s)
      PROVE  TypeOK'
  <2>1. s \in Statuses
    BY StatusAssumption DEF Statuses
  <2>2. [type |-> "create", by |-> u] \in Event
    BY DEF Event
  <2>3. RequestsTyped'
    BY <1>1, <1>3, <2>1, <2>2 DEF RequestsTyped, Create, Exists
  <2>4. WellFormed([op |-> "create", request |-> r], "enqueue")
    BY DEF WellFormed, Job, Stages
  <2>5. JobsTyped'
    BY <1>1, <1>3, <2>4, WorkerMovesLockless DEF Create, Go
  <2>6. TasksTyped'
    BY <1>1, <1>3 DEF TasksTyped, Create, taskVars
  <2>7. QED
    BY <2>3, <2>5, <2>6, PartsNext
<1>4. ASSUME NEW op \in Decisions, Decide(w, r, u, op)
      PROVE  TypeOK'
  <2>1. WellFormed([op |-> op, request |-> r, actor |-> u], "update")
    BY DEF WellFormed, Job, Stages
  <2>2. JobsTyped'
    BY <1>1, <1>4, <2>1, WorkerMovesLockless DEF Decide, Go
  <2>3. RequestsTyped' /\ TasksTyped'
    BY <1>1, <1>4 DEF RequestsTyped, TasksTyped, Decide, requestVars, taskVars, Exists
  <2>4. QED
    BY <2>2, <2>3, PartsNext
<1>5. ASSUME NEW new \in Copies, Edit(w, r, u, new)
      PROVE  TypeOK'
  <2>1. requester[r] \in Users
    BY <1>1, <1>5 DEF RequestsTyped, Edit, Sees
  <2>2. WellFormed([op |-> "edit", request |-> r, copy |-> new,
                    requester |-> requester[r]], "save")
    BY <2>1 DEF WellFormed, Job, Stages
  <2>3. JobsTyped'
    BY <1>1, <1>5, <2>2, WorkerMovesLockless DEF Edit, Go
  <2>4. RequestsTyped' /\ TasksTyped'
    BY <1>1, <1>5 DEF RequestsTyped, TasksTyped, Edit, requestVars, taskVars, Exists
  <2>5. QED
    BY <2>3, <2>4, PartsNext
<1>6. ASSUME Delete(w, r, u)
      PROVE  TypeOK'
  <2>1. WellFormed([op |-> "delete", request |-> r], "destroy")
    BY DEF WellFormed, Job, Stages
  <2>2. JobsTyped'
    BY <1>1, <1>6, <2>1, WorkerMovesLockless DEF Delete, Go
  <2>3. RequestsTyped' /\ TasksTyped'
    BY <1>1, <1>6 DEF RequestsTyped, TasksTyped, Delete, requestVars, taskVars, Exists
  <2>4. QED
    BY <2>2, <2>3, PartsNext
<1>7. QED
  BY <1>2, <1>3, <1>4, <1>5, <1>6

\* A worker that ends, or goes on with the same job, outside a transaction.
LEMMA WorkerEnds ==
  ASSUME JobsTyped, NEW w \in Workers, Idle(w), lock' = lock, pc[w] # "log"
  PROVE  JobsTyped'
<1>1. WellFormed(NoJob, "idle")
  BY DEF WellFormed, Stages
<1>2. QED
  BY <1>1, WorkerMovesLockless DEF Idle, Go

LEMMA WorkerGoesOn ==
  ASSUME JobsTyped, NEW w \in Workers, NEW stage, WellFormed(job[w], stage),
         Go(w, stage), job' = job, lock' = lock, pc[w] # "log", stage # "log"
  PROVE  JobsTyped'
<1>1. job' = [job EXCEPT ![w] = job[w]]
  BY DEF JobsTyped
<1>2. QED
  BY <1>1, WorkerMovesLockless DEF Go

LEMMA ProceedTyped ==
  ASSUME TypeOK, NEW w \in Workers, Proceed(w)
  PROVE  TypeOK'
<1> DEFINE r == job[w].request
           op == job[w].op
           c == job[w].copy
<1>1. RequestsTyped /\ JobsTyped /\ TasksTyped
  BY Parts
<1>2. Active(w) /\ WellFormed(job[w], pc[w])
  BY <1>1 DEF Proceed, Update, LogAndCommit, Enqueue, Save, ClearItems, FillItems,
              Destroy, Active, JobsTyped
<1>3. /\ r \in Requests
      /\ pc[w] \in {"update", "log"} => op \in Decisions /\ job[w].actor \in Users
      /\ pc[w] = "enqueue" => op \in Decisions \cup {"create"}
      /\ pc[w] \in {"save", "clear", "fill"} => job[w].requester \in Users /\ c \in Copies
  BY <1>1, <1>2, JobFields
<1>4. CASE Update(w)
  <2>1. WellFormed(job[w], "log")
    BY <1>2, <1>4 DEF WellFormed, Update, Stages
  <2>2. /\ job' = [job EXCEPT ![w] = job[w]]
        /\ lock' \in [Requests -> Workers \cup {Nobody}]
    BY <1>1, <1>4 DEF JobsTyped, Update
  <2>3. /\ \A q \in Requests : lock'[q] = w <=> job[w].request = q
        /\ \A q \in Requests : \A v \in Workers \ {w} : lock'[q] = v <=> lock[q] = v
    BY <1>1, <1>3, <1>4, UsersAssumption DEF JobsTyped, Update, Unlocked, Holds
  <2>4. pc' = [pc EXCEPT ![w] = "log"]
    BY <1>4 DEF Update, Go
  <2>6. JobsTyped'
    BY <1>1, <2>1, <2>2, <2>3, <2>4, WorkerLocks
  <2>5. RequestsTyped' /\ TasksTyped'
    BY <1>1, <1>4 DEF RequestsTyped, TasksTyped, Update, requestVars, taskVars, Exists
  <2>7. QED
    BY <2>5, <2>6, PartsNext
<1>5. CASE LogAndCommit(w)
  <2>1. pc[w] = "log" /\ op \in Decisions /\ Becomes(op) \in Statuses
    BY <1>3, <1>5 DEF LogAndCommit, Decisions, Becomes, Statuses
  <2>2. [type |-> op, by |-> job[w].actor] \in Event
    BY <1>3, <2>1 DEF Event
  <2>3. RequestsTyped'
    <3>1. lock[r] = w /\ Exists(r)
      BY <1>1, <1>3, <2>1, UsersAssumption DEF JobsTyped, RequestsTyped, Holds
    <3>2. timeline' \in [Requests -> Seq(Event)]
      BY <1>1, <1>3, <1>5, <2>2 DEF RequestsTyped, LogAndCommit
    <3>3. /\ status' = [status EXCEPT ![r] = Becomes(op)]
          /\ lock' = [lock EXCEPT ![r] = Nobody]
          /\ UNCHANGED <<requester, approver, warehouse, items, manager>>
      BY <1>5 DEF LogAndCommit
    <3>4. status' \in [Requests -> Statuses \cup {"unborn", "deleted"}]
      BY <1>1, <2>1, <3>3 DEF RequestsTyped
    <3>5. \A q \in Requests :
            /\ Exists(q)' => requester'[q] \in Users
            /\ lock'[q] # Nobody => Exists(q)'
      BY <1>1, <1>3, <2>1, <3>1, <3>3 DEF RequestsTyped, JobsTyped, Exists
    <3>6. /\ requester' \in [Requests -> Users \cup {Nobody}]
          /\ approver' \in [Requests -> Users \cup {Nobody}]
          /\ warehouse' \in [Requests -> Warehouses \cup {Nobody}]
          /\ items' \in [Requests -> SUBSET Products]
          /\ manager' \in [Warehouses -> Users]
      BY <1>1, <3>3 DEF RequestsTyped
    <3>7. QED
      BY <3>2, <3>4, <3>5, <3>6 DEF RequestsTyped, Exists
  <2>4. /\ lock' \in [Requests -> Workers \cup {Nobody}]
        /\ \A q \in Requests : lock'[q] # w
        /\ \A q \in Requests : \A v \in Workers \ {w} : lock'[q] = v <=> lock[q] = v
    BY <1>1, <1>3, <1>5, <2>1, UsersAssumption DEF JobsTyped, LogAndCommit, Holds
  <2>5. CASE Idle(w)
    <3>1. WellFormed(NoJob, "idle")
      BY DEF WellFormed, Stages
    <3>2. JobsTyped'
      BY <1>1, <2>4, <2>5, <3>1, WorkerReleases DEF Idle, Go
    <3>3. QED
      BY <1>1, <1>5, <2>3, <3>2, PartsNext DEF LogAndCommit, TasksTyped, taskVars
  <2>6. CASE Go(w, "enqueue") /\ UNCHANGED job
    <3>1. WellFormed(job[w], "enqueue") /\ job' = [job EXCEPT ![w] = job[w]]
      BY <1>1, <1>2, <2>1, <2>6 DEF WellFormed, JobsTyped, Stages
    <3>2. JobsTyped'
      BY <1>1, <2>4, <2>6, <3>1, WorkerReleases DEF Go
    <3>3. QED
      BY <1>1, <1>5, <2>3, <3>2, PartsNext DEF LogAndCommit, TasksTyped, taskVars
  <2>7. QED
    BY <1>5, <2>5, <2>6 DEF LogAndCommit
<1>6. CASE Enqueue(w)
  <2>1. \A to \in {"approver", "manager", "requester"} : [to |-> to, request |-> r] \in Task
    BY <1>3 DEF Task
  <2>2. Notifies(op) \subseteq {"approver", "manager", "requester"}
    BY DEF Notifies
  <2>3. queue' \in [Task -> Nat]
    <3>1. CASE UNCHANGED queue
      BY <1>1, <3>1 DEF TasksTyped
    <3>2. ASSUME NEW t \in Task, queue' = [queue EXCEPT ![t] = @ + 1]
          PROVE  queue' \in [Task -> Nat]
      BY <1>1, <3>2 DEF TasksTyped
    <3>3. QED
      BY <1>6, <2>1, <2>2, <3>1, <3>2 DEF Enqueue
  <2>4. TasksTyped'
    BY <1>1, <1>6, <2>3 DEF TasksTyped, Enqueue
  <2>5. RequestsTyped'
    BY <1>1, <1>6 DEF RequestsTyped, Enqueue, requestVars, Exists
  <2>6. JobsTyped'
    BY <1>1, <1>6, WorkerEnds DEF Enqueue
  <2>7. QED
    BY <2>4, <2>5, <2>6, PartsNext
<1>7. CASE Save(w)
  <2>1. c \in Copies /\ job[w].requester \in Users
    BY <1>3, <1>7 DEF Save
  <2>2. RequestsTyped'
    BY <1>1, <1>3, <1>7, <2>1 DEF RequestsTyped, Save, Copies, Exists
  <2>3. WellFormed(job[w], "clear")
    BY <1>2, <1>7 DEF WellFormed, Save, Stages
  <2>4. JobsTyped'
    BY <1>1, <1>7, <2>3, WorkerEnds, WorkerGoesOn DEF Save
  <2>5. TasksTyped'
    BY <1>1, <1>7 DEF TasksTyped, Save, taskVars
  <2>6. QED
    BY <2>2, <2>4, <2>5, PartsNext
<1>8. CASE ClearItems(w)
  <2>1. RequestsTyped' /\ TasksTyped'
    BY <1>1, <1>3, <1>8 DEF RequestsTyped, TasksTyped, ClearItems, taskVars, Exists
  <2>2. WellFormed(job[w], "fill")
    BY <1>2, <1>8 DEF WellFormed, ClearItems, Stages
  <2>3. JobsTyped'
    BY <1>1, <1>8, <2>2, WorkerGoesOn DEF ClearItems
  <2>4. QED
    BY <2>1, <2>3, PartsNext
<1>9. CASE FillItems(w)
  <2>1. c.items \in SUBSET Products
    BY <1>3, <1>9 DEF FillItems, Copies
  <2>2. items' \in [Requests -> SUBSET Products]
    BY <1>1, <1>3, <1>9, <2>1 DEF RequestsTyped, FillItems
  <2>3. RequestsTyped' /\ TasksTyped'
    BY <1>1, <1>9, <2>2 DEF RequestsTyped, TasksTyped, FillItems, taskVars, Exists
  <2>4. JobsTyped'
    BY <1>1, <1>9, WorkerEnds DEF FillItems
  <2>5. QED
    BY <2>3, <2>4, PartsNext
<1>10. CASE Destroy(w)
  <2>0. lock[r] = Nobody
    BY <1>1, <1>3, <1>10 DEF JobsTyped, Destroy, Unlocked, Holds
  <2>1. RequestsTyped' /\ TasksTyped'
    BY <1>1, <1>3, <1>10, <2>0 DEF RequestsTyped, TasksTyped, Destroy, taskVars, Exists, Statuses
  <2>2. JobsTyped'
    BY <1>1, <1>10, WorkerEnds DEF Destroy
  <2>3. QED
    BY <2>1, <2>2, PartsNext
<1>11. QED
  BY <1>4, <1>5, <1>6, <1>7, <1>8, <1>9, <1>10 DEF Proceed

LEMMA AbortTyped ==
  ASSUME TypeOK, NEW w \in Workers, Abort(w)
  PROVE  TypeOK'
<1>1. RequestsTyped /\ JobsTyped /\ TasksTyped
  BY Parts
<1>2. /\ lock' \in [Requests -> Workers \cup {Nobody}]
      /\ \A q \in Requests : lock'[q] # w
      /\ \A q \in Requests : \A v \in Workers \ {w} : lock'[q] = v <=> lock[q] = v
  BY <1>1, UsersAssumption DEF JobsTyped, Abort
<1>3. WellFormed(NoJob, "idle")
  BY DEF WellFormed, Stages
<1>4. JobsTyped'
  BY <1>1, <1>2, <1>3, WorkerReleases DEF Abort, Idle, Go
<1>5. RequestsTyped' /\ TasksTyped'
  BY <1>1 DEF RequestsTyped, TasksTyped, Abort, requestVars, taskVars, Exists
<1>6. QED
  BY <1>4, <1>5, PartsNext

\* What a runner does to the timeline and to the tasks.
RunnerStep(k) ==
  \/ \E t \in Task : StartTask(k, t)
  \/ SendMail(k) \/ LogMail(k) \/ LoseTask(k)

LEMMA RunnerTyped ==
  ASSUME TypeOK, NEW k \in Runners, RunnerStep(k)
  PROVE  TypeOK'
<1>1. RequestsTyped /\ JobsTyped /\ TasksTyped
  BY Parts
<1>2. UNCHANGED <<job, pc, lock>>
  BY DEF RunnerStep, StartTask, SendMail, LogMail, LoseTask
<1>3. JobsTyped'
  BY <1>1, <1>2 DEF JobsTyped, Holds, WellFormed
<1>4. run[k] # NoTask => run[k].task \in Task
  BY <1>1 DEF TasksTyped
<1>5. TasksTyped'
  <2>1. ASSUME NEW t \in Task, StartTask(k, t) PROVE TasksTyped'
    BY <1>1, <2>1 DEF TasksTyped, StartTask
  <2>2. CASE SendMail(k)
    BY <1>1, <1>4, <2>2 DEF TasksTyped, SendMail
  <2>3. CASE LogMail(k) \/ LoseTask(k)
    BY <1>1, <2>3 DEF TasksTyped, LogMail, LoseTask
  <2>4. QED
    BY <2>1, <2>2, <2>3 DEF RunnerStep
<1>6. RequestsTyped'
  <2>1. CASE LogMail(k)
    <3>1. /\ run[k].task.request \in Requests
          /\ [type |-> "mail", to |-> run[k].task.to] \in Event
      BY <1>4, <2>1 DEF LogMail, Task, Event
    <3>2. timeline' \in [Requests -> Seq(Event)]
      BY <1>1, <2>1, <3>1 DEF RequestsTyped, LogMail
    <3>3. QED
      BY <1>1, <2>1, <3>2 DEF RequestsTyped, LogMail, requestVars, Exists
  <2>2. CASE ~LogMail(k)
    <3>1. UNCHANGED <<requestVars, timeline, lock>>
      BY <2>2 DEF RunnerStep, StartTask, SendMail, LoseTask
    <3>2. QED
      BY <1>1, <3>1 DEF RequestsTyped, requestVars, Exists
  <2>3. QED
    BY <2>1, <2>2
<1>7. QED
  BY <1>3, <1>5, <1>6, PartsNext

LEMMA ReassignTyped ==
  ASSUME TypeOK, NEW h \in Warehouses, NEW u \in Users, Reassign(h, u)
  PROVE  TypeOK'
<1>1. RequestsTyped /\ JobsTyped /\ TasksTyped
  BY Parts
<1>2. manager' \in [Warehouses -> Users]
  BY <1>1 DEF RequestsTyped, Reassign
<1>3. RequestsTyped'
  BY <1>1, <1>2 DEF RequestsTyped, Reassign, Exists
<1>4. JobsTyped' /\ TasksTyped'
  BY <1>1 DEF JobsTyped, TasksTyped, Reassign, Holds, WellFormed, taskVars
<1>. QED
  BY <1>3, <1>4, PartsNext

LEMMA StutterTyped == TypeOK /\ UNCHANGED vars => TypeOK'
<1>1. SUFFICES ASSUME TypeOK, UNCHANGED vars PROVE TypeOK'
  OBVIOUS
<1>2. RequestsTyped /\ JobsTyped /\ TasksTyped
  BY <1>1, Parts
<1>3. RequestsTyped' /\ JobsTyped' /\ TasksTyped'
  BY <1>1, <1>2 DEF vars, RequestsTyped, JobsTyped, TasksTyped, Exists, Holds, WellFormed
<1>4. QED
  BY <1>3, PartsNext

LEMMA StepTyped == TypeOK /\ [Next]_vars => TypeOK'
<1>1. SUFFICES ASSUME TypeOK, [Next]_vars PROVE TypeOK'
  OBVIOUS
<1>2. ASSUME NEW w \in Workers, Call(w) \/ Proceed(w) \/ Abort(w) PROVE TypeOK'
  BY <1>1, <1>2, CallTyped, ProceedTyped, AbortTyped
<1>3. ASSUME NEW k \in Runners, RunnerStep(k) PROVE TypeOK'
  BY <1>1, <1>3, RunnerTyped
<1>4. QED
  BY <1>1, <1>2, <1>3, ReassignTyped, StutterTyped DEF Next, RunnerStep

\* Every variable keeps its type: in particular an update and its event are one
\* transaction of the worker that holds the row, and a row so held exists.
THEOREM TypeCorrect == Spec => []TypeOK
BY InitTyped, StepTyped, PTL DEF Spec

-----------------------------------------------------------------------------
(* Timelines.                                                              *)

Steps == Decisions \cup {"create"}

\* A transition appended to a line is what the line leads to.
LEMMA AppendLeads ==
  ASSUME NEW line \in Seq(Event), NEW e \in Event, IsStep(e)
  PROVE  LeadsTo(Append(line, e), Becomes(e.type))
<1> DEFINE new == Append(line, e)
           n == Len(line) + 1
<1>1. n \in DOMAIN new /\ Len(new) = n /\ new[n] = e
  OBVIOUS
<1>2. LastStepBefore(new, n, Len(new) + 1)
  BY <1>1 DEF LastStepBefore
<1>3. QED
  BY <1>1, <1>2 DEF LeadsTo

\* A note about an e-mail leaves what a line leads to.
LEMMA NoteLeads ==
  ASSUME NEW line \in Seq(Event), NEW e \in Event, ~IsStep(e), NEW s,
         LeadsTo(line, s)
  PROVE  LeadsTo(Append(line, e), s)
<1> DEFINE new == Append(line, e)
<1>1. /\ Len(new) = Len(line) + 1 /\ new[Len(line) + 1] = e
      /\ \A i \in DOMAIN line : i \in DOMAIN new /\ new[i] = line[i]
      /\ \A i \in DOMAIN new : i \in DOMAIN line \/ i = Len(line) + 1
  OBVIOUS
<1>2. PICK i \in DOMAIN line :
        LastStepBefore(line, i, Len(line) + 1) /\ Becomes(line[i].type) = s
  BY DEF LeadsTo
<1>3. ASSUME NEW m \in DOMAIN new, i < m, m < Len(new) + 1
      PROVE  ~IsStep(new[m])
  BY <1>1, <1>2, <1>3 DEF LastStepBefore
<1>4. LastStepBefore(new, i, Len(new) + 1)
  BY <1>1, <1>2, <1>3 DEF LastStepBefore
<1>5. QED
  BY <1>1, <1>2, <1>4 DEF LeadsTo

\* What a line has led to stays so when it grows, and what it leads to now it has
\* led to.
LEMMA HasLedGrows ==
  ASSUME NEW line \in Seq(Event), NEW e \in Event, NEW s, NEW j \in 1..(Len(line) + 1),
         HasLedTo(line, s, j)
  PROVE  /\ HasLedTo(Append(line, e), s, j)
         /\ HasLedTo(Append(line, e), s, Len(Append(line, e)) + 1)
<1> DEFINE new == Append(line, e)
<1>1. PICK i \in 1..(j - 1) : IsStep(line[i]) /\ Becomes(line[i].type) = s
  BY DEF HasLedTo
<1>2. i \in 1..Len(line) /\ new[i] = line[i] /\ Len(new) = Len(line) + 1
  OBVIOUS
<1>3. i \in 1..(Len(new) + 1 - 1)
  BY <1>2
<1>4. QED
  BY <1>1, <1>2, <1>3 DEF HasLedTo

LEMMA LeadsImpliesHasLed ==
  ASSUME NEW line \in Seq(Event), NEW s, LeadsTo(line, s)
  PROVE  HasLedTo(line, s, Len(line) + 1)
BY DEF LeadsTo, LastStepBefore, HasLedTo

\* A line in order stays in order when it gets an event whose need it has met.
LEMMA AppendInOrder ==
  ASSUME NEW line \in Seq(Event), NEW e \in Event, InOrder(line),
         e.type \in Decisions => HasLedTo(line, Needs(e.type), Len(line) + 1)
  PROVE  InOrder(Append(line, e))
<1> DEFINE new == Append(line, e)
<1>1. SUFFICES ASSUME NEW j \in DOMAIN new, new[j].type \in Decisions
               PROVE  HasLedTo(new, Needs(new[j].type), j)
  BY DEF InOrder
<1>2. CASE j \in 1..Len(line)
  <2>1. new[j] = line[j] /\ j \in DOMAIN line /\ j \in 1..(Len(line) + 1)
    BY <1>2
  <2>2. QED
    BY <1>1, <2>1, HasLedGrows DEF InOrder
<1>3. CASE j = Len(line) + 1
  <2>1. new[j] = e /\ j \in 1..(Len(line) + 1)
    BY <1>3
  <2>2. QED
    BY <1>1, <1>3, <2>1, HasLedGrows
<1>4. QED
  BY <1>2, <1>3

-----------------------------------------------------------------------------
(* Decisions that race, when nobody uses PATCH or writes a status.         *)

NobodyEdits == "edit" \notin Endpoints /\ WrittenStatuses \subseteq {"PENDING"}

NoEdits == \A w \in Workers : pc[w] \notin {"save", "clear", "fill"}

\* A decision under way has its prerequisite on the timeline already, although the
\* status that it tested may have changed since.
JustifiedBy(j) ==
  /\ status[j.request] # "unborn"
  /\ Exists(j.request) =>
       HasLedTo(timeline[j.request], Needs(j.op), Len(timeline[j.request]) + 1)
Justified == \A w \in Workers : Deciding(w) => JustifiedBy(job[w])

WInv == TypeOK /\ NoEdits /\ Justified /\ Prerequisites /\ TimelineTellsStatus

\* Steps that leave status and timeline, and begin no decision.
LEMMA QuietStep ==
  ASSUME WInv, TypeOK', UNCHANGED <<status, timeline>>,
         \A w \in Workers : Deciding(w)' => Deciding(w) /\ job'[w] = job[w],
         NoEdits'
  PROVE  WInv'
<1>1. Justified'
  BY DEF WInv, Justified, JustifiedBy, Exists
<1>2. Prerequisites' /\ TimelineTellsStatus'
  BY DEF WInv, Prerequisites, TimelineTellsStatus, Exists
<1>3. QED
  BY <1>1, <1>2 DEF WInv

\* Steps that write the status and the timeline of one request.
LEMMA LineStep ==
  ASSUME WInv, TypeOK', NoEdits', NEW r \in Requests, NEW line, NEW s,
         timeline' = [timeline EXCEPT ![r] = line],
         status' = [status EXCEPT ![r] = s], s # "unborn",
         InOrder(line), s \in Statuses => LeadsTo(line, s),
         \A w \in Workers : Deciding(w)' =>
           /\ Deciding(w) /\ job'[w] = job[w]
           /\ job[w].request = r /\ s \in Statuses =>
                HasLedTo(line, Needs(job[w].op), Len(line) + 1)
  PROVE  WInv'
<1>1. /\ timeline'[r] = line /\ status'[r] = s
      /\ \A q \in Requests \ {r} : timeline'[q] = timeline[q] /\ status'[q] = status[q]
  BY DEF WInv, TypeOK
<1>2. Prerequisites'
  BY <1>1 DEF WInv, Prerequisites
<1>3. TimelineTellsStatus'
  BY <1>1 DEF WInv, TimelineTellsStatus, Exists
<1>4. ASSUME NEW w \in Workers, Deciding(w)' PROVE JustifiedBy(job[w])'
  <2>1. Deciding(w) /\ job'[w] = job[w] /\ JustifiedBy(job[w])
    BY <1>4 DEF WInv, Justified
  <2>2. job[w].request \in Requests
    BY <2>1, Parts, JobFields DEF WInv, Deciding, Active
  <2>3. CASE job[w].request = r
    BY <1>1, <1>4, <2>1, <2>3 DEF JustifiedBy, Exists
  <2>4. CASE job[w].request # r
    BY <1>1, <1>4, <2>1, <2>2, <2>4 DEF JustifiedBy, Exists
  <2>5. QED
    BY <2>3, <2>4
<1>5. Justified'
  BY <1>4 DEF Justified, JustifiedBy, Exists
<1>6. QED
  BY <1>2, <1>3, <1>5 DEF WInv

LEMMA InitW == Init => WInv
<1>1. SUFFICES ASSUME Init PROVE WInv
  OBVIOUS
<1>2. TypeOK
  BY <1>1, InitTyped
<1>3. NoEdits /\ Justified
  BY <1>1 DEF Init, NoEdits, Justified, Deciding
<1>4. Prerequisites /\ TimelineTellsStatus
  BY <1>1 DEF Init, Prerequisites, InOrder, TimelineTellsStatus, Exists, Statuses
<1>5. QED
  BY <1>2, <1>3, <1>4 DEF WInv

LEMMA CallW ==
  ASSUME NobodyEdits, WInv, TypeOK', NEW w \in Workers, Call(w)
  PROVE  WInv'
<1>1. TypeOK /\ NoEdits /\ Justified /\ JobsTyped
  BY Parts DEF WInv
<1>2. PICK r \in Requests, u \in Users :
        \/ \E a \in Users, h \in Warehouses \cup {Nobody}, I \in SUBSET Products,
              s \in {"PENDING"} \cup WrittenStatuses : Create(w, r, u, a, h, I, s)
        \/ \E op \in Decisions : Decide(w, r, u, op)
        \/ Delete(w, r, u)
  BY DEF Call, Approve, Reject, MarkReady, Collect, Decisions, Edit, NobodyEdits
<1>3. ASSUME NEW a \in Users, NEW h \in Warehouses \cup {Nobody}, NEW I \in SUBSET Products,
             NEW s \in {"PENDING"} \cup WrittenStatuses, Create(w, r, u, a, h, I, s)
      PROVE  WInv'
  <2> DEFINE e == [type |-> "create", by |-> u]
  <2>1. /\ s = "PENDING" /\ e \in Event /\ IsStep(e) /\ Becomes(e.type) = s
        /\ e.type \notin Decisions
    BY DEF NobodyEdits, Event, IsStep, Becomes, Decisions
  <2>2. LeadsTo(<<e>>, s)
    <3>1. <<>> \in Seq(Event) /\ Append(<<>>, e) = <<e>>
      OBVIOUS
    <3>2. LeadsTo(Append(<<>>, e), Becomes(e.type))
      BY <2>1, <3>1, AppendLeads
    <3>3. QED
      BY <2>1, <3>1, <3>2
  <2>3. InOrder(<<e>>)
    BY <2>1 DEF InOrder
  <2>4. NoEdits' /\ ~Deciding(w)'
    BY <1>1, <1>3 DEF NoEdits, Deciding, Create, Go, JobsTyped
  <2>5. \A v \in Workers \ {w} : pc'[v] = pc[v] /\ job'[v] = job[v]
    BY <1>1, <1>3 DEF Create, Go, JobsTyped
  <2>6. ASSUME NEW v \in Workers, Deciding(v)'
        PROVE  Deciding(v) /\ job'[v] = job[v] /\ job[v].request # r
    BY <1>1, <1>3, <2>4, <2>5, <2>6 DEF Deciding, Justified, JustifiedBy, Create
  <2>7. timeline' = [timeline EXCEPT ![r] = <<e>>] /\ status' = [status EXCEPT ![r] = s]
    BY <1>3 DEF Create
  <2>8. QED
    BY <2>1, <2>2, <2>3, <2>4, <2>6, <2>7, LineStep
<1>4. ASSUME NEW op \in Decisions, Decide(w, r, u, op)
      PROVE  WInv'
  <2> DEFINE j == [op |-> op, request |-> r, actor |-> u]
  <2>1. /\ UNCHANGED <<status, timeline>> /\ Exists(r) /\ status[r] = Needs(op)
        /\ job' = [job EXCEPT ![w] = j] /\ pc' = [pc EXCEPT ![w] = "update"]
    BY <1>4 DEF Decide, Sees, Fits, Go, requestVars
  <2>2. HasLedTo(timeline[r], Needs(op), Len(timeline[r]) + 1)
    BY <1>1, <2>1, LeadsImpliesHasLed DEF WInv, TimelineTellsStatus, TypeOK
  <2>3. JustifiedBy(j)
    BY <2>1, <2>2 DEF JustifiedBy, Exists, Statuses
  <2>4. NoEdits' /\ Justified'
    BY <1>1, <2>1, <2>3 DEF NoEdits, Justified, JustifiedBy, Deciding, Exists, JobsTyped
  <2>5. Prerequisites' /\ TimelineTellsStatus'
    BY <2>1 DEF WInv, Prerequisites, TimelineTellsStatus, Exists
  <2>6. QED
    BY <2>4, <2>5 DEF WInv
<1>5. ASSUME Delete(w, r, u)
      PROVE  WInv'
  <2>1. UNCHANGED <<status, timeline>>
    BY <1>5 DEF Delete, requestVars
  <2>2. NoEdits' /\ \A v \in Workers : Deciding(v)' => Deciding(v) /\ job'[v] = job[v]
    BY <1>1, <1>5 DEF NoEdits, Deciding, Delete, Go, JobsTyped
  <2>3. QED
    BY <2>1, <2>2, QuietStep
<1>6. QED
  BY <1>2, <1>3, <1>4, <1>5

LEMMA ProceedW ==
  ASSUME NobodyEdits, WInv, TypeOK', NEW w \in Workers, Proceed(w) \/ Abort(w)
  PROVE  WInv'
<1> DEFINE r == job[w].request
           op == job[w].op
<1>1. TypeOK /\ NoEdits /\ Justified /\ JobsTyped /\ RequestsTyped
  BY Parts DEF WInv
<1>2. CASE Update(w)
  <2>1. NoEdits' /\ \A v \in Workers : Deciding(v)' => Deciding(v) /\ job'[v] = job[v]
    BY <1>1, <1>2 DEF NoEdits, Deciding, Update, Go, JobsTyped
  <2>2. QED
    BY <1>2, <2>1, QuietStep DEF Update, requestVars
<1>3. CASE Enqueue(w) \/ Abort(w)
  <2>1. NoEdits' /\ \A v \in Workers : Deciding(v)' => Deciding(v) /\ job'[v] = job[v]
    BY <1>1, <1>3 DEF NoEdits, Deciding, Enqueue, Abort, Idle, Go, JobsTyped
  <2>2. QED
    BY <1>3, <2>1, QuietStep DEF Enqueue, Abort, requestVars
<1>4. CASE LogAndCommit(w)
  <2> DEFINE e == [type |-> op, by |-> job[w].actor]
             line == timeline[r]
  <2>1. pc[w] = "log" /\ r \in Requests /\ op \in Decisions /\ job[w].actor \in Users
    BY <1>1, <1>4, JobFields DEF LogAndCommit, Active
  <2>2. e \in Event /\ IsStep(e) /\ line \in Seq(Event)
    BY <1>1, <2>1 DEF Event, IsStep, Decisions, RequestsTyped
  <2>3. Exists(r)
    BY <1>1, <2>1, UsersAssumption DEF JobsTyped, RequestsTyped, Holds
  <2>4. HasLedTo(line, Needs(op), Len(line) + 1)
    BY <1>1, <2>1, <2>3 DEF Justified, JustifiedBy, Deciding
  <2>5. InOrder(line)
    BY <2>1 DEF WInv, Prerequisites
  <2>6. InOrder(Append(line, e)) /\ LeadsTo(Append(line, e), Becomes(op))
    BY <2>2, <2>4, <2>5, AppendInOrder, AppendLeads
  <2>7. NoEdits' /\ ~Deciding(w)'
    BY <1>1, <1>4, <2>1 DEF NoEdits, Deciding, LogAndCommit, Idle, Go, JobsTyped
  <2>8. \A v \in Workers \ {w} : pc'[v] = pc[v] /\ job'[v] = job[v]
    BY <1>1, <1>4 DEF LogAndCommit, Idle, Go, JobsTyped
  <2>9. ASSUME NEW v \in Workers, Deciding(v)'
        PROVE  /\ Deciding(v) /\ job'[v] = job[v]
               /\ job[v].request = r =>
                    HasLedTo(Append(line, e), Needs(job[v].op), Len(Append(line, e)) + 1)
    <3>1. Deciding(v) /\ job'[v] = job[v] /\ JustifiedBy(job[v])
      BY <1>1, <2>7, <2>8, <2>9 DEF Deciding, Justified
    <3>2. ASSUME job[v].request = r
          PROVE  HasLedTo(Append(line, e), Needs(job[v].op), Len(Append(line, e)) + 1)
      <4>1. HasLedTo(line, Needs(job[v].op), Len(line) + 1)
        BY <2>3, <3>1, <3>2 DEF JustifiedBy
      <4>2. QED
        BY <2>2, <4>1, HasLedGrows
    <3>3. QED
      BY <3>1, <3>2
  <2>10. /\ timeline' = [timeline EXCEPT ![r] = Append(line, e)]
         /\ status' = [status EXCEPT ![r] = Becomes(op)]
    BY <1>1, <1>4, <2>1 DEF LogAndCommit, RequestsTyped
  <2>11. Becomes(op) \in Statuses /\ Becomes(op) # "unborn"
    BY <2>1 DEF Becomes, Decisions, Statuses
  <2> DEFINE new == Append(line, e)
             s == Becomes(op)
  <2>12. /\ \A v \in Workers : Deciding(v)' =>
              /\ Deciding(v) /\ job'[v] = job[v]
              /\ job[v].request = r /\ s \in Statuses =>
                   HasLedTo(new, Needs(job[v].op), Len(new) + 1)
         /\ timeline' = [timeline EXCEPT ![r] = new]
         /\ status' = [status EXCEPT ![r] = s]
         /\ r \in Requests /\ NoEdits' /\ InOrder(new) /\ LeadsTo(new, s) /\ s # "unborn"
    BY <2>1, <2>6, <2>7, <2>9, <2>10, <2>11
  <2> HIDE DEF new, s, r, op
  <2>13. QED
    BY <2>12, LineStep
<1>5. CASE Destroy(w)
  <2>1. pc[w] = "destroy" /\ r \in Requests
    BY <1>1, <1>5, JobFields DEF Destroy, Active
  <2>2. InOrder(<<>>)
    BY DEF InOrder
  <2>3. NoEdits' /\ \A v \in Workers : Deciding(v)' => Deciding(v) /\ job'[v] = job[v]
    BY <1>1, <1>5 DEF NoEdits, Deciding, Destroy, Idle, Go, JobsTyped
  <2>4. /\ timeline' = [timeline EXCEPT ![r] = <<>>]
        /\ status' = [status EXCEPT ![r] = "deleted"]
    BY <1>5 DEF Destroy
  <2>5. "deleted" \notin Statuses /\ "deleted" # "unborn"
    BY DEF Statuses
  <2>6. QED
    BY <2>1, <2>2, <2>3, <2>4, <2>5, LineStep
<1>6. QED
  BY <1>1, <1>2, <1>3, <1>4, <1>5
     DEF Proceed, NoEdits, Save, ClearItems, FillItems

LEMMA RunnerW ==
  ASSUME WInv, TypeOK', NEW k \in Runners, RunnerStep(k)
  PROVE  WInv'
<1>1. TypeOK /\ NoEdits /\ RequestsTyped /\ TasksTyped /\ JobsTyped
  BY Parts DEF WInv
<1>2. UNCHANGED <<status, job, pc>>
  BY DEF RunnerStep, StartTask, SendMail, LogMail, LoseTask, requestVars
<1>3. NoEdits' /\ \A w \in Workers : Deciding(w)' => Deciding(w) /\ job'[w] = job[w]
  BY <1>1, <1>2 DEF NoEdits, Deciding
<1>4. CASE UNCHANGED timeline
  BY <1>2, <1>3, <1>4, QuietStep
<1>5. CASE LogMail(k) /\ Exists(run[k].task.request)
  <2> DEFINE r == run[k].task.request
             e == [type |-> "mail", to |-> run[k].task.to]
             line == timeline[r]
             new == Append(line, e)
             s == status[r]
  <2>1. run[k].task \in Task
    BY <1>1, <1>5 DEF TasksTyped, LogMail
  <2>2. r \in Requests /\ e \in Event /\ ~IsStep(e) /\ e.type \notin Decisions
    BY <2>1 DEF Task, Event, IsStep, Decisions
  <2>3. line \in Seq(Event) /\ LeadsTo(line, s) /\ InOrder(line)
    BY <1>1, <1>5, <2>2 DEF RequestsTyped, WInv, TimelineTellsStatus, Prerequisites
  <2>4. LeadsTo(new, s) /\ InOrder(new)
    BY <2>2, <2>3, NoteLeads, AppendInOrder
  <2>5. ASSUME NEW w \in Workers, Deciding(w)', job[w].request = r
        PROVE  HasLedTo(new, Needs(job[w].op), Len(new) + 1)
    <3>1. Deciding(w) /\ JustifiedBy(job[w])
      BY <1>3, <2>5 DEF WInv, Justified
    <3>2. HasLedTo(line, Needs(job[w].op), Len(line) + 1)
      BY <1>5, <2>5, <3>1 DEF JustifiedBy
    <3>3. QED
      BY <2>2, <2>3, <3>2, HasLedGrows
  <2>6. /\ timeline' = [timeline EXCEPT ![r] = new]
        /\ status' = [status EXCEPT ![r] = s] /\ s # "unborn"
    BY <1>1, <1>2, <1>5, <2>2 DEF LogMail, RequestsTyped, Exists, Statuses
  <2>7. \A w \in Workers : Deciding(w)' =>
          /\ Deciding(w) /\ job'[w] = job[w]
          /\ job[w].request = r /\ s \in Statuses =>
               HasLedTo(new, Needs(job[w].op), Len(new) + 1)
    BY <1>3, <2>5
  <2> HIDE DEF r, new, s
  <2>8. QED
    BY <1>3, <2>2, <2>4, <2>6, <2>7, LineStep
<1>6. QED
  BY <1>4, <1>5 DEF RunnerStep, StartTask, SendMail, LogMail, LoseTask

LEMMA StepW ==
  ASSUME NobodyEdits, WInv, [Next]_vars
  PROVE  WInv'
<1>1. TypeOK'
  BY StepTyped DEF WInv
<1>2. ASSUME NEW w \in Workers, Call(w) \/ Proceed(w) \/ Abort(w) PROVE WInv'
  BY <1>1, <1>2, CallW, ProceedW
<1>3. ASSUME NEW k \in Runners, RunnerStep(k) PROVE WInv'
  BY <1>1, <1>3, RunnerW
<1>4. CASE UNCHANGED <<status, timeline, job, pc>>
  <2>1. NoEdits' /\ \A w \in Workers : Deciding(w)' => Deciding(w) /\ job'[w] = job[w]
    BY <1>4 DEF WInv, NoEdits, Deciding
  <2>2. QED
    BY <1>1, <1>4, <2>1, QuietStep
<1>5. QED
  BY <1>2, <1>3, <1>4 DEF Next, RunnerStep, Reassign, vars

LEMMA WInvariance ==
  ASSUME NobodyEdits
  PROVE  Spec => []WInv
<1>1. Init => WInv
  BY InitW
<1>2. WInv /\ [Next]_vars => WInv'
  BY StepW
<1>3. QED
  BY <1>1, <1>2, PTL DEF Spec

\* Status and timeline agree at every moment, whoever decides, deletes or dies.
THEOREM TimelineTells ==
  ASSUME NobodyEdits
  PROVE  Spec => []TimelineTellsStatus
<1>1. WInv => TimelineTellsStatus
  BY DEF WInv
<1>2. QED
  BY <1>1, WInvariance, PTL

\* However decisions race, goods are packed after an approval only, and collected
\* after they were packed.
THEOREM PrerequisitesHold ==
  ASSUME NobodyEdits
  PROVE  Spec => []Prerequisites
<1>1. WInv => Prerequisites
  BY DEF WInv
<1>2. QED
  BY <1>1, WInvariance, PTL

-----------------------------------------------------------------------------
(* Decisions that do not overlap.                                          *)

\* A transition appended to a line of which the last transition is the one that
\* it depends on; and a note, which is no transition.
LEMMA AppendFollowed ==
  ASSUME NEW line \in Seq(Event), NEW e \in Event, Followed(line),
         e.type \in Decisions => LeadsTo(line, Needs(e.type))
  PROVE  Followed(Append(line, e))
<1> DEFINE new == Append(line, e)
<1>0. /\ Len(new) = Len(line) + 1 /\ new[Len(line) + 1] = e
      /\ \A i \in 1..Len(line) : new[i] = line[i]
      /\ DOMAIN new = 1..(Len(line) + 1) /\ DOMAIN line = 1..Len(line)
      /\ Len(line) \in Nat
  OBVIOUS
<1> HIDE DEF new
<1>1. SUFFICES ASSUME NEW j \in DOMAIN new, new[j].type \in Decisions
               PROVE  \E i \in 1..(j - 1) :
                        LastStepBefore(new, i, j)
                        /\ Becomes(new[i].type) = Needs(new[j].type)
  BY DEF Followed, new
<1>2. ASSUME NEW i \in 1..(j - 1), LastStepBefore(line, i, j), i \in DOMAIN line
      PROVE  LastStepBefore(new, i, j) /\ new[i] = line[i]
  BY <1>0, <1>2 DEF LastStepBefore
<1>3. CASE j \in 1..Len(line)
  <2>1. PICK i \in 1..(j - 1) :
          LastStepBefore(line, i, j) /\ Becomes(line[i].type) = Needs(line[j].type)
    BY <1>0, <1>1, <1>3 DEF Followed
  <2>2. i \in DOMAIN line /\ new[j] = line[j]
    BY <1>0, <1>3
  <2>3. QED
    BY <1>2, <2>1, <2>2
<1>4. CASE j = Len(line) + 1
  <2>1. new[j] = e /\ LeadsTo(line, Needs(e.type))
    BY <1>0, <1>1, <1>4
  <2>2. PICK i \in DOMAIN line :
          LastStepBefore(line, i, j) /\ Becomes(line[i].type) = Needs(e.type)
    BY <1>4, <2>1 DEF LeadsTo
  <2>3. i \in 1..(j - 1)
    BY <1>0, <1>4
  <2>4. QED
    BY <1>2, <2>1, <2>2, <2>3
<1>5. QED
  BY <1>0, <1>1, <1>3, <1>4

\* Between the read and the write of a decision nothing else writes the request,
\* so that the status it tested still holds, unless the request was deleted.
DecidesRightly(r) ==
  \A w \in Workers : Deciding(w) /\ job[w].request = r =>
    status[r] \in {"deleted", Needs(job[w].op)}
LineRight(r) ==
  /\ DecidesRightly(r)
  /\ Exists(r) => LeadsTo(timeline[r], status[r])
  /\ Followed(timeline[r])
Apart(r) ==
  /\ \A v, w \in Workers : Writes(v, r) /\ Writes(w, r) => v = w
  /\ \A w \in Workers : ~Overrides(w, r)
FInv == TypeOK /\ \A r \in Requests \ disturbed : LineRight(r) /\ Apart(r)

LEMMA NeedsKnown == \A op \in Decisions : Needs(op) \in Statuses
BY DEF Decisions, Needs, Statuses

\* Steps that leave the status and the timeline of r, and begin no decision on it.
LEMMA QuietLine ==
  ASSUME NEW r \in Requests, LineRight(r),
         status'[r] = status[r], timeline'[r] = timeline[r],
         \A w \in Workers : Deciding(w)' /\ job'[w].request = r =>
           Deciding(w) /\ job'[w] = job[w]
  PROVE  LineRight(r)'
<1>1. DecidesRightly(r)'
  BY DEF LineRight, DecidesRightly
<1>2. (Exists(r) => LeadsTo(timeline[r], status[r]))'
  BY DEF LineRight, Exists
<1>3. Followed(timeline'[r])
  BY DEF LineRight
<1>4. QED
  BY <1>1, <1>2, <1>3 DEF LineRight

LEMMA CallFollowed ==
  ASSUME TypeOK, NEW w \in Workers, Call(w), NEW r \in Requests, LineRight(r),
         status[r] = "unborn" => status'[r] \in {"unborn", "PENDING"}
  PROVE  LineRight(r)'
<1>1. JobsTyped /\ RequestsTyped
  BY Parts
<1>2. PICK q \in Requests, u \in Users :
        \/ \E a \in Users, h \in Warehouses \cup {Nobody}, I \in SUBSET Products,
              s \in {"PENDING"} \cup WrittenStatuses : Create(w, q, u, a, h, I, s)
        \/ \E op \in Decisions : Decide(w, q, u, op)
        \/ \E new \in Copies : Edit(w, q, u, new)
        \/ Delete(w, q, u)
  BY DEF Call, Approve, Reject, MarkReady, Collect, Decisions
<1>3. ASSUME NEW a \in Users, NEW h \in Warehouses \cup {Nobody}, NEW I \in SUBSET Products,
             NEW s \in {"PENDING"} \cup WrittenStatuses, Create(w, q, u, a, h, I, s)
      PROVE  LineRight(r)'
  <2> DEFINE e == [type |-> "create", by |-> u]
  <2>1. /\ status[q] = "unborn"
        /\ status' = [status EXCEPT ![q] = s] /\ timeline' = [timeline EXCEPT ![q] = <<e>>]
        /\ job' = [job EXCEPT ![w] = [op |-> "create", request |-> q]]
        /\ pc' = [pc EXCEPT ![w] = "enqueue"]
    BY <1>3 DEF Create, Go
  <2>2. \A v \in Workers : Deciding(v)' => Deciding(v) /\ job'[v] = job[v]
    BY <1>1, <2>1 DEF Deciding, JobsTyped
  <2>3. CASE r # q
    BY <1>1, <2>1, <2>2, <2>3, QuietLine DEF RequestsTyped
  <2>4. CASE r = q
    <3>1. status'[r] = "PENDING" /\ timeline'[r] = <<e>>
      BY <1>1, <2>1, <2>4, StatusAssumption DEF RequestsTyped, Statuses
    <3>2. e \in Event /\ IsStep(e) /\ Becomes(e.type) = "PENDING" /\ e.type \notin Decisions
      BY DEF Event, IsStep, Becomes, Decisions
    <3>3. <<>> \in Seq(Event) /\ Append(<<>>, e) = <<e>>
      OBVIOUS
    <3>4. LeadsTo(<<e>>, "PENDING")
      BY <3>2, <3>3, AppendLeads
    <3>5. Followed(<<e>>)
      BY <3>2 DEF Followed
    <3>6. ASSUME NEW v \in Workers, Deciding(v)', job'[v].request = r PROVE FALSE
      <4>1. Deciding(v) /\ job[v].request = r
        BY <2>2, <3>6
      <4>2. job[v].op \in Decisions /\ status[r] \in {"deleted", Needs(job[v].op)}
        BY <1>1, <4>1, JobFields DEF LineRight, DecidesRightly, Deciding, Active
      <4>3. QED
        BY <2>1, <2>4, <4>2, NeedsKnown DEF Statuses
    <3>7. DecidesRightly(r)'
      BY <3>6 DEF DecidesRightly, Deciding
    <3>8. QED
      BY <3>1, <3>4, <3>5, <3>7 DEF LineRight
  <2>5. QED
    BY <2>3, <2>4
<1>4. ASSUME NEW op \in Decisions, Decide(w, q, u, op)
      PROVE  LineRight(r)'
  <2> DEFINE j == [op |-> op, request |-> q, actor |-> u]
  <2>1. /\ UNCHANGED <<status, timeline>> /\ status[q] = Needs(op)
        /\ job' = [job EXCEPT ![w] = j] /\ pc' = [pc EXCEPT ![w] = "update"]
    BY <1>4 DEF Decide, Fits, Go, requestVars
  <2>2. ASSUME NEW v \in Workers, Deciding(v)', job'[v].request = r
        PROVE  status[r] \in {"deleted", Needs(job'[v].op)}
    <3>1. CASE v = w
      BY <1>1, <2>1, <2>2, <3>1 DEF JobsTyped
    <3>2. CASE v # w
      BY <1>1, <2>1, <2>2, <3>2 DEF JobsTyped, Deciding, LineRight, DecidesRightly
    <3>3. QED
      BY <3>1, <3>2
  <2>3. DecidesRightly(r)'
    BY <2>1, <2>2 DEF DecidesRightly
  <2>4. QED
    BY <2>1, <2>3 DEF LineRight, Exists
<1>5. ASSUME (\E new \in Copies : Edit(w, q, u, new)) \/ Delete(w, q, u)
      PROVE  LineRight(r)'
  <2>1. UNCHANGED <<status, timeline>>
    BY <1>5 DEF Edit, Delete, requestVars
  <2>2. \A v \in Workers : Deciding(v)' => Deciding(v) /\ job'[v] = job[v]
    BY <1>1, <1>5 DEF Deciding, Edit, Delete, Go, JobsTyped
  <2>3. QED
    BY <2>1, <2>2, QuietLine
<1>6. QED
  BY <1>2, <1>3, <1>4, <1>5

LEMMA ProceedFollowed ==
  ASSUME TypeOK, NEW w \in Workers, Proceed(w) \/ Abort(w),
         NEW r \in Requests, LineRight(r), Apart(r)
  PROVE  LineRight(r)'
<1> DEFINE q == job[w].request
           op == job[w].op
<1>1. JobsTyped /\ RequestsTyped
  BY Parts
<1>2. \A v \in Workers : Deciding(v)' => Deciding(v) /\ job'[v] = job[v]
  BY <1>1 DEF Deciding, Proceed, Update, LogAndCommit, Enqueue, Save, ClearItems,
              FillItems, Destroy, Abort, Idle, Go, JobsTyped
<1>3. CASE UNCHANGED <<status, timeline>>
  BY <1>2, <1>3, QuietLine
<1>4. CASE LogAndCommit(w)
  <2> DEFINE e == [type |-> op, by |-> job[w].actor]
             line == timeline[r]
  <2>1. pc[w] = "log" /\ q \in Requests /\ op \in Decisions /\ job[w].actor \in Users
    BY <1>1, <1>4, JobFields DEF LogAndCommit, Active
  <2>2. /\ timeline' = [timeline EXCEPT ![q] = Append(timeline[q], e)]
        /\ status' = [status EXCEPT ![q] = Becomes(op)]
    BY <1>1, <1>4, <2>1 DEF LogAndCommit, RequestsTyped
  <2>3. CASE r # q
    BY <1>1, <1>2, <2>2, <2>3, QuietLine DEF RequestsTyped
  <2>4. CASE r = q
    <3>1. e \in Event /\ IsStep(e) /\ line \in Seq(Event)
      BY <1>1, <2>1 DEF Event, IsStep, Decisions, RequestsTyped
    <3>2. Exists(r)
      BY <1>1, <2>1, <2>4, UsersAssumption DEF JobsTyped, RequestsTyped, Holds
    <3>3. status[r] = Needs(op)
      BY <2>1, <2>4, <3>2 DEF LineRight, DecidesRightly, Deciding, Exists, Statuses
    <3>4. LeadsTo(line, Needs(op)) /\ Followed(line)
      BY <3>2, <3>3 DEF LineRight
    <3>5. Followed(Append(line, e)) /\ LeadsTo(Append(line, e), Becomes(op))
      BY <3>1, <3>4, AppendFollowed, AppendLeads
    <3>6. timeline'[r] = Append(line, e) /\ status'[r] = Becomes(op)
      BY <1>1, <2>2, <2>4 DEF RequestsTyped
    <3>7. ~Deciding(w)'
      BY <1>1, <1>4 DEF Deciding, LogAndCommit, Idle, Go, JobsTyped
    <3>8. \A v \in Workers : Deciding(v)' => job'[v].request # r
      BY <1>2, <2>1, <2>4, <3>7 DEF Apart, Writes, Deciding
    <3>9. DecidesRightly(r)'
      BY <3>8 DEF DecidesRightly, Deciding
    <3>10. QED
      BY <3>5, <3>6, <3>9 DEF LineRight
  <2>5. QED
    BY <2>3, <2>4
<1>5. CASE Save(w)
  <2>1. q \in Requests /\ status' = [status EXCEPT ![q] = job[w].copy.status]
        /\ timeline' = timeline /\ pc[w] = "save"
    BY <1>1, <1>5, JobFields DEF Save, Active
  <2>2. status'[r] = status[r]
    BY <1>1, <2>1 DEF Apart, Overrides, RequestsTyped
  <2>3. QED
    BY <1>2, <2>1, <2>2, QuietLine
<1>6. CASE Destroy(w)
  <2>1. /\ q \in Requests /\ status' = [status EXCEPT ![q] = "deleted"]
        /\ timeline' = [timeline EXCEPT ![q] = <<>>]
    BY <1>1, <1>6, JobFields DEF Destroy, Active
  <2>2. CASE r # q
    BY <1>1, <1>2, <2>1, <2>2, QuietLine DEF RequestsTyped
  <2>3. CASE r = q
    <3>1. status'[r] = "deleted" /\ timeline'[r] = <<>>
      BY <1>1, <2>1, <2>3 DEF RequestsTyped
    <3>2. QED
      BY <3>1 DEF LineRight, DecidesRightly, Exists, Statuses, Followed
  <2>4. QED
    BY <2>2, <2>3
<1>7. QED
  BY <1>3, <1>4, <1>5, <1>6
     DEF Proceed, Update, Enqueue, ClearItems, FillItems, Abort, requestVars

LEMMA RunnerFollowed ==
  ASSUME TypeOK, NEW k \in Runners, RunnerStep(k), NEW r \in Requests, LineRight(r)
  PROVE  LineRight(r)'
<1>1. RequestsTyped /\ TasksTyped /\ JobsTyped
  BY Parts
<1>2. UNCHANGED <<status, job, pc>>
  BY DEF RunnerStep, StartTask, SendMail, LogMail, LoseTask, requestVars
<1>3. \A w \in Workers : Deciding(w)' => Deciding(w) /\ job'[w] = job[w]
  BY <1>2 DEF Deciding
<1>4. CASE timeline'[r] = timeline[r]
  BY <1>2, <1>3, <1>4, QuietLine
<1>5. CASE LogMail(k) /\ Exists(run[k].task.request) /\ run[k].task.request = r
  <2> DEFINE e == [type |-> "mail", to |-> run[k].task.to]
             line == timeline[r]
  <2>1. e \in Event /\ ~IsStep(e) /\ e.type \notin Decisions /\ line \in Seq(Event)
    BY <1>1, <1>5 DEF TasksTyped, LogMail, Task, Event, IsStep, Decisions, RequestsTyped
  <2>2. LeadsTo(line, status[r]) /\ Followed(line)
    BY <1>5 DEF LineRight
  <2>3. LeadsTo(Append(line, e), status[r]) /\ Followed(Append(line, e))
    BY <2>1, <2>2, NoteLeads, AppendFollowed
  <2>4. timeline'[r] = Append(line, e) /\ status'[r] = status[r]
    BY <1>1, <1>2, <1>5 DEF LogMail, RequestsTyped
  <2>5. DecidesRightly(r)'
    BY <1>2, <1>3 DEF LineRight, DecidesRightly
  <2>6. QED
    BY <2>3, <2>4, <2>5 DEF LineRight
<1>6. QED
  BY <1>1, <1>4, <1>5
     DEF RunnerStep, StartTask, SendMail, LogMail, LoseTask, RequestsTyped, TasksTyped

LEMMA InitF == AInit => FInv
<1>1. SUFFICES ASSUME AInit PROVE FInv
  OBVIOUS
<1>2. TypeOK
  BY <1>1, InitTyped DEF AInit
<1>3. \A r \in Requests : LineRight(r) /\ Apart(r)
  BY <1>1 DEF AInit, Init, LineRight, DecidesRightly, Deciding, Exists, Statuses, Followed,
              Apart, Writes, Overrides
<1>4. QED
  BY <1>2, <1>3 DEF FInv

LEMMA StepF == FInv /\ [ANext]_<<vars, auditVars>> => FInv'
<1>1. SUFFICES ASSUME FInv, [ANext]_<<vars, auditVars>> PROVE FInv'
  OBVIOUS
<1>2. TypeOK /\ TypeOK'
  BY <1>1, StepTyped DEF FInv, ANext, auditVars
<1>3. CASE UNCHANGED <<vars, auditVars>>
  <2>1. \A r \in Requests \ disturbed : LineRight(r)' /\ Apart(r)'
    BY <1>1, <1>3 DEF FInv, vars, auditVars, LineRight, DecidesRightly, Deciding, Exists,
                      Apart, Writes, Overrides
  <2>2. QED
    BY <1>2, <1>3, <2>1 DEF FInv, auditVars
<1>4. CASE ANext
  <2>1. SUFFICES ASSUME NEW r \in Requests \ disturbed' PROVE LineRight(r)' /\ Apart(r)'
    BY <1>2 DEF FInv
  <2>2. /\ r \notin disturbed
        /\ \A v, w \in Workers : Writes(v, r)' /\ Writes(w, r)' => v = w
        /\ \A w \in Workers : ~Overrides(w, r)'
        /\ status[r] = "unborn" => status'[r] \in {"unborn", Becomes("create")}
    BY <1>4 DEF ANext, Observe
  <2>3. Apart(r)' /\ LineRight(r) /\ Apart(r)
    BY <1>1, <2>2 DEF FInv, Apart
  <2>4. Becomes("create") = "PENDING"
    BY DEF Becomes
  <2>5. ASSUME NEW w \in Workers, Call(w) PROVE LineRight(r)'
    BY <1>2, <2>2, <2>3, <2>4, <2>5, CallFollowed
  <2>6. ASSUME NEW w \in Workers, Proceed(w) \/ Abort(w) PROVE LineRight(r)'
    BY <1>2, <2>3, <2>6, ProceedFollowed
  <2>7. ASSUME NEW k \in Runners, RunnerStep(k) PROVE LineRight(r)'
    BY <1>2, <2>3, <2>7, RunnerFollowed
  <2>8. CASE UNCHANGED <<status, timeline, job, pc>>
    BY <2>3, <2>8 DEF LineRight, DecidesRightly, Deciding, Exists
  <2>9. QED
    BY <1>4, <2>3, <2>5, <2>6, <2>7, <2>8 DEF ANext, Next, RunnerStep, Reassign
<1>5. QED
  BY <1>1, <1>3, <1>4

\* Unless calls that write its status overlap, or a client writes one of its own,
\* each decision on a request's timeline follows the transition it depends on,
\* whatever is edited, deleted or mailed meanwhile.
THEOREM EachDecisionFollows == ASpec => []WorkflowFollowed
<1>1. FInv => WorkflowFollowed
  BY DEF FInv, LineRight, WorkflowFollowed
<1>2. QED
  BY <1>1, InitF, StepF, PTL DEF ASpec

-----------------------------------------------------------------------------
(* E-mails.                                                                *)

\* Workers that have committed a transition and are to enqueue task t, and runners
\* that have sent its e-mail and are to note it.
Pending(t) == {w \in Workers : /\ pc[w] = "enqueue"
                               /\ job[w].request = t.request
                               /\ t.to \in Notifies(job[w].op)}
Logging(t) == {k \in Runners : run[k] = [task |-> t, stage |-> "log"]}

\* The books of a task: what was sent, is being sent, waits in the queue or is to
\* be enqueued has its own cause, and what is noted or is to be noted was sent.
Balanced(m, S, q, P, C, N, L) ==
  /\ IsFiniteSet(S) /\ IsFiniteSet(P) /\ IsFiniteSet(C)
  /\ IsFiniteSet(N) /\ IsFiniteSet(L)
  /\ m \in Nat /\ q \in Nat
  /\ m + Cardinality(S) + q + Cardinality(P) <= Cardinality(C)
  /\ Cardinality(N) + Cardinality(L) <= m

Ledger(t) ==
  Balanced(mails[t], Sending(t), queue[t], Pending(t), Causes(t), Noted(t), Logging(t))

LEMMA Shrinks ==
  ASSUME NEW m, NEW S, NEW q, NEW P, NEW C, NEW N, NEW L, Balanced(m, S, q, P, C, N, L),
         NEW S2 \in SUBSET S, NEW q2 \in Nat, q2 <= q, NEW P2 \in SUBSET P,
         NEW L2 \in SUBSET L
  PROVE  Balanced(m, S2, q2, P2, C, N, L2)
<1>1. /\ IsFiniteSet(S2) /\ Cardinality(S2) <= Cardinality(S)
      /\ IsFiniteSet(P2) /\ Cardinality(P2) <= Cardinality(P)
      /\ IsFiniteSet(L2) /\ Cardinality(L2) <= Cardinality(L)
  BY FS_Subset DEF Balanced
<1>2. /\ Cardinality(S) \in Nat /\ Cardinality(P) \in Nat /\ Cardinality(C) \in Nat
      /\ Cardinality(N) \in Nat /\ Cardinality(L) \in Nat
      /\ Cardinality(S2) \in Nat /\ Cardinality(P2) \in Nat /\ Cardinality(L2) \in Nat
  BY <1>1, FS_CardinalityType DEF Balanced
<1>3. QED
  BY <1>1, <1>2 DEF Balanced

LEMMA OneMore ==
  ASSUME NEW S, IsFiniteSet(S), NEW x
  PROVE  /\ IsFiniteSet(S \cup {x})
         /\ Cardinality(S \cup {x}) <= Cardinality(S) + 1
         /\ x \notin S => Cardinality(S \cup {x}) = Cardinality(S) + 1
<1>1. Cardinality(S) \in Nat
  BY FS_CardinalityType
<1>2. /\ IsFiniteSet(S \cup {x})
      /\ Cardinality(S \cup {x}) = IF x \in S THEN Cardinality(S) ELSE Cardinality(S) + 1
  BY FS_AddElement
<1>3. QED
  BY <1>1, <1>2

\* A commit adds a cause, and a worker that is to enqueue the task.
LEMMA Committed ==
  ASSUME NEW m, NEW S, NEW q, NEW P, NEW C, NEW N, NEW L, Balanced(m, S, q, P, C, N, L),
         NEW w, NEW x, x \notin C
  PROVE  Balanced(m, S, q, P \cup {w}, C \cup {x}, N, L)
<1>1. /\ IsFiniteSet(P \cup {w}) /\ Cardinality(P \cup {w}) <= Cardinality(P) + 1
      /\ IsFiniteSet(C \cup {x}) /\ Cardinality(C \cup {x}) = Cardinality(C) + 1
  BY OneMore DEF Balanced
<1>2. /\ Cardinality(S) \in Nat /\ Cardinality(P) \in Nat /\ Cardinality(C) \in Nat
      /\ Cardinality(P \cup {w}) \in Nat /\ Cardinality(C \cup {x}) \in Nat
  BY <1>1, FS_CardinalityType DEF Balanced
<1>3. QED
  BY <1>1, <1>2 DEF Balanced

\* The worker enqueues the task, or fails to.
LEMMA Enqueued ==
  ASSUME NEW m, NEW S, NEW q, NEW P, NEW C, NEW N, NEW L, Balanced(m, S, q, P, C, N, L),
         NEW w \in P
  PROVE  Balanced(m, S, q + 1, P \ {w}, C, N, L)
<1>1. IsFiniteSet(P \ {w}) /\ Cardinality(P \ {w}) = Cardinality(P) - 1
  BY FS_RemoveElement DEF Balanced
<1>2. /\ Cardinality(S) \in Nat /\ Cardinality(P) \in Nat /\ Cardinality(C) \in Nat
      /\ Cardinality(P \ {w}) \in Nat
  BY <1>1, FS_CardinalityType DEF Balanced
<1>3. QED
  BY <1>1, <1>2 DEF Balanced

\* A runner takes the task from the queue.
LEMMA Started ==
  ASSUME NEW m, NEW S, NEW q, NEW P, NEW C, NEW N, NEW L, Balanced(m, S, q, P, C, N, L),
         NEW k, q > 0
  PROVE  Balanced(m, S \cup {k}, q - 1, P, C, N, L)
<1>1. IsFiniteSet(S \cup {k}) /\ Cardinality(S \cup {k}) <= Cardinality(S) + 1
  BY OneMore DEF Balanced
<1>2. /\ Cardinality(S) \in Nat /\ Cardinality(P) \in Nat /\ Cardinality(C) \in Nat
      /\ Cardinality(S \cup {k}) \in Nat
  BY <1>1, FS_CardinalityType DEF Balanced
<1>3. QED
  BY <1>1, <1>2 DEF Balanced

\* The e-mail is sent.
LEMMA Sent ==
  ASSUME NEW m, NEW S, NEW q, NEW P, NEW C, NEW N, NEW L, Balanced(m, S, q, P, C, N, L),
         NEW k \in S
  PROVE  Balanced(m + 1, S \ {k}, q, P, C, N, L \cup {k})
<1>1. /\ IsFiniteSet(S \ {k}) /\ Cardinality(S \ {k}) = Cardinality(S) - 1
      /\ IsFiniteSet(L \cup {k}) /\ Cardinality(L \cup {k}) <= Cardinality(L) + 1
  BY OneMore, FS_RemoveElement DEF Balanced
<1>2. /\ Cardinality(S) \in Nat /\ Cardinality(P) \in Nat /\ Cardinality(C) \in Nat
      /\ Cardinality(N) \in Nat /\ Cardinality(L) \in Nat
      /\ Cardinality(S \ {k}) \in Nat /\ Cardinality(L \cup {k}) \in Nat
  BY <1>1, FS_CardinalityType DEF Balanced
<1>3. QED
  BY <1>1, <1>2 DEF Balanced

\* The e-mail is noted.
LEMMA Logged ==
  ASSUME NEW m, NEW S, NEW q, NEW P, NEW C, NEW N, NEW L, Balanced(m, S, q, P, C, N, L),
         NEW k \in L, NEW x, x \notin N
  PROVE  Balanced(m, S, q, P, C, N \cup {x}, L \ {k})
<1>1. /\ IsFiniteSet(N \cup {x}) /\ Cardinality(N \cup {x}) = Cardinality(N) + 1
      /\ IsFiniteSet(L \ {k}) /\ Cardinality(L \ {k}) = Cardinality(L) - 1
  BY OneMore, FS_RemoveElement DEF Balanced
<1>2. /\ Cardinality(N) \in Nat /\ Cardinality(L) \in Nat
      /\ Cardinality(N \cup {x}) \in Nat /\ Cardinality(L \ {k}) \in Nat
  BY <1>1, FS_CardinalityType DEF Balanced
<1>3. QED
  BY <1>1, <1>2 DEF Balanced

\* What an event that is appended does to the causes and the notes on a line.
OfType(line, c) == {i \in DOMAIN line : line[i].type = c}
OfValue(line, v) == {i \in DOMAIN line : line[i] = v}
Note(t) == [type |-> "mail", to |-> t.to]

LEMMA AppendMarks ==
  ASSUME NEW line \in Seq(Event), NEW e \in Event, NEW c, NEW v
  PROVE  LET n == Len(line) + 1 IN
         /\ n \notin OfType(line, c) /\ n \notin OfValue(line, v)
         /\ OfType(Append(line, e), c) = OfType(line, c) \cup (IF e.type = c THEN {n} ELSE {})
         /\ OfValue(Append(line, e), v) = OfValue(line, v) \cup (IF e = v THEN {n} ELSE {})
<1> DEFINE n == Len(line) + 1
           new == Append(line, e)
<1>1. /\ new[n] = e /\ DOMAIN new = 1..n /\ DOMAIN line = 1..Len(line) /\ n \in Nat
      /\ \A i \in 1..Len(line) : new[i] = line[i] /\ i # n /\ i \in 1..n
      /\ \A i \in 1..n : i \in 1..Len(line) \/ i = n
      /\ n \notin 1..Len(line) /\ n \in 1..n
  OBVIOUS
<1> HIDE DEF n, new
<1>2. OfType(new, c) = OfType(line, c) \cup (IF e.type = c THEN {n} ELSE {})
  BY <1>1 DEF OfType
<1>3. OfValue(new, v) = OfValue(line, v) \cup (IF e = v THEN {n} ELSE {})
  BY <1>1 DEF OfValue
<1>4. n \notin OfType(line, c) /\ n \notin OfValue(line, v)
  BY <1>1 DEF OfType, OfValue
<1>5. QED
  BY <1>2, <1>3, <1>4 DEF n, new

LEMMA LedgerOnLine ==
  ASSUME NEW t
  PROVE  /\ Causes(t) = OfType(timeline[t.request], CauseOf(t.to))
         /\ Noted(t) = OfValue(timeline[t.request], Note(t))
BY DEF Causes, Noted, OfType, OfValue, Note

\* A transition asks for the task of which it is the cause.
LEMMA CausesNotify ==
  ASSUME NEW op \in Decisions \cup {"create"}, NEW t \in Task
  PROVE  /\ t.to \in Notifies(op) <=> op = CauseOf(t.to)
         /\ CauseOf(t.to) # "mail"
BY DEF Decisions, Task, Notifies, CauseOf

\* A step that leaves the line of a task's request and its e-mails, takes no task
\* from anybody and gives none to a worker or a runner.
LEMMA QuietLedger ==
  ASSUME NEW t \in Task, TypeOK', Ledger(t),
         timeline'[t.request] = timeline[t.request], mails'[t] = mails[t],
         queue'[t] <= queue[t], Sending(t)' \subseteq Sending(t),
         Pending(t)' \subseteq Pending(t), Logging(t)' \subseteq Logging(t)
  PROVE  Ledger(t)'
<1>1. Causes(t)' = Causes(t) /\ Noted(t)' = Noted(t)
  BY DEF Causes, Noted
<1>2. queue'[t] \in Nat
  BY DEF TypeOK
<1>3. Balanced(mails[t], Sending(t)', queue'[t], Pending(t)', Causes(t), Noted(t),
               Logging(t)')
  BY <1>2, Shrinks DEF Ledger
<1>4. QED
  BY <1>1, <1>3 DEF Ledger

\* A request that begins: no task of it can be about, and its creation asks for one.
LEMMA NewLine ==
  ASSUME NEW t \in Task, NEW w \in Workers, NEW u \in Users, Ledger(t),
         timeline[t.request] = <<>>,
         timeline'[t.request] = <<[type |-> "create", by |-> u]>>,
         UNCHANGED <<mails, queue, run>>,
         t.to # "approver" => Pending(t)' \subseteq Pending(t),
         Pending(t)' \subseteq Pending(t) \cup {w}, TypeOK'
  PROVE  Ledger(t)'
<1> DEFINE e == [type |-> "create", by |-> u]
<1>2. e # Note(t) /\ (e.type = CauseOf(t.to) <=> t.to = "approver")
  BY DEF Note, CauseOf, Task
<1>3. /\ 1 \notin Causes(t)
      /\ Causes(t)' = Causes(t) \cup (IF t.to = "approver" THEN {1} ELSE {})
      /\ Noted(t)' = Noted(t)
  <2> DEFINE c == CauseOf(t.to)
             v == Note(t)
  <2> HIDE DEF c, v, e
  <2>0. /\ 1 \notin OfType(<<>>, c)
        /\ OfType(<<e>>, c) = OfType(<<>>, c) \cup (IF e.type = c THEN {1} ELSE {})
        /\ OfValue(<<e>>, v) = OfValue(<<>>, v) \cup (IF e = v THEN {1} ELSE {})
    BY DEF OfType, OfValue
  <2>1. /\ 1 \notin OfType(<<>>, CauseOf(t.to))
        /\ OfType(<<e>>, CauseOf(t.to)) =
             OfType(<<>>, CauseOf(t.to)) \cup (IF t.to = "approver" THEN {1} ELSE {})
        /\ OfValue(<<e>>, Note(t)) = OfValue(<<>>, Note(t))
    BY <1>2, <2>0 DEF c, v
  <2>2. /\ Causes(t)' = OfType(<<e>>, CauseOf(t.to)) /\ Noted(t)' = OfValue(<<e>>, Note(t))
        /\ Causes(t) = OfType(<<>>, CauseOf(t.to)) /\ Noted(t) = OfValue(<<>>, Note(t))
    BY DEF Causes, Noted, OfType, OfValue, Note, e
  <2>3. QED
    BY <2>1, <2>2
<1>4. Sending(t)' = Sending(t) /\ Logging(t)' = Logging(t)
  BY DEF Sending, Logging
<1>5. CASE t.to = "approver"
  <2>0. Balanced(mails[t], Sending(t), queue[t], Pending(t) \cup {w}, Causes(t) \cup {1},
                 Noted(t), Logging(t))
    BY <1>3, Committed DEF Ledger
  <2>1. Balanced(mails[t], Sending(t), queue[t], Pending(t) \cup {w}, Causes(t)', Noted(t),
                 Logging(t))
    BY <1>3, <1>5, <2>0
  <2>2. queue[t] \in Nat /\ queue[t] <= queue[t]
    BY <2>1 DEF Balanced
  <2>3. Balanced(mails[t], Sending(t), queue[t], Pending(t)', Causes(t)', Noted(t),
                 Logging(t))
    BY <2>1, <2>2, Shrinks
  <2>4. QED
    BY <1>3, <1>4, <2>3 DEF Ledger
<1>6. CASE t.to # "approver"
  <2>1. queue[t] \in Nat /\ queue[t] <= queue[t]
    BY DEF Ledger, Balanced
  <2>2. Balanced(mails[t], Sending(t), queue[t], Pending(t)', Causes(t), Noted(t), Logging(t))
    BY <1>6, <2>1, Shrinks DEF Ledger
  <2>3. QED
    BY <1>3, <1>4, <1>6, <2>2 DEF Ledger
<1>7. QED
  BY <1>5, <1>6

LEMMA CallLedger ==
  ASSUME TypeOK, TypeOK', NEW w \in Workers, Call(w), NEW t \in Task, Ledger(t),
         status[t.request] = "unborn" => timeline[t.request] = <<>>
  PROVE  Ledger(t)'
<1>1. JobsTyped /\ RequestsTyped /\ t.request \in Requests
  BY Parts DEF Task
<1>2. PICK q \in Requests, u \in Users :
        \/ \E a \in Users, h \in Warehouses \cup {Nobody}, I \in SUBSET Products,
              s \in {"PENDING"} \cup WrittenStatuses : Create(w, q, u, a, h, I, s)
        \/ \E op \in Decisions : Decide(w, q, u, op)
        \/ \E new \in Copies : Edit(w, q, u, new)
        \/ Delete(w, q, u)
  BY DEF Call, Approve, Reject, MarkReady, Collect, Decisions
<1>3. UNCHANGED <<mails, queue, run>>
  BY <1>2 DEF Create, Decide, Edit, Delete, taskVars
<1>4. Sending(t)' = Sending(t) /\ Logging(t)' = Logging(t) /\ queue[t] \in Nat
  BY <1>3 DEF Sending, Logging, Ledger, Balanced
<1>5. ASSUME NEW a \in Users, NEW h \in Warehouses \cup {Nobody}, NEW I \in SUBSET Products,
             NEW s \in {"PENDING"} \cup WrittenStatuses, Create(w, q, u, a, h, I, s)
      PROVE  Ledger(t)'
  <2> DEFINE e == [type |-> "create", by |-> u]
             j == [op |-> "create", request |-> q]
  <2>1. /\ status[q] = "unborn" /\ timeline' = [timeline EXCEPT ![q] = <<e>>]
        /\ job' = [job EXCEPT ![w] = j] /\ pc' = [pc EXCEPT ![w] = "enqueue"]
    BY <1>5 DEF Create, Go
  <2>2. \A v \in Workers \ {w} : pc'[v] = pc[v] /\ job'[v] = job[v]
    BY <1>1, <2>1 DEF JobsTyped
  <2>3. job'[w] = j
    BY <1>1, <2>1 DEF JobsTyped
  <2>4. Pending(t)' \subseteq Pending(t) \cup {w}
    BY <2>2 DEF Pending
  <2>5. (t.to # "approver" \/ q # t.request) => Pending(t)' \subseteq Pending(t)
    BY <2>2, <2>3 DEF Pending, Notifies
  <2>6. CASE q = t.request
    <3>1. timeline[t.request] = <<>> /\ timeline'[t.request] = <<e>>
      BY <1>1, <2>1, <2>6 DEF RequestsTyped
    <3>2. QED
      BY <1>3, <2>4, <2>5, <3>1, NewLine
  <2>7. CASE q # t.request
    <3>1. timeline'[t.request] = timeline[t.request]
      BY <1>1, <2>1, <2>7 DEF RequestsTyped
    <3>2. QED
      BY <1>3, <1>4, <2>5, <2>7, <3>1, QuietLedger
  <2>8. QED
    BY <2>6, <2>7
<1>6. ASSUME UNCHANGED timeline, pc' = [pc EXCEPT ![w] = pc'[w]], pc'[w] # "enqueue",
             \A v \in Workers \ {w} : job'[v] = job[v]
      PROVE  Ledger(t)'
  <2>1. Pending(t)' \subseteq Pending(t)
    BY <1>1, <1>6 DEF Pending, JobsTyped
  <2>2. QED
    BY <1>3, <1>4, <1>6, <2>1, QuietLedger
<1>7. ASSUME \/ \E op \in Decisions : Decide(w, q, u, op)
             \/ \E new \in Copies : Edit(w, q, u, new)
             \/ Delete(w, q, u)
      PROVE  Ledger(t)'
  <2>1. /\ UNCHANGED timeline
        /\ pc' = [pc EXCEPT ![w] = pc'[w]] /\ pc'[w] # "enqueue"
        /\ \A v \in Workers \ {w} : job'[v] = job[v]
    BY <1>1, <1>7 DEF Decide, Edit, Delete, Go, JobsTyped
  <2>2. QED
    BY <1>6, <2>1
<1>8. QED
  BY <1>2, <1>5, <1>7

LEMMA ProceedLedger ==
  ASSUME TypeOK, TypeOK', NEW w \in Workers, Proceed(w) \/ Abort(w), NEW t \in Task,
         Ledger(t), status'[t.request] # "deleted"
  PROVE  Ledger(t)'
<1> DEFINE r == job[w].request
           op == job[w].op
<1>1. JobsTyped /\ RequestsTyped /\ TasksTyped /\ t.request \in Requests
  BY Parts DEF Task
<1>2. \A v \in Workers \ {w} : pc'[v] = pc[v] /\ job'[v] = job[v]
  BY <1>1 DEF Proceed, Update, LogAndCommit, Enqueue, Save, ClearItems,
              FillItems, Destroy, Abort, Idle, Go, JobsTyped
<1>3. UNCHANGED <<mails, run>>
  BY DEF Proceed, Update, LogAndCommit, Enqueue, Save, ClearItems, FillItems, Destroy,
         Abort, taskVars
<1>4. /\ Sending(t)' = Sending(t) /\ Logging(t)' = Logging(t)
      /\ queue[t] \in Nat /\ queue[t] <= queue[t]
  BY <1>3 DEF Sending, Logging, Ledger, Balanced
<1>5. /\ pc'[w] # "enqueue" => Pending(t)' \subseteq Pending(t)
      /\ ~(job'[w].request = t.request /\ t.to \in Notifies(job'[w].op))
           => Pending(t)' \subseteq Pending(t)
  BY <1>2 DEF Pending
<1>6. ASSUME timeline'[t.request] = timeline[t.request], UNCHANGED queue, pc'[w] # "enqueue"
      PROVE  Ledger(t)'
  BY <1>3, <1>4, <1>5, <1>6, QuietLedger
<1>7. CASE Update(w) \/ Save(w) \/ ClearItems(w) \/ FillItems(w) \/ Abort(w)
  <2>1. UNCHANGED <<timeline, queue>> /\ pc'[w] # "enqueue"
    BY <1>1, <1>7 DEF Update, Save, ClearItems, FillItems, Abort, Idle, Go, JobsTyped, taskVars
  <2>2. QED
    BY <1>6, <2>1
<1>8. CASE Destroy(w)
  <2>1. /\ r \in Requests /\ status' = [status EXCEPT ![r] = "deleted"]
        /\ timeline' = [timeline EXCEPT ![r] = <<>>]
        /\ UNCHANGED queue /\ pc'[w] # "enqueue"
    BY <1>1, <1>8, JobFields DEF Destroy, Active, Idle, Go, JobsTyped, taskVars
  <2>2. timeline'[t.request] = timeline[t.request]
    BY <1>1, <2>1 DEF RequestsTyped
  <2>3. QED
    BY <1>6, <2>1, <2>2
<1>9. CASE LogAndCommit(w)
  <2> DEFINE e == [type |-> op, by |-> job[w].actor]
             line == timeline[t.request]
             n == Len(line) + 1
  <2>1. pc[w] = "log" /\ r \in Requests /\ op \in Decisions /\ job[w].actor \in Users
    BY <1>1, <1>9, JobFields DEF LogAndCommit, Active
  <2>2. timeline' = [timeline EXCEPT ![r] = Append(timeline[r], e)] /\ UNCHANGED queue
    BY <1>1, <1>9, <2>1 DEF LogAndCommit, RequestsTyped, taskVars
  <2>3. pc'[w] # "enqueue" \/ job'[w] = job[w]
    BY <1>1, <1>9 DEF LogAndCommit, Idle, Go, JobsTyped
  <2>4. op \in Decisions \cup {"create"} /\ (t.to \in Notifies(op) <=> op = CauseOf(t.to))
    BY <2>1, CausesNotify
  <2>5. CASE r # t.request
    <3>1. timeline'[t.request] = timeline[t.request]
      BY <1>1, <2>2, <2>5 DEF RequestsTyped
    <3>2. Pending(t)' \subseteq Pending(t)
      BY <1>5, <2>3, <2>5
    <3>3. QED
      BY <1>3, <1>4, <2>2, <3>1, <3>2, QuietLedger
  <2>6. CASE r = t.request
    <3>1. timeline'[t.request] = Append(line, e) /\ line \in Seq(Event) /\ e \in Event
      BY <1>1, <2>1, <2>2, <2>6 DEF RequestsTyped, Event
    <3>2. e # Note(t) /\ e.type = op
      BY <2>1 DEF Note, Decisions
    <3>3. /\ n \notin Causes(t) /\ Noted(t)' = Noted(t)
          /\ Causes(t)' = Causes(t) \cup (IF op = CauseOf(t.to) THEN {n} ELSE {})
      <4> DEFINE c == CauseOf(t.to)
                 v == Note(t)
      <4>1. /\ Causes(t) = OfType(line, c) /\ Causes(t)' = OfType(Append(line, e), c)
            /\ Noted(t) = OfValue(line, v) /\ Noted(t)' = OfValue(Append(line, e), v)
        BY <3>1 DEF Causes, Noted, OfType, OfValue, Note
      <4> HIDE DEF c, v, e, line
      <4>2. /\ n \notin OfType(line, c)
            /\ OfType(Append(line, e), c) =
                 OfType(line, c) \cup (IF e.type = c THEN {n} ELSE {})
            /\ OfValue(Append(line, e), v) = OfValue(line, v) \cup (IF e = v THEN {n} ELSE {})
        BY <3>1, AppendMarks
      <4>3. QED
        BY <3>2, <4>1, <4>2 DEF c, v
    <3>4. CASE op = CauseOf(t.to)
      <4>1. Balanced(mails[t], Sending(t), queue[t], Pending(t) \cup {w},
                     Causes(t) \cup {n}, Noted(t), Logging(t))
        BY <3>3, Committed DEF Ledger
      <4>2. Pending(t)' \subseteq Pending(t) \cup {w}
        BY <1>2 DEF Pending
      <4>3. Balanced(mails[t], Sending(t), queue[t], Pending(t)',
                     Causes(t) \cup {n}, Noted(t), Logging(t))
        BY <1>4, <4>1, <4>2, Shrinks
      <4>4. QED
        BY <1>3, <1>4, <2>2, <3>3, <3>4, <4>3 DEF Ledger
    <3>5. CASE op # CauseOf(t.to)
      <4>1. Pending(t)' \subseteq Pending(t)
        BY <1>5, <2>3, <2>4, <3>5
      <4>2. Balanced(mails[t], Sending(t), queue[t], Pending(t)', Causes(t), Noted(t),
                     Logging(t))
        BY <1>4, <4>1, Shrinks DEF Ledger
      <4>3. QED
        BY <1>3, <1>4, <2>2, <3>3, <3>5, <4>2 DEF Ledger
    <3>6. QED
      BY <3>4, <3>5
  <2>7. QED
    BY <2>5, <2>6
<1>10. CASE Enqueue(w)
  <2>1. pc[w] = "enqueue" /\ UNCHANGED timeline /\ pc'[w] # "enqueue"
    BY <1>1, <1>10 DEF Enqueue, Idle, Go, JobsTyped
  <2>2. CASE UNCHANGED queue
    BY <1>6, <2>1, <2>2
  <2>3. ASSUME NEW to \in Notifies(op),
               queue' = [queue EXCEPT ![[to |-> to, request |-> r]] = @ + 1]
        PROVE  Ledger(t)'
    <3>1. CASE t = [to |-> to, request |-> r]
      <4>1. w \in Pending(t) /\ queue'[t] = queue[t] + 1
        BY <1>1, <2>1, <2>3, <3>1 DEF Pending, TasksTyped
      <4>2. Balanced(mails[t], Sending(t), queue[t] + 1, Pending(t) \ {w}, Causes(t),
                     Noted(t), Logging(t))
        BY <4>1, Enqueued DEF Ledger
      <4>3. Pending(t)' \subseteq Pending(t) \ {w}
        BY <1>2, <2>1 DEF Pending
      <4>4. Balanced(mails[t], Sending(t), queue[t] + 1, Pending(t)', Causes(t),
                     Noted(t), Logging(t))
        BY <1>4, <4>2, <4>3, Shrinks
      <4>5. Causes(t)' = Causes(t) /\ Noted(t)' = Noted(t)
        BY <2>1 DEF Causes, Noted
      <4>6. QED
        BY <1>3, <1>4, <4>1, <4>4, <4>5 DEF Ledger
    <3>2. CASE t # [to |-> to, request |-> r]
      <4>1. queue'[t] = queue[t]
        BY <1>1, <2>3, <3>2 DEF TasksTyped
      <4>2. QED
        BY <1>3, <1>4, <1>5, <2>1, <4>1, QuietLedger
    <3>3. QED
      BY <3>1, <3>2
  <2>4. QED
    BY <1>10, <2>2, <2>3 DEF Enqueue
<1>11. QED
  BY <1>7, <1>8, <1>9, <1>10 DEF Proceed

LEMMA RunnerLedger ==
  ASSUME TypeOK, TypeOK', NEW k \in Runners, RunnerStep(k), NEW t \in Task, Ledger(t)
  PROVE  Ledger(t)'
<1>1. RequestsTyped /\ TasksTyped /\ t.request \in Requests
  BY Parts DEF Task
<1>2. UNCHANGED <<pc, job>> /\ \A i \in Runners \ {k} : run'[i] = run[i]
  BY <1>1 DEF RunnerStep, StartTask, SendMail, LogMail, LoseTask, TasksTyped
<1>3. Pending(t)' = Pending(t)
  BY <1>2 DEF Pending
<1>4. queue[t] \in Nat /\ queue[t] <= queue[t] /\ queue[t] + 1 \in Nat
  BY DEF Ledger, Balanced
<1>5. CASE LoseTask(k)
  <2>1. run'[k] = NoTask /\ UNCHANGED <<timeline, queue, mails>>
    BY <1>1, <1>5 DEF LoseTask, TasksTyped
  <2>2. Sending(t)' \subseteq Sending(t) /\ Logging(t)' \subseteq Logging(t)
    BY <1>2, <2>1, TaskAssumption DEF Sending, Logging
  <2>3. QED
    BY <1>3, <1>4, <2>1, <2>2, QuietLedger
<1>6. ASSUME NEW u \in Task, StartTask(k, u) PROVE Ledger(t)'
  <2>1. /\ run[k] = NoTask /\ queue[u] > 0 /\ queue' = [queue EXCEPT ![u] = @ - 1]
        /\ run'[k] \in {NoTask, [task |-> u, stage |-> "send"]}
        /\ UNCHANGED <<timeline, mails>>
    BY <1>1, <1>6 DEF StartTask, TasksTyped
  <2>2. Logging(t)' \subseteq Logging(t)
    BY <1>2, <2>1, TaskAssumption DEF Logging
  <2>3. Causes(t)' = Causes(t) /\ Noted(t)' = Noted(t)
    BY <2>1 DEF Causes, Noted
  <2>4. CASE u = t
    <3>1. Sending(t)' \subseteq Sending(t) \cup {k}
      BY <1>2 DEF Sending
    <3>2. Balanced(mails[t], Sending(t) \cup {k}, queue[t] - 1, Pending(t), Causes(t),
                   Noted(t), Logging(t))
      BY <2>1, <2>4, Started DEF Ledger
    <3>3. queue'[t] = queue[t] - 1 /\ queue'[t] \in Nat /\ queue'[t] <= queue'[t]
      BY <1>1, <1>4, <2>1, <2>4 DEF TasksTyped
    <3>4. Balanced(mails[t], Sending(t)', queue'[t], Pending(t), Causes(t),
                   Noted(t), Logging(t)')
      BY <2>2, <3>1, <3>2, <3>3, Shrinks
    <3>5. QED
      BY <1>3, <2>1, <2>3, <3>4 DEF Ledger
  <2>5. CASE u # t
    <3>1. Sending(t)' \subseteq Sending(t)
      BY <1>2, <2>1, <2>5, TaskAssumption DEF Sending
    <3>2. queue'[t] = queue[t]
      BY <1>1, <2>1, <2>5 DEF TasksTyped
    <3>3. QED
      BY <1>3, <1>4, <2>1, <2>2, <3>1, <3>2, QuietLedger
  <2>6. QED
    BY <2>4, <2>5
<1>7. CASE SendMail(k)
  <2> DEFINE u == run[k].task
  <2>1. /\ u \in Task /\ run[k] = [task |-> u, stage |-> "send"]
        /\ run'[k] = [task |-> u, stage |-> "log"]
        /\ mails' = [mails EXCEPT ![u] = @ + 1] /\ UNCHANGED <<timeline, queue>>
    BY <1>1, <1>7 DEF SendMail, TasksTyped
  <2>2. Causes(t)' = Causes(t) /\ Noted(t)' = Noted(t)
    BY <2>1 DEF Causes, Noted
  <2>3. CASE u = t
    <3>1. k \in Sending(t)
      BY <2>1, <2>3 DEF Sending
    <3>2. Sending(t)' \subseteq Sending(t) \ {k} /\ Logging(t)' \subseteq Logging(t) \cup {k}
      BY <1>2, <2>1, <2>3 DEF Sending, Logging
    <3>3. Balanced(mails[t] + 1, Sending(t) \ {k}, queue[t], Pending(t), Causes(t),
                   Noted(t), Logging(t) \cup {k})
      BY <3>1, Sent DEF Ledger
    <3>4. Balanced(mails[t] + 1, Sending(t)', queue[t], Pending(t), Causes(t),
                   Noted(t), Logging(t)')
      BY <1>4, <3>2, <3>3, Shrinks
    <3>5. mails'[t] = mails[t] + 1
      BY <1>1, <2>1, <2>3 DEF TasksTyped
    <3>6. QED
      BY <1>3, <2>1, <2>2, <3>4, <3>5 DEF Ledger
  <2>4. CASE u # t
    <3>1. Sending(t)' \subseteq Sending(t) /\ Logging(t)' \subseteq Logging(t)
      BY <1>2, <2>1, <2>4 DEF Sending, Logging
    <3>2. mails'[t] = mails[t]
      BY <1>1, <2>1, <2>4 DEF TasksTyped
    <3>3. QED
      BY <1>3, <1>4, <2>1, <3>1, <3>2, QuietLedger
  <2>5. QED
    BY <2>3, <2>4
<1>8. CASE LogMail(k)
  <2> DEFINE u == run[k].task
             e == Note(u)
             line == timeline[t.request]
             n == Len(line) + 1
  <2>1. /\ u \in Task /\ run[k] = [task |-> u, stage |-> "log"]
        /\ run'[k] = NoTask /\ UNCHANGED <<status, queue, mails>>
    BY <1>1, <1>8 DEF LogMail, TasksTyped, requestVars
  <2>2. /\ Sending(t)' \subseteq Sending(t)
        /\ Logging(t)' \subseteq Logging(t)
        /\ u = t => Logging(t)' \subseteq Logging(t) \ {k}
    BY <1>2, <2>1, TaskAssumption DEF Sending, Logging
  <2>3. CASE timeline'[t.request] = timeline[t.request]
    BY <1>3, <1>4, <2>1, <2>2, <2>3, QuietLedger
  <2>4. CASE Exists(u.request) /\ u.request = t.request
    <3>1. timeline'[t.request] = Append(line, e) /\ line \in Seq(Event) /\ e \in Event
      BY <1>1, <1>8, <2>1, <2>4 DEF LogMail, RequestsTyped, Event, Note, Task
    <3>2. e.type = "mail" /\ CauseOf(t.to) # "mail" /\ (e = Note(t) <=> u = t)
      BY <2>1, <2>4, CausesNotify DEF Note, Task
    <3>3. /\ n \notin Noted(t) /\ Causes(t)' = Causes(t)
          /\ Noted(t)' = Noted(t) \cup (IF u = t THEN {n} ELSE {})
      <4> DEFINE c == CauseOf(t.to)
                 v == Note(t)
      <4>1. /\ Causes(t) = OfType(line, c) /\ Causes(t)' = OfType(Append(line, e), c)
            /\ Noted(t) = OfValue(line, v) /\ Noted(t)' = OfValue(Append(line, e), v)
        BY <3>1 DEF Causes, Noted, OfType, OfValue, Note
      <4> HIDE DEF c, v, e, line
      <4>2. /\ n \notin OfValue(line, v)
            /\ OfType(Append(line, e), c) =
                 OfType(line, c) \cup (IF e.type = c THEN {n} ELSE {})
            /\ OfValue(Append(line, e), v) = OfValue(line, v) \cup (IF e = v THEN {n} ELSE {})
        BY <3>1, AppendMarks
      <4>3. QED
        BY <3>2, <4>1, <4>2 DEF c, v
    <3>4. CASE u = t
      <4>1. Balanced(mails[t], Sending(t), queue[t], Pending(t), Causes(t),
                     Noted(t) \cup {n}, Logging(t) \ {k})
        <5>1. k \in Logging(t)
          BY <2>1, <3>4 DEF Logging
        <5>2. QED
          BY <3>3, <5>1, Logged DEF Ledger
      <4>2. Balanced(mails[t], Sending(t)', queue[t], Pending(t), Causes(t),
                     Noted(t) \cup {n}, Logging(t)')
        BY <1>4, <2>2, <3>4, <4>1, Shrinks
      <4>3. QED
        BY <1>3, <2>1, <3>3, <3>4, <4>2 DEF Ledger
    <3>5. CASE u # t
      <4>1. Balanced(mails[t], Sending(t)', queue[t], Pending(t), Causes(t),
                     Noted(t), Logging(t)')
        BY <1>4, <2>2, Shrinks DEF Ledger
      <4>2. QED
        BY <1>3, <2>1, <3>3, <3>5, <4>1 DEF Ledger
    <3>6. QED
      BY <3>4, <3>5
  <2>5. QED
    BY <1>1, <1>8, <2>1, <2>3, <2>4 DEF LogMail, RequestsTyped, Task
<1>9. QED
  BY <1>5, <1>6, <1>7, <1>8 DEF RunnerStep

\* The books balance for every request that exists and has never been brought back.
MInv ==
  /\ TypeOK
  /\ \A r \in Requests : status[r] = "unborn" => timeline[r] = <<>>
  /\ \A t \in Task :
       status[t.request] # "deleted" /\ t.request \notin revived => Ledger(t)

LEMMA InitM ==
  ASSUME IsFiniteSet(Workers), IsFiniteSet(Runners)
  PROVE  AInit => MInv
<1>1. SUFFICES ASSUME AInit PROVE MInv
  OBVIOUS
<1>2. TypeOK
  BY <1>1, InitTyped DEF AInit
<1>3. ASSUME NEW t \in Task PROVE Ledger(t)
  <2>1. /\ Sending(t) = {} /\ Pending(t) = {} /\ Logging(t) = {}
        /\ mails[t] = 0 /\ queue[t] = 0
    BY <1>1, <1>3, TaskAssumption DEF AInit, Init, Sending, Pending, Logging
  <2>2. Causes(t) = {} /\ Noted(t) = {}
    BY <1>1, <1>3 DEF AInit, Init, Causes, Noted, Task
  <2>3. QED
    BY <2>1, <2>2, FS_EmptySet DEF Ledger, Balanced
<1>4. QED
  BY <1>1, <1>2, <1>3 DEF MInv, AInit, Init

\* A request that is unborn has been so all along.
LEMMA StaysUnborn ==
  ASSUME TypeOK, Next, NEW r \in Requests, status'[r] = "unborn",
         status[r] = "unborn" => timeline[r] = <<>>
  PROVE  status[r] = "unborn" /\ timeline'[r] = <<>>
<1>1. JobsTyped /\ RequestsTyped /\ TasksTyped
  BY Parts
<1>2. ASSUME NEW w \in Workers, Call(w) PROVE status[r] = "unborn" /\ timeline'[r] = <<>>
  <2>1. PICK q \in Requests, u \in Users :
        \/ \E a \in Users, h \in Warehouses \cup {Nobody}, I \in SUBSET Products,
              s \in {"PENDING"} \cup WrittenStatuses : Create(w, q, u, a, h, I, s)
        \/ \E op \in Decisions : Decide(w, q, u, op)
        \/ \E new \in Copies : Edit(w, q, u, new)
        \/ Delete(w, q, u)
    BY <1>2 DEF Call, Approve, Reject, MarkReady, Collect, Decisions
  <2>2. ASSUME NEW a \in Users, NEW h \in Warehouses \cup {Nobody}, NEW I \in SUBSET Products,
               NEW s \in {"PENDING"} \cup WrittenStatuses, Create(w, q, u, a, h, I, s)
        PROVE  status[r] = "unborn" /\ timeline'[r] = <<>>
    <3>1. q # r /\ status'[r] = status[r] /\ timeline'[r] = timeline[r]
      BY <1>1, <2>2, StatusAssumption DEF Create, RequestsTyped, Statuses
    <3>2. QED
      BY <3>1
  <2>3. QED
    BY <2>1, <2>2 DEF Decide, Edit, Delete, requestVars
<1>3. ASSUME NEW w \in Workers, Proceed(w) \/ Abort(w)
      PROVE  status[r] = "unborn" /\ timeline'[r] = <<>>
  <2> DEFINE q == job[w].request
  <2>1. CASE LogAndCommit(w)
    <3>1. q \in Requests /\ Becomes(job[w].op) # "unborn"
      BY <1>1, <2>1, JobFields DEF LogAndCommit, Active, Becomes, Decisions
    <3>2. QED
      BY <1>1, <2>1, <3>1 DEF LogAndCommit, RequestsTyped
  <2>2. CASE Save(w)
    <3>1. q \in Requests /\ job[w].copy.status # "unborn"
      BY <1>1, <2>2, JobFields DEF Save, Active, Copies, Statuses
    <3>2. QED
      BY <1>1, <2>2, <3>1 DEF Save, RequestsTyped
  <2>3. CASE Destroy(w)
    <3>1. q \in Requests
      BY <1>1, <2>3, JobFields DEF Destroy, Active
    <3>2. QED
      BY <1>1, <2>3, <3>1 DEF Destroy, RequestsTyped
  <2>4. QED
    BY <1>3, <2>1, <2>2, <2>3
       DEF Proceed, Update, Enqueue, ClearItems, FillItems, Abort, requestVars
<1>4. ASSUME NEW k \in Runners, RunnerStep(k)
      PROVE  status[r] = "unborn" /\ timeline'[r] = <<>>
  <2>1. UNCHANGED status
    BY <1>4 DEF RunnerStep, StartTask, SendMail, LogMail, LoseTask, requestVars
  <2>2. timeline'[r] = timeline[r]
    BY <1>1, <1>4, <2>1
       DEF RunnerStep, StartTask, SendMail, LogMail, LoseTask, RequestsTyped, Exists, Statuses
  <2>3. QED
    BY <2>1, <2>2
<1>5. CASE UNCHANGED <<status, timeline>>
  BY <1>5
<1>6. QED
  BY <1>2, <1>3, <1>4, <1>5 DEF Next, RunnerStep, Reassign

LEMMA StepM == MInv /\ [ANext]_<<vars, auditVars>> => MInv'
<1>1. SUFFICES ASSUME MInv, [ANext]_<<vars, auditVars>> PROVE MInv'
  OBVIOUS
<1>2. TypeOK /\ TypeOK'
  BY <1>1, StepTyped DEF MInv, ANext, auditVars
<1>3. CASE UNCHANGED <<vars, auditVars>>
  <2>1. \A t \in Task : Ledger(t) => Ledger(t)'
    BY <1>3 DEF vars, Ledger, Sending, Pending, Causes, Noted, Logging
  <2>2. QED
    BY <1>1, <1>2, <1>3, <2>1 DEF MInv, vars, auditVars
<1>4. CASE ANext
  <2>1. Next /\ Observe
    BY <1>4 DEF ANext
  <2>2. \A r \in Requests : status'[r] = "unborn" => timeline'[r] = <<>>
    BY <1>1, <2>1, StaysUnborn DEF MInv
  <2>3. ASSUME NEW t \in Task, status'[t.request] # "deleted", t.request \notin revived'
        PROVE  Ledger(t)'
    <3>1. t.request \in Requests
      BY DEF Task
    <3>2. t.request \notin revived /\ status[t.request] # "deleted"
      BY <2>1, <2>3, <3>1 DEF Observe
    <3>3. Ledger(t) /\ (status[t.request] = "unborn" => timeline[t.request] = <<>>)
      BY <1>1, <3>1, <3>2 DEF MInv
    <3>4. ASSUME NEW w \in Workers, Call(w) PROVE Ledger(t)'
      BY <1>2, <3>3, <3>4, CallLedger
    <3>5. ASSUME NEW w \in Workers, Proceed(w) \/ Abort(w) PROVE Ledger(t)'
      BY <1>2, <2>3, <3>3, <3>5, ProceedLedger
    <3>6. ASSUME NEW k \in Runners, RunnerStep(k) PROVE Ledger(t)'
      BY <1>2, <3>3, <3>6, RunnerLedger
    <3>7. ASSUME NEW h \in Warehouses, NEW u \in Users, Reassign(h, u)
          PROVE  Ledger(t)'
      BY <3>3, <3>7
         DEF Reassign, taskVars, Ledger, Sending, Pending, Causes, Noted, Logging
    <3>8. QED
      BY <2>1, <3>4, <3>5, <3>6, <3>7 DEF Next, RunnerStep
  <2>4. QED
    BY <1>2, <2>2, <2>3 DEF MInv
<1>5. QED
  BY <1>1, <1>3, <1>4

\* An e-mail is sent at most once for each committed transition that asks for it,
\* and noted only if it was sent, whatever races, fails or dies; only a request that
\* a save has brought back has forgotten some.
THEOREM EachMailHasItsCause ==
  ASSUME IsFiniteSet(Workers), IsFiniteSet(Runners)
  PROVE  ASpec => []MailsAccounted
<1>1. MInv => MailsAccounted
  <2>1. SUFFICES ASSUME MInv, NEW t \in Task, Exists(t.request), t.request \notin revived
                 PROVE  /\ mails[t] + Cardinality(Sending(t)) + queue[t]
                             <= Cardinality(Causes(t))
                        /\ Cardinality(Noted(t)) <= mails[t]
    BY DEF MailsAccounted
  <2>2. Ledger(t)
    BY <2>1 DEF MInv, Exists, Statuses
  <2>3. /\ Cardinality(Sending(t)) \in Nat /\ Cardinality(Pending(t)) \in Nat
        /\ Cardinality(Causes(t)) \in Nat /\ Cardinality(Noted(t)) \in Nat
        /\ Cardinality(Logging(t)) \in Nat
    BY <2>2, FS_CardinalityType DEF Ledger, Balanced
  <2>4. QED
    BY <2>2, <2>3 DEF Ledger, Balanced
<1>2. QED
  BY <1>1, InitM, StepM, PTL DEF ASpec

-----------------------------------------------------------------------------
(* Who decides.                                                            *)

\* The actor of a decision under way is still the one whom the request names, unless
\* the audit has seen another one named since.
InRightHands(j) ==
  /\ j.op \in {"approve", "reject"} => MayApprove(j.actor, j.request)
  /\ j.op = "ready" => MayPack(j.actor, j.request)
RightHands == \A w \in Workers \ reassigned : Deciding(w) => InRightHands(job[w])

RInv == TypeOK /\ RightHands

\* A call opens a job, and may begin a decision that has been tested.
LEMMA OpenedRightly ==
  ASSUME JobsTyped, NEW w \in Workers, NEW v \in Workers, NEW j, NEW stage,
         ~Active(v), job' = [job EXCEPT ![v] = j], pc' = [pc EXCEPT ![v] = stage],
         stage \in {"update", "log"} => InRightHands(j) /\ UNCHANGED requestVars,
         Deciding(w)'
  PROVE  \/ Deciding(w) /\ job'[w] = job[w]
         \/ ~Deciding(w) /\ InRightHands(job'[w]) /\ UNCHANGED requestVars
BY DEF JobsTyped, Deciding, Active

\* A decision begins with its test, which writes nothing, and keeps its job to the end.
LEMMA DecisionBegins ==
  ASSUME TypeOK, Next, NEW w \in Workers, Deciding(w)'
  PROVE  \/ Deciding(w) /\ job'[w] = job[w]
         \/ ~Deciding(w) /\ InRightHands(job'[w]) /\ UNCHANGED requestVars
<1>1. JobsTyped
  BY Parts
<1>2. ASSUME NEW v \in Workers, Call(v)
      PROVE  \/ Deciding(w) /\ job'[w] = job[w]
             \/ ~Deciding(w) /\ InRightHands(job'[w]) /\ UNCHANGED requestVars
  <2>1. PICK r \in Requests, u \in Users :
          \/ \E a \in Users, h \in Warehouses \cup {Nobody}, I \in SUBSET Products,
                s \in {"PENDING"} \cup WrittenStatuses : Create(v, r, u, a, h, I, s)
          \/ \E op \in Decisions :
               /\ op \in {"approve", "reject"} => MayApprove(u, r)
               /\ op = "ready" => MayPack(u, r)
               /\ Decide(v, r, u, op)
          \/ \E new \in Copies : Edit(v, r, u, new)
          \/ Delete(v, r, u)
    BY <1>2 DEF Call, Approve, Reject, MarkReady, Collect, Decisions
  <2>2. ASSUME NEW a \in Users, NEW h \in Warehouses \cup {Nobody},
               NEW I \in SUBSET Products,
               NEW s \in {"PENDING"} \cup WrittenStatuses, Create(v, r, u, a, h, I, s)
        PROVE  \/ Deciding(w) /\ job'[w] = job[w]
               \/ ~Deciding(w) /\ InRightHands(job'[w]) /\ UNCHANGED requestVars
    <3> DEFINE j == [op |-> "create", request |-> r]
    <3>1. /\ ~Active(v) /\ job' = [job EXCEPT ![v] = j]
          /\ pc' = [pc EXCEPT ![v] = "enqueue"]
      BY <2>2 DEF Create, Go
    <3> HIDE DEF j
    <3>. QED
      BY <1>1, <3>1, OpenedRightly
  <2>3. ASSUME NEW op \in Decisions, Decide(v, r, u, op),
               op \in {"approve", "reject"} => MayApprove(u, r),
               op = "ready" => MayPack(u, r)
        PROVE  \/ Deciding(w) /\ job'[w] = job[w]
               \/ ~Deciding(w) /\ InRightHands(job'[w]) /\ UNCHANGED requestVars
    <3> DEFINE j == [op |-> op, request |-> r, actor |-> u]
    <3>1. /\ ~Active(v) /\ job' = [job EXCEPT ![v] = j]
          /\ pc' = [pc EXCEPT ![v] = "update"]
      BY <2>3 DEF Decide, Go
    <3>2. InRightHands(j) /\ UNCHANGED requestVars
      BY <2>3 DEF InRightHands, Decide
    <3> HIDE DEF j
    <3>. QED
      BY <1>1, <3>1, <3>2, OpenedRightly
  <2>4. ASSUME NEW new \in Copies, Edit(v, r, u, new)
        PROVE  \/ Deciding(w) /\ job'[w] = job[w]
               \/ ~Deciding(w) /\ InRightHands(job'[w]) /\ UNCHANGED requestVars
    <3> DEFINE j == [op |-> "edit", request |-> r, copy |-> new,
                   requester |-> requester[r]]
    <3>1. /\ ~Active(v) /\ job' = [job EXCEPT ![v] = j]
          /\ pc' = [pc EXCEPT ![v] = "save"]
      BY <2>4 DEF Edit, Go
    <3> HIDE DEF j
    <3>. QED
      BY <1>1, <3>1, OpenedRightly
  <2>5. ASSUME Delete(v, r, u)
        PROVE  \/ Deciding(w) /\ job'[w] = job[w]
               \/ ~Deciding(w) /\ InRightHands(job'[w]) /\ UNCHANGED requestVars
    <3> DEFINE j == [op |-> "delete", request |-> r]
    <3>1. /\ ~Active(v) /\ job' = [job EXCEPT ![v] = j]
          /\ pc' = [pc EXCEPT ![v] = "destroy"]
      BY <2>5 DEF Delete, Go
    <3> HIDE DEF j
    <3>. QED
      BY <1>1, <3>1, OpenedRightly
  <2>. QED
    BY <2>1, <2>2, <2>3, <2>4, <2>5
<1>3. ASSUME NEW v \in Workers, Proceed(v) \/ Abort(v)
      PROVE  Deciding(w) /\ job'[w] = job[w]
  BY <1>1, <1>3 DEF Proceed, Update, LogAndCommit, Enqueue, Save, ClearItems, FillItems,
                    Destroy, Abort, Idle, Go, Deciding, JobsTyped
<1>4. CASE UNCHANGED <<job, pc>>
  BY <1>4 DEF Deciding
<1>. QED
  BY <1>2, <1>3, <1>4
     DEF Next, StartTask, SendMail, LogMail, LoseTask, Reassign

LEMMA StepR ==
  ASSUME RInv, [ANext]_<<vars, auditVars>>
  PROVE  RInv'
<1>1. TypeOK /\ TypeOK'
  BY StepTyped DEF RInv, ANext, auditVars
<1>2. ASSUME ANext, NEW w \in Workers, w \notin reassigned', Deciding(w)'
      PROVE  InRightHands(job[w])'
  <2>1. Next /\ Observe
    BY <1>2 DEF ANext
  <2>2. CASE Deciding(w) /\ job'[w] = job[w]
    <3>1. /\ w \notin reassigned
          /\ Assignment(job[w].request)' = Assignment(job[w].request)
      BY <1>2, <2>1, <2>2 DEF Observe
    <3>2. InRightHands(job[w])
      BY <2>2, <3>1 DEF RInv, RightHands
    <3>3. /\ approver'[job[w].request] = approver[job[w].request]
          /\ Keeper(job[w].request)' = Keeper(job[w].request)
      BY <2>2, <3>1 DEF Assignment
    <3>. QED
      BY <2>2, <3>2, <3>3 DEF InRightHands, MayApprove, MayPack
  <2>3. CASE InRightHands(job'[w]) /\ UNCHANGED requestVars
    BY <2>3 DEF InRightHands, MayApprove, MayPack, Keeper, requestVars
  <2>. QED
    BY <1>1, <1>2, <2>1, <2>2, <2>3, DecisionBegins
<1>3. ASSUME UNCHANGED <<vars, auditVars>>
      PROVE  RightHands'
  BY <1>3 DEF RInv, RightHands, InRightHands, MayApprove, MayPack, Keeper, Deciding,
              vars, auditVars
<1>. QED
  BY <1>1, <1>2, <1>3 DEF RInv, RightHands

\* The transaction holds the row when the event is added.
LEMMA LoggedByHolder ==
  ASSUME TypeOK, NEW w \in Workers, LogAndCommit(w)
  PROVE  /\ job[w].request \in Requests /\ lock[job[w].request] = w
         /\ Deciding(w) /\ job[w].op \in Decisions
<1>1. JobsTyped
  BY Parts
<1>2. pc[w] = "log" /\ job[w].request \in Requests /\ job[w].op \in Decisions
  BY <1>1, JobFields DEF LogAndCommit, Active
<1>. QED
  BY <1>1, <1>2 DEF JobsTyped, Holds, Deciding

\* What a step may add to the timeline of a request.
AddedRightly(r) ==
  Len(timeline'[r]) = Len(timeline[r]) + 1 /\ lock[r] \notin reassigned =>
    LET e == timeline'[r][Len(timeline'[r])] IN
    /\ e.type \in {"approve", "reject"} =>
         approver[r] = Nobody \/ e.by \in {approver[r]} \cup Superusers
    /\ e.type = "ready" =>
         Keeper(r) = Nobody \/ e.by \in {Keeper(r)} \cup Superusers

LEMMA StepAdds ==
  ASSUME RInv, [ANext]_<<vars, auditVars>>, NEW r \in Requests
  PROVE  AddedRightly(r)
<1>1. TypeOK /\ RightHands /\ JobsTyped /\ RequestsTyped /\ TasksTyped
  BY Parts DEF RInv
<1>2. timeline \in [Requests -> Seq(Event)] /\ Len(timeline[r]) \in Nat
  BY <1>1 DEF RequestsTyped
<1>3. ASSUME timeline'[r] = timeline[r] PROVE AddedRightly(r)
  BY <1>2, <1>3 DEF AddedRightly
<1>4. ASSUME NEW e, timeline'[r] = Append(timeline[r], e),
             e.type \notin {"approve", "reject", "ready"}
      PROVE  AddedRightly(r)
  BY <1>2, <1>4 DEF AddedRightly
<1>5. ASSUME NEW w \in Workers, NEW u \in Users, NEW a \in Users,
             NEW h \in Warehouses \cup {Nobody}, NEW I \in SUBSET Products,
             NEW s \in {"PENDING"} \cup WrittenStatuses, NEW q \in Requests,
             Create(w, q, u, a, h, I, s)
      PROVE  AddedRightly(r)
  <2>1. timeline' = [timeline EXCEPT ![q] = <<[type |-> "create", by |-> u]>>]
    BY <1>5 DEF Create
  <2>2. CASE q = r
    <3>1. /\ timeline'[r] = <<[type |-> "create", by |-> u]>>
          /\ Len(timeline'[r]) = 1 /\ timeline'[r][1].type = "create"
      BY <1>2, <2>1, <2>2
    <3>. QED
      BY <3>1 DEF AddedRightly
  <2>. QED
    BY <1>2, <1>3, <2>1, <2>2
<1>6. ASSUME NEW w \in Workers, LogAndCommit(w) PROVE AddedRightly(r)
  <2> DEFINE e == [type |-> job[w].op, by |-> job[w].actor]
  <2>1. timeline' = [timeline EXCEPT ![job[w].request] = Append(@, e)]
    BY <1>6 DEF LogAndCommit
  <2>2. CASE job[w].request = r
    <3>1. /\ timeline'[r] = Append(timeline[r], e)
          /\ timeline'[r][Len(timeline'[r])] = e
      BY <1>2, <2>1, <2>2
    <3>2. lock[r] = w /\ Deciding(w)
      BY <1>1, <1>6, <2>2, LoggedByHolder
    <3>3. lock[r] \notin reassigned => InRightHands(job[w])
      BY <1>1, <3>2 DEF RightHands
    <3>. QED
      BY <2>2, <3>1, <3>3 DEF AddedRightly, InRightHands, MayApprove, MayPack
  <2>3. CASE job[w].request # r
    BY <1>2, <1>3, <2>1, <2>3
  <2>. QED
    BY <2>2, <2>3
<1>7. ASSUME NEW w \in Workers, Destroy(w) PROVE AddedRightly(r)
  <2>1. timeline' = [timeline EXCEPT ![job[w].request] = <<>>]
    BY <1>7 DEF Destroy
  <2>2. timeline'[r] = timeline[r] \/ Len(timeline'[r]) = 0
    BY <1>2, <2>1
  <2>. QED
    BY <1>2, <1>3, <2>2 DEF AddedRightly
<1>8. ASSUME NEW k \in Runners, LogMail(k) PROVE AddedRightly(r)
  <2> DEFINE e == [type |-> "mail", to |-> run[k].task.to]
  <2>1. timeline'[r] = timeline[r] \/ timeline'[r] = Append(timeline[r], e)
    BY <1>2, <1>8 DEF LogMail
  <2>2. e.type = "mail"
    OBVIOUS
  <2>. QED
    BY <1>3, <1>4, <2>1, <2>2
<1>9. CASE UNCHANGED timeline
  BY <1>3, <1>9
<1>10. ASSUME NEW w \in Workers, Call(w) \/ Proceed(w) \/ Abort(w) PROVE AddedRightly(r)
  <2>1. CASE Call(w)
    <3>1. PICK q \in Requests, u \in Users :
            \/ \E a \in Users, h \in Warehouses \cup {Nobody}, I \in SUBSET Products,
                  s \in {"PENDING"} \cup WrittenStatuses : Create(w, q, u, a, h, I, s)
            \/ \E op \in Decisions : Decide(w, q, u, op)
            \/ \E new \in Copies : Edit(w, q, u, new)
            \/ Delete(w, q, u)
      BY <2>1 DEF Call, Approve, Reject, MarkReady, Collect, Decisions
    <3>2. \/ UNCHANGED timeline
          \/ \E a \in Users, h \in Warehouses \cup {Nobody}, I \in SUBSET Products,
                s \in {"PENDING"} \cup WrittenStatuses : Create(w, q, u, a, h, I, s)
      BY <3>1 DEF Decide, Edit, Delete
    <3>. QED
      BY <1>5, <1>9, <3>2
  <2>2. CASE Proceed(w)
    BY <1>6, <1>7, <1>9, <2>2 DEF Proceed, Update, Enqueue, Save, ClearItems, FillItems
  <2>3. CASE Abort(w)
    BY <1>9, <2>3 DEF Abort
  <2>. QED
    BY <1>10, <2>1, <2>2, <2>3
<1>11. ASSUME NEW k \in Runners, RunnerStep(k) PROVE AddedRightly(r)
  BY <1>8, <1>9, <1>11 DEF RunnerStep, StartTask, SendMail, LoseTask
<1>. QED
  BY <1>9, <1>10, <1>11 DEF ANext, Next, RunnerStep, Reassign, vars

\* An event names as its actor whom the request names at that moment, although the
\* test was made before the transaction began, on another read of the request and of
\* its warehouse: unless the request or the warehouse names another one in between,
\* and whatever races with it, edits it, deletes it or dies.
THEOREM DecisionsInRightHands == ASpec => RightActor
<1>1. AInit => RInv
  BY InitTyped DEF AInit, Init, RInv, RightHands, Deciding
<1>2. RInv /\ [ANext]_<<vars, auditVars>> => RInv'
  BY StepR
<1>3. RInv /\ [ANext]_<<vars, auditVars>>
        => [\A r \in Requests : AddedRightly(r)]_<<vars, auditVars>>
  BY StepAdds
<1>. QED
  BY <1>1, <1>2, <1>3, PTL DEF ASpec, RightActor, AddedRightly
=============================================================================
