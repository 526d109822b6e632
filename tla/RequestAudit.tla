---------------------------- MODULE RequestAudit ----------------------------
(***************************************************************************)
(* ProductRequests, with a note of the requests whose history is not that  *)
(* of decisions taken one after the other: those that two workers were     *)
(* about to write at once, those whose status a client wrote itself, and   *)
(* those that a save brought back after their deletion; and of the         *)
(* decisions whose request has named another approver or keeper since they *)
(* were tested.                                                            *)
(***************************************************************************)
EXTENDS ProductRequests, FiniteSets

VARIABLES
  disturbed,   \* requests that two workers, or a client, gave a status of their own
  revived,     \* requests that were deleted and then saved from an older copy
  reassigned   \* workers whose decision is under way, but was tested against an
               \* approver or a keeper whom the request no longer names

auditVars == <<disturbed, revived, reassigned>>

\* w has read r and is still to write a status of it.
Writes(w, r) == pc[w] \in {"update", "log", "save"} /\ job[w].request = r

\* w is to save a status of r that is not the one it read.
Overrides(w, r) == pc[w] = "save" /\ job[w].request = r /\ job[w].copy.status # status[r]

Deciding(w) == pc[w] \in {"update", "log"}
Assignment(r) == <<approver[r], Keeper(r)>>

AInit == Init /\ disturbed = {} /\ revived = {} /\ reassigned = {}

Observe ==
  /\ disturbed' = disturbed \cup
       {r \in Requests :
          \/ \E v, w \in Workers : v # w /\ Writes(v, r)' /\ Writes(w, r)'
          \/ \E w \in Workers : Overrides(w, r)'
          \/ status[r] = "unborn" /\ status'[r] \notin {"unborn", Becomes("create")}}
  /\ revived' = revived \cup
       {r \in Requests : status[r] = "deleted" /\ status'[r] # "deleted"}
  /\ reassigned' =
       {w \in Workers :
          /\ Deciding(w) /\ Deciding(w)'
          /\ w \in reassigned \/ Assignment(job[w].request)' # Assignment(job[w].request)}

ANext == Next /\ Observe

ASpec == AInit /\ [][ANext]_<<vars, auditVars>>
-----------------------------------------------------------------------------
(* Properties.                                                             *)

\* Each decision of a line follows the transition it depends on.
Followed(line) ==
  \A j \in DOMAIN line :
    line[j].type \in Decisions =>
      \E i \in 1..(j - 1) :
        LastStepBefore(line, i, j) /\ Becomes(line[i].type) = Needs(line[j].type)

\* Unless calls that write its status overlap, or a client writes one of its own,
\* each decision on a timeline follows the transition it depends on: nothing is decided
\* twice, and nothing packed or collected without an approval.
WorkflowFollowed == \A r \in Requests \ disturbed : Followed(timeline[r])

CauseOf(to) ==
  CASE to = "approver"  -> "create"
    [] to = "manager"   -> "approve"
    [] to = "requester" -> "ready"

Noted(t) == {i \in DOMAIN timeline[t.request] :
               timeline[t.request][i] = [type |-> "mail", to |-> t.to]}
Causes(t) == {i \in DOMAIN timeline[t.request] :
                timeline[t.request][i].type = CauseOf(t.to)}
Sending(t) == {k \in Runners : run[k] = [task |-> t, stage |-> "send"]}

\* An e-mail is sent at most once for each committed transition that asks for it,
\* whatever races, fails or dies, and the timeline shows it only if it was sent;
\* only the timeline of a request that was brought back has forgotten some.
MailsAccounted ==
  \A t \in Task : Exists(t.request) /\ t.request \notin revived =>
    /\ mails[t] + Cardinality(Sending(t)) + queue[t] <= Cardinality(Causes(t))
    /\ Cardinality(Noted(t)) <= mails[t]

\* A decision is recorded only for the approver, or the manager of the warehouse, whom
\* the request names at that moment, or for a superuser, although the test precedes the
\* transaction and the manager is a column of another row: unless the request, or the
\* warehouse, has named somebody else between the test and the commit.
RightActor ==
  [][\A r \in Requests :
       Len(timeline'[r]) = Len(timeline[r]) + 1 /\ lock[r] \notin reassigned =>
         LET e == timeline'[r][Len(timeline'[r])] IN
         /\ e.type \in {"approve", "reject"} =>
              approver[r] = Nobody \/ e.by \in {approver[r]} \cup Superusers
         /\ e.type = "ready" =>
              Keeper(r) = Nobody \/ e.by \in {Keeper(r)} \cup Superusers
      ]_<<vars, auditVars>>
=============================================================================
