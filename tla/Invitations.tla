---------------------------- MODULE Invitations ----------------------------
(***************************************************************************)
(* Invitations to a warehouse (src/invitations/views.py): each request     *)
(* reads an invitation, judges its copy and saves every column of it, and  *)
(* nothing keeps two requests apart.                                       *)
(***************************************************************************)
EXTENDS Integers, FiniteSets

CONSTANTS
  Users,          \* who may invite, be invited and answer
  Addresses,      \* pairs of an e-mail address and a warehouse
  MaxInvitations, \* bound: invitations ever created
  MaxVisits       \* bound: requests for invitations that exist

Invitations == 1..MaxInvitations
NoInvitation == [address |-> "none"]
NoGuest == "nobody"
NoVisit == [id |-> 0]

VARIABLES
  invitation,  \* the rows by id: [address, inviter, user, status, accepted]
  invited,     \* how many were created so far
  expired,     \* those whose expires_at has passed
  visit,       \* each user's request: the row it is about to save
  visits,      \* requests so far
  overlapped,  \* history: invitations that two requests had open at once
  answers      \* history: how often each was accepted or rejected

invitations == <<invitation, invited, expired, visit, visits, overlapped, answers>>

InvitationsInit ==
  /\ invitation = [i \in Invitations |-> NoInvitation]
  /\ invited = 0 /\ expired = {}
  /\ visit = [u \in Users |-> NoVisit] /\ visits = 0
  /\ overlapped = {} /\ answers = [i \in Invitations |-> 0]

InvitationExists(i) == invitation[i] # NoInvitation

\* unique_together: no second row for an e-mail address and a warehouse.
AddressFree(address, i) ==
  \A j \in Invitations \ {i} : invitation[j].address # address

\* POST /invitations
Invite(u, address) ==
  /\ invited < MaxInvitations
  /\ AddressFree(address, 0)
  /\ invited' = invited + 1
  /\ invitation' = [invitation EXCEPT ![invited + 1] =
       [address |-> address, inviter |-> u, user |-> NoGuest,
        status |-> "PENDING", accepted |-> FALSE]]
  /\ UNCHANGED <<expired, visit, visits, overlapped, answers>>

\* expires_at passes; the status says nothing of it.
Expire(i) ==
  /\ InvitationExists(i) /\ i \notin expired
  /\ expired' = expired \cup {i}
  /\ UNCHANGED <<invitation, invited, visit, visits, overlapped, answers>>

\* get_queryset: the inviter and the invited user see an invitation.
MaySee(u, i) == InvitationExists(i) /\ u \in {invitation[i].inviter, invitation[i].user}

\* User u's request, an answer or not, has passed its checks and is about to
\* save row.
Visit(u, i, row, answer) ==
  /\ visit[u] = NoVisit /\ visits < MaxVisits
  /\ visits' = visits + 1
  /\ visit' = [visit EXCEPT ![u] = [id |-> i, row |-> row, answer |-> answer]]
  /\ overlapped' = IF \E v \in Users : visit[v].id = i
                     THEN overlapped \cup {i} ELSE overlapped
  /\ UNCHANGED <<invitation, invited, expired, answers>>

IsPending(i) == invitation[i].status = "PENDING"

\* accept_by_token, and accept for those who see the invitation: the token alone
\* is enough.
Accept(u, i) ==
  /\ InvitationExists(i)
  /\ IsPending(i) /\ i \notin expired
  /\ Visit(u, i, [invitation[i] EXCEPT !.status = "ACCEPTED", !.user = u, !.accepted = TRUE],
           TRUE)

\* reject does not look at the date.
Reject(u, i) ==
  /\ MaySee(u, i)
  /\ IsPending(i)
  /\ Visit(u, i, [invitation[i] EXCEPT !.status = "REJECTED"], TRUE)

\* PATCH /invitations: address and invited user are writable whatever the status.
Amend(u, i) ==
  /\ MaySee(u, i)
  /\ \E address \in Addresses, user \in Users \cup {NoGuest} :
       /\ AddressFree(address, i)
       /\ Visit(u, i, [invitation[i] EXCEPT !.address = address, !.user = user],
                FALSE)

\* DELETE /invitations
Withdraw(u, i) ==
  /\ MaySee(u, i)
  /\ visit[u] = NoVisit /\ visits < MaxVisits
  /\ visits' = visits + 1
  /\ invitation' = [invitation EXCEPT ![i] = NoInvitation]
  /\ UNCHANGED <<invited, expired, visit, overlapped, answers>>

\* A bug: save(update_fields=['status', 'invited_user']).
SavedStatus(i, row) ==
  IF InvitationExists(i)
    THEN [invitation[i] EXCEPT !.status = row.status, !.user = row.user] ELSE row

\* invitation.save(): every column; a row deleted meanwhile is inserted again.
SavedRow(i, row) == row

\* The save fails where another row has the address by now.
SaveVisit(u) ==
  /\ visit[u] # NoVisit
  /\ LET i == visit[u].id
         row == visit[u].row
         saved == AddressFree(row.address, i)
     IN /\ invitation' = IF saved THEN [invitation EXCEPT ![i] = SavedRow(i, row)]
                                  ELSE invitation
        /\ answers' = IF saved /\ visit[u].answer THEN [answers EXCEPT ![i] = @ + 1] ELSE answers
  /\ visit' = [visit EXCEPT ![u] = NoVisit]
  /\ UNCHANGED <<invited, expired, visits, overlapped>>

InvitationsNext ==
  \/ \E u \in Users, a \in Addresses : Invite(u, a)
  \/ \E i \in Invitations : Expire(i)
  \/ \E u \in Users, i \in Invitations :
       Accept(u, i) \/ Reject(u, i) \/ Amend(u, i) \/ Withdraw(u, i)
  \/ \E u \in Users : SaveVisit(u)

InvitationsSpec == InvitationsInit /\ [][InvitationsNext]_invitations

-----------------------------------------------------------------------------
\* However requests overlap, accepted_at is set exactly in the accepted ones; and
\* an invitation no two requests had open at once is answered once at most.
AnswersSound ==
  \A i \in Invitations :
    /\ InvitationExists(i) =>
         (invitation[i].accepted <=> invitation[i].status = "ACCEPTED")
    /\ i \notin overlapped => answers[i] <= 1
=============================================================================
