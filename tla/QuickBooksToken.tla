-------------------------- MODULE QuickBooksToken ---------------------------
(***************************************************************************)
(* The OAuth tokens of one QuickBooks integration: the credentials row     *)
(* that every worker shares, the copies the workers took of it, and Intuit *)
(* on the other side, which replaces a refresh token each time it is used  *)
(* (src/integrations/services.py, src/integrations/views.py).              *)
(*                                                                         *)
(* A grant is what one answer of Intuit brings: an access token, a refresh *)
(* token and a lifetime, saved together and replaced together.  Grants are *)
(* numbered as they are issued; 0 stands for empty columns.                *)
(***************************************************************************)
EXTENDS Integers, FiniteSets

CONSTANTS
  Workers,      \* the processes that serve requests
  Nobody,       \* no worker
  Kinds,        \* what callers do: "call" on its own, "nested" in an import
  MaxGrants,    \* bound: grants Intuit issues
  MaxNonces,    \* bound: authorisations a person starts
  MaxLosses,    \* bound: answers lost and workers killed
  MaxTries      \* max_retries of _quickbooks_request

ASSUME ConstantsAssumption ==
  /\ Nobody \notin Workers
  /\ Kinds \subseteq {"call", "nested"}
  /\ MaxGrants \in Nat \ {0} /\ MaxNonces \in Nat /\ MaxTries \in Nat \ {0}
  /\ MaxLosses \in Nat

Grants == 1..MaxGrants

\* The columns the tokens depend on: the grant, whether token_expiry was wiped,
\* and the nonce of the authorisation under way.
Credentials == [grant: 0..MaxGrants, wiped: BOOLEAN, nonce: 0..MaxNonces]

\* What a worker holds when it holds no credentials.
Blank == [grant |-> 0, wiped |-> FALSE, nonce |-> 0]

VARIABLES
  row,        \* the committed row of QuickBooksCredentials
  lock,       \* the worker whose transaction holds the row's lock
  pc, kind,   \* where each worker is, and for whom
  creds,      \* the object the worker's request loaded
  locked,     \* the row as the worker's open transaction sees it
  wrote,      \* that transaction has written the row
  tries,      \* attempts of the request under way
  got,        \* the grant, or the code, of the answer in hand
  result,     \* how the worker's last request ended
  issued, live,            \* Intuit: grants issued, refresh tokens honoured
  elapsed,    \* the grants up to this one are within five minutes of their end
  nonces, codes,           \* authorisations started; codes exchanged
  losses, undone, dropped  \* history: answers and workers lost, an import that
                           \* undid a refresh, grants ended by a later one

intuit == <<issued, live, elapsed, nonces, codes>>
local  == <<pc, kind, creds, locked, wrote, tries, got, result>>
past   == <<losses, undone, dropped>>
vars   == <<row, lock, local, intuit, past>>

Init ==
  /\ row = [grant |-> 1, wiped |-> FALSE, nonce |-> 0]
  /\ lock = Nobody
  /\ pc = [k \in Workers |-> "idle"] /\ kind = [k \in Workers |-> "call"]
  /\ creds = [k \in Workers |-> Blank] /\ locked = [k \in Workers |-> Blank]
  /\ wrote = [k \in Workers |-> FALSE]
  /\ tries = [k \in Workers |-> 0] /\ got = [k \in Workers |-> 0]
  /\ result = [k \in Workers |-> "none"]
  /\ issued = 1 /\ live = {1} /\ elapsed = 0
  /\ nonces = 0 /\ codes = {}
  /\ losses = 0 /\ undone = FALSE /\ dropped = FALSE

\* The token is there and the clock has not reached five minutes before its end.
Fresh(c) == c.grant # 0 /\ ~c.wiped /\ c.grant > elapsed

FreeAlways(k) == TRUE                \* a bug: select_for_update forgotten
Free(k) == lock \in {Nobody, k}
Seen(k) == IF lock = k THEN locked[k] ELSE row

Goto(k, where) == pc' = [pc EXCEPT ![k] = where]

\* The request is over; what its transaction holds stays until it ends.
Ends(k, how) ==
  /\ Goto(k, "end") /\ result' = [result EXCEPT ![k] = how]
  /\ creds' = [creds EXCEPT ![k] = Blank]
  /\ tries' = [tries EXCEPT ![k] = 0] /\ got' = [got EXCEPT ![k] = 0]

Continues(k, where) ==
  Goto(k, where) /\ UNCHANGED <<result, creds, tries, got>>

\* The row's lock leaves with the transaction, or with the savepoint inside an
\* import's transaction unless that has written the row before.
Unlock(k) ==
  IF kind[k] = "nested" /\ wrote[k] THEN UNCHANGED <<lock, locked>>
  ELSE lock' = Nobody /\ locked' = [locked EXCEPT ![k] = Blank]

\* A worker is free again: the request's objects are gone, and any lock with them.
Leave(k) ==
  /\ Goto(k, "idle")
  /\ kind' = [kind EXCEPT ![k] = "call"]
  /\ creds' = [creds EXCEPT ![k] = Blank] /\ locked' = [locked EXCEPT ![k] = Blank]
  /\ wrote' = [wrote EXCEPT ![k] = FALSE]
  /\ tries' = [tries EXCEPT ![k] = 0] /\ got' = [got EXCEPT ![k] = 0]
  /\ result' = [result EXCEPT ![k] = "none"]
  /\ lock' = IF lock = k THEN Nobody ELSE lock

-----------------------------------------------------------------------------
(* _ensure_quickbooks_token and _quickbooks_request                         *)

\* A request loads the credentials.
Begin(k, w) ==
  /\ pc[k] = "idle"
  /\ kind' = [kind EXCEPT ![k] = w]
  /\ creds' = [creds EXCEPT ![k] = row]
  /\ Goto(k, "ensure")
  /\ UNCHANGED <<row, lock, locked, wrote, tries, got, result, intuit, past>>

\* The copy in memory decides whether a refresh is wanted at all.
Ensure(k) ==
  /\ pc[k] = "ensure"
  /\ \/ Fresh(creds[k]) /\ Continues(k, "send")
     \/ ~Fresh(creds[k]) /\ creds[k].grant = 0 /\ Ends(k, "missing")
     \/ ~Fresh(creds[k]) /\ creds[k].grant # 0 /\ Continues(k, "lock")
  /\ UNCHANGED <<row, lock, kind, locked, wrote, intuit, past>>

\* select_for_update, then the second look at the row.
Lock(k) ==
  /\ pc[k] = "lock" /\ Free(k)
  /\ \/ /\ Fresh(Seen(k))
        /\ creds' = [creds EXCEPT ![k].grant = Seen(k).grant, ![k].wiped = FALSE]
        /\ IF kind[k] = "nested"
             THEN lock' = k /\ locked' = [locked EXCEPT ![k] = Seen(k)]
             ELSE UNCHANGED <<lock, locked>>
        /\ Goto(k, "send")
     \/ /\ ~Fresh(Seen(k))
        /\ lock' = k /\ locked' = [locked EXCEPT ![k] = Seen(k)]
        /\ Goto(k, "post")
        /\ UNCHANGED creds
  /\ UNCHANGED <<row, kind, wrote, tries, got, result, intuit, past>>

\* Intuit honours the refresh token and puts a new grant in its place.
Rotate(k) ==
  /\ locked[k].grant \in live
  /\ issued < MaxGrants
  /\ issued' = issued + 1
  /\ live' = (live \ {locked[k].grant}) \cup {issued + 1}

\* The refresh call, which holds the row's lock while it waits: answered; its answer
\* lost; Intuit not reached ("failed"), or unable to serve it ("refused": 429, 5xx); or
\* the refresh token rejected as no longer valid. The code does not tell the last two
\* apart: for every status from 400 on it asks the caller to reconnect.
Post(k) ==
  /\ pc[k] = "post"
  /\ \/ /\ Rotate(k)
        /\ got' = [got EXCEPT ![k] = issued + 1]
        /\ Goto(k, "save")
        /\ UNCHANGED <<lock, locked, result, creds, tries, losses>>
     \/ /\ Rotate(k) /\ losses < MaxLosses
        /\ losses' = losses + 1
        /\ \E how \in {"failed", "refused"} : Ends(k, how)
        /\ Unlock(k)
     \/ /\ \E how \in {"failed", "refused"} : Ends(k, how)
        /\ Unlock(k)
        /\ UNCHANGED <<issued, live, losses>>
     \/ /\ locked[k].grant \notin live
        /\ Ends(k, "rejected") /\ Unlock(k)
        /\ UNCHANGED <<issued, live, losses>>
  /\ UNCHANGED <<row, kind, wrote, elapsed, nonces, codes, undone, dropped>>

\* A write of some columns by save(update_fields=...): it waits for the lock,
\* and alone it commits at once.
WriteColumns(k, new) ==
  /\ Free(k)
  /\ IF kind[k] = "nested"
       THEN /\ locked' = [locked EXCEPT ![k] = new]
            /\ wrote' = [wrote EXCEPT ![k] = TRUE]
            /\ lock' = k
            /\ UNCHANGED row
       ELSE /\ row' = new /\ lock' = Nobody
            /\ locked' = [locked EXCEPT ![k] = Blank]
            /\ UNCHANGED wrote

\* A bug: the refresh token that came with the answer is not saved.
SaveOldRefresh(k) ==
  /\ pc[k] = "save"
  /\ WriteColumns(k, [locked[k] EXCEPT !.wiped = FALSE])
  /\ creds' = [creds EXCEPT ![k].grant = got[k], ![k].wiped = FALSE]
  /\ got' = [got EXCEPT ![k] = 0]
  /\ Goto(k, "send")
  /\ UNCHANGED <<kind, tries, result, intuit, past>>

\* The new tokens are saved and passed to the caller's copy.
Save(k) ==
  /\ pc[k] = "save"
  /\ WriteColumns(k, [locked[k] EXCEPT !.grant = got[k], !.wiped = FALSE])
  /\ creds' = [creds EXCEPT ![k].grant = got[k], ![k].wiped = FALSE]
  /\ got' = [got EXCEPT ![k] = 0]
  /\ Goto(k, "send")
  /\ UNCHANGED <<kind, tries, result, intuit, past>>

\* _ensure_qb_environment, between the first token and the request itself, may
\* save another column of the row: alone that leaves no trace here, in an
\* import it takes the lock for the rest of the transaction.
Probe(k) ==
  /\ pc[k] = "send" /\ tries[k] = 0 /\ kind[k] = "nested"
  /\ WriteColumns(k, Seen(k))
  /\ UNCHANGED <<pc, kind, creds, tries, got, result, intuit, past>>

AgainOnce(k) == tries[k] < MaxTries  \* a bug: one attempt too many
Again(k) == tries[k] + 1 < MaxTries

\* The request: answered; refused with 401, which Intuit may do before a token's
\* time; or failed, rate limited or 5xx.
Send(k) ==
  /\ pc[k] = "send"
  /\ \/ Ends(k, "ok")
     \/ ~Again(k) /\ \E how \in {"401", "failed"} : Ends(k, how)
     \/ /\ Again(k) /\ Goto(k, "clear")
        /\ creds' = [creds EXCEPT ![k].wiped = TRUE]
        /\ UNCHANGED <<result, tries, got>>
     \/ /\ Again(k) /\ Goto(k, "ensure")
        /\ tries' = [tries EXCEPT ![k] = @ + 1]
        /\ UNCHANGED <<result, creds, got>>
  /\ UNCHANGED <<row, lock, kind, locked, wrote, intuit, past>>

\* After a 401 the expiry is wiped, without a lock and whatever the row holds by now.
Clear(k) ==
  /\ pc[k] = "clear"
  /\ WriteColumns(k, [Seen(k) EXCEPT !.wiped = TRUE])
  /\ tries' = [tries EXCEPT ![k] = @ + 1]
  /\ Goto(k, "ensure")
  /\ UNCHANGED <<kind, creds, got, result, intuit, past>>

\* The request is over; an import commits, or rolls everything back.
Return(k) ==
  /\ pc[k] = "end"
  /\ Leave(k)
  /\ \/ row' = (IF wrote[k] THEN locked[k] ELSE row) /\ UNCHANGED undone
     \/ /\ kind[k] = "nested" /\ wrote[k]
        /\ undone' = (undone \/ locked[k].grant # row.grant)
        /\ UNCHANGED row
  /\ UNCHANGED <<intuit, losses, dropped>>

-----------------------------------------------------------------------------
(* Connecting                                                               *)

\* quickbooks_auth_url stores a nonce.
AuthUrl ==
  /\ lock = Nobody /\ nonces < MaxNonces
  /\ nonces' = nonces + 1
  /\ row' = [row EXCEPT !.nonce = nonces + 1]
  /\ UNCHANGED <<lock, local, issued, live, elapsed, codes, past>>

\* Intuit sends the browser back with the nonce of an authorisation.
Callback(k, s) ==
  /\ pc[k] = "idle"
  /\ row.nonce = s
  /\ creds' = [creds EXCEPT ![k] = row]
  /\ got' = [got EXCEPT ![k] = s]
  /\ Goto(k, "exchange")
  /\ UNCHANGED <<row, lock, kind, locked, wrote, tries, result, intuit, past>>

\* The code buys a grant, once; Intuit may end the earlier ones with it.
Exchange(k) ==
  /\ pc[k] = "exchange"
  /\ \/ /\ got[k] \notin codes /\ issued < MaxGrants
        /\ codes' = codes \cup {got[k]}
        /\ issued' = issued + 1
        /\ \E kept \in {live, {}} :
              live' = kept \cup {issued + 1} /\ dropped' = (dropped \/ kept # live)
        /\ \/ /\ got' = [got EXCEPT ![k] = issued + 1]
              /\ Goto(k, "store") /\ UNCHANGED <<result, losses, creds, tries>>
           \/ /\ losses < MaxLosses /\ losses' = losses + 1
              /\ Ends(k, "failed")
     \/ Ends(k, "failed") /\ UNCHANGED <<codes, issued, live, dropped, losses>>
  /\ UNCHANGED <<row, lock, kind, locked, wrote, elapsed, nonces, undone>>

\* Every column of the copy is saved, with the grant, and the nonce is used up.
Store(k) ==
  /\ pc[k] = "store" /\ lock = Nobody
  /\ row' = [creds[k] EXCEPT !.grant = got[k], !.wiped = FALSE, !.nonce = 0]
  /\ Ends(k, "ok")
  /\ UNCHANGED <<lock, kind, locked, wrote, intuit, past>>

-----------------------------------------------------------------------------
(* Time, Intuit and the process manager                                     *)

\* Grants end in the order they were issued.
Elapse ==
  /\ elapsed < issued
  /\ elapsed' = elapsed + 1
  /\ UNCHANGED <<row, lock, local, issued, live, nonces, codes, past>>

\* gunicorn kills a worker that took too long; its transaction is rolled back.
Killed(k) ==
  /\ pc[k] # "idle" /\ losses < MaxLosses
  /\ losses' = losses + 1
  /\ Leave(k)
  /\ UNCHANGED <<row, intuit, undone, dropped>>

Request(k) ==
  \/ Ensure(k) \/ Lock(k) \/ Post(k) \/ Save(k) \/ Probe(k) \/ Send(k) \/ Clear(k)
  \/ Return(k) \/ Exchange(k) \/ Store(k)

Next ==
  \/ \E k \in Workers :
        \/ \E w \in Kinds : Begin(k, w)
        \/ Request(k)
        \/ \E s \in 1..MaxNonces : Callback(k, s)
        \/ Killed(k)
  \/ AuthUrl \/ Elapse

Spec == Init /\ [][Next]_vars

-----------------------------------------------------------------------------
ControlPoints == {"idle", "ensure", "lock", "post", "save", "send", "clear", "end", "exchange",
           "store"}

\* How the last request of a worker ended.
Endings == {"none", "ok", "missing", "failed", "refused", "rejected", "401"}

\* Every variable stays in its range.
TypeOK ==
  /\ row \in Credentials /\ lock \in Workers \cup {Nobody}
  /\ pc \in [Workers -> ControlPoints] /\ kind \in [Workers -> {"call", "nested"}]
  /\ creds \in [Workers -> Credentials] /\ locked \in [Workers -> Credentials]
  /\ wrote \in [Workers -> BOOLEAN] /\ tries \in [Workers -> 0..(MaxTries - 1)]
  /\ got \in [Workers -> Nat]
  /\ result \in [Workers -> Endings]
  /\ issued \in Grants /\ live \subseteq 1..issued
  /\ elapsed \in 0..issued
  /\ nonces \in 0..MaxNonces /\ codes \subseteq 1..MaxNonces
  /\ losses \in 0..MaxLosses /\ undone \in BOOLEAN /\ dropped \in BOOLEAN

\* Nothing went wrong outside: no answer was lost, no worker killed, no import
\* rolled back after it had refreshed, no earlier grant ended by a later one.
Undisturbed == losses = 0 /\ ~undone /\ ~dropped

\* While no transaction holds the row, the refresh token on record is one
\* Intuit still honours, whatever callbacks, wipes and edits interleave.
StoredIsLive == Undisturbed /\ lock = Nobody => row.grant \in live

\* Intuit never rejects a refresh token as spent or unknown: none is spent twice, though
\* two workers want it at once, which is what the row's lock is for (services.py:83).
\* (A caller may still be asked to reconnect a connection that works: whenever Intuit
\* answers a refresh with 429 or 5xx, and when the last attempt of a request gets 401.)
RefreshNeverRejected ==
  Undisturbed => \A k \in Workers : result[k] # "rejected"
=============================================================================
