----------------------- MODULE QuickBooksTokenProofs ------------------------
(***************************************************************************)
(* Proofs about QuickBooksToken, for any number of workers, grants,        *)
(* authorisations and tries: while no answer is lost and no worker killed, *)
(* the refresh token on record is one that Intuit honours, and Intuit      *)
(* rejects no refresh token.                                               *)
(***************************************************************************)
EXTENDS QuickBooksToken, TLAPS

-----------------------------------------------------------------------------
(* Types, and what a worker has in hand at each point.                     *)

\* A 401 is retried only while there are tries left; a code or a grant in hand
\* exists.
HandsOK ==
  \A k \in Workers :
    /\ pc[k] = "clear" => Again(k)
    /\ pc[k] = "exchange" => got[k] \in 1..MaxNonces
    /\ pc[k] \in {"save", "store"} => got[k] \in 1..issued
    /\ locked[k].grant \in 0..issued

RowOK == row.grant \in 0..issued

TInv == TypeOK /\ HandsOK /\ RowOK

LEMMA Numbers ==
  ASSUME TypeOK
  PROVE  /\ issued \in Nat /\ issued >= 1 /\ issued <= MaxGrants /\ MaxGrants \in Nat
         /\ MaxNonces \in Nat /\ MaxTries \in Nat /\ MaxTries >= 1 /\ MaxLosses \in Nat
         /\ nonces \in Nat /\ losses \in Nat /\ elapsed \in Nat
BY ConstantsAssumption DEF TypeOK, Grants

\* A grant issued keeps the books of Intuit in range.
LEMMA OneMoreGrant ==
  ASSUME TypeOK, issued < MaxGrants, NEW old \in SUBSET (1..issued)
  PROVE  /\ issued + 1 \in Grants
         /\ old \cup {issued + 1} \subseteq 1..(issued + 1)
<1>1. issued \in Nat /\ issued >= 1 /\ MaxGrants \in Nat
  BY Numbers
<1>2. 1..issued \subseteq 1..(issued + 1) /\ issued + 1 \in 1..(issued + 1)
  BY <1>1
<1>3. QED
  BY <1>1, <1>2 DEF Grants

LEMMA BlankIsCredentials == Blank \in Credentials
BY ConstantsAssumption DEF Blank, Credentials

LEMMA InitTypes == Init => TInv
<1> USE ConstantsAssumption, BlankIsCredentials
<1> SUFFICES ASSUME Init PROVE TInv
  OBVIOUS
<1>1. row \in Credentials
  BY DEF Init, Credentials
<1>2. /\ issued \in Grants /\ live \subseteq 1..issued /\ elapsed \in 0..issued
      /\ tries \in [Workers -> 0..(MaxTries - 1)] /\ losses \in 0..MaxLosses
      /\ nonces \in 0..MaxNonces /\ codes \subseteq 1..MaxNonces
  BY DEF Init, Grants
<1>3. TypeOK
  BY <1>1, <1>2 DEF Init, TypeOK, ControlPoints, Endings
<1>4. HandsOK /\ RowOK
  BY DEF Init, HandsOK, RowOK, Blank
<1>5. QED
  BY <1>3, <1>4 DEF TInv

\* What a worker sees of the row is a row.
LEMMA SeenTypes ==
  ASSUME TInv, NEW k \in Workers
  PROVE  Seen(k) \in Credentials /\ Seen(k).grant \in 0..issued
BY DEF Seen, TInv, TypeOK, HandsOK, RowOK

LEMMA EndsTypes ==
  ASSUME TypeOK, NEW k \in Workers, NEW how,
         how \in Endings, Ends(k, how)
  PROVE  /\ pc' \in [Workers -> ControlPoints]
         /\ result' \in [Workers -> Endings]
         /\ creds' \in [Workers -> Credentials]
         /\ tries' \in [Workers -> 0..(MaxTries - 1)]
         /\ got' \in [Workers -> Nat]
BY ConstantsAssumption, BlankIsCredentials DEF Ends, Goto, TypeOK, ControlPoints, Endings

LEMMA LeaveTypes ==
  ASSUME TypeOK, NEW k \in Workers, Leave(k)
  PROVE  /\ pc' \in [Workers -> ControlPoints] /\ kind' \in [Workers -> {"call", "nested"}]
         /\ result' \in [Workers -> Endings]
         /\ creds' \in [Workers -> Credentials] /\ locked' \in [Workers -> Credentials]
         /\ wrote' \in [Workers -> BOOLEAN]
         /\ tries' \in [Workers -> 0..(MaxTries - 1)]
         /\ got' \in [Workers -> Nat]
         /\ lock' \in Workers \cup {Nobody}
BY ConstantsAssumption, BlankIsCredentials DEF Leave, Goto, TypeOK, ControlPoints, Endings

LEMMA WriteTypes ==
  ASSUME TInv, NEW k \in Workers, NEW new \in Credentials, WriteColumns(k, new)
  PROVE  /\ row' \in Credentials /\ lock' \in Workers \cup {Nobody}
         /\ locked' \in [Workers -> Credentials] /\ wrote' \in [Workers -> BOOLEAN]
BY BlankIsCredentials DEF WriteColumns, TInv, TypeOK

LEMMA UnlockTypes ==
  ASSUME TypeOK, NEW k \in Workers, Unlock(k)
  PROVE  /\ lock' \in Workers \cup {Nobody} /\ locked' \in [Workers -> Credentials]
BY BlankIsCredentials DEF Unlock, TypeOK

-----------------------------------------------------------------------------
\* The actions, each with its types.

LEMMA BeginTypes ==
  ASSUME TInv, NEW k \in Workers, NEW w \in Kinds, Begin(k, w) PROVE TInv'
<1> USE ConstantsAssumption DEF Begin, Goto, intuit, past, TInv
<1>1. TypeOK'
  BY DEF TypeOK, ControlPoints, Endings
<1>2. HandsOK' /\ RowOK'
  BY DEF HandsOK, RowOK, TypeOK, Again
<1>3. QED
  BY <1>1, <1>2

LEMMA EnsureTypes == ASSUME TInv, NEW k \in Workers, Ensure(k) PROVE TInv'
<1> USE DEF TInv
<1>1. UNCHANGED <<row, lock, kind, locked, wrote, issued, live, elapsed, nonces, codes,
                  losses, undone, dropped>>
  BY DEF Ensure, intuit, past
<1>2. \/ \E where \in {"send", "lock"} :
           pc' = [pc EXCEPT ![k] = where] /\ UNCHANGED <<result, creds, tries, got>>
      \/ Ends(k, "missing")
  BY DEF Ensure, Continues, Goto
<1>3. TypeOK'
  <2>1. CASE Ends(k, "missing")
    BY <1>1, <2>1, EndsTypes DEF TypeOK, Endings
  <2>2. CASE ~Ends(k, "missing")
    BY <1>1, <1>2, <2>2 DEF TypeOK, ControlPoints, Endings
  <2>3. QED
    BY <2>1, <2>2
<1>4. HandsOK' /\ RowOK'
  BY <1>1, <1>2 DEF Ends, Goto, HandsOK, RowOK, TypeOK, Again
<1>5. QED
  BY <1>3, <1>4

LEMMA LockTypes == ASSUME TInv, NEW k \in Workers, Lock(k) PROVE TInv'
<1> USE DEF TInv
<1>1. UNCHANGED <<row, kind, wrote, tries, got, result, issued, live, elapsed, nonces, codes,
                  losses, undone, dropped>>
  BY DEF Lock, intuit, past
<1>2. \E where \in {"send", "post"} : pc' = [pc EXCEPT ![k] = where]
  BY DEF Lock, Goto
<1>3. /\ lock' \in Workers \cup {Nobody}
      /\ locked' = locked \/ locked' = [locked EXCEPT ![k] = Seen(k)]
  BY DEF Lock, TypeOK
<1>4. creds' \in [Workers -> Credentials]
  <2> DEFINE new == [creds[k] EXCEPT !.grant = Seen(k).grant, !.wiped = FALSE]
  <2>1. creds[k] \in Credentials /\ Seen(k) \in Credentials
    BY SeenTypes DEF TypeOK
  <2>2. new \in Credentials
    BY <2>1 DEF Credentials
  <2>3. creds' = creds \/ creds' = [creds EXCEPT ![k] = new]
    BY DEF Lock
  <2> HIDE DEF new
  <2>4. QED
    BY <2>2, <2>3 DEF TypeOK
<1>5. locked' \in [Workers -> Credentials]
  BY <1>3, SeenTypes DEF TypeOK
<1>6. TypeOK'
  BY <1>1, <1>2, <1>3, <1>4, <1>5, ZenonT(30) DEF TypeOK, ControlPoints, Endings
<1>7. HandsOK' /\ RowOK'
  BY <1>1, <1>2, <1>3, SeenTypes DEF HandsOK, RowOK, TypeOK, Again
<1>8. QED
  BY <1>6, <1>7

LEMMA PostTypes == ASSUME TInv, NEW k \in Workers, Post(k) PROVE TInv'
<1> USE DEF TInv
<1>1. UNCHANGED <<row, kind, wrote, elapsed, nonces, codes, undone, dropped>>
  BY DEF Post
<1>2. \/ Rotate(k)
      \/ UNCHANGED <<issued, live>>
  BY DEF Post
<1>3. issued' \in Grants /\ live' \subseteq 1..issued' /\ issued <= issued'
  <2>1. CASE Rotate(k)
    <3>1. /\ issued < MaxGrants /\ issued' = issued + 1
          /\ live' = (live \ {locked[k].grant}) \cup {issued + 1}
      BY <2>1 DEF Rotate
    <3>2. TypeOK /\ live \ {locked[k].grant} \in SUBSET (1..issued)
      BY DEF TypeOK
    <3>3. /\ issued + 1 \in Grants
          /\ (live \ {locked[k].grant}) \cup {issued + 1} \subseteq 1..(issued + 1)
      BY <3>1, <3>2, OneMoreGrant
    <3>4. issued <= issued + 1
      BY Numbers
    <3>5. QED
      BY <3>1, <3>3, <3>4, Zenon
  <2>2. CASE UNCHANGED <<issued, live>>
    BY <2>2, Numbers DEF TypeOK
  <2>3. QED
    BY <1>2, <2>1, <2>2
<1>4. elapsed' \in 0..issued'
  BY <1>1, <1>3, Numbers DEF TypeOK, Grants
<1>5. losses' \in 0..MaxLosses
  BY Numbers DEF Post, TypeOK
<1>6. \/ /\ Rotate(k)
         /\ got' = [got EXCEPT ![k] = issued + 1]
         /\ pc' = [pc EXCEPT ![k] = "save"]
         /\ UNCHANGED <<lock, locked, result, creds, tries>>
      \/ (\E how \in {"failed", "refused", "rejected"} : Ends(k, how)) /\ Unlock(k)
  BY DEF Post, Goto
<1>7. CASE (\E how \in {"failed", "refused", "rejected"} : Ends(k, how)) /\ Unlock(k)
  <2>1. TypeOK'
    BY <1>1, <1>3, <1>4, <1>5, <1>7, EndsTypes, UnlockTypes DEF TypeOK, Endings
  <2>2. \A j \in Workers : locked'[j] = locked[j] \/ locked'[j] = Blank
    BY <1>7 DEF Unlock, TypeOK
  <2>3. HandsOK'
    BY <1>3, <1>7, <2>2, Numbers DEF Ends, Goto, HandsOK, TypeOK, Again, Grants, Blank
  <2>4. RowOK'
    BY <1>1, <1>3, Numbers DEF RowOK, Grants
  <2>5. QED
    BY <2>1, <2>3, <2>4
<1>8. CASE /\ Rotate(k)
           /\ got' = [got EXCEPT ![k] = issued + 1]
           /\ pc' = [pc EXCEPT ![k] = "save"]
           /\ UNCHANGED <<lock, locked, result, creds, tries>>
  <2>1. issued' = issued + 1
    BY <1>8 DEF Rotate
  <2>2. TypeOK'
    BY <1>1, <1>3, <1>4, <1>5, <1>8, Numbers DEF TypeOK, ControlPoints, Endings
  <2>3. HandsOK'
    BY <1>8, <2>1, Numbers DEF HandsOK, TypeOK, Again
  <2>4. RowOK'
    BY <1>1, <2>1, Numbers DEF RowOK
  <2>5. QED
    BY <2>2, <2>3, <2>4
<1>9. QED
  BY <1>6, <1>7, <1>8

\* A write of the row in which the worker moves on.
LEMMA WriteHands ==
  ASSUME TInv, NEW k \in Workers, NEW new \in Credentials, new.grant \in 0..issued,
         WriteColumns(k, new), issued' = issued
  PROVE  RowOK' /\ \A j \in Workers : locked'[j].grant \in 0..issued'
<1>1. row' = row \/ row' = new
  BY DEF WriteColumns
<1>2. \A j \in Workers : locked'[j] \in {locked[j], new, Blank}
  BY DEF WriteColumns, TInv, TypeOK
<1>3. Blank.grant \in 0..issued
  BY Numbers DEF Blank, TInv
<1>4. QED
  BY <1>1, <1>2, <1>3 DEF TInv, RowOK, HandsOK

LEMMA SaveTypes == ASSUME TInv, NEW k \in Workers, Save(k) PROVE TInv'
<1> DEFINE new == [locked[k] EXCEPT !.grant = got[k], !.wiped = FALSE]
           copy == [creds[k] EXCEPT !.grant = got[k], !.wiped = FALSE]
<1>1. got[k] \in 1..issued /\ got[k] \in 0..MaxGrants
  BY Numbers DEF Save, TInv, HandsOK
<1>2. new \in Credentials /\ new.grant \in 0..issued /\ copy \in Credentials
  <2>1. locked[k] \in Credentials /\ creds[k] \in Credentials
    BY DEF TInv, TypeOK
  <2>2. got[k] \in 0..issued
    BY <1>1
  <2>3. new \in Credentials /\ copy \in Credentials
    BY <1>1, <2>1 DEF Credentials
  <2>4. new.grant = got[k]
    BY <2>1 DEF Credentials
  <2>5. QED
    BY <2>2, <2>3, <2>4
<1>3. /\ WriteColumns(k, new)
      /\ creds' = [creds EXCEPT ![k] = copy]
      /\ got' = [got EXCEPT ![k] = 0] /\ pc' = [pc EXCEPT ![k] = "send"]
      /\ UNCHANGED <<kind, tries, result, issued, live, elapsed, nonces, codes,
                     losses, undone, dropped>>
  BY DEF Save, Goto, intuit, past
<1> HIDE DEF new, copy
<1>4. TypeOK'
  BY <1>2, <1>3, WriteTypes DEF TInv, TypeOK, ControlPoints, Endings
<1>5. HandsOK' /\ RowOK'
  BY <1>2, <1>3, WriteHands DEF TInv, HandsOK, TypeOK, Again
<1>6. QED
  BY <1>4, <1>5 DEF TInv

LEMMA ProbeTypes == ASSUME TInv, NEW k \in Workers, Probe(k) PROVE TInv'
<1>1. Seen(k) \in Credentials /\ Seen(k).grant \in 0..issued
  BY SeenTypes
<1>2. /\ WriteColumns(k, Seen(k))
      /\ UNCHANGED <<pc, kind, creds, tries, got, result, issued, live, elapsed, nonces,
                     codes, losses, undone, dropped>>
  BY DEF Probe, intuit, past
<1>3. TypeOK'
  BY <1>1, <1>2, WriteTypes DEF TInv, TypeOK
<1>4. HandsOK' /\ RowOK'
  BY <1>1, <1>2, WriteHands DEF TInv, HandsOK, Again
<1>5. QED
  BY <1>3, <1>4 DEF TInv

LEMMA SendTypes == ASSUME TInv, NEW k \in Workers, Send(k) PROVE TInv'
<1> USE DEF TInv
<1>1. UNCHANGED <<row, lock, kind, locked, wrote, issued, live, elapsed, nonces, codes,
                  losses, undone, dropped>>
  BY DEF Send, intuit, past
<1>2. RowOK'
  BY <1>1 DEF RowOK
<1>3. CASE \E how \in {"ok", "401", "failed"} : Ends(k, how)
  <2>1. TypeOK'
    BY <1>1, <1>3, EndsTypes DEF TypeOK, Endings
  <2>2. HandsOK'
    BY <1>1, <1>3 DEF Ends, Goto, HandsOK, TypeOK, Again
  <2>3. QED
    BY <1>2, <2>1, <2>2
<1>4. CASE /\ Again(k) /\ Goto(k, "clear")
           /\ creds' = [creds EXCEPT ![k].wiped = TRUE]
           /\ UNCHANGED <<result, tries, got>>
  <2>1. [creds[k] EXCEPT !.wiped = TRUE] \in Credentials
    BY DEF TypeOK, Credentials
  <2>2. creds' \in [Workers -> Credentials]
    BY <1>4, <2>1 DEF TypeOK
  <2>3. TypeOK'
    BY <1>1, <1>4, <2>2 DEF TypeOK, Goto, ControlPoints
  <2>4. HandsOK'
    BY <1>1, <1>4 DEF HandsOK, TypeOK, Again, Goto
  <2>5. QED
    BY <1>2, <2>3, <2>4
<1>5. CASE /\ Again(k) /\ Goto(k, "ensure")
           /\ tries' = [tries EXCEPT ![k] = @ + 1]
           /\ UNCHANGED <<result, creds, got>>
  <2>1. tries[k] + 1 \in 0..(MaxTries - 1)
    BY <1>5, Numbers DEF Again, TypeOK
  <2>2. TypeOK'
    BY <1>1, <1>5, <2>1 DEF TypeOK, Goto, ControlPoints
  <2>3. HandsOK'
    BY <1>1, <1>5 DEF HandsOK, TypeOK, Again, Goto
  <2>4. QED
    BY <1>2, <2>2, <2>3
<1>6. QED
  BY <1>3, <1>4, <1>5 DEF Send

LEMMA ClearTypes == ASSUME TInv, NEW k \in Workers, Clear(k) PROVE TInv'
<1> DEFINE new == [Seen(k) EXCEPT !.wiped = TRUE]
<1>1. new \in Credentials /\ new.grant \in 0..issued
  BY SeenTypes DEF Credentials
<1>2. /\ WriteColumns(k, new)
      /\ tries' = [tries EXCEPT ![k] = @ + 1] /\ pc' = [pc EXCEPT ![k] = "ensure"]
      /\ UNCHANGED <<kind, creds, got, result, issued, live, elapsed, nonces,
                     codes, losses, undone, dropped>>
  BY DEF Clear, Goto, intuit, past
<1> HIDE DEF new
<1>3. tries[k] + 1 \in 0..(MaxTries - 1)
  BY Numbers DEF Clear, TInv, HandsOK, Again, TypeOK
<1>4. TypeOK'
  BY <1>1, <1>2, <1>3, WriteTypes DEF TInv, TypeOK, ControlPoints, Endings
<1>5. HandsOK' /\ RowOK'
  BY <1>1, <1>2, WriteHands DEF TInv, HandsOK, TypeOK, Again
<1>6. QED
  BY <1>4, <1>5 DEF TInv

LEMMA LeaveHands ==
  ASSUME TInv, NEW k \in Workers, Leave(k), issued' = issued PROVE HandsOK'
BY Numbers DEF TInv, HandsOK, Leave, Goto, TypeOK, Again, Blank

LEMMA ReturnTypes == ASSUME TInv, NEW k \in Workers, Return(k) PROVE TInv'
<1>1. /\ Leave(k) /\ UNCHANGED <<issued, live, elapsed, nonces, codes, losses, dropped>>
      /\ row' = row \/ row' = locked[k]
      /\ undone' = undone \/ undone' = (undone \/ locked[k].grant # row.grant)
  BY DEF Return, intuit
<1>2. undone' \in BOOLEAN
  BY <1>1, Zenon DEF TInv, TypeOK
<1>3. TypeOK'
  BY <1>1, <1>2, LeaveTypes DEF TInv, TypeOK
<1>4. HandsOK' /\ RowOK'
  BY <1>1, LeaveHands DEF TInv, HandsOK, RowOK
<1>5. QED
  BY <1>3, <1>4 DEF TInv

LEMMA KilledTypes == ASSUME TInv, NEW k \in Workers, Killed(k) PROVE TInv'
<1>1. /\ Leave(k) /\ UNCHANGED <<row, issued, live, elapsed, nonces, codes, undone, dropped>>
      /\ losses' \in 0..MaxLosses
  BY Numbers DEF Killed, intuit, TInv, TypeOK
<1>2. TypeOK'
  BY <1>1, LeaveTypes DEF TInv, TypeOK
<1>3. HandsOK' /\ RowOK'
  BY <1>1, LeaveHands DEF TInv, RowOK
<1>4. QED
  BY <1>2, <1>3 DEF TInv

LEMMA AuthUrlTypes == ASSUME TInv, AuthUrl PROVE TInv'
<1> USE DEF AuthUrl, local, past, TInv
<1>1. nonces' \in 0..MaxNonces /\ nonces + 1 \in 0..MaxNonces
  BY Numbers DEF TypeOK
<1>2. row' \in Credentials /\ row'.grant = row.grant
  BY <1>1 DEF TypeOK, Credentials
<1>3. TypeOK'
  BY <1>1, <1>2 DEF TypeOK
<1>4. HandsOK' /\ RowOK'
  BY <1>2 DEF HandsOK, RowOK, Again
<1>5. QED
  BY <1>3, <1>4

LEMMA CallbackTypes ==
  ASSUME TInv, NEW k \in Workers, NEW s \in 1..MaxNonces, Callback(k, s) PROVE TInv'
<1> USE DEF Callback, Goto, intuit, past, TInv
<1>1. TypeOK'
  BY Numbers DEF TypeOK, ControlPoints, Endings
<1>2. HandsOK' /\ RowOK'
  BY DEF HandsOK, RowOK, TypeOK, Again
<1>3. QED
  BY <1>1, <1>2

LEMMA ExchangeTypes == ASSUME TInv, NEW k \in Workers, Exchange(k) PROVE TInv'
<1> USE DEF TInv
<1>1. UNCHANGED <<row, lock, kind, locked, wrote, elapsed, nonces, undone>>
  BY DEF Exchange
<1>2. \/ /\ issued < MaxGrants /\ issued' = issued + 1
         /\ codes' = codes \cup {got[k]}
         /\ \E kept \in {live, {}} :
              live' = kept \cup {issued + 1} /\ dropped' = (dropped \/ kept # live)
      \/ UNCHANGED <<codes, issued, live, dropped>>
  BY DEF Exchange
<1>3. issued' \in Grants /\ live' \subseteq 1..issued' /\ issued <= issued' /\ elapsed' \in 0..issued'
  <2>1. CASE UNCHANGED <<codes, issued, live, dropped>>
    BY <1>1, <2>1, Numbers DEF TypeOK
  <2>2. CASE ~UNCHANGED <<codes, issued, live, dropped>>
    <3>1. PICK kept \in {live, {}} : live' = kept \cup {issued + 1}
      BY <1>2, <2>2
    <3>2. /\ TypeOK /\ kept \in SUBSET (1..issued)
          /\ issued < MaxGrants /\ issued' = issued + 1
      BY <1>2, <2>2, <3>1 DEF TypeOK
    <3>3. issued + 1 \in Grants /\ kept \cup {issued + 1} \subseteq 1..(issued + 1)
      BY <3>2, OneMoreGrant
    <3>4. issued <= issued + 1 /\ elapsed' \in 0..(issued + 1)
      BY <1>1, Numbers DEF TypeOK
    <3>5. QED
      BY <3>1, <3>2, <3>3, <3>4, Zenon
  <2>3. QED
    BY <2>1, <2>2
<1>4. dropped' \in BOOLEAN
  BY <1>2, Zenon DEF TypeOK
<1>5. codes' \subseteq 1..MaxNonces
  BY <1>2 DEF Exchange, HandsOK, TypeOK
<1>6. losses' \in 0..MaxLosses
  BY Numbers DEF Exchange, TypeOK
<1>7. RowOK'
  BY <1>1, <1>3, Numbers DEF RowOK, Grants
<1>8. CASE Ends(k, "failed")
  <2>1. TypeOK'
    BY <1>1, <1>3, <1>4, <1>5, <1>6, <1>8, EndsTypes DEF TypeOK, Endings
  <2>2. HandsOK'
    BY <1>1, <1>3, <1>8, Numbers DEF Ends, Goto, HandsOK, TypeOK, Again, Grants
  <2>3. QED
    BY <1>7, <2>1, <2>2
<1>9. CASE ~Ends(k, "failed")
  <2>1. /\ issued' = issued + 1 /\ got' = [got EXCEPT ![k] = issued + 1]
        /\ pc' = [pc EXCEPT ![k] = "store"] /\ UNCHANGED <<result, creds, tries>>
    BY <1>9 DEF Exchange, Goto
  <2>2. TypeOK'
    BY <1>1, <1>3, <1>4, <1>5, <1>6, <2>1, Numbers DEF TypeOK, ControlPoints, Endings
  <2>3. HandsOK'
    BY <1>1, <2>1, Numbers DEF HandsOK, TypeOK, Again
  <2>4. QED
    BY <1>7, <2>2, <2>3
<1>10. QED
  BY <1>8, <1>9

LEMMA StoreTypes == ASSUME TInv, NEW k \in Workers, Store(k) PROVE TInv'
<1> USE DEF TInv
<1>1. got[k] \in 1..issued /\ got[k] \in 0..MaxGrants
  BY Numbers DEF Store, HandsOK
<1>2. row' = [creds[k] EXCEPT !.grant = got[k], !.wiped = FALSE, !.nonce = 0]
  BY DEF Store
<1>3. row' \in Credentials /\ row'.grant = got[k]
  <2> DEFINE c == creds[k]
             g == got[k]
  <2>1. c \in Credentials /\ 0 \in 0..MaxNonces /\ g \in 0..MaxGrants
    BY <1>1, Numbers DEF TypeOK
  <2>2. row' = [c EXCEPT !.grant = g, !.wiped = FALSE, !.nonce = 0]
    BY <1>2
  <2> HIDE DEF c, g
  <2>3. row' = [grant |-> g, wiped |-> FALSE, nonce |-> 0]
    BY <2>1, <2>2 DEF Credentials
  <2>4. row' \in Credentials /\ row'.grant = g
    BY <2>1, <2>3 DEF Credentials
  <2>5. QED
    BY <2>4 DEF g
<1>4. Ends(k, "ok") /\ UNCHANGED <<lock, kind, locked, wrote, issued, live, elapsed, nonces,
                                   codes, losses, undone, dropped>>
  BY DEF Store, intuit, past
<1>5. TypeOK'
  BY <1>3, <1>4, EndsTypes DEF TypeOK, Endings
<1>6. HandsOK' /\ RowOK'
  BY <1>1, <1>3, <1>4 DEF Ends, Goto, HandsOK, RowOK, TypeOK, Again
<1>7. QED
  BY <1>5, <1>6

LEMMA ElapseTypes == ASSUME TInv, Elapse PROVE TInv'
<1> USE DEF Elapse, local, past, TInv
<1>1. TypeOK'
  BY Numbers DEF TypeOK
<1>2. HandsOK' /\ RowOK'
  BY DEF HandsOK, RowOK, Again
<1>3. QED
  BY <1>1, <1>2

LEMMA StutterTypes == ASSUME TInv, UNCHANGED vars PROVE TInv'
BY DEF TInv, TypeOK, HandsOK, RowOK, Again, vars, local, intuit, past

\* The actions by name: what a proof by cases of Next starts from.
LEMMA NextCases ==
  ASSUME [Next]_vars
  PROVE  \/ \E k \in Workers, w \in Kinds : Begin(k, w)
         \/ \E k \in Workers :
              \/ Ensure(k) \/ Lock(k) \/ Post(k) \/ Save(k) \/ Probe(k) \/ Send(k)
              \/ Clear(k) \/ Return(k) \/ Exchange(k) \/ Store(k) \/ Killed(k)
         \/ \E k \in Workers, s \in 1..MaxNonces : Callback(k, s)
         \/ AuthUrl \/ Elapse \/ UNCHANGED vars
BY DEF Next, Request

LEMMA NextTypes == ASSUME TInv, [Next]_vars PROVE TInv'
<1>1. ASSUME NEW k \in Workers, NEW w \in Kinds, Begin(k, w) PROVE TInv'
  BY <1>1, BeginTypes
<1>2. ASSUME NEW k \in Workers, NEW s \in 1..MaxNonces, Callback(k, s) PROVE TInv'
  BY <1>2, CallbackTypes
<1>3. ASSUME NEW k \in Workers,
             \/ Ensure(k) \/ Lock(k) \/ Post(k) \/ Save(k) \/ Probe(k) \/ Send(k)
             \/ Clear(k) \/ Return(k) \/ Exchange(k) \/ Store(k) \/ Killed(k)
      PROVE  TInv'
  BY <1>3, EnsureTypes, LockTypes, PostTypes, SaveTypes, ProbeTypes, SendTypes, ClearTypes,
     ReturnTypes, ExchangeTypes, StoreTypes, KilledTypes
<1>4. QED
  BY <1>1, <1>2, <1>3, NextCases, AuthUrlTypes, ElapseTypes, StutterTypes

LEMMA TypesHold == Spec => []TInv
<1>1. QED
  BY InitTypes, NextTypes, PTL DEF Spec

\* Every variable of the token protocol keeps its type, and no request is tried
\* more often than max_retries: services.py:80-232.
THEOREM TypeCorrect == Spec => []TypeOK
<1>1. TInv => TypeOK
  BY DEF TInv
<1>2. QED
  BY <1>1, TypesHold, PTL

-----------------------------------------------------------------------------
(* Who holds the row, and what it may do with it.                          *)

\* Only the lock's holder refreshes, only an import writes inside a longer
\* transaction, and until it writes it sees the row as it is.
LockOK ==
  \A k \in Workers :
    /\ pc[k] \in {"post", "save"} => lock = k
    /\ pc[k] \in {"idle", "exchange", "store"} => lock # k
    /\ wrote[k] => lock = k /\ kind[k] = "nested"
    /\ lock = k /\ ~wrote[k] => locked[k] = row

\* A grant bought by a code is on no record until its callback stores it.
FreshOK ==
  \A j \in Workers :
    pc[j] = "store" =>
      /\ row.grant # got[j]
      /\ \A i \in Workers : /\ locked[i].grant # got[j]
                            /\ i # j /\ pc[i] \in {"save", "store"} => got[i] # got[j]

\* Whatever may become the row is honoured by Intuit.
LiveOK ==
  Undisturbed =>
    /\ lock = Nobody => row.grant \in live
    /\ \A k \in Workers :
         /\ lock = k /\ pc[k] # "save" => locked[k].grant \in live
         /\ pc[k] \in {"save", "store"} => got[k] \in live
         /\ result[k] # "rejected"

SInv == TInv /\ LockOK /\ FreshOK /\ LiveOK

LEMMA InitSafe == Init => LockOK /\ FreshOK /\ LiveOK
BY ConstantsAssumption DEF Init, LockOK, FreshOK, LiveOK, Undisturbed

\* The row, its lock and what is known of it stay as they are, and the worker
\* moves to a point where it holds no answer.
LEMMA QuietSafe ==
  ASSUME SInv, NEW k \in Workers,
         NEW where \in {"ensure", "lock", "send", "clear", "end", "exchange"},
         pc' = [pc EXCEPT ![k] = where], pc[k] = "idle" \/ where # "exchange",
         pc[k] \notin {"post", "save"},
         pc[k] = "idle" \/ kind' = kind, \A j \in Workers : j # k => kind'[j] = kind[j],
         \A j \in Workers : j # k => got'[j] = got[j],
         \A j \in Workers : result'[j] = "rejected" => result[j] = "rejected",
         UNCHANGED <<row, lock, locked, wrote, live, losses, undone, dropped>>
  PROVE  LockOK' /\ FreshOK' /\ LiveOK'
<1> USE DEF SInv, TInv, TypeOK
<1>1. /\ pc'[k] = where
      /\ \A j \in Workers : j # k => pc'[j] = pc[j]
  OBVIOUS
<1>2. LockOK'
  BY <1>1 DEF LockOK
<1>3. FreshOK'
  BY <1>1 DEF FreshOK
<1>4. LiveOK'
  BY <1>1 DEF LiveOK, Undisturbed
<1>5. QED
  BY <1>2, <1>3, <1>4

LEMMA BeginSafe ==
  ASSUME SInv, NEW k \in Workers, NEW w \in Kinds, Begin(k, w)
  PROVE  LockOK' /\ FreshOK' /\ LiveOK'
<1>1. /\ pc' = [pc EXCEPT ![k] = "ensure"] /\ pc[k] = "idle"
      /\ \A j \in Workers : j # k => kind'[j] = kind[j]
      /\ UNCHANGED <<row, lock, locked, wrote, live, losses, undone, dropped, got, result>>
  BY DEF Begin, Goto, intuit, past, SInv, TInv, TypeOK
<1>2. QED
  BY <1>1, QuietSafe

\* A request that ends, short of a refusal by Intuit.
LEMMA EndsQuietly ==
  ASSUME SInv, NEW k \in Workers, NEW how, how # "rejected", Ends(k, how)
  PROVE  /\ pc' = [pc EXCEPT ![k] = "end"]
         /\ \A j \in Workers : j # k => got'[j] = got[j]
         /\ \A j \in Workers : result'[j] = "rejected" => result[j] = "rejected"
BY DEF Ends, Goto, SInv, TInv, TypeOK

LEMMA EnsureSafe ==
  ASSUME SInv, NEW k \in Workers, Ensure(k) PROVE LockOK' /\ FreshOK' /\ LiveOK'
<1>1. /\ UNCHANGED <<row, lock, kind, locked, wrote, live, losses, undone, dropped>>
      /\ pc[k] = "ensure"
  BY DEF Ensure, intuit, past
<1>2. CASE Ends(k, "missing")
  BY <1>1, <1>2, EndsQuietly, QuietSafe
<1>3. CASE ~Ends(k, "missing")
  <2>1. \E where \in {"send", "lock"} :
           pc' = [pc EXCEPT ![k] = where] /\ UNCHANGED <<result, got>>
    BY <1>3 DEF Ensure, Continues, Goto
  <2>2. QED
    BY <1>1, <2>1, QuietSafe
<1>4. QED
  BY <1>2, <1>3

LEMMA SendSafe ==
  ASSUME SInv, NEW k \in Workers, Send(k) PROVE LockOK' /\ FreshOK' /\ LiveOK'
<1>1. /\ UNCHANGED <<row, lock, kind, locked, wrote, live, losses, undone, dropped>>
      /\ pc[k] = "send"
  BY DEF Send, intuit, past
<1>2. CASE \E how \in {"ok", "401", "failed"} : Ends(k, how)
  <2>1. PICK how \in {"ok", "401", "failed"} : Ends(k, how)
    BY <1>2
  <2>2. how # "rejected"
    OBVIOUS
  <2>3. QED
    BY <1>1, <2>1, <2>2, EndsQuietly, QuietSafe
<1>3. CASE ~\E how \in {"ok", "401", "failed"} : Ends(k, how)
  <2>1. \E where \in {"clear", "ensure"} :
           pc' = [pc EXCEPT ![k] = where] /\ UNCHANGED <<result, got>>
    BY <1>3 DEF Send, Goto
  <2>2. QED
    BY <1>1, <2>1, QuietSafe
<1>4. QED
  BY <1>2, <1>3

LEMMA CallbackSafe ==
  ASSUME SInv, NEW k \in Workers, NEW s \in 1..MaxNonces, Callback(k, s)
  PROVE  LockOK' /\ FreshOK' /\ LiveOK'
<1>1. /\ pc' = [pc EXCEPT ![k] = "exchange"] /\ pc[k] = "idle"
      /\ \A j \in Workers : j # k => got'[j] = got[j]
      /\ UNCHANGED <<row, lock, kind, locked, wrote, live, losses, undone, dropped, result>>
  BY DEF Callback, Goto, intuit, past, SInv, TInv, TypeOK
<1>2. QED
  BY <1>1, QuietSafe

LEMMA LockSafe ==
  ASSUME SInv, NEW k \in Workers, Lock(k) PROVE LockOK' /\ FreshOK' /\ LiveOK'
<1> USE DEF SInv, TInv, TypeOK
<1>1. /\ UNCHANGED <<row, kind, wrote, got, result, live, losses, undone, dropped>>
      /\ pc[k] = "lock" /\ lock \in {Nobody, k}
  BY DEF Lock, Free, intuit, past
<1>2. PICK where \in {"send", "post"} : pc' = [pc EXCEPT ![k] = where]
  BY DEF Lock, Goto
<1>3. \/ lock' = k /\ locked' = [locked EXCEPT ![k] = Seen(k)]
      \/ where = "send" /\ UNCHANGED <<lock, locked>>
  BY <1>2 DEF Lock, Goto
<1>4. /\ pc'[k] = where /\ \A j \in Workers : j # k => pc'[j] = pc[j]
      /\ \A j \in Workers : j # k => locked'[j] = locked[j]
      /\ lock' = k => locked'[k] = Seen(k)
  BY <1>2, <1>3 DEF Seen
<1>5. LockOK'
  BY <1>1, <1>3, <1>4, ConstantsAssumption DEF LockOK, Seen
<1>6. FreshOK'
  BY <1>1, <1>3, <1>4 DEF FreshOK, Seen
<1>7. LiveOK'
  BY <1>1, <1>3, <1>4, ConstantsAssumption DEF LiveOK, Undisturbed, Seen
<1>8. QED
  BY <1>5, <1>6, <1>7

LEMMA UnlockCases ==
  ASSUME NEW k \in Workers, Unlock(k), wrote[k] => kind[k] = "nested"
  PROVE  \/ UNCHANGED <<lock, locked>>
         \/ ~wrote[k] /\ lock' = Nobody /\ locked' = [locked EXCEPT ![k] = Blank]
<1>1. CASE wrote[k]
  BY <1>1, Zenon DEF Unlock
<1>2. CASE ~wrote[k]
  BY <1>2, Zenon DEF Unlock
<1>3. QED
  BY <1>1, <1>2

LEMMA PostSafe ==
  ASSUME SInv, NEW k \in Workers, Post(k) PROVE LockOK' /\ FreshOK' /\ LiveOK'
<1> USE DEF SInv, TInv, TypeOK
<1>1. /\ UNCHANGED <<row, kind, wrote, undone, dropped>>
      /\ pc[k] = "post" /\ lock = k /\ Nobody # k
  BY ConstantsAssumption DEF Post, LockOK
<1>2. Undisturbed => locked[k].grant \in live
  BY <1>1 DEF LiveOK
<1>3. CASE /\ Rotate(k)
           /\ got' = [got EXCEPT ![k] = issued + 1]
           /\ Goto(k, "save")
           /\ UNCHANGED <<lock, locked, result, creds, tries, losses>>
  <2>1. /\ pc'[k] = "save" /\ \A j \in Workers : j # k => pc'[j] = pc[j] /\ got'[j] = got[j]
        /\ got'[k] = issued + 1
        /\ live' = (live \ {locked[k].grant}) \cup {issued + 1}
    BY <1>3 DEF Goto, Rotate
  <2>2. LockOK'
    BY <1>1, <1>3, <2>1 DEF LockOK
  <2>3. \A j \in Workers : pc[j] = "store" => got[j] # issued + 1
    BY Numbers DEF HandsOK
  <2>4. FreshOK'
    BY <1>1, <1>3, <2>1, <2>3 DEF FreshOK
  <2>5. \A j \in Workers : j # k => pc[j] # "save"
    BY <1>1 DEF LockOK
  <2>6. LiveOK'
    BY <1>1, <1>3, <2>1, <2>5 DEF LiveOK, Undisturbed, FreshOK
  <2>7. QED
    BY <2>2, <2>4, <2>6
<1>4. CASE /\ \E how \in {"failed", "refused", "rejected"} : Ends(k, how)
           /\ Unlock(k)
           /\ Undisturbed' => ~Ends(k, "rejected") /\ UNCHANGED <<live, losses>>
  <2>1. /\ pc'[k] = "end" /\ \A j \in Workers : j # k => /\ pc'[j] = pc[j] /\ got'[j] = got[j]
                                                        /\ result'[j] = result[j]
    BY <1>4 DEF Ends, Goto
  <2>2. Undisturbed' => result'[k] # "rejected"
    BY <1>4 DEF Ends, SInv, TInv, TypeOK
  <2>3. /\ lock' = Nobody \/ (lock' = k /\ locked' = locked)
        /\ \A j \in Workers : locked'[j] = locked[j] \/ (j = k /\ locked'[j] = Blank)
        /\ wrote[k] => lock' = k /\ locked' = locked
        /\ \A j \in Workers : j # k => ~wrote[j]
    <3>1. \A j \in Workers : j # k => ~wrote[j]
      BY <1>1 DEF LockOK
    <3>2. wrote[k] => kind[k] = "nested"
      BY DEF LockOK
    <3>3. CASE UNCHANGED <<lock, locked>>
      BY <1>1, <3>1, <3>3
    <3>4. CASE ~wrote[k] /\ lock' = Nobody /\ locked' = [locked EXCEPT ![k] = Blank]
      BY <3>1, <3>4
    <3>5. QED
      BY <1>4, <3>2, <3>3, <3>4, UnlockCases
  <2>4. LockOK'
    BY <1>1, <2>1, <2>3, ConstantsAssumption DEF LockOK
  <2>5. \A j \in Workers : pc[j] = "store" => got[j] # 0
    BY Numbers DEF HandsOK
  <2>6. FreshOK'
    BY <1>1, <2>1, <2>3, <2>5 DEF FreshOK, Blank
  <2>7. ASSUME Undisturbed' PROVE Undisturbed /\ UNCHANGED live
    BY <1>1, <1>4, <2>7 DEF Undisturbed
  <2>8. LiveOK'
    <3>1. ~wrote[k] => locked[k] = row
      BY <1>1 DEF LockOK
    <3>2. QED
      BY <1>1, <1>2, <2>1, <2>2, <2>3, <2>7, <3>1, ConstantsAssumption DEF LiveOK
  <2>9. QED
    BY <2>4, <2>6, <2>8
<1>5. QED
  <2>1. losses' = losses + 1 => ~Undisturbed'
    BY DEF Undisturbed
  <2>2. Undisturbed' /\ UNCHANGED losses => Undisturbed
    BY <1>1 DEF Undisturbed
  <2>3. \A how \in {"failed", "refused"} : Ends(k, how) => ~Ends(k, "rejected")
    BY DEF Ends, SInv, TInv, TypeOK
  <2>4. QED
    BY <1>1, <1>2, <1>3, <1>4, <2>1, <2>2, <2>3 DEF Post

\* A write of a row that Intuit honours, by a worker that moves on with no answer.
LEMMA WriteSafe ==
  ASSUME SInv, NEW k \in Workers, NEW new \in Credentials, WriteColumns(k, new),
         NEW where \in {"ensure", "send"}, pc' = [pc EXCEPT ![k] = where],
         pc[k] \in {"save", "send", "clear"},
         \A j \in Workers : j # k => got'[j] = got[j],
         UNCHANGED <<kind, result, live, losses, undone, dropped>>,
         Undisturbed => new.grant \in live,
         \A j \in Workers : pc[j] = "store" => new.grant # got[j]
  PROVE  LockOK' /\ FreshOK' /\ LiveOK'
<1> USE DEF SInv, TInv, TypeOK
<1>1. /\ pc'[k] = where /\ \A j \in Workers : j # k => pc'[j] = pc[j]
      /\ \A j \in Workers : j # k => locked'[j] = locked[j] /\ wrote'[j] = wrote[j]
      /\ lock \in {Nobody, k} /\ Nobody \notin Workers
  BY ConstantsAssumption DEF WriteColumns, Free
<1>2. \/ /\ kind[k] = "nested" /\ lock' = k /\ locked'[k] = new /\ wrote'[k]
         /\ UNCHANGED row
      \/ /\ kind[k] # "nested" /\ row' = new /\ lock' = Nobody /\ locked'[k] = Blank
         /\ UNCHANGED wrote
  BY DEF WriteColumns
<1>3. LockOK'
  BY <1>1, <1>2 DEF LockOK
<1>4. \A j \in Workers : pc[j] = "store" => got[j] # Blank.grant
  BY Numbers DEF HandsOK, Blank
<1>5. FreshOK'
  BY <1>1, <1>2, <1>4 DEF FreshOK
<1>6. LiveOK'
  BY <1>1, <1>2 DEF LiveOK, Undisturbed
<1>7. QED
  BY <1>3, <1>5, <1>6

LEMMA SaveSafe ==
  ASSUME SInv, NEW k \in Workers, Save(k) PROVE LockOK' /\ FreshOK' /\ LiveOK'
<1> DEFINE new == [locked[k] EXCEPT !.grant = got[k], !.wiped = FALSE]
<1>1. got[k] \in 0..MaxGrants
  BY Numbers DEF Save, SInv, TInv, HandsOK
<1>2. locked[k] \in Credentials
  BY DEF SInv, TInv, TypeOK
<1>3. new \in Credentials /\ new.grant = got[k]
  BY <1>1, <1>2 DEF Credentials
<1>4. /\ WriteColumns(k, new) /\ pc[k] = "save"
      /\ pc' = [pc EXCEPT ![k] = "send"]
      /\ \A j \in Workers : j # k => got'[j] = got[j]
      /\ UNCHANGED <<kind, result, live, losses, undone, dropped>>
  BY DEF Save, Goto, intuit, past, SInv, TInv, TypeOK
<1> HIDE DEF new
<1>5. Undisturbed => new.grant \in live
  BY <1>3, <1>4 DEF SInv, LiveOK
<1>6. \A j \in Workers : pc[j] = "store" => new.grant # got[j]
  BY <1>3, <1>4 DEF SInv, FreshOK
<1>7. QED
  BY <1>3, <1>4, <1>5, <1>6, WriteSafe

\* What a worker that may take the lock sees of the row.
LEMMA SeenSafe ==
  ASSUME SInv, NEW k \in Workers, Free(k), pc[k] # "save"
  PROVE  /\ Seen(k) \in Credentials
         /\ Undisturbed => Seen(k).grant \in live
         /\ \A j \in Workers : pc[j] = "store" => Seen(k).grant # got[j]
BY SeenTypes DEF SInv, Seen, Free, LiveOK, FreshOK

LEMMA ProbeSafe ==
  ASSUME SInv, NEW k \in Workers, Probe(k) PROVE LockOK' /\ FreshOK' /\ LiveOK'
<1>1. /\ WriteColumns(k, Seen(k)) /\ pc[k] = "send" /\ Free(k)
      /\ pc' = [pc EXCEPT ![k] = "send"]
      /\ UNCHANGED <<kind, got, result, live, losses, undone, dropped>>
  BY DEF Probe, WriteColumns, intuit, past, SInv, TInv, TypeOK
<1>2. QED
  BY <1>1, SeenSafe, WriteSafe

LEMMA ClearSafe ==
  ASSUME SInv, NEW k \in Workers, Clear(k) PROVE LockOK' /\ FreshOK' /\ LiveOK'
<1> DEFINE new == [Seen(k) EXCEPT !.wiped = TRUE]
<1>1. /\ WriteColumns(k, new) /\ pc[k] = "clear" /\ Free(k)
      /\ pc' = [pc EXCEPT ![k] = "ensure"]
      /\ UNCHANGED <<kind, got, result, live, losses, undone, dropped>>
  BY DEF Clear, Goto, WriteColumns, intuit, past
<1>2. new \in Credentials /\ new.grant = Seen(k).grant
  BY <1>1, SeenSafe DEF Credentials
<1>3. /\ Undisturbed => new.grant \in live
      /\ \A j \in Workers : pc[j] = "store" => new.grant # got[j]
  BY <1>1, <1>2, SeenSafe
<1> HIDE DEF new
<1>4. QED
  BY <1>1, <1>2, <1>3, WriteSafe

LEMMA ReturnRow ==
  ASSUME NEW k \in Workers, Return(k)
  PROVE  row' = row \/ (wrote[k] /\ row' = locked[k])
<1>1. CASE wrote[k]
  BY <1>1, Zenon DEF Return
<1>2. CASE ~wrote[k]
  BY <1>2, Zenon DEF Return
<1>3. QED
  BY <1>1, <1>2

LEMMA ReturnSafe ==
  ASSUME SInv, NEW k \in Workers, Return(k) PROVE LockOK' /\ FreshOK' /\ LiveOK'
<1> USE DEF SInv, TInv, TypeOK
<1>1. /\ pc'[k] = "idle" /\ ~wrote'[k] /\ locked'[k] = Blank /\ result'[k] = "none"
      /\ \A j \in Workers : j # k => /\ pc'[j] = pc[j] /\ kind'[j] = kind[j]
                                     /\ locked'[j] = locked[j] /\ wrote'[j] = wrote[j]
                                     /\ got'[j] = got[j] /\ result'[j] = result[j]
      /\ lock' = IF lock = k THEN Nobody ELSE lock
      /\ Nobody \notin Workers /\ pc[k] = "end"
      /\ UNCHANGED <<live, losses, dropped>>
  BY ConstantsAssumption DEF Return, Leave, Goto, intuit
<1>2. \/ row' = (IF wrote[k] THEN locked[k] ELSE row) /\ UNCHANGED undone
      \/ /\ wrote[k] /\ undone' = (undone \/ locked[k].grant # row.grant)
         /\ UNCHANGED row
  BY DEF Return
<1>3. row' = row \/ (lock = k /\ row' = locked[k])
  <2>1. wrote[k] => lock = k
    BY DEF LockOK
  <2>2. QED
    BY <2>1, ReturnRow
<1>4. LockOK'
  BY <1>1, <1>3 DEF LockOK
<1>5. \A j \in Workers : pc[j] = "store" => got[j] # Blank.grant
  BY Numbers DEF HandsOK, Blank
<1>6. FreshOK'
  BY <1>1, <1>3, <1>5 DEF FreshOK
<1>7. ASSUME Undisturbed' PROVE Undisturbed
  BY <1>1, <1>2, <1>7 DEF Undisturbed
<1>8. ASSUME Undisturbed', lock = k PROVE row'.grant \in live
  <2>1. locked[k].grant \in live
    BY <1>1, <1>7, <1>8 DEF LiveOK
  <2>2. row'.grant = locked[k].grant
    BY <1>2, <1>8 DEF LockOK, Undisturbed
  <2>3. QED
    BY <2>1, <2>2
<1>9. LiveOK'
  BY <1>1, <1>3, <1>7, <1>8 DEF LiveOK
<1>10. QED
  BY <1>4, <1>6, <1>9

LEMMA KilledSafe ==
  ASSUME SInv, NEW k \in Workers, Killed(k) PROVE LockOK' /\ FreshOK' /\ LiveOK'
<1> USE DEF SInv, TInv, TypeOK
<1>1. /\ pc'[k] = "idle" /\ ~wrote'[k] /\ locked'[k] = Blank
      /\ \A j \in Workers : j # k => /\ pc'[j] = pc[j] /\ kind'[j] = kind[j]
                                     /\ locked'[j] = locked[j] /\ wrote'[j] = wrote[j]
                                     /\ got'[j] = got[j]
      /\ lock' = IF lock = k THEN Nobody ELSE lock
      /\ Nobody \notin Workers /\ row' = row
  BY ConstantsAssumption DEF Killed, Leave, Goto
<1>2. LockOK'
  BY <1>1 DEF LockOK
<1>3. \A j \in Workers : pc[j] = "store" => got[j] # Blank.grant
  BY Numbers DEF HandsOK, Blank
<1>4. FreshOK'
  BY <1>1, <1>3 DEF FreshOK
<1>5. ~Undisturbed'
  BY Numbers DEF Killed, Undisturbed
<1>6. LiveOK'
  BY <1>5 DEF LiveOK
<1>7. QED
  BY <1>2, <1>4, <1>6

LEMMA AuthUrlSafe == ASSUME SInv, AuthUrl PROVE LockOK' /\ FreshOK' /\ LiveOK'
<1> USE DEF SInv, TInv, TypeOK
<1>1. /\ row'.grant = row.grant /\ lock = Nobody /\ Nobody \notin Workers
      /\ UNCHANGED <<lock, pc, kind, locked, wrote, got, result, live, losses, undone, dropped>>
  BY ConstantsAssumption DEF AuthUrl, local, past, Credentials
<1>2. QED
  BY <1>1 DEF LockOK, FreshOK, LiveOK, Undisturbed

LEMMA ElapseSafe == ASSUME SInv, Elapse PROVE LockOK' /\ FreshOK' /\ LiveOK'
BY DEF SInv, Elapse, local, past, LockOK, FreshOK, LiveOK, Undisturbed

LEMMA StutterSafe == ASSUME SInv, UNCHANGED vars PROVE LockOK' /\ FreshOK' /\ LiveOK'
BY DEF SInv, vars, local, intuit, past, LockOK, FreshOK, LiveOK, Undisturbed

LEMMA StoreSafe ==
  ASSUME SInv, NEW k \in Workers, Store(k) PROVE LockOK' /\ FreshOK' /\ LiveOK'
<1> USE DEF SInv, TInv, TypeOK
<1>1. got[k] \in 0..MaxGrants
  BY Numbers DEF Store, HandsOK
<1>2. row'.grant = got[k]
  BY <1>1 DEF Store, Credentials
<1>3. /\ pc'[k] = "end" /\ result'[k] = "ok"
      /\ \A j \in Workers : j # k => /\ pc'[j] = pc[j] /\ got'[j] = got[j]
                                     /\ result'[j] = result[j]
      /\ lock = Nobody /\ pc[k] = "store" /\ Nobody \notin Workers
      /\ UNCHANGED <<lock, kind, locked, wrote, live, losses, undone, dropped>>
  BY ConstantsAssumption DEF Store, Ends, Goto, intuit, past
<1>4. LockOK'
  BY <1>3 DEF LockOK
<1>5. FreshOK'
  BY <1>2, <1>3 DEF FreshOK
<1>6. LiveOK'
  BY <1>2, <1>3 DEF LiveOK, Undisturbed
<1>7. QED
  BY <1>4, <1>5, <1>6

LEMMA ExchangeSafe ==
  ASSUME SInv, NEW k \in Workers, Exchange(k) PROVE LockOK' /\ FreshOK' /\ LiveOK'
<1> USE DEF SInv, TInv, TypeOK
<1>1. /\ UNCHANGED <<row, lock, kind, locked, wrote, undone>>
      /\ pc[k] = "exchange"
  BY DEF Exchange
<1>2. /\ losses' = losses \/ losses' = losses + 1
      /\ \/ UNCHANGED <<issued, live, dropped>>
         \/ \E kept \in {live, {}} :
              live' = kept \cup {issued + 1} /\ dropped' = (dropped \/ kept # live)
  BY DEF Exchange
<1>3. ASSUME Undisturbed' PROVE Undisturbed /\ live \subseteq live'
  <2>1. losses = 0
    BY <1>2, <1>3, Numbers DEF Undisturbed
  <2>2. ~dropped'
    BY <1>3 DEF Undisturbed
  <2>3. CASE UNCHANGED <<issued, live, dropped>>
    BY <1>1, <1>3, <2>1, <2>2, <2>3 DEF Undisturbed
  <2>4. CASE ~UNCHANGED <<issued, live, dropped>>
    <3>1. PICK kept \in {live, {}} :
            live' = kept \cup {issued + 1} /\ dropped' = (dropped \/ kept # live)
      BY <1>2, <2>4
    <3>2. ~dropped /\ kept = live
      BY <2>2, <3>1, Zenon
    <3>3. QED
      BY <1>1, <1>3, <2>1, <3>1, <3>2 DEF Undisturbed
  <2>5. QED
    BY <2>3, <2>4
<1>4. CASE Ends(k, "failed")
  <2>1. /\ pc'[k] = "end" /\ result'[k] = "failed"
        /\ \A j \in Workers : j # k => /\ pc'[j] = pc[j] /\ got'[j] = got[j]
                                       /\ result'[j] = result[j]
    BY <1>4 DEF Ends, Goto
  <2>2. LockOK'
    BY <1>1, <2>1 DEF LockOK
  <2>3. FreshOK'
    BY <1>1, <2>1 DEF FreshOK
  <2>4. LiveOK'
    BY <1>1, <1>3, <2>1 DEF LiveOK
  <2>5. QED
    BY <2>2, <2>3, <2>4
<1>5. CASE ~Ends(k, "failed")
  <2>1. /\ got' = [got EXCEPT ![k] = issued + 1] /\ Goto(k, "store")
        /\ UNCHANGED result /\ issued + 1 \in live'
    BY <1>5 DEF Exchange
  <2>2. /\ pc'[k] = "store" /\ got'[k] = issued + 1
        /\ \A j \in Workers : j # k => pc'[j] = pc[j] /\ got'[j] = got[j]
    BY <2>1 DEF Goto
  <2>3. LockOK'
    BY <1>1, <2>2 DEF LockOK
  <2>4. /\ row.grant # issued + 1
        /\ \A j \in Workers : /\ locked[j].grant # issued + 1
                              /\ pc[j] \in {"save", "store"} => got[j] # issued + 1
    BY Numbers DEF HandsOK, RowOK
  <2>5. FreshOK'
    BY <1>1, <2>2, <2>4 DEF FreshOK
  <2>6. LiveOK'
    BY <1>1, <1>3, <2>1, <2>2 DEF LiveOK
  <2>7. QED
    BY <2>3, <2>5, <2>6
<1>6. QED
  BY <1>4, <1>5

LEMMA NextSafe == ASSUME SInv, [Next]_vars PROVE SInv'
<1>1. TInv'
  BY NextTypes DEF SInv
<1>2. ASSUME NEW k \in Workers, NEW w \in Kinds, Begin(k, w)
      PROVE  LockOK' /\ FreshOK' /\ LiveOK'
  BY <1>2, BeginSafe
<1>3. ASSUME NEW k \in Workers, NEW s \in 1..MaxNonces, Callback(k, s)
      PROVE  LockOK' /\ FreshOK' /\ LiveOK'
  BY <1>3, CallbackSafe
<1>4. ASSUME NEW k \in Workers,
             \/ Ensure(k) \/ Lock(k) \/ Post(k) \/ Save(k) \/ Probe(k) \/ Send(k)
             \/ Clear(k) \/ Return(k) \/ Exchange(k) \/ Store(k) \/ Killed(k)
      PROVE  LockOK' /\ FreshOK' /\ LiveOK'
  BY <1>4, EnsureSafe, LockSafe, PostSafe, SaveSafe, ProbeSafe, SendSafe, ClearSafe,
     ReturnSafe, ExchangeSafe, StoreSafe, KilledSafe
<1>5. LockOK' /\ FreshOK' /\ LiveOK'
  BY <1>2, <1>3, <1>4, NextCases, AuthUrlSafe, ElapseSafe, StutterSafe
<1>6. QED
  BY <1>1, <1>5 DEF SInv

LEMMA SafetyHolds == Spec => []SInv
<1>1. Init => SInv
  BY InitTypes, InitSafe DEF SInv
<1>2. QED
  BY <1>1, NextSafe, PTL DEF Spec

\* However many workers call, import, wipe and reconnect at once, the refresh token
\* on record is one Intuit honours: the locked second look of services.py:83-104.
THEOREM RecordStaysHonoured == Spec => []StoredIsLive
<1>1. SInv => StoredIsLive
  BY DEF SInv, LiveOK, StoredIsLive
<1>2. QED
  BY <1>1, SafetyHolds, PTL

\* No refresh token is sent to Intuit after it was spent, so Intuit rejects none: the
\* row is locked from the second look to the save of the new token (services.py:102-154).
THEOREM SpentOnce == Spec => []RefreshNeverRejected
<1>1. SInv => RefreshNeverRejected
  BY DEF SInv, LiveOK, RefreshNeverRejected
<1>2. QED
  BY <1>1, SafetyHolds, PTL
=============================================================================
