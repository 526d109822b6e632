-------------------------- MODULE OrderSyncProofs ---------------------------
(***************************************************************************)
(* Proofs about OrderSync, for any number of workers, webhooks, imports,   *)
(* edits and faults: whatever overlaps, fails or dies, the identifiers in  *)
(* an order's row are genuine, and while no requests overlap an order that *)
(* is shown as synchronised has a document, each document of a kind beyond *)
(* the first goes back to a fault, and, if no worker dies either and       *)
(* nothing was edited or undone since the last webhook or import,          *)
(* documents whose last attempts succeeded say what the order says.        *)
(***************************************************************************)
EXTENDS OrderSync, SequenceTheorems, TLAPS

-----------------------------------------------------------------------------
(* Types, and what a worker has in hand at each point.                     *)

Points == {"idle", "begin", "call", "post", "read", "record", "fail", "save", "commit",
           "leave"}
Jobs == {"none", "sync", "update", "push", "move", "edit"}
Busy == {"begin", "call", "post", "read", "record", "fail"}
Documents == [head : 1..MaxVersions, lines : 1..MaxVersions, posted : BOOLEAN, token : Nat]

\* Identifiers that the platform with the documents d gave to documents of
\* their kind.
Genuine(ids, d) ==
  \A t \in Kinds :
    ids[t] # Absent =>
      /\ ids[t] \in DOMAIN d[t]
      /\ t = "inv" => d[t][ids[t]].posted = TRUE

\* What a worker at point p holds: a copy of an order that exists, the kinds it
\* has still to do, and, once it was given one, the id of a document.
Holds(p, j, order, kinds, id, d) ==
  /\ p = "idle" => j = "none"
  /\ p # "idle" => order.version # Absent
  /\ p \in Busy => kinds # <<>> /\ j \in {"sync", "update", "push"}
  /\ p = "save" => j \in {"move", "edit"}
  /\ p = "leave" => j = "update"
  /\ p = "read" => j = "update" /\ Head(kinds) = "qb"
  /\ Genuine(order.ids, d)
  /\ p \in {"post", "record"} => id \in DOMAIN d[Head(kinds)]
  /\ p = "post" => Head(kinds) = "inv"
  /\ (p = "record" /\ Head(kinds) = "inv") => d["inv"][id].posted = TRUE
  /\ j = "update" => \A i \in DOMAIN kinds : order.ids[kinds[i]] # Absent

HeldOK == \A k \in Workers : Holds(pc[k], job[k], copy[k], todo[k], got[k], docs)

RowOK ==
  /\ Genuine(row.ids, docs)
  /\ \A k \in Workers : pc[k] # "idle" => row.version # Absent

\* An open import would leave a good row behind if it were undone; it keeps
\* everybody else out of an order that it creates.
TxnOK ==
  /\ txn # NoOne =>
       /\ pc[txn] # "idle" /\ job[txn] \in {"sync", "update"}
       /\ Genuine(base.row.ids, docs)
       /\ base.row.version = Absent => \A k \in Workers : k # txn => pc[k] = "idle"
  /\ \A k \in Workers : pc[k] = "commit" => txn = k

GInv == TypeOK /\ HeldOK /\ RowOK /\ TxnOK

HasDocument(ids) == \E t \in Kinds : ids[t] # Absent

\* While no requests overlap, one worker is at work at a time, and what it
\* holds agrees with the row.
AloneOK ==
  ~clash =>
    \A k \in Workers : pc[k] # "idle" =>
      /\ \A j \in Workers : pc[j] # "idle" => j = k
      /\ copy[k].sync = "SUCCESS" => HasDocument(copy[k].ids)
      /\ (job[k] = "update" /\ pc[k] \in Busy) => HasDocument(row.ids)

Shown(r) == r.sync = "SUCCESS" => HasDocument(r.ids)
StatusOK == ~clash => Shown(row) /\ (txn # NoOne => Shown(base.row))

HInv == GInv /\ StatusOK /\ AloneOK

-----------------------------------------------------------------------------
(* Sequences of documents and of kinds                                      *)

LEMMA Numbers ==
  /\ MaxVersions \in Nat /\ MaxVersions >= 1 /\ MaxMoves \in Nat /\ MaxFaults \in Nat
  /\ NoOne \notin Workers /\ EditStatuses \subseteq Statuses
<1>1. MaxVersions \in Nat \ {0} /\ MaxMoves \in Nat /\ MaxFaults \in Nat
      /\ EditStatuses \subseteq Statuses
  BY ConstantsAssumption
<1>2. NoOne \notin Workers
  BY ConstantsAssumption, Zenon DEF NoOne
<1>3. QED
  BY <1>1, <1>2

LEMMA Short ==
  ASSUME NEW S, NEW a \in S, NEW b \in S
  PROVE  /\ <<>> \in Seq(S) /\ <<a>> \in Seq(S) /\ <<a, b>> \in Seq(S)
         /\ <<a>> # <<>> /\ <<a, b>> # <<>>
         /\ DOMAIN <<>> = {} /\ DOMAIN <<a>> = {1} /\ DOMAIN <<a, b>> = {1, 2}
         /\ <<a>>[1] = a /\ <<a, b>>[1] = a /\ <<a, b>>[2] = b
OBVIOUS

LEMMA Joined ==
  ASSUME NEW S, NEW a \in S, NEW b \in S
  PROVE  /\ <<>> \o <<>> = <<>> /\ <<a>> \o <<>> = <<a>> /\ <<>> \o <<b>> = <<b>>
         /\ <<a>> \o <<b>> = <<a, b>>
<1>1. <<>> \in Seq(S) /\ <<a>> \in Seq(S) /\ <<b>> \in Seq(S) /\ <<a, b>> \in Seq(S)
  BY Short
<1>2. <<a>> \o <<b>> \in Seq(S) /\ Len(<<a>> \o <<b>>) = 2
      /\ (<<a>> \o <<b>>)[1] = a /\ (<<a>> \o <<b>>)[2] = b
  BY <1>1, ConcatProperties
<1>3. <<a>> \o <<b>> = <<a, b>>
  <2> DEFINE c == <<a>> \o <<b>>
             d == <<a, b>>
  <2>1. c \in Seq(S) /\ d \in Seq(S) /\ Len(c) = 2 /\ Len(d) = 2
        /\ c[1] = d[1] /\ c[2] = d[2]
    BY <1>1, <1>2
  <2> HIDE DEF c, d
  <2>2. \A i \in 1..Len(c) : c[i] = d[i]
    BY <2>1
  <2>3. c = d
    BY <2>1, <2>2, SeqEqual
  <2>4. QED
    BY <2>3 DEF c, d
<1>4. QED
  BY <1>1, <1>3, ConcatEmptySeq

\* Replacing one element of a sequence.
LEMMA ReplaceOne ==
  ASSUME NEW S, NEW s \in Seq(S), NEW i \in DOMAIN s, NEW e \in S
  PROVE  /\ [s EXCEPT ![i] = e] \in Seq(S)
         /\ DOMAIN [s EXCEPT ![i] = e] = DOMAIN s /\ Len([s EXCEPT ![i] = e]) = Len(s)
         /\ [s EXCEPT ![i] = e][i] = e
         /\ \A j \in DOMAIN s : j # i => [s EXCEPT ![i] = e][j] = s[j]
OBVIOUS

LEMMA AppendOne ==
  ASSUME NEW S, NEW s \in Seq(S), NEW e \in S
  PROVE  /\ Append(s, e) \in Seq(S)
         /\ DOMAIN s \subseteq DOMAIN Append(s, e)
         /\ Len(s) + 1 \in DOMAIN Append(s, e) /\ Len(s) + 1 \in Nat
         /\ Len(Append(s, e)) = Len(s) + 1
         /\ \A j \in DOMAIN s : Append(s, e)[j] = s[j]
OBVIOUS

LEMMA HeadTail ==
  ASSUME NEW S, NEW s \in Seq(S), s # <<>>
  PROVE  /\ Head(s) \in S /\ Head(s) = s[1] /\ 1 \in DOMAIN s
         /\ Tail(s) \in Seq(S)
         /\ \A i \in DOMAIN Tail(s) : i + 1 \in DOMAIN s /\ Tail(s)[i] = s[i + 1]
OBVIOUS

\* Documents d that are still there in e, and posted if they were.
Grown(d, e) ==
  \A t \in Kinds :
    /\ DOMAIN d[t] \subseteq DOMAIN e[t]
    /\ \A i \in DOMAIN d[t] : d[t][i].posted = TRUE => e[t][i].posted = TRUE

LEMMA GrownGenuine ==
  ASSUME NEW d, NEW e, Grown(d, e), NEW ids, Genuine(ids, d)
  PROVE  Genuine(ids, e)
BY DEF Grown, Genuine

LEMMA GrownHolds ==
  ASSUME NEW d, NEW e, Grown(d, e), NEW p, NEW j, NEW order, NEW kinds \in Seq(Kinds), NEW id,
         Holds(p, j, order, kinds, id, d)
  PROVE  Holds(p, j, order, kinds, id, e)
<1>1. Genuine(order.ids, e)
  BY GrownGenuine DEF Holds
<1>2. ASSUME p \in {"post", "record"}
      PROVE  id \in DOMAIN e[Head(kinds)]
  <2>1. kinds # <<>> /\ Head(kinds) \in Kinds
    BY <1>2, HeadTail DEF Holds, Busy
  <2>2. QED
    BY <1>2, <2>1 DEF Holds, Grown
<1>3. ASSUME p = "record", Head(kinds) = "inv"
      PROVE  e["inv"][id].posted = TRUE
  BY <1>3 DEF Holds, Grown, Kinds
<1>4. QED
  BY <1>1, <1>2, <1>3 DEF Holds

LEMMA RecordedKinds ==
  ASSUME NEW order \in Rows
  PROVE  /\ Recorded(order) \in Seq(Kinds)
         /\ \A i \in DOMAIN Recorded(order) : order.ids[Recorded(order)[i]] # Absent
<1>1. "so" \in Kinds /\ "inv" \in Kinds /\ "qb" \in Kinds
  BY DEF Kinds
<1>2. CASE platform = "odoo"
  <2>1. Recorded(order) =
          IF order.ids["so"] = Absent
            THEN IF order.ids["inv"] = Absent THEN <<>> ELSE <<"inv">>
            ELSE IF order.ids["inv"] = Absent THEN <<"so">> ELSE <<"so", "inv">>
    BY <1>1, <1>2, Joined DEF Recorded, IfAny
  <2>2. QED
    BY <1>1, <2>1, Short
<1>3. CASE platform # "odoo"
  <2>1. Recorded(order) = IF order.ids["qb"] = Absent THEN <<>> ELSE <<"qb">>
    BY <1>3 DEF Recorded, IfAny
  <2>2. QED
    BY <1>1, <2>1, Short
<1>4. QED
  BY <1>2, <1>3

LEMMA TargetKinds == Targets \in Seq(Kinds) /\ Targets # <<>>
<1>1. "so" \in Kinds /\ "inv" \in Kinds /\ "qb" \in Kinds
  BY DEF Kinds
<1>2. QED
  BY <1>1, Short DEF Targets

LEMMA NoRowIsRow ==
  NoRow \in Rows /\ NoLog \in Logs /\ NoBase \in [row : Rows, log : Logs]
<1>1. NoRow \in Rows
  BY Numbers DEF NoRow, Rows, NoIds, Absent
<1>2. NoLog \in Logs
  BY DEF NoLog, Logs
<1>3. QED
  BY <1>1, <1>2 DEF NoBase

LEMMA NoRowHolds ==
  ASSUME NEW d
  PROVE  Genuine(NoRow.ids, d) /\ Holds("idle", "none", NoRow, <<>>, Absent, d)
BY DEF Holds, NoRow, NoIds, Genuine, Busy, Absent

LEMMA InitTypes == Init => GInv
<1> SUFFICES ASSUME Init PROVE GInv
  OBVIOUS
<1>1. TypeOK
  <2>1. /\ docs \in [Kinds -> Seq(Documents)]
        /\ todo \in [Workers -> Seq(Kinds)]
    BY DEF Init
  <2>2. /\ platform \in Platforms /\ row \in Rows /\ txn \in Workers \cup {NoOne}
        /\ log \in Logs /\ base \in [row : Rows, log : Logs]
        /\ copy \in [Workers -> Rows]
    BY NoRowIsRow DEF Init
  <2>3. /\ tries \in [Workers -> 0..(Tries - 1)] /\ \A k \in Workers : tries[k] = 0
        /\ versions \in 0..MaxVersions /\ moves \in 0..MaxMoves /\ faults \in 0..MaxFaults
    BY Numbers DEF Init, Tries
  <2>4. /\ pc \in [Workers -> Points] /\ job \in [Workers -> Jobs]
        /\ got \in [Workers -> Nat] /\ token \in [Workers -> Nat]
        /\ died \in BOOLEAN /\ clash \in BOOLEAN /\ drift \in BOOLEAN
    BY DEF Init, Points, Jobs, Absent
  <2>5. \A k \in Workers : ~(tries[k] > 0)
    BY <2>3
  <2>6. QED
    BY <2>1, <2>2, <2>3, <2>4, <2>5 DEF TypeOK, Documents, Points, Jobs
<1>2. HeldOK /\ RowOK /\ TxnOK
  BY NoRowHolds DEF Init, HeldOK, RowOK, TxnOK
<1>3. QED
  BY <1>1, <1>2 DEF GInv

-----------------------------------------------------------------------------
(* The registers of a worker that takes a step                              *)

RegistersOK ==
  /\ pc \in [Workers -> Points] /\ job \in [Workers -> Jobs]
  /\ copy \in [Workers -> Rows] /\ todo \in [Workers -> Seq(Kinds)]
  /\ tries \in [Workers -> 0..(Tries - 1)]
  /\ got \in [Workers -> Nat] /\ token \in [Workers -> Nat]
  /\ \A k \in Workers : tries[k] > 0 => pc[k] \in {"call", "post", "fail", "commit"}

SharedOK ==
  /\ platform \in Platforms /\ row \in Rows /\ txn \in Workers \cup {NoOne}
  /\ log \in Logs /\ base \in [row : Rows, log : Logs]
  /\ docs \in [Kinds -> Seq(Documents)]
  /\ versions \in 0..MaxVersions /\ moves \in 0..MaxMoves /\ faults \in 0..MaxFaults
  /\ died \in BOOLEAN /\ clash \in BOOLEAN /\ drift \in BOOLEAN

LEMMA TypeParts == TypeOK <=> RegistersOK /\ SharedOK
BY DEF TypeOK, RegistersOK, SharedOK, Points, Jobs, Documents

LEMMA TypePartsNext == TypeOK' <=> RegistersOK' /\ SharedOK'
BY DEF TypeOK, RegistersOK, SharedOK, Points, Jobs, Documents

\* Only worker k's registers change.
OnlyOf(k) ==
  \A j \in Workers \ {k} :
    /\ pc'[j] = pc[j] /\ job'[j] = job[j] /\ copy'[j] = copy[j]
    /\ todo'[j] = todo[j] /\ got'[j] = got[j]

Is(k, p, j, order, kinds, id) ==
  /\ pc'[k] = p /\ job'[k] = j /\ copy'[k] = order /\ todo'[k] = kinds /\ got'[k] = id

LEMMA TriesInRange == 0 \in 0..(Tries - 1) /\ 1 \in 0..(Tries - 1)
BY DEF Tries

LEMMA TakeTypes ==
  ASSUME RegistersOK, SharedOK, NEW k \in Workers, NEW what \in Jobs, NEW where \in Points,
         NEW order \in Rows, NEW kinds \in Seq(Kinds), Take(k, what, where, order, kinds)
  PROVE  /\ RegistersOK' /\ OnlyOf(k) /\ Is(k, where, what, order, kinds, got[k])
         /\ clash' \in BOOLEAN /\ pc[k] = "idle"
<1>1. tries' = tries /\ got' = got /\ token' = token /\ pc[k] = "idle"
  BY DEF Take
<1>2. ~(tries[k] > 0)
  BY <1>1 DEF RegistersOK
<1>3. /\ pc' \in [Workers -> Points] /\ job' \in [Workers -> Jobs]
      /\ copy' \in [Workers -> Rows] /\ todo' \in [Workers -> Seq(Kinds)]
  BY DEF Take, RegistersOK
<1>4. OnlyOf(k) /\ Is(k, where, what, order, kinds, got[k])
  BY <1>1 DEF Take, RegistersOK, OnlyOf, Is
<1>5. \A j \in Workers : tries'[j] > 0 => pc'[j] \in {"call", "post", "fail", "commit"}
  BY <1>1, <1>2, <1>4 DEF RegistersOK, OnlyOf
<1>6. clash' \in BOOLEAN
  BY DEF Take, SharedOK
<1>7. QED
  BY <1>1, <1>3, <1>4, <1>5, <1>6 DEF RegistersOK

LEMMA LeaveTypes ==
  ASSUME RegistersOK, NEW k \in Workers, Leave(k)
  PROVE  RegistersOK' /\ OnlyOf(k) /\ Is(k, "idle", "none", NoRow, <<>>, Absent)
<1>1. /\ pc' \in [Workers -> Points] /\ job' \in [Workers -> Jobs]
      /\ copy' \in [Workers -> Rows] /\ todo' \in [Workers -> Seq(Kinds)]
      /\ got' \in [Workers -> Nat] /\ token' \in [Workers -> Nat]
  BY NoRowIsRow DEF Leave, RegistersOK, Points, Jobs, Absent
<1>2. tries' \in [Workers -> 0..(Tries - 1)] /\ ~(tries'[k] > 0)
      /\ \A j \in Workers \ {k} : tries'[j] = tries[j]
  BY TriesInRange DEF Leave, RegistersOK
<1>3. OnlyOf(k) /\ Is(k, "idle", "none", NoRow, <<>>, Absent)
  BY DEF Leave, RegistersOK, OnlyOf, Is
<1>4. \A j \in Workers : tries'[j] > 0 => pc'[j] \in {"call", "post", "fail", "commit"}
  BY <1>2, <1>3 DEF RegistersOK, OnlyOf
<1>5. QED
  BY <1>1, <1>2, <1>3, <1>4 DEF RegistersOK

LEMMA GotoTypes ==
  ASSUME RegistersOK, NEW k \in Workers, NEW where \in Points, Goto(k, where),
         where \in {"call", "post", "fail", "commit"} \/ ~(tries[k] > 0)
  PROVE  RegistersOK' /\ OnlyOf(k) /\ Is(k, where, job[k], copy[k], todo[k], got[k])
BY DEF Goto, RegistersOK, OnlyOf, Is

LEMMA OverTypes ==
  ASSUME RegistersOK, NEW k \in Workers, Over(k)
  PROVE  /\ RegistersOK' /\ OnlyOf(k)
         /\ \/ txn = k /\ Is(k, "commit", job[k], copy[k], todo[k], got[k])
            \/ txn # k /\ Is(k, "idle", "none", NoRow, <<>>, Absent)
<1>1. CASE txn = k
  BY <1>1 DEF Over, RegistersOK, OnlyOf, Is, Points
<1>2. CASE txn # k
  BY <1>2, LeaveTypes DEF Over
<1>3. QED
  BY <1>1, <1>2

LEMMA AnsweredTypes ==
  ASSUME RegistersOK, NEW k \in Workers, NEW id \in Nat, NEW where \in Points,
         Answered(k, id, where)
  PROVE  /\ RegistersOK' /\ OnlyOf(k) /\ Is(k, where, job[k], copy[k], todo[k], id)
         /\ faults' = faults
<1>1. tries' \in [Workers -> 0..(Tries - 1)] /\ ~(tries'[k] > 0)
      /\ \A j \in Workers \ {k} : tries'[j] = tries[j]
  BY TriesInRange DEF Answered, RegistersOK
<1>2. OnlyOf(k) /\ Is(k, where, job[k], copy[k], todo[k], id)
  BY DEF Answered, RegistersOK, OnlyOf, Is
<1>3. \A j \in Workers : tries'[j] > 0 => pc'[j] \in {"call", "post", "fail", "commit"}
  BY <1>1, <1>2 DEF RegistersOK, OnlyOf
<1>4. QED
  BY <1>1, <1>2, <1>3 DEF Answered, RegistersOK

LEMMA FaultTypes ==
  ASSUME SharedOK, Fault
  PROVE  faults' \in 0..MaxFaults /\ faults' = faults + 1
BY Numbers DEF Fault, SharedOK

LEMMA LostTypes ==
  ASSUME RegistersOK, SharedOK, NEW k \in Workers, pc[k] \in {"call", "post"}, NEW done,
         Lost(k, done)
  PROVE  /\ RegistersOK' /\ OnlyOf(k) /\ docs' = done /\ faults' \in 0..MaxFaults
         /\ \E p \in {pc[k], "fail"} : Is(k, p, job[k], copy[k], todo[k], got[k])
<1>1. CASE tries[k] + 1 < Tries
  <2>1. /\ tries' = [tries EXCEPT ![k] = @ + 1]
        /\ pc' = pc /\ job' = job /\ copy' = copy /\ todo' = todo /\ got' = got
        /\ token' = token
    BY <1>1 DEF Lost
  <2>2. tries[k] + 1 \in 0..(Tries - 1)
    <3>1. tries[k] \in 0..(Tries - 1)
      BY DEF RegistersOK
    <3>2. QED
      BY <3>1, <1>1 DEF Tries
  <2>3. RegistersOK'
    BY <2>1, <2>2 DEF RegistersOK
  <2>4. QED
    BY <2>1, <2>3, FaultTypes DEF Lost, OnlyOf, Is
<1>2. CASE ~(tries[k] + 1 < Tries)
  <2>1. Goto(k, "fail")
    BY <1>2 DEF Lost
  <2>2. QED
    BY <2>1, GotoTypes, FaultTypes DEF Lost, Points
<1>3. QED
  BY <1>1, <1>2

LEMMA RefusedTypes ==
  ASSUME RegistersOK, SharedOK, NEW k \in Workers, Refused(k)
  PROVE  /\ RegistersOK' /\ OnlyOf(k) /\ docs' = docs /\ faults' \in 0..MaxFaults
         /\ Is(k, "fail", job[k], copy[k], todo[k], got[k])
BY GotoTypes, FaultTypes DEF Refused, Points

\* What the others hold, they still hold.
LEMMA OthersHold ==
  ASSUME GInv, NEW k \in Workers, OnlyOf(k), Grown(docs, docs'),
         Holds(pc'[k], job'[k], copy'[k], todo'[k], got'[k], docs')
  PROVE  HeldOK'
<1>1. \A j \in Workers \ {k} : todo[j] \in Seq(Kinds)
  BY TypeParts DEF GInv, RegistersOK
<1>2. \A j \in Workers \ {k} : Holds(pc[j], job[j], copy[j], todo[j], got[j], docs')
  BY <1>1, GrownHolds DEF GInv, HeldOK
<1>3. QED
  BY <1>2 DEF HeldOK, OnlyOf

LEMMA SameGrown == ASSUME NEW d PROVE Grown(d, d)
BY DEF Grown

-----------------------------------------------------------------------------
(* Requests that start                                                      *)

\* An order that a webhook or an import brings.
Newer == [row EXCEPT !.version = versions + 1, !.status = "CONFIRMED"]

LEMMA NewOrder ==
  ASSUME GInv, versions < MaxVersions
  PROVE  /\ Newer \in Rows /\ Newer.version # Absent
         /\ Newer.ids = row.ids /\ Newer.sync = row.sync
         /\ versions + 1 \in 0..MaxVersions
<1>1. versions \in 0..MaxVersions /\ row \in Rows
  BY TypeParts DEF GInv, SharedOK
<1>2. versions + 1 \in 0..MaxVersions /\ versions + 1 # Absent
  BY <1>1, Numbers DEF Absent
<1>3. QED
  BY <1>1, <1>2 DEF Rows, Newer, Statuses

\* What a webhook or an import sets out to do.
LEMMA UpsertTakes ==
  ASSUME GInv, NEW k \in Workers, Upsert(k)
  PROVE  /\ row' = Newer /\ txn = NoOne /\ versions' = versions + 1 /\ moves' = moves
         /\ drift' = FALSE /\ Newer \in Rows /\ Newer.ids = row.ids /\ Newer.version # Absent
         /\ row.version = Absent => Take(k, "sync", "begin", Newer, Targets)
         /\ row.version # Absent =>
              Take(k, "update", IF Recorded(Newer) = <<>> THEN "leave" ELSE "begin",
                   Newer, Recorded(Newer))
         /\ \E what \in {"sync", "update"}, where \in {"begin", "leave"}, kinds \in Seq(Kinds) :
              /\ Take(k, what, where, Newer, kinds)
              /\ OnlyOf(k) /\ Is(k, where, what, Newer, kinds, got[k])
              /\ where = "begin" => kinds # <<>>
              /\ where = "leave" => what = "update"
              /\ what = "sync" => row.version = Absent /\ kinds = Targets
              /\ what = "update" => \A i \in DOMAIN kinds : Newer.ids[kinds[i]] # Absent
<1>1. Newer \in Rows /\ Newer.ids = row.ids /\ Newer.version # Absent
  BY NewOrder DEF Upsert
<1>2. /\ row' = Newer /\ txn = NoOne /\ versions' = versions + 1 /\ moves' = moves
      /\ drift' = FALSE
      /\ row.version = Absent => Take(k, "sync", "begin", Newer, Targets)
      /\ row.version # Absent =>
           Take(k, "update", IF Recorded(Newer) = <<>> THEN "leave" ELSE "begin",
                Newer, Recorded(Newer))
  BY DEF Upsert, Newer
<1>3. \E what \in {"sync", "update"}, where \in {"begin", "leave"}, kinds \in Seq(Kinds) :
        /\ Take(k, what, where, Newer, kinds)
        /\ where = "begin" => kinds # <<>>
        /\ where = "leave" => what = "update"
        /\ what = "sync" => row.version = Absent /\ kinds = Targets
        /\ what = "update" => \A i \in DOMAIN kinds : Newer.ids[kinds[i]] # Absent
  <2>1. CASE row.version = Absent
    BY <1>2, <2>1, TargetKinds
  <2>2. CASE row.version # Absent
    <3>1. Recorded(Newer) \in Seq(Kinds)
          /\ \A i \in DOMAIN Recorded(Newer) : Newer.ids[Recorded(Newer)[i]] # Absent
      BY <1>1, RecordedKinds
    <3>2. CASE Recorded(Newer) = <<>>
      BY <1>2, <2>2, <3>1, <3>2
    <3>3. CASE Recorded(Newer) # <<>>
      BY <1>2, <2>2, <3>1, <3>3
    <3>4. QED
      BY <3>2, <3>3
  <2>3. QED
    BY <2>1, <2>2
<1>4. ASSUME NEW what \in {"sync", "update"}, NEW where \in {"begin", "leave"},
             NEW kinds \in Seq(Kinds), Take(k, what, where, Newer, kinds)
      PROVE  OnlyOf(k) /\ Is(k, where, what, Newer, kinds, got[k])
  BY <1>1, <1>4, TypeParts, TakeTypes DEF GInv, Points, Jobs
<1>5. QED
  BY <1>1, <1>2, <1>3, <1>4

LEMMA UpsertTypes ==
  ASSUME GInv, NEW k \in Workers, Upsert(k),
         UNCHANGED open \/ (txn' = k /\ base' = [row |-> row, log |-> log])
  PROVE  GInv'
<1>1. /\ Newer \in Rows /\ Newer.version # Absent /\ Newer.ids = row.ids
      /\ versions + 1 \in 0..MaxVersions
  BY NewOrder DEF Upsert
<1>2. /\ row' = Newer /\ versions' = versions + 1 /\ txn = NoOne /\ moves' = moves
      /\ drift' = FALSE
  BY UpsertTakes
<1>3. PICK what \in {"sync", "update"}, where \in {"begin", "leave"}, kinds \in Seq(Kinds) :
        /\ Take(k, what, where, Newer, kinds)
        /\ where = "begin" => kinds # <<>>
        /\ where = "leave" => what = "update"
        /\ what = "update" => \A i \in DOMAIN kinds : Newer.ids[kinds[i]] # Absent
  BY UpsertTakes
<1>4. /\ RegistersOK' /\ OnlyOf(k) /\ Is(k, where, what, Newer, kinds, got[k])
      /\ clash' \in BOOLEAN
  BY <1>1, <1>3, TypeParts, TakeTypes DEF GInv, Points, Jobs
<1>5. base' \in [row : Rows, log : Logs] /\ txn' \in Workers \cup {NoOne}
  BY <1>2, TypeParts DEF GInv, SharedOK, open
<1>6. docs' = docs /\ SharedOK'
  BY <1>1, <1>2, <1>3, <1>4, <1>5, TypeParts DEF Take, GInv, SharedOK
<1>7. Genuine(Newer.ids, docs) /\ Genuine(row.ids, docs)
  BY <1>1 DEF GInv, RowOK
<1>8. Holds(where, what, Newer, kinds, got[k], docs)
  BY <1>1, <1>3, <1>7 DEF Holds, Busy
<1>9. HeldOK'
  BY <1>4, <1>6, <1>8, OthersHold, SameGrown DEF Is
<1>10. RowOK'
  BY <1>1, <1>2, <1>6, <1>7 DEF RowOK
<1>11. TxnOK'
  <2>1. \A j \in Workers : pc'[j] # "commit"
    BY <1>2, <1>4, Numbers DEF GInv, TxnOK, OnlyOf, Is
  <2>2. CASE UNCHANGED open
    BY <1>2, <2>1, <2>2 DEF TxnOK, open
  <2>3. CASE txn' = k /\ base' = [row |-> row, log |-> log]
    <3>1. row.version = Absent => \A j \in Workers \ {k} : pc'[j] = "idle"
      BY <1>4 DEF GInv, RowOK, OnlyOf
    <3>2. pc'[k] # "idle" /\ job'[k] \in {"sync", "update"}
      BY <1>4 DEF Is
    <3>3. QED
      BY <1>6, <1>7, <2>1, <2>3, <3>1, <3>2 DEF TxnOK
  <2>4. QED
    BY <2>2, <2>3
<1>12. QED
  BY <1>4, <1>6, <1>9, <1>10, <1>11, TypePartsNext DEF GInv

LEMMA UpsertsTypes ==
  ASSUME GInv, NEW k \in Workers, Webhook(k) \/ Import(k) PROVE GInv'
BY UpsertTypes DEF Webhook, Import

\* What a worker that is at work, or that finds the order, reads of the row.
LEMMA SeenTypes ==
  ASSUME GInv, NEW k \in Workers
  PROVE  /\ Seen(k) \in Rows /\ Genuine(Seen(k).ids, docs) /\ row \in Rows
         /\ (pc[k] # "idle" \/ Visible(k)) => Seen(k).version # Absent
         /\ (pc[k] = "idle" /\ Visible(k)) => row.version # Absent
         /\ (pc[k] = "idle" /\ Visible(k) /\ txn # NoOne) => base.row.version # Absent
<1>1. row \in Rows /\ base \in [row : Rows, log : Logs] /\ txn \in Workers \cup {NoOne}
  BY TypeParts DEF GInv, SharedOK
<1>2. CASE txn \in {NoOne, k}
  <2>1. Seen(k) = row
    BY <1>2 DEF Seen
  <2>2. txn = k => pc[k] # "idle"
    BY <1>1, Numbers DEF GInv, TxnOK
  <2>3. QED
    BY <1>1, <1>2, <2>1, <2>2 DEF GInv, RowOK, Visible
<1>3. CASE txn \notin {NoOne, k}
  <2>1. Seen(k) = base.row
    BY <1>3 DEF Seen
  <2>2. /\ txn \in Workers /\ pc[txn] # "idle" /\ Genuine(base.row.ids, docs)
        /\ pc[k] # "idle" => base.row.version # Absent
    BY <1>1, <1>3 DEF GInv, TxnOK
  <2>3. row.version # Absent
    BY <2>2 DEF GInv, RowOK
  <2>4. QED
    BY <1>1, <2>1, <2>2, <2>3 DEF Visible
<1>4. QED
  BY <1>2, <1>3

\* A request that starts with a row as it is, but for its status and its version.
LEMMA StartTypes ==
  ASSUME GInv, NEW k \in Workers, NEW what \in {"push", "move", "edit"},
         NEW where \in {"call", "save"}, NEW order \in Rows, NEW kinds \in Seq(Kinds),
         Visible(k), Take(k, what, where, order, kinds),
         order.version # Absent, order.ids = Seen(k).ids,
         where = "call" => kinds # <<>> /\ what = "push", where = "save" => what # "push",
         UNCHANGED <<row, open>>, versions' \in 0..MaxVersions, moves' \in 0..MaxMoves,
         drift' \in BOOLEAN
  PROVE  GInv'
<1>1. /\ RegistersOK' /\ OnlyOf(k) /\ Is(k, where, what, order, kinds, got[k])
      /\ clash' \in BOOLEAN /\ pc[k] = "idle"
  BY TypeParts, TakeTypes DEF GInv, Points, Jobs
<1>2. docs' = docs /\ SharedOK' /\ row' = row /\ txn' = txn /\ base' = base
  BY <1>1, TypeParts DEF Take, GInv, SharedOK, open
<1>3. /\ Genuine(order.ids, docs) /\ row.version # Absent
      /\ txn # NoOne => base.row.version # Absent
  BY <1>1, SeenTypes
<1>4. Holds(where, what, order, kinds, got[k], docs)
  BY <1>3 DEF Holds, Busy
<1>5. HeldOK'
  BY <1>1, <1>2, <1>4, OthersHold, SameGrown DEF Is
<1>6. RowOK'
  BY <1>2, <1>3 DEF RowOK, GInv
<1>7. TxnOK'
  <2>1. txn # k
    BY <1>1, Numbers DEF GInv, TxnOK
  <2>2. txn \in Workers \cup {NoOne}
    BY TypeParts DEF GInv, SharedOK
  <2>3. QED
    BY <1>1, <1>2, <1>3, <2>1, <2>2 DEF TxnOK, GInv, OnlyOf, Is
<1>8. QED
  BY <1>1, <1>2, <1>5, <1>6, <1>7, TypePartsNext DEF GInv

LEMMA PushTypes == ASSUME GInv, NEW k \in Workers, NEW t \in Kinds, Push(k, t) PROVE GInv'
<1>1. /\ Visible(k) /\ Take(k, "push", "call", Seen(k), <<t>>)
      /\ UNCHANGED <<row, open>> /\ versions' = versions /\ moves' = moves /\ drift' = drift
  BY DEF Push
<1>2. /\ Seen(k) \in Rows /\ Seen(k).version # Absent
      /\ versions \in 0..MaxVersions /\ moves \in 0..MaxMoves /\ drift \in BOOLEAN
  BY <1>1, SeenTypes, TypeParts DEF GInv, SharedOK
<1>3. <<t>> \in Seq(Kinds) /\ <<t>> # <<>>
  BY Short
<1>4. QED
  BY <1>1, <1>2, <1>3, StartTypes

\* What staff are about to save.
LEMMA TouchTakes ==
  ASSUME GInv, NEW k \in Workers, Move(k) \/ Edit(k)
  PROVE  /\ Visible(k) /\ UNCHANGED <<row, open>>
         /\ \E what \in {"move", "edit"}, order \in Rows :
              /\ Take(k, what, "save", order, <<>>)
              /\ OnlyOf(k) /\ Is(k, "save", what, order, <<>>, got[k])
              /\ order.ids = Seen(k).ids /\ order.sync = Seen(k).sync
              /\ order.version # Absent
              /\ what = "move" => order.version = Seen(k).version /\ drift' = drift
              /\ what = "edit" => drift' = TRUE
<1>1. Visible(k) /\ UNCHANGED <<row, open>>
  BY DEF Move, Edit
<1>2. Seen(k) \in Rows /\ Seen(k).version # Absent
  BY <1>1, SeenTypes
<1>3. <<>> \in Seq(Kinds)
  OBVIOUS
<1>4. ASSUME NEW what \in {"move", "edit"}, NEW order \in Rows, Take(k, what, "save", order, <<>>)
      PROVE  OnlyOf(k) /\ Is(k, "save", what, order, <<>>, got[k])
  BY <1>3, <1>4, TypeParts, TakeTypes DEF GInv, Points, Jobs
<1>5. CASE Move(k)
  <2>1. PICK status \in Moves(Seen(k).status) :
          Take(k, "move", "save", [Seen(k) EXCEPT !.status = status], <<>>)
    BY <1>5 DEF Move
  <2> DEFINE order == [Seen(k) EXCEPT !.status = status]
  <2>2. Moves(Seen(k).status) \subseteq Statuses /\ drift' = drift
    BY <1>5 DEF Moves, Statuses, Move
  <2>3. /\ order \in Rows /\ order.ids = Seen(k).ids /\ order.sync = Seen(k).sync
        /\ order.version = Seen(k).version
    BY <1>2, <2>2 DEF Rows
  <2>4. Take(k, "move", "save", order, <<>>)
    BY <2>1
  <2> HIDE DEF order
  <2>5. QED
    BY <1>1, <1>2, <1>4, <2>2, <2>3, <2>4
<1>6. CASE Edit(k)
  <2>1. PICK status \in EditStatuses :
          Take(k, "edit", "save",
               [Seen(k) EXCEPT !.version = versions + 1, !.status = status], <<>>)
    BY <1>6 DEF Edit
  <2> DEFINE order == [Seen(k) EXCEPT !.version = versions + 1, !.status = status]
  <2>2. versions + 1 \in 0..MaxVersions /\ versions + 1 # Absent
    <3>1. versions \in 0..MaxVersions /\ versions < MaxVersions
      BY <1>6, TypeParts DEF GInv, SharedOK, Edit
    <3>2. QED
      BY <3>1, Numbers DEF Absent
  <2>3. /\ order \in Rows /\ order.ids = Seen(k).ids /\ order.sync = Seen(k).sync
        /\ order.version # Absent
    BY <1>2, <2>2, Numbers DEF Rows
  <2>4. Take(k, "edit", "save", order, <<>>)
    BY <2>1
  <2>5. drift' = TRUE
    BY <1>6 DEF Edit
  <2> HIDE DEF order
  <2>6. QED
    BY <1>1, <1>4, <2>3, <2>4, <2>5
<1>7. QED
  BY <1>5, <1>6

LEMMA TouchTypes == ASSUME GInv, NEW k \in Workers, Move(k) \/ Edit(k) PROVE GInv'
<1>1. Visible(k) /\ UNCHANGED <<row, open>>
  BY TouchTakes
<1>2. PICK what \in {"move", "edit"}, order \in Rows :
        /\ Take(k, what, "save", order, <<>>)
        /\ order.ids = Seen(k).ids /\ order.version # Absent
  BY TouchTakes
<1>3. /\ versions \in 0..MaxVersions /\ moves \in 0..MaxMoves /\ drift \in BOOLEAN
      /\ versions < MaxVersions => versions + 1 \in 0..MaxVersions
      /\ moves < MaxMoves => moves + 1 \in 0..MaxMoves
  BY Numbers, TypeParts DEF GInv, SharedOK
<1>4. versions' \in 0..MaxVersions /\ moves' \in 0..MaxMoves /\ drift' \in BOOLEAN
  BY <1>3 DEF Move, Edit
<1>5. <<>> \in Seq(Kinds)
  OBVIOUS
<1>6. QED
  BY <1>1, <1>2, <1>4, <1>5, StartTypes

-----------------------------------------------------------------------------
(* The steps of a request                                                   *)

LEMMA StepTypes ==
  ASSUME GInv, NEW k \in Workers, pc[k] # "idle", RegistersOK', SharedOK', OnlyOf(k),
         Grown(docs, docs'), Holds(pc'[k], job'[k], copy'[k], todo'[k], got'[k], docs'),
         Genuine(row'.ids, docs'), row'.version # Absent, txn' = txn, base' = base,
         txn = k => pc'[k] # "idle" /\ job'[k] = job[k],
         pc'[k] = "commit" => txn = k
  PROVE  GInv'
<1>1. HeldOK'
  BY OthersHold
<1>2. RowOK'
  BY DEF RowOK
<1>3. TxnOK'
  <2>1. txn \in Workers \cup {NoOne}
    BY TypeParts DEF GInv, SharedOK
  <2>2. txn # NoOne => Genuine(base.row.ids, docs')
    BY GrownGenuine DEF GInv, TxnOK
  <2>3. txn # NoOne => pc'[txn] # "idle" /\ job'[txn] \in {"sync", "update"}
    BY <2>1 DEF GInv, TxnOK, OnlyOf
  <2>4. txn # NoOne /\ base.row.version = Absent =>
          \A j \in Workers : j # txn => pc'[j] = "idle"
    BY DEF GInv, TxnOK, OnlyOf
  <2>5. \A j \in Workers : pc'[j] = "commit" => txn = j
    BY DEF GInv, TxnOK, OnlyOf
  <2>6. QED
    BY <2>2, <2>3, <2>4, <2>5 DEF TxnOK
<1>4. QED
  BY <1>1, <1>2, <1>3, TypePartsNext DEF GInv

LEMMA Working ==
  ASSUME GInv, NEW k \in Workers, pc[k] # "idle"
  PROVE  /\ RegistersOK /\ SharedOK /\ row \in Rows /\ copy[k] \in Rows
         /\ row.version # Absent /\ copy[k].version # Absent
         /\ Genuine(row.ids, docs) /\ Genuine(copy[k].ids, docs)
         /\ todo[k] \in Seq(Kinds) /\ got[k] \in Nat /\ token[k] \in Nat
         /\ Holds(pc[k], job[k], copy[k], todo[k], got[k], docs)
         /\ docs \in [Kinds -> Seq(Documents)]
         /\ Seen(k) \in Rows /\ Seen(k).version # Absent
<1>1. RegistersOK /\ SharedOK
  BY TypeParts DEF GInv
<1>2. Holds(pc[k], job[k], copy[k], todo[k], got[k], docs)
  BY DEF GInv, HeldOK
<1>3. Seen(k) \in Rows /\ Seen(k).version # Absent
  BY SeenTypes
<1>4. QED
  BY <1>1, <1>2, <1>3 DEF RegistersOK, SharedOK, GInv, RowOK, Holds

LEMMA KindTypes ==
  ASSUME GInv, NEW k \in Workers, pc[k] \in Busy
  PROVE  /\ Kind(k) \in Kinds /\ todo[k] # <<>> /\ Kind(k) = todo[k][1] /\ 1 \in DOMAIN todo[k]
         /\ Tail(todo[k]) \in Seq(Kinds)
         /\ \A i \in DOMAIN Tail(todo[k]) :
              i + 1 \in DOMAIN todo[k] /\ Tail(todo[k])[i] = todo[k][i + 1]
<1>1. todo[k] \in Seq(Kinds) /\ todo[k] # <<>>
  BY Working DEF Busy, Holds
<1>2. QED
  BY <1>1, HeadTail DEF Kind

\* The document that an update is about exists.
LEMMA UpdatedId ==
  ASSUME GInv, NEW k \in Workers, pc[k] \in Busy, job[k] = "update"
  PROVE  /\ copy[k].ids[Kind(k)] # Absent /\ copy[k].ids[Kind(k)] \in Nat
         /\ copy[k].ids[Kind(k)] \in DOMAIN docs[Kind(k)]
         /\ Kind(k) = "inv" => docs["inv"][copy[k].ids["inv"]].posted = TRUE
<1>1. Kind(k) \in Kinds /\ Kind(k) = todo[k][1] /\ 1 \in DOMAIN todo[k]
  BY KindTypes
<1>2. /\ \A i \in DOMAIN todo[k] : copy[k].ids[todo[k][i]] # Absent
      /\ Genuine(copy[k].ids, docs) /\ copy[k] \in Rows
  BY Working DEF Holds, Busy
<1>3. copy[k].ids[Kind(k)] # Absent /\ copy[k].ids[Kind(k)] \in Nat
  BY <1>1, <1>2 DEF Rows
<1>4. QED
  BY <1>1, <1>2, <1>3 DEF Genuine

LEMMA SaveTypes == ASSUME GInv, NEW k \in Workers, Save(k) PROVE GInv'
<1>1. pc[k] = "save" /\ row' = copy[k] /\ docs' = docs /\ txn' = txn /\ base' = base
  BY DEF Save, open
<1>2. RegistersOK' /\ OnlyOf(k) /\ Is(k, "idle", "none", NoRow, <<>>, Absent)
  BY <1>1, Working, LeaveTypes DEF Save
<1>3. SharedOK'
  BY <1>1, Working DEF Save, SharedOK, past
<1>4. txn # k
  BY <1>1, Working, Numbers DEF Holds, GInv, TxnOK
<1>5. QED
  BY <1>1, <1>2, <1>3, <1>4, StepTypes, Working, SameGrown, NoRowHolds DEF Is

LEMMA EndTypes == ASSUME GInv, NEW k \in Workers, End(k) PROVE GInv'
<1>1. /\ pc[k] = "leave" /\ row' = row /\ docs' = docs /\ txn' = txn /\ base' = base
      /\ Over(k)
  BY DEF End, open
<1>2. /\ RegistersOK' /\ OnlyOf(k)
      /\ \/ txn = k /\ Is(k, "commit", job[k], copy[k], todo[k], got[k])
         \/ txn # k /\ Is(k, "idle", "none", NoRow, <<>>, Absent)
  BY <1>1, Working, OverTypes
<1>3. SharedOK'
  BY <1>1, Working DEF End, SharedOK, past
<1>4. Holds("commit", job[k], copy[k], todo[k], got[k], docs)
  BY <1>1, Working DEF Holds, Busy
<1>5. Holds(pc'[k], job'[k], copy'[k], todo'[k], got'[k], docs)
  BY <1>2, <1>4, NoRowHolds DEF Is
<1>6. QED
  BY <1>1, <1>2, <1>3, <1>5, StepTypes, Working, SameGrown DEF Is

LEMMA BeginTypes == ASSUME GInv, NEW k \in Workers, Begin(k) PROVE GInv'
<1>1. PICK where \in {"read", "call"} :
        Goto(k, where) /\ (where = "read" => job[k] = "update" /\ Kind(k) = "qb")
  BY DEF Begin, NextStep
<1>2. /\ pc[k] = "begin" /\ row' = [row EXCEPT !.sync = "PENDING"]
      /\ docs' = docs /\ txn' = txn /\ base' = base /\ job' = job
  BY DEF Begin, Goto, open
<1>3. ~(tries[k] > 0)
  BY <1>2, Working DEF RegistersOK
<1>4. RegistersOK' /\ OnlyOf(k) /\ Is(k, where, job[k], copy[k], todo[k], got[k])
  BY <1>1, <1>2, <1>3, Working, GotoTypes DEF Points
<1>5. row' \in Rows /\ row'.ids = row.ids /\ row'.version = row.version
  BY <1>2, Working DEF Rows
<1>6. SharedOK'
  BY <1>2, <1>5, Working DEF Begin, SharedOK, past
<1>7. Holds(where, job[k], copy[k], todo[k], got[k], docs)
  BY <1>1, <1>2, Working DEF Holds, Busy, Kind
<1>8. QED
  BY <1>2, <1>4, <1>5, <1>6, <1>7, StepTypes, Working, SameGrown DEF Is

LEMMA ReadTokenTypes == ASSUME GInv, NEW k \in Workers, ReadToken(k) PROVE GInv'
<1>1. /\ pc[k] = "read" /\ pc' = [pc EXCEPT ![k] = "call"]
      /\ job' = job /\ copy' = copy /\ todo' = todo /\ tries' = tries /\ got' = got
      /\ UNCHANGED <<platform, row, log, docs, txn, base, past>>
  BY DEF ReadToken, open
<1>2. token' \in [Workers -> Nat]
  <2>1. Kind(k) = "qb" /\ job[k] = "update" /\ pc[k] \in Busy
    BY <1>1, Working DEF Holds, Busy, Kind
  <2>2. copy[k].ids["qb"] \in DOMAIN docs["qb"]
    BY <2>1, UpdatedId
  <2>3. docs["qb"] \in Seq(Documents)
    BY <1>1, Working DEF Kinds
  <2>4. docs["qb"][copy[k].ids["qb"]].token \in Nat
    <3>1. docs["qb"][copy[k].ids["qb"]] \in Documents
      BY <2>2, <2>3
    <3>2. QED
      BY <3>1 DEF Documents
  <2>5. token' = [token EXCEPT ![k] = docs["qb"][copy[k].ids["qb"]].token]
    BY DEF ReadToken
  <2>6. QED
    BY <1>1, <2>4, <2>5, Working DEF RegistersOK
<1>3. RegistersOK' /\ OnlyOf(k) /\ Is(k, "call", job[k], copy[k], todo[k], got[k])
  BY <1>1, <1>2, Working DEF RegistersOK, OnlyOf, Is, Points
<1>4. SharedOK'
  BY <1>1, Working DEF SharedOK, past
<1>5. Holds("call", job[k], copy[k], todo[k], got[k], docs)
  BY <1>1, Working DEF Holds, Busy
<1>6. QED
  BY <1>1, <1>3, <1>4, <1>5, StepTypes, Working, SameGrown DEF Is

\* A document that a worker writes.
LEMMA NewDocument ==
  ASSUME GInv, NEW k \in Workers, pc[k] # "idle"
  PROVE  /\ Document(k) \in Documents /\ Document(k).head \in 1..MaxVersions
         /\ Document(k).lines \in 1..MaxVersions
<1>1. copy[k].version \in 1..MaxVersions /\ Seen(k).version \in 1..MaxVersions
  BY Working, Numbers DEF Rows, Absent
<1>2. QED
  BY <1>1 DEF Document, Documents

LEMMA Created ==
  ASSUME GInv, NEW k \in Workers, pc[k] # "idle", NEW t \in Kinds, NEW done,
         done = [docs EXCEPT ![t] = Append(@, Document(k))]
  PROVE  /\ done \in [Kinds -> Seq(Documents)] /\ Grown(docs, done)
         /\ Len(docs[t]) + 1 \in DOMAIN done[t] /\ Len(docs[t]) + 1 \in Nat
         /\ Len(done[t]) = Len(docs[t]) + 1 /\ \A u \in Kinds \ {t} : done[u] = docs[u]
<1>1. docs \in [Kinds -> Seq(Documents)] /\ Document(k) \in Documents
  BY Working, NewDocument
<1>2. docs[t] \in Seq(Documents)
  BY <1>1
<1>3. /\ Append(docs[t], Document(k)) \in Seq(Documents)
      /\ DOMAIN docs[t] \subseteq DOMAIN Append(docs[t], Document(k))
      /\ Len(docs[t]) + 1 \in DOMAIN Append(docs[t], Document(k)) /\ Len(docs[t]) + 1 \in Nat
      /\ Len(Append(docs[t], Document(k))) = Len(docs[t]) + 1
      /\ \A j \in DOMAIN docs[t] : Append(docs[t], Document(k))[j] = docs[t][j]
  BY <1>1, <1>2, AppendOne
<1> DEFINE more == Append(docs[t], Document(k))
<1>4. done = [docs EXCEPT ![t] = more]
  OBVIOUS
<1> HIDE DEF more
<1>5. done \in [Kinds -> Seq(Documents)] /\ done[t] = more
      /\ \A u \in Kinds \ {t} : done[u] = docs[u]
  BY <1>1, <1>3, <1>4 DEF more
<1>6. Grown(docs, done)
  BY <1>3, <1>5 DEF Grown, more
<1>7. QED
  BY <1>3, <1>5, <1>6 DEF more

\* One document is replaced by one that is posted if the old one was.
LEMMA Replaced ==
  ASSUME docs \in [Kinds -> Seq(Documents)], NEW t \in Kinds, NEW i \in DOMAIN docs[t],
         NEW doc \in Documents, docs[t][i].posted = TRUE => doc.posted = TRUE, NEW done,
         done = [docs EXCEPT ![t] = [docs[t] EXCEPT ![i] = doc]]
  PROVE  /\ done \in [Kinds -> Seq(Documents)] /\ Grown(docs, done)
         /\ i \in DOMAIN done[t] /\ done[t][i] = doc
<1>1. docs[t] \in Seq(Documents)
  OBVIOUS
<1> DEFINE new == [docs[t] EXCEPT ![i] = doc]
<1>2. /\ new \in Seq(Documents) /\ DOMAIN new = DOMAIN docs[t] /\ new[i] = doc
      /\ \A j \in DOMAIN docs[t] : j # i => new[j] = docs[t][j]
  BY <1>1, ReplaceOne
<1>3. done = [docs EXCEPT ![t] = new]
  OBVIOUS
<1> HIDE DEF new
<1>4. done \in [Kinds -> Seq(Documents)] /\ done[t] = new
      /\ \A u \in Kinds \ {t} : done[u] = docs[u]
  BY <1>2, <1>3
<1>5. ASSUME NEW j \in DOMAIN docs[t], docs[t][j].posted = TRUE
      PROVE  new[j].posted = TRUE
  BY <1>2, <1>5
<1>6. Grown(docs, done)
  BY <1>2, <1>4, <1>5 DEF Grown
<1>7. QED
  BY <1>2, <1>4, <1>6

LEMMA SameLengths ==
  ASSUME NEW d \in [Kinds -> Seq(Documents)], NEW t \in Kinds, NEW i \in DOMAIN d[t],
         NEW doc \in Documents, NEW done,
         done = [d EXCEPT ![t] = [d[t] EXCEPT ![i] = doc]]
  PROVE  \A u \in Kinds : Len(done[u]) = Len(d[u])
<1>1. d[t] \in Seq(Documents)
  OBVIOUS
<1>2. Len([d[t] EXCEPT ![i] = doc]) = Len(d[t])
  BY <1>1, ReplaceOne
<1>3. QED
  BY <1>2

LEMMA CreateTypes == ASSUME GInv, NEW k \in Workers, Create(k) PROVE GInv'
<1> DEFINE t == Kind(k)
           done == [docs EXCEPT ![t] = Append(@, Document(k))]
<1>1. /\ pc[k] = "call" /\ job[k] \in {"sync", "push"}
      /\ row' = row /\ txn' = txn /\ base' = base
      /\ UNCHANGED <<platform, log, versions, moves, died, clash, drift>>
      /\ \/ /\ docs' = done
            /\ Answered(k, Len(docs[t]) + 1, IF t = "inv" THEN "post" ELSE "record")
         \/ Lost(k, done)
         \/ Refused(k)
  BY DEF Create, open
<1>2. t \in Kinds /\ todo[k] # <<>> /\ t = Head(todo[k])
  BY <1>1, KindTypes DEF Busy, Kind
<1> HIDE DEF t
<1>3. done = [docs EXCEPT ![t] = Append(@, Document(k))]
  OBVIOUS
<1> HIDE DEF done
<1>4. /\ done \in [Kinds -> Seq(Documents)] /\ Grown(docs, done)
      /\ Len(docs[t]) + 1 \in DOMAIN done[t] /\ Len(docs[t]) + 1 \in Nat
  BY <1>1, <1>2, <1>3, Created
<1>5. Genuine(copy[k].ids, done) /\ Genuine(row.ids, done) /\ Genuine(copy[k].ids, docs)
  BY <1>1, <1>4, Working, GrownGenuine
<1>6. CASE docs' = done /\ Answered(k, Len(docs[t]) + 1, IF t = "inv" THEN "post" ELSE "record")
  <2> DEFINE where == IF t = "inv" THEN "post" ELSE "record"
  <2>1. /\ RegistersOK' /\ OnlyOf(k) /\ faults' = faults
        /\ Is(k, where, job[k], copy[k], todo[k], Len(docs[t]) + 1)
    BY <1>1, <1>4, <1>6, Working, AnsweredTypes DEF Points
  <2>2. SharedOK'
    BY <1>1, <1>4, <1>6, <2>1, Working DEF SharedOK
  <2>3. Holds(where, job[k], copy[k], todo[k], Len(docs[t]) + 1, done)
    BY <1>1, <1>2, <1>4, <1>5, Working DEF Holds
  <2>4. QED
    BY <1>1, <1>4, <1>5, <1>6, <2>1, <2>2, <2>3, StepTypes, Working DEF Is
<1>7. ASSUME NEW p \in {"call", "fail"}, Is(k, p, job[k], copy[k], todo[k], got[k]),
             RegistersOK', OnlyOf(k), docs' \in {docs, done}, faults' \in 0..MaxFaults
      PROVE  GInv'
  <2>1. docs' \in [Kinds -> Seq(Documents)] /\ Grown(docs, docs')
        /\ Genuine(copy[k].ids, docs') /\ Genuine(row.ids, docs')
    BY <1>1, <1>4, <1>5, <1>7, Working, SameGrown
  <2>2. SharedOK'
    BY <1>1, <1>7, <2>1, Working DEF SharedOK
  <2>3. Holds(p, job[k], copy[k], todo[k], got[k], docs')
    BY <1>1, <1>2, <2>1, Working DEF Holds
  <2>4. QED
    BY <1>1, <1>7, <2>1, <2>2, <2>3, StepTypes, Working DEF Is
<1>8. CASE Lost(k, done)
  BY <1>1, <1>7, <1>8, Working, LostTypes
<1>9. CASE Refused(k)
  BY <1>1, <1>7, <1>9, Working, RefusedTypes
<1>10. QED
  BY <1>1, <1>6, <1>8, <1>9

\* A new invoice that is posted.
LEMMA Posted ==
  ASSUME GInv, NEW k \in Workers, pc[k] = "post", NEW done, done = PostedDocs(k)
  PROVE  /\ done \in [Kinds -> Seq(Documents)] /\ Grown(docs, done)
         /\ got[k] \in DOMAIN done["inv"] /\ done["inv"][got[k]].posted = TRUE
         /\ \A u \in Kinds : Len(done[u]) = Len(docs[u])
<1> DEFINE doc == [docs["inv"][got[k]] EXCEPT !.posted = TRUE]
<1>1. /\ got[k] \in DOMAIN docs["inv"] /\ docs \in [Kinds -> Seq(Documents)]
      /\ "inv" \in Kinds
  BY Working DEF Holds, Kinds
<1>2. docs["inv"][got[k]] \in Documents
  BY <1>1
<1>3. doc \in Documents /\ doc.posted = TRUE
      /\ (docs["inv"][got[k]].posted = TRUE => doc.posted = TRUE)
  BY <1>2 DEF Documents
<1>4. done = [docs EXCEPT !["inv"] = [docs["inv"] EXCEPT ![got[k]] = doc]]
  BY DEF PostedDocs
<1> HIDE DEF doc
<1>5. /\ done \in [Kinds -> Seq(Documents)] /\ Grown(docs, done)
      /\ got[k] \in DOMAIN done["inv"] /\ done["inv"][got[k]] = doc
  BY ONLY <1>1, <1>3, <1>4, Replaced
<1>6. \A u \in Kinds : Len(done[u]) = Len(docs[u])
  BY <1>1, <1>3, <1>4, SameLengths
<1>7. QED
  BY <1>3, <1>5, <1>6

LEMMA PostTypes == ASSUME GInv, NEW k \in Workers, Post(k) PROVE GInv'
<1>1. /\ pc[k] = "post" /\ row' = row /\ txn' = txn /\ base' = base
      /\ UNCHANGED <<platform, log, versions, moves, died, clash, drift>>
      /\ \/ docs' = PostedDocs(k) /\ Answered(k, got[k], "record")
         \/ Goto(k, "fail") /\ UNCHANGED <<docs, faults>>
         \/ Lost(k, PostedDocs(k))
         \/ Refused(k)
  BY DEF Post, open
<1> DEFINE done == PostedDocs(k)
<1>2. Head(todo[k]) = "inv" /\ todo[k] # <<>> /\ got[k] \in DOMAIN docs["inv"]
  BY <1>1, Working DEF Holds, Busy
<1>3. done = PostedDocs(k)
  OBVIOUS
<1> HIDE DEF done
<1>4. /\ done \in [Kinds -> Seq(Documents)] /\ Grown(docs, done)
      /\ got[k] \in DOMAIN done["inv"] /\ done["inv"][got[k]].posted = TRUE
  BY <1>1, <1>3, Posted
<1>5. Genuine(copy[k].ids, done) /\ Genuine(row.ids, done) /\ Genuine(copy[k].ids, docs)
  BY <1>1, <1>4, Working, GrownGenuine
<1>6. CASE docs' = done /\ Answered(k, got[k], "record")
  <2>1. /\ RegistersOK' /\ OnlyOf(k) /\ faults' = faults
        /\ Is(k, "record", job[k], copy[k], todo[k], got[k])
    BY <1>1, <1>6, Working, AnsweredTypes DEF Points
  <2>2. SharedOK'
    BY <1>1, <1>4, <1>6, <2>1, Working DEF SharedOK
  <2>3. Holds("record", job[k], copy[k], todo[k], got[k], done)
    BY <1>1, <1>2, <1>4, <1>5, Working DEF Holds, Busy
  <2>4. QED
    BY <1>1, <1>4, <1>5, <1>6, <2>1, <2>2, <2>3, StepTypes, Working DEF Is
<1>7. ASSUME NEW p \in {"post", "fail"}, Is(k, p, job[k], copy[k], todo[k], got[k]),
             RegistersOK', OnlyOf(k), docs' \in {docs, done}, faults' \in 0..MaxFaults
      PROVE  GInv'
  <2>1. docs' \in [Kinds -> Seq(Documents)] /\ Grown(docs, docs')
        /\ Genuine(copy[k].ids, docs') /\ Genuine(row.ids, docs')
        /\ got[k] \in DOMAIN docs'["inv"]
    BY <1>1, <1>2, <1>4, <1>5, <1>7, Working, SameGrown
  <2>2. SharedOK'
    BY <1>1, <1>7, <2>1, Working DEF SharedOK
  <2>3. Holds(p, job[k], copy[k], todo[k], got[k], docs')
    BY <1>1, <1>2, <2>1, Working DEF Holds, Busy
  <2>4. QED
    BY <1>1, <1>7, <2>1, <2>2, <2>3, StepTypes, Working DEF Is
<1>8. CASE Lost(k, done)
  BY <1>1, <1>7, <1>8, Working, LostTypes
<1>9. CASE Refused(k)
  BY <1>1, <1>7, <1>9, Working, RefusedTypes
<1>10. CASE Goto(k, "fail") /\ UNCHANGED <<docs, faults>>
  <2>1. faults' \in 0..MaxFaults
    BY <1>1, <1>10, Working DEF SharedOK
  <2>2. RegistersOK' /\ OnlyOf(k) /\ Is(k, "fail", job[k], copy[k], todo[k], got[k])
    BY <1>1, <1>10, Working, GotoTypes DEF Points
  <2>3. QED
    BY <1>7, <1>10, <2>1, <2>2
<1>11. QED
  BY <1>1, <1>3, <1>6, <1>8, <1>9, <1>10

\* The document that an update writes: a sales order or a QuickBooks invoice,
\* since an invoice on record in Odoo is posted and Odoo leaves it alone.
LEMMA Rewritten ==
  ASSUME GInv, NEW k \in Workers, pc[k] = "call", job[k] = "update", NEW done,
         done = [docs EXCEPT ![Kind(k)][copy[k].ids[Kind(k)]] =
                   [Document(k) EXCEPT !.posted = docs[Kind(k)][copy[k].ids[Kind(k)]].posted,
                      !.token = IF Kind(k) = "qb" THEN token[k] + 1 ELSE 0]]
  PROVE  /\ done \in [Kinds -> Seq(Documents)] /\ Grown(docs, done)
         /\ copy[k].ids[Kind(k)] \in DOMAIN done[Kind(k)]
         /\ copy[k].ids[Kind(k)] \in Nat
         /\ Kind(k) = "inv" => done["inv"][copy[k].ids[Kind(k)]].posted = TRUE
         /\ \A u \in Kinds : Len(done[u]) = Len(docs[u])
<1> DEFINE t == Kind(k)
           id == copy[k].ids[t]
           doc == [Document(k) EXCEPT !.posted = docs[t][id].posted,
                     !.token = IF t = "qb" THEN token[k] + 1 ELSE 0]
<1>1. pc[k] \in Busy /\ t \in Kinds
  BY KindTypes DEF Busy
<1>2. id \in Nat /\ id \in DOMAIN docs[t] /\ (t = "inv" => docs[t][id].posted = TRUE)
  BY <1>1, UpdatedId
<1>3. docs \in [Kinds -> Seq(Documents)] /\ docs[t][id] \in Documents
  BY <1>1, <1>2, Working
<1>4. doc \in Documents /\ doc.posted = docs[t][id].posted
  <2>1. Document(k) \in Documents
    BY NewDocument
  <2>2. docs[t][id].posted \in BOOLEAN
    BY <1>3 DEF Documents
  <2>3. (IF t = "qb" THEN token[k] + 1 ELSE 0) \in Nat
    BY Working
  <2>4. QED
    BY <2>1, <2>2, <2>3 DEF Documents
<1>5. done = [docs EXCEPT ![t] = [docs[t] EXCEPT ![id] = doc]]
  OBVIOUS
<1>6. docs[t][id].posted = TRUE => doc.posted = TRUE
  BY <1>4
<1> HIDE DEF doc, t, id
<1>7. /\ done \in [Kinds -> Seq(Documents)] /\ Grown(docs, done)
      /\ id \in DOMAIN done[t] /\ done[t][id] = doc
  BY ONLY <1>1, <1>2, <1>3, <1>4, <1>5, <1>6, Replaced
<1>8. \A u \in Kinds : Len(done[u]) = Len(docs[u])
  BY ONLY <1>1, <1>2, <1>3, <1>4, <1>5, SameLengths
<1>9. t = "inv" => done["inv"][id].posted = TRUE
  BY <1>2, <1>6, <1>7
<1>10. QED
  BY <1>2, <1>7, <1>8, <1>9 DEF t, id

LEMMA RewriteTypes == ASSUME GInv, NEW k \in Workers, Rewrite(k) PROVE GInv'
<1> DEFINE t == Kind(k)
           id == copy[k].ids[t]
           done == [docs EXCEPT ![t][id] =
                      [Document(k) EXCEPT !.posted = docs[t][id].posted,
                         !.token = IF t = "qb" THEN token[k] + 1 ELSE 0]]
<1>1. /\ pc[k] = "call" /\ job[k] = "update" /\ row' = row /\ txn' = txn /\ base' = base
      /\ UNCHANGED <<platform, log, versions, moves, died, clash, drift>>
      /\ \/ docs' = done /\ Answered(k, id, "record")
         \/ Lost(k, done)
         \/ Refused(k)
         \/ Goto(k, "fail") /\ UNCHANGED <<docs, faults>>
  BY DEF Rewrite, open
<1>2. /\ done \in [Kinds -> Seq(Documents)] /\ Grown(docs, done)
      /\ id \in DOMAIN done[t] /\ id \in Nat /\ (t = "inv" => done["inv"][id].posted = TRUE)
  BY <1>1, Rewritten
<1>3. t \in Kinds /\ todo[k] # <<>> /\ t = Head(todo[k])
  BY <1>1, KindTypes DEF Busy, Kind
<1> HIDE DEF t, id, done
<1>4. Genuine(copy[k].ids, done) /\ Genuine(row.ids, done) /\ Genuine(copy[k].ids, docs)
  BY <1>1, <1>2, Working, GrownGenuine
<1>5. CASE docs' = done /\ Answered(k, id, "record")
  <2>1. /\ RegistersOK' /\ OnlyOf(k) /\ faults' = faults
        /\ Is(k, "record", job[k], copy[k], todo[k], id)
    BY <1>1, <1>2, <1>5, Working, AnsweredTypes DEF Points
  <2>2. SharedOK'
    BY <1>1, <1>2, <1>5, <2>1, Working DEF SharedOK
  <2>3. Holds("record", job[k], copy[k], todo[k], id, done)
    BY <1>1, <1>2, <1>3, <1>4, Working DEF Holds
  <2>4. QED
    BY <1>1, <1>2, <1>4, <1>5, <2>1, <2>2, <2>3, StepTypes, Working DEF Is
<1>6. ASSUME NEW p \in {"call", "fail"}, Is(k, p, job[k], copy[k], todo[k], got[k]),
             RegistersOK', OnlyOf(k), docs' \in {docs, done}, faults' \in 0..MaxFaults
      PROVE  GInv'
  <2>1. docs' \in [Kinds -> Seq(Documents)] /\ Grown(docs, docs')
        /\ Genuine(copy[k].ids, docs') /\ Genuine(row.ids, docs')
    BY <1>1, <1>2, <1>4, <1>6, Working, SameGrown
  <2>2. SharedOK'
    BY <1>1, <1>6, <2>1, Working DEF SharedOK
  <2>3. Holds(p, job[k], copy[k], todo[k], got[k], docs')
    BY <1>1, <1>3, <2>1, Working DEF Holds
  <2>4. QED
    BY <1>1, <1>6, <2>1, <2>2, <2>3, StepTypes, Working DEF Is
<1>7. CASE Lost(k, done)
  BY <1>1, <1>6, <1>7, Working, LostTypes
<1>8. CASE Refused(k)
  BY <1>1, <1>6, <1>8, Working, RefusedTypes
<1>9. CASE Goto(k, "fail") /\ UNCHANGED <<docs, faults>>
  <2>1. faults' \in 0..MaxFaults
    BY <1>1, <1>9, Working DEF SharedOK
  <2>2. RegistersOK' /\ OnlyOf(k) /\ Is(k, "fail", job[k], copy[k], todo[k], got[k])
    BY <1>1, <1>9, Working, GotoTypes DEF Points
  <2>3. QED
    BY <1>6, <1>9, <2>1, <2>2
<1>10. QED
  BY <1>1, <1>5, <1>7, <1>8, <1>9

\* The row's identifiers, some of them overwritten.
LEMMA WithIdsTypes ==
  ASSUME GInv, NEW kinds, NEW ids \in [Kinds -> Nat], Genuine(ids, docs), Genuine(row.ids, docs),
         row \in Rows
  PROVE  WithIds(kinds, ids) \in [Kinds -> Nat] /\ Genuine(WithIds(kinds, ids), docs)
<1>1. row.ids \in [Kinds -> Nat]
  BY DEF Rows
<1>2. \A t \in Kinds : WithIds(kinds, ids)[t] \in {ids[t], row.ids[t]}
  BY DEF WithIds
<1>3. WithIds(kinds, ids) \in [Kinds -> Nat]
  BY <1>1 DEF WithIds
<1>4. QED
  BY <1>2, <1>3 DEF Genuine

\* The copy's identifiers, with that of a document that was written.
LEMMA NewIds ==
  ASSUME GInv, NEW k \in Workers, pc[k] = "record"
  PROVE  /\ [copy[k].ids EXCEPT ![Kind(k)] = got[k]] \in [Kinds -> Nat]
         /\ Genuine([copy[k].ids EXCEPT ![Kind(k)] = got[k]], docs)
<1>1. Kind(k) \in Kinds /\ got[k] \in Nat /\ copy[k].ids \in [Kinds -> Nat]
  BY Working, KindTypes DEF Busy, Rows
<1>2. /\ got[k] \in DOMAIN docs[Kind(k)]
      /\ Kind(k) = "inv" => docs["inv"][got[k]].posted = TRUE
      /\ Genuine(copy[k].ids, docs)
  BY Working DEF Holds, Kind
<1>3. QED
  BY <1>1, <1>2 DEF Genuine

LEMMA RecordTypes == ASSUME GInv, NEW k \in Workers, Record(k) PROVE GInv'
<1>1. /\ pc[k] = "record" /\ log' = [log EXCEPT ![Kind(k)] = "SUCCESS"]
      /\ UNCHANGED <<platform, docs, txn, base, past>>
  BY DEF Record, open
<1>2. Kind(k) \in Kinds /\ log' \in Logs
  BY <1>1, Working, KindTypes DEF Busy, SharedOK, Logs
<1>3. CASE Tail(todo[k]) # <<>>
  <2> DEFINE order == [copy[k] EXCEPT !.ids[Kind(k)] = got[k]]
             ids == [copy[k].ids EXCEPT ![Kind(k)] = got[k]]
  <2>1. /\ copy' = [copy EXCEPT ![k] = order]
        /\ todo' = [todo EXCEPT ![k] = Tail(@)]
        /\ got' = [got EXCEPT ![k] = Absent] /\ pc' = [pc EXCEPT ![k] = "call"]
        /\ row' = row /\ job' = job /\ tries' = tries /\ token' = token
    BY <1>3 DEF Record
  <2>2. ids \in [Kinds -> Nat] /\ Genuine(ids, docs) /\ copy[k] \in Rows
    BY <1>1, NewIds, Working
  <2>3. order \in Rows /\ order.ids = ids /\ order.version = copy[k].version
    BY <2>2 DEF Rows
  <2>4. /\ Tail(todo[k]) \in Seq(Kinds)
        /\ \A i \in DOMAIN Tail(todo[k]) :
             i + 1 \in DOMAIN todo[k] /\ Tail(todo[k])[i] = todo[k][i + 1]
    BY <1>1, KindTypes DEF Busy
  <2>5. job[k] = "update" => \A i \in DOMAIN Tail(todo[k]) : ids[Tail(todo[k])[i]] # Absent
    <3>1. SUFFICES ASSUME job[k] = "update", NEW i \in DOMAIN Tail(todo[k])
                   PROVE  ids[Tail(todo[k])[i]] # Absent
      OBVIOUS
    <3>2. Tail(todo[k])[i] \in Kinds /\ copy[k].ids[Tail(todo[k])[i]] # Absent
      <4>1. \A n \in DOMAIN todo[k] : copy[k].ids[todo[k][n]] # Absent
        BY <1>1, <3>1, Working DEF Holds
      <4>2. Tail(todo[k])[i] \in Kinds
        BY <2>4
      <4>3. QED
        BY <2>4, <4>1, <4>2
    <3>3. copy[k].ids \in [Kinds -> Nat] /\ got[k] # Absent
      <4>1. copy[k].ids \in [Kinds -> Nat]
        BY <2>2 DEF Rows
      <4>2. got[k] \in DOMAIN docs[Kind(k)] /\ docs[Kind(k)] \in Seq(Documents)
        BY <1>1, <1>2, Working DEF Holds, Kind
      <4>3. QED
        BY <4>1, <4>2 DEF Absent
    <3>4. QED
      BY <3>2, <3>3
  <2> HIDE DEF order, ids
  <2>6. RegistersOK' /\ OnlyOf(k) /\ Is(k, "call", job[k], order, Tail(todo[k]), Absent)
    BY <1>1, <2>1, <2>3, <2>4, Working DEF RegistersOK, OnlyOf, Is, Points, Absent
  <2>7. SharedOK'
    BY <1>1, <1>2, <2>1, Working DEF SharedOK, past
  <2>8. Holds("call", job[k], order, Tail(todo[k]), Absent, docs)
    BY <1>1, <1>3, <2>2, <2>3, <2>5, Working DEF Holds, Busy
  <2>9. QED
    BY <1>1, <2>1, <2>6, <2>7, <2>8, StepTypes, Working, SameGrown DEF Is
<1>4. CASE Tail(todo[k]) = <<>>
  <2>1. row' = [row EXCEPT !.sync = "SUCCESS", !.ids = RecordIds(k)] /\ Over(k)
    BY <1>4 DEF Record
  <2>2. RecordIds(k) \in [Kinds -> Nat] /\ Genuine(RecordIds(k), docs)
    BY <1>1, NewIds, WithIdsTypes, Working DEF RecordIds
  <2>3. row' \in Rows /\ row'.ids = RecordIds(k) /\ row'.version # Absent
    BY <1>1, <2>1, <2>2, Working DEF Rows
  <2>4. SharedOK'
    BY <1>1, <1>2, <2>3, Working DEF SharedOK, past
  <2>5. /\ RegistersOK' /\ OnlyOf(k)
        /\ \/ txn = k /\ Is(k, "commit", job[k], copy[k], todo[k], got[k])
           \/ txn # k /\ Is(k, "idle", "none", NoRow, <<>>, Absent)
    BY <1>1, <2>1, Working, OverTypes
  <2>6. Holds("commit", job[k], copy[k], todo[k], got[k], docs)
    BY <1>1, Working DEF Holds, Busy
  <2>7. Holds(pc'[k], job'[k], copy'[k], todo'[k], got'[k], docs)
    BY <2>5, <2>6, NoRowHolds DEF Is
  <2>8. QED
    BY <1>1, <2>2, <2>3, <2>4, <2>5, <2>7, StepTypes, SameGrown DEF Is
<1>5. QED
  BY <1>3, <1>4

LEMMA FailTypes == ASSUME GInv, NEW k \in Workers, Fail(k) PROVE GInv'
<1>1. /\ pc[k] = "fail" /\ log' = [log EXCEPT ![Kind(k)] = "FAILED"]
      /\ row' = [row EXCEPT !.sync = "FAILED", !.ids = WithIds(KeptIds(k), copy[k].ids)]
      /\ Over(k)
      /\ UNCHANGED <<platform, docs, txn, base, past>>
  BY DEF Fail, open
<1>2. log' \in Logs
  BY <1>1, Working, KindTypes DEF Busy, SharedOK, Logs
<1>3. /\ WithIds(KeptIds(k), copy[k].ids) \in [Kinds -> Nat]
      /\ Genuine(WithIds(KeptIds(k), copy[k].ids), docs)
  <2>1. copy[k].ids \in [Kinds -> Nat]
    BY <1>1, Working DEF Rows
  <2>2. QED
    BY <1>1, <2>1, Working, WithIdsTypes
<1>4. /\ row' \in Rows /\ row'.ids = WithIds(KeptIds(k), copy[k].ids)
      /\ row'.version # Absent
  BY <1>1, <1>3, Working DEF Rows
<1>5. SharedOK'
  BY <1>1, <1>2, <1>4, Working DEF SharedOK, past
<1>6. /\ RegistersOK' /\ OnlyOf(k)
      /\ \/ txn = k /\ Is(k, "commit", job[k], copy[k], todo[k], got[k])
         \/ txn # k /\ Is(k, "idle", "none", NoRow, <<>>, Absent)
  BY <1>1, Working, OverTypes
<1>7. Holds("commit", job[k], copy[k], todo[k], got[k], docs)
  BY <1>1, Working DEF Holds, Busy
<1>8. Holds(pc'[k], job'[k], copy'[k], todo'[k], got'[k], docs)
  BY <1>6, <1>7, NoRowHolds DEF Is
<1>9. QED
  BY <1>1, <1>3, <1>4, <1>5, <1>6, <1>8, StepTypes, SameGrown DEF Is

\* A transaction that ends: what it leaves behind, or restores, is a good row.
LEMMA TxnEnds ==
  ASSUME GInv, NEW k \in Workers, txn = k, Leave(k), txn' = NoOne, docs' = docs,
         row' \in {row, base.row}, SharedOK'
  PROVE  GInv'
<1>1. k # NoOne /\ pc[k] # "idle"
  BY Numbers DEF GInv, TxnOK
<1>2. RegistersOK' /\ OnlyOf(k) /\ Is(k, "idle", "none", NoRow, <<>>, Absent)
  BY <1>1, Working, LeaveTypes
<1>3. Genuine(row.ids, docs) /\ Genuine(base.row.ids, docs) /\ row.version # Absent
  BY <1>1 DEF GInv, TxnOK, RowOK
<1>4. \A j \in Workers : pc'[j] # "idle" => row'.version # Absent
  BY <1>1, <1>2, <1>3 DEF GInv, TxnOK, OnlyOf, Is
<1>5. HeldOK'
  BY <1>2, OthersHold, SameGrown, NoRowHolds DEF Is
<1>6. RowOK'
  BY <1>3, <1>4 DEF RowOK
<1>7. TxnOK'
  BY <1>2 DEF TxnOK, GInv, OnlyOf, Is
<1>8. QED
  BY <1>2, <1>5, <1>6, <1>7, TypePartsNext DEF GInv

LEMMA CommitTypes == ASSUME GInv, NEW k \in Workers, Commit(k) PROVE GInv'
<1>1. /\ pc[k] = "commit" /\ Leave(k) /\ txn' = NoOne /\ base' = NoBase
      /\ UNCHANGED <<platform, docs, versions, moves, died, clash>>
      /\ row' \in {row, base.row} /\ log' \in {log, base.log} /\ drift' \in {drift, TRUE}
      /\ faults' = faults \/ Fault
  BY DEF Commit, Undo, Close
<1>2. faults' \in 0..MaxFaults
  BY <1>1, Working, FaultTypes DEF SharedOK
<1>3. SharedOK'
  BY <1>1, <1>2, Working, NoRowIsRow DEF SharedOK
<1>4. txn = k
  BY <1>1 DEF GInv, TxnOK
<1>5. QED
  BY <1>1, <1>3, <1>4, TxnEnds

LEMMA DieTypes == ASSUME GInv, NEW k \in Workers, Die(k) PROVE GInv'
<1>1. /\ pc[k] # "idle" /\ Leave(k) /\ Fault /\ died' = TRUE
      /\ UNCHANGED <<platform, docs, versions, moves, clash, drift>>
  BY DEF Die
<1>2. faults' \in 0..MaxFaults
  BY <1>1, Working, FaultTypes
<1>3. CASE txn = k
  <2>1. row' = base.row /\ log' = base.log /\ txn' = NoOne /\ base' = NoBase
    BY <1>3 DEF Die, Undo, Close
  <2>2. SharedOK'
    BY <1>1, <1>2, <2>1, Working, NoRowIsRow DEF SharedOK
  <2>3. QED
    BY <1>1, <1>3, <2>1, <2>2, TxnEnds
<1>4. CASE txn # k
  <2>1. row' = row /\ log' = log /\ txn' = txn /\ base' = base
    BY <1>4 DEF Die, open
  <2>2. SharedOK'
    BY <1>1, <1>2, <2>1, Working DEF SharedOK
  <2>3. RegistersOK' /\ OnlyOf(k) /\ Is(k, "idle", "none", NoRow, <<>>, Absent)
    BY <1>1, Working, LeaveTypes
  <2>4. QED
    BY <1>1, <1>4, <2>1, <2>2, <2>3, StepTypes, Working, SameGrown, NoRowHolds DEF Is
<1>5. QED
  BY <1>3, <1>4

LEMMA StutterTypes == ASSUME GInv, UNCHANGED vars PROVE GInv'
BY DEF GInv, TypeOK, HeldOK, RowOK, TxnOK, vars, open, local, past

LEMMA NextTypes == ASSUME GInv, [Next]_vars PROVE GInv'
<1>1. ASSUME NEW k \in Workers, NEW t \in Kinds, Push(k, t)
      PROVE  GInv'
  BY <1>1, PushTypes
<1>2. ASSUME NEW k \in Workers, Step(k)
      PROVE  GInv'
  BY <1>2, SaveTypes, EndTypes, BeginTypes, CreateTypes, PostTypes, ReadTokenTypes,
     RewriteTypes, RecordTypes, FailTypes, CommitTypes DEF Step
<1>3. ASSUME NEW k \in Workers,
             Webhook(k) \/ Import(k) \/ Move(k) \/ Edit(k) \/ Step(k) \/ Die(k) \/
             PushToQuickBooks(k) \/ CreateOdooSo(k) \/ CreateOdooInvoice(k)
      PROVE  GInv'
  <2>1. "so" \in Kinds /\ "inv" \in Kinds /\ "qb" \in Kinds
    BY DEF Kinds
  <2>2. QED
    BY <1>1, <1>2, <1>3, <2>1, UpsertsTypes, TouchTypes, DieTypes
    DEF PushToQuickBooks, CreateOdooSo, CreateOdooInvoice
<1>4. QED
  BY <1>3, StutterTypes DEF Next

LEMMA GInvInvariant == Spec => []GInv
<1>1. Init => GInv
  BY InitTypes
<1>2. GInv /\ [Next]_vars => GInv'
  BY NextTypes
<1>3. QED
  BY <1>1, <1>2, PTL DEF Spec

\* Every variable of OrderSync keeps its type, and no call is tried more often
\* than max_retries.
THEOREM TypeCorrect == Spec => []TypeOK
<1>1. GInv => TypeOK
  BY DEF GInv
<1>2. QED
  BY <1>1, GInvInvariant, PTL

-----------------------------------------------------------------------------
(* What the row says, while no requests overlap                             *)

\* Worker k, which is at work, takes a step or stops: its request stays what it
\* is, and others are left alone.
StepsOn(k) ==
  /\ OnlyOf(k) /\ clash' = clash /\ pc[k] # "idle"
  /\ pc'[k] = "idle" \/ job'[k] = job[k]
  /\ (txn' = txn /\ base' = base) \/ txn' = NoOne

\* A worker that starts alone finds no import open, and reads the row.
LEMMA SeenAlone ==
  ASSUME GInv, NEW k \in Workers, NEW what, NEW where, NEW order, NEW kinds,
         Take(k, what, where, order, kinds), ~clash'
  PROVE  txn = NoOne /\ Seen(k) = row
<1>1. pc[k] = "idle" /\ \A j \in Workers \ {k} : pc[j] = "idle"
  BY DEF Take
<1>2. txn \in Workers \cup {NoOne}
  BY TypeParts DEF GInv, SharedOK
<1>3. QED
  BY <1>1, <1>2 DEF GInv, TxnOK, Seen

LEMMA StartHonest ==
  ASSUME HInv, GInv', NEW k \in Workers, NEW what, NEW where, NEW order, NEW kinds,
         Take(k, what, where, order, kinds), OnlyOf(k), Is(k, where, what, order, kinds, got[k]),
         order.ids = Seen(k).ids, order.sync = Seen(k).sync,
         row'.ids = row.ids, row'.sync = row.sync, UNCHANGED open \/ base'.row = row
  PROVE  HInv'
<1>1. clash' = (clash \/ \E j \in Workers \ {k} : pc[j] # "idle")
  BY DEF Take
<1>2. ASSUME ~clash'
      PROVE  /\ \A j \in Workers \ {k} : pc'[j] = "idle"
             /\ txn = NoOne /\ Seen(k) = row /\ Shown(row)
  BY <1>1, <1>2, SeenAlone DEF HInv, StatusOK, OnlyOf
<1>3. StatusOK'
  BY <1>2 DEF StatusOK, Shown, open, HasDocument
<1>4. ASSUME what = "update", where \in Busy, ~clash'
      PROVE  HasDocument(row.ids)
  <2>1. Holds(where, what, order, kinds, got[k], docs') /\ kinds \in Seq(Kinds)
    BY TypePartsNext DEF GInv, HeldOK, Is, RegistersOK
  <2>2. kinds # <<>> /\ \A i \in DOMAIN kinds : order.ids[kinds[i]] # Absent
    BY <1>4, <2>1 DEF Holds
  <2>3. 1 \in DOMAIN kinds /\ kinds[1] \in Kinds
    BY <2>1, <2>2
  <2>4. QED
    BY <1>2, <1>4, <2>2, <2>3 DEF HasDocument
<1>5. AloneOK'
  BY <1>2, <1>4 DEF AloneOK, Is, HasDocument, Shown
<1>6. QED
  BY <1>3, <1>5 DEF HInv

LEMMA StepHonest ==
  ASSUME HInv, GInv', NEW k \in Workers, StepsOn(k),
         ~clash /\ row'.sync = "SUCCESS" => HasDocument(row'.ids),
         ~clash /\ pc'[k] # "idle" =>
           /\ copy'[k].sync = "SUCCESS" => HasDocument(copy'[k].ids)
           /\ job[k] = "update" /\ pc'[k] \in Busy => HasDocument(row'.ids)
  PROVE  HInv'
<1>1. StatusOK'
  BY DEF HInv, StatusOK, StepsOn, Shown, HasDocument
<1>2. ASSUME ~clash
      PROVE  \A j \in Workers \ {k} : pc'[j] = "idle"
  BY <1>2 DEF HInv, AloneOK, StepsOn, OnlyOf
<1>3. AloneOK'
  BY <1>2 DEF AloneOK, StepsOn, HasDocument
<1>4. QED
  BY <1>1, <1>3 DEF HInv

\* A step after which the row and the copy say what they said.
LEMMA QuietHonest ==
  ASSUME HInv, GInv', NEW k \in Workers, StepsOn(k),
         row'.sync \in {row.sync, "PENDING", "FAILED"}, row'.ids = row.ids,
         copy'[k] = copy[k] \/ pc'[k] = "idle", pc'[k] \in Busy => pc[k] \in Busy
  PROVE  HInv'
<1>1. ~clash /\ row'.sync = "SUCCESS" => HasDocument(row'.ids)
  BY DEF HInv, StatusOK, Shown
<1>2. ~clash /\ pc'[k] # "idle" =>
        /\ copy'[k].sync = "SUCCESS" => HasDocument(copy'[k].ids)
        /\ job[k] = "update" /\ pc'[k] \in Busy => HasDocument(row'.ids)
  BY DEF HInv, AloneOK, StepsOn
<1>3. QED
  BY <1>1, <1>2, StepHonest

LEMMA UpsertHonest ==
  ASSUME HInv, GInv', NEW k \in Workers, Upsert(k),
         UNCHANGED open \/ (txn' = k /\ base' = [row |-> row, log |-> log])
  PROVE  HInv'
<1>1. GInv /\ row \in Rows
  BY TypeParts DEF HInv, GInv, SharedOK
<1>2. row' = Newer /\ txn = NoOne
  BY <1>1, UpsertTakes
<1>3. Newer.ids = row.ids /\ Newer.sync = row.sync /\ Seen(k) = row
  BY <1>1, <1>2, NewOrder DEF Upsert, Seen
<1>4. PICK what \in {"sync", "update"}, where \in {"begin", "leave"}, kinds \in Seq(Kinds) :
        /\ Take(k, what, where, Newer, kinds)
        /\ OnlyOf(k) /\ Is(k, where, what, Newer, kinds, got[k])
  BY <1>1, UpsertTakes
<1>5. UNCHANGED open \/ base'.row = row
  OBVIOUS
<1>6. QED
  BY <1>2, <1>3, <1>4, <1>5, StartHonest

LEMMA UpsertsHonest ==
  ASSUME HInv, GInv', NEW k \in Workers, Webhook(k) \/ Import(k) PROVE HInv'
BY UpsertHonest DEF Webhook, Import

LEMMA PushHonest ==
  ASSUME HInv, GInv', NEW k \in Workers, NEW t \in Kinds, Push(k, t) PROVE HInv'
<1>1. row' = row /\ Take(k, "push", "call", Seen(k), <<t>>) /\ UNCHANGED open
  BY DEF Push
<1>2. GInv /\ Seen(k) \in Rows /\ <<t>> \in Seq(Kinds)
  BY SeenTypes, Short DEF HInv
<1>3. OnlyOf(k) /\ Is(k, "call", "push", Seen(k), <<t>>, got[k])
  BY <1>1, <1>2, TypeParts, TakeTypes DEF GInv, Points, Jobs
<1>4. QED
  BY <1>1, <1>3, StartHonest

LEMMA TouchHonest ==
  ASSUME HInv, GInv', NEW k \in Workers, Move(k) \/ Edit(k) PROVE HInv'
<1>1. GInv /\ row' = row /\ UNCHANGED open
  BY TouchTakes DEF HInv
<1>2. PICK what \in {"move", "edit"}, order \in Rows :
        /\ Take(k, what, "save", order, <<>>)
        /\ OnlyOf(k) /\ Is(k, "save", what, order, <<>>, got[k])
        /\ order.ids = Seen(k).ids /\ order.sync = Seen(k).sync
  BY <1>1, TouchTakes
<1>3. QED
  BY <1>1, <1>2, StartHonest

\* The steps that leave the row alone, or set it to PENDING or FAILED.
LEMMA ReturnsHonest ==
  ASSUME HInv, GInv', NEW k \in Workers, End(k) \/ Begin(k) \/ ReadToken(k)
  PROVE  HInv'
<1>1. GInv
  BY DEF HInv
<1>2. CASE End(k)
  <2>1. pc[k] = "leave" /\ row' = row /\ clash' = clash /\ Over(k) /\ UNCHANGED open
    BY <1>2 DEF End, past
  <2>2. /\ OnlyOf(k)
        /\ \/ Is(k, "commit", job[k], copy[k], todo[k], got[k])
           \/ Is(k, "idle", "none", NoRow, <<>>, Absent)
    BY <1>1, <2>1, Working, OverTypes
  <2>3. QED
    BY <2>1, <2>2, QuietHonest DEF StepsOn, Is, Busy, open
<1>3. CASE Begin(k)
  <2>1. PICK where \in {"read", "call"} : Goto(k, where)
    BY <1>3 DEF Begin, NextStep
  <2>2. /\ pc[k] = "begin" /\ row' = [row EXCEPT !.sync = "PENDING"] /\ clash' = clash
        /\ txn' = txn /\ base' = base
    BY <1>3 DEF Begin, past, open
  <2>3. row \in Rows /\ ~(tries[k] > 0)
    BY <1>1, <2>2, Working DEF RegistersOK
  <2>4. OnlyOf(k) /\ Is(k, where, job[k], copy[k], todo[k], got[k])
    BY <1>1, <2>1, <2>2, <2>3, Working, GotoTypes DEF Points
  <2>5. row'.sync = "PENDING" /\ row'.ids = row.ids
    BY <2>2, <2>3 DEF Rows
  <2>6. QED
    BY <2>2, <2>4, <2>5, QuietHonest DEF StepsOn, Is, Busy
<1>4. CASE ReadToken(k)
  <2>1. /\ pc[k] = "read" /\ pc' = [pc EXCEPT ![k] = "call"] /\ row' = row /\ clash' = clash
        /\ job' = job /\ copy' = copy /\ todo' = todo /\ got' = got /\ UNCHANGED open
    BY <1>4 DEF ReadToken, past
  <2>2. OnlyOf(k)
    BY <1>1, <2>1, Working DEF OnlyOf, RegistersOK
  <2>3. QED
    BY <2>1, <2>2, QuietHonest DEF StepsOn, Busy, open
<1>5. QED
  BY <1>2, <1>3, <1>4

LEMMA CallsHonest ==
  ASSUME HInv, GInv', NEW k \in Workers, Create(k) \/ Post(k) \/ Rewrite(k)
  PROVE  HInv'
<1>1. /\ pc[k] \in {"call", "post"} /\ row' = row /\ clash' = clash /\ pc[k] # "idle"
      /\ txn' = txn /\ base' = base
      /\ \/ \E id, done :
              \/ Answered(k, id, "post") \/ Answered(k, id, "record") \/ Lost(k, done)
         \/ Refused(k) \/ Goto(k, "fail")
  BY DEF Create, Post, Rewrite, open
<1>2. job'[k] = job[k] /\ copy'[k] = copy[k] /\ OnlyOf(k)
  <2>1. job' = job /\ copy' = copy /\ todo' = todo
    BY <1>1 DEF Answered, Lost, Refused, Goto
  <2>2. /\ \A j \in Workers \ {k} : pc'[j] = pc[j] /\ got'[j] = got[j]
    <3>1. pc \in [Workers -> Points] /\ got \in [Workers -> Nat]
      BY <1>1, Working DEF HInv, RegistersOK
    <3>2. QED
      BY <1>1, <3>1 DEF Answered, Lost, Refused, Goto
  <2>3. QED
    BY <2>1, <2>2 DEF OnlyOf
<1>3. pc[k] \in Busy
  BY <1>1 DEF Busy
<1>4. QED
  BY <1>1, <1>2, <1>3, QuietHonest DEF StepsOn

LEMMA SaveHonest == ASSUME HInv, GInv', NEW k \in Workers, Save(k) PROVE HInv'
<1>1. /\ pc[k] = "save" /\ row' = copy[k] /\ clash' = clash /\ Leave(k)
      /\ txn' = txn /\ base' = base
  BY DEF Save, past, open
<1>2. OnlyOf(k) /\ pc'[k] = "idle"
  BY <1>1, Working, LeaveTypes DEF HInv, Is
<1>3. ~clash /\ row'.sync = "SUCCESS" => HasDocument(row'.ids)
  BY <1>1 DEF HInv, AloneOK
<1>4. QED
  BY <1>1, <1>2, <1>3, StepHonest DEF StepsOn

\* A worker that has recorded its last document has saved an identifier.
LEMMA SavedOne ==
  ASSUME HInv, NEW k \in Workers, pc[k] = "record", ~clash
  PROVE  HasDocument(RecordIds(k))
<1>1. GInv /\ Kind(k) \in Kinds /\ job[k] \in {"sync", "update", "push"}
  BY Working, KindTypes DEF HInv, Busy, Holds
<1>2. got[k] # Absent
  <2>1. got[k] \in DOMAIN docs[Kind(k)] /\ docs[Kind(k)] \in Seq(Documents)
    BY <1>1, Working DEF Holds, Kind
  <2>2. QED
    BY <2>1 DEF Absent
<1> DEFINE ids == [copy[k].ids EXCEPT ![Kind(k)] = got[k]]
<1>3. ids[Kind(k)] = got[k]
  BY <1>1, Working DEF Rows
<1>4. \A t \in Kinds : RecordIds(k)[t] = IF t \in SavedIds(k) THEN ids[t] ELSE row.ids[t]
  BY DEF RecordIds, WithIds
<1> HIDE DEF ids
<1>5. CASE job[k] = "update"
  <2>1. SavedIds(k) = {}
    BY <1>5 DEF SavedIds
  <2>2. HasDocument(row.ids)
    BY <1>5 DEF HInv, AloneOK, Busy
  <2>3. QED
    BY <1>4, <2>1, <2>2 DEF HasDocument
<1>6. CASE job[k] \in {"sync", "push"}
  <2>1. Kind(k) \in SavedIds(k)
    BY <1>1, <1>6 DEF SavedIds, Kinds
  <2>2. RecordIds(k)[Kind(k)] = got[k]
    BY <1>1, <1>3, <1>4, <2>1
  <2>3. QED
    BY <1>1, <1>2, <2>2 DEF HasDocument
<1>7. QED
  BY <1>1, <1>5, <1>6

LEMMA RecordHonest == ASSUME HInv, GInv', NEW k \in Workers, Record(k) PROVE HInv'
<1>1. pc[k] = "record" /\ clash' = clash /\ GInv /\ txn' = txn /\ base' = base
  BY DEF Record, past, open, HInv
<1>2. RegistersOK /\ row \in Rows /\ copy[k] \in Rows /\ Kind(k) \in Kinds
  BY <1>1, Working, KindTypes DEF Busy
<1>3. CASE Tail(todo[k]) # <<>>
  <2> DEFINE order == [copy[k] EXCEPT !.ids[Kind(k)] = got[k]]
  <2>1. /\ copy' = [copy EXCEPT ![k] = order]
        /\ todo' = [todo EXCEPT ![k] = Tail(@)]
        /\ got' = [got EXCEPT ![k] = Absent] /\ pc' = [pc EXCEPT ![k] = "call"]
        /\ row' = row /\ job' = job
    BY <1>3 DEF Record
  <2>2. got[k] # Absent
    <3>1. got[k] \in DOMAIN docs[Kind(k)] /\ docs[Kind(k)] \in Seq(Documents)
      BY <1>1, <1>2, Working DEF Holds, Kind
    <3>2. QED
      BY <3>1 DEF Absent
  <2>3. HasDocument(order.ids)
    BY <1>2, <2>2 DEF HasDocument, Rows
  <2> HIDE DEF order
  <2>4. OnlyOf(k) /\ copy'[k] = order /\ pc'[k] = "call"
    BY <1>2, <2>1 DEF OnlyOf, RegistersOK
  <2>5. ~clash /\ row'.sync = "SUCCESS" => HasDocument(row'.ids)
    BY <2>1 DEF HInv, StatusOK, Shown
  <2>6. ~clash /\ job[k] = "update" => HasDocument(row'.ids)
    BY <1>1, <2>1 DEF HInv, AloneOK, Busy
  <2>7. QED
    BY <1>1, <2>1, <2>3, <2>4, <2>5, <2>6, StepHonest DEF StepsOn
<1>4. CASE Tail(todo[k]) = <<>>
  <2>1. row' = [row EXCEPT !.sync = "SUCCESS", !.ids = RecordIds(k)] /\ Over(k)
    BY <1>4 DEF Record
  <2>2. row'.ids = RecordIds(k)
    BY <1>2, <2>1 DEF Rows
  <2>3. /\ OnlyOf(k)
        /\ \/ Is(k, "commit", job[k], copy[k], todo[k], got[k])
           \/ Is(k, "idle", "none", NoRow, <<>>, Absent)
    BY <1>2, <2>1, OverTypes
  <2>4. ~clash => HasDocument(row'.ids)
    BY <1>1, <2>2, SavedOne
  <2>5. ~clash /\ pc'[k] # "idle" => (copy'[k].sync = "SUCCESS" => HasDocument(copy'[k].ids))
    BY <1>1, <2>3 DEF HInv, AloneOK, Is
  <2>6. QED
    BY <1>1, <2>3, <2>4, <2>5, StepHonest DEF StepsOn, Is
<1>5. QED
  BY <1>3, <1>4

LEMMA FailHonest == ASSUME HInv, GInv', NEW k \in Workers, Fail(k) PROVE HInv'
<1>1. /\ pc[k] = "fail" /\ clash' = clash /\ GInv /\ Over(k)
      /\ row' = [row EXCEPT !.sync = "FAILED", !.ids = WithIds(KeptIds(k), copy[k].ids)]
      /\ txn' = txn /\ base' = base
  BY DEF Fail, past, open, HInv
<1>2. RegistersOK /\ row \in Rows
  BY <1>1, Working
<1>3. row'.sync = "FAILED"
  BY <1>1, <1>2 DEF Rows
<1>4. /\ OnlyOf(k)
      /\ \/ txn = k /\ Is(k, "commit", job[k], copy[k], todo[k], got[k])
         \/ Is(k, "idle", "none", NoRow, <<>>, Absent)
  BY <1>1, <1>2, OverTypes
<1>5. ~clash /\ pc'[k] # "idle" =>
        /\ copy'[k].sync = "SUCCESS" => HasDocument(copy'[k].ids)
        /\ pc'[k] \notin Busy
  BY <1>1, <1>4 DEF HInv, AloneOK, Is, Busy
<1>6. QED
  BY <1>1, <1>3, <1>4, <1>5, StepHonest DEF StepsOn, Is

LEMMA EndsHonest ==
  ASSUME HInv, GInv', NEW k \in Workers, Commit(k) \/ Die(k) PROVE HInv'
<1>1. /\ pc[k] # "idle" /\ Leave(k) /\ clash' = clash /\ GInv
      /\ row' = row \/ (row' = base.row /\ txn # NoOne)
      /\ (txn' = txn /\ base' = base) \/ txn' = NoOne
  BY Numbers DEF Commit, Die, HInv, GInv, TxnOK, Undo, Close, open
<1>2. OnlyOf(k) /\ pc'[k] = "idle"
  BY <1>1, Working, LeaveTypes DEF Is
<1>3. ~clash /\ row'.sync = "SUCCESS" => HasDocument(row'.ids)
  BY <1>1 DEF HInv, StatusOK, Shown
<1>4. QED
  BY <1>1, <1>2, <1>3, StepHonest DEF StepsOn

LEMMA StutterHonest == ASSUME HInv, UNCHANGED vars PROVE HInv'
BY StutterTypes DEF HInv, StatusOK, AloneOK, vars, open, local, past

LEMMA NextHonest == ASSUME HInv, [Next]_vars PROVE HInv'
<1>1. GInv'
  BY NextTypes DEF HInv
<1>2. ASSUME NEW k \in Workers, NEW t \in Kinds, Push(k, t)
      PROVE  HInv'
  BY <1>1, <1>2, PushHonest
<1>3. ASSUME NEW k \in Workers, Step(k)
      PROVE  HInv'
  BY <1>1, <1>3, SaveHonest, ReturnsHonest, CallsHonest, RecordHonest, FailHonest, EndsHonest
  DEF Step
<1>4. ASSUME NEW k \in Workers,
             Webhook(k) \/ Import(k) \/ Move(k) \/ Edit(k) \/ Step(k) \/ Die(k) \/
             PushToQuickBooks(k) \/ CreateOdooSo(k) \/ CreateOdooInvoice(k)
      PROVE  HInv'
  <2>1. "so" \in Kinds /\ "inv" \in Kinds /\ "qb" \in Kinds
    BY DEF Kinds
  <2>2. QED
    BY <1>1, <1>2, <1>3, <1>4, <2>1, UpsertsHonest, TouchHonest, EndsHonest
    DEF PushToQuickBooks, CreateOdooSo, CreateOdooInvoice
<1>5. QED
  BY <1>4, StutterHonest DEF Next

LEMMA InitHonest == Init => HInv
<1>1. Init => GInv
  BY InitTypes
<1>2. Init => StatusOK /\ AloneOK
  BY DEF Init, StatusOK, AloneOK, Shown, NoRow
<1>3. QED
  BY <1>1, <1>2 DEF HInv

\* Whatever overlaps, fails, dies or is rolled back: every identifier in the
\* order's row is one that its platform gave to a document of that kind, an
\* invoice on record is posted, and, unless requests overlapped, an order shown
\* as synchronised has a document.
THEOREM RowStaysHonest == Spec => []RowHonest
<1>1. Init => HInv
  BY InitHonest
<1>2. HInv /\ [Next]_vars => HInv'
  BY NextHonest
<1>3. HInv => RowHonest
  BY DEF HInv, GInv, RowOK, Genuine, StatusOK, Shown, HasDocument, RowHonest, IdsGenuine
<1>4. QED
  BY <1>1, <1>2, <1>3, PTL DEF Spec

-----------------------------------------------------------------------------
(* How many documents there are, while no requests overlap                  *)

\* The kinds that a first push or a push by hand has still to create.
KindsLeft(j, kinds) ==
  /\ j = "sync" => kinds \in {<<"so", "inv">>, <<"inv">>, <<"qb">>}
  /\ j = "push" => \E t \in Kinds : kinds = <<t>>

\* How the identifiers of a copy differ from those of the row: a first push has
\* the sales order's before the row has it. What is still to be created has none.
Sole(p, j, mine, kinds, stored) ==
  /\ p # "commit" => \A t \in Kinds : stored[t] # Absent => mine[t] # Absent
  /\ \A t \in Kinds :
       mine[t] # Absent =>
         \/ stored[t] # Absent
         \/ p # "commit" /\ j = "sync" /\ t = "so" /\ Head(kinds) = "inv"
  /\ (p \in Busy /\ j \in {"sync", "push"}) =>
       \A i \in DOMAIN kinds : stored[kinds[i]] = Absent /\ mine[kinds[i]] = Absent

\* A worker knows the id of a document of kind t.
Knows(p, mine, kinds, t) ==
  p # "idle" /\ (mine[t] # Absent \/ (p \in {"post", "record"} /\ Head(kinds) = t))

LeftOK == \A k \in Workers : KindsLeft(job[k], todo[k])
Blank(r) == r.version = Absent => \A t \in Kinds : r.ids[t] = Absent
BlankOK == Blank(row) /\ (txn # NoOne => Blank(base.row))
SoleOK ==
  ~clash => \A k \in Workers : pc[k] # "idle" =>
              Sole(pc[k], job[k], copy[k].ids, todo[k], row.ids)

\* Of each kind there are as many documents as there were faults, and one more
\* whose id is known.
Counted(n, f, known) == n <= f \/ (n <= f + 1 /\ known)
CountOK ==
  ~clash => \A t \in Kinds :
              Counted(Len(docs[t]), faults,
                      row.ids[t] # Absent \/
                      \E k \in Workers : Knows(pc[k], copy[k].ids, todo[k], t))

\* An invoice that is posted, though its answer was lost, is paid for by that
\* fault: its id may be forgotten.
Paid(p, id, d, f) ==
  (p = "post" /\ d["inv"][id].posted = TRUE) => Len(d["inv"]) <= f
PaidOK == ~clash => \A k \in Workers : Paid(pc[k], got[k], docs, faults)

DInv == HInv /\ LeftOK /\ BlankOK /\ SoleOK /\ CountOK /\ PaidOK

LEMMA Tails == Tail(<<"so", "inv">>) = <<"inv">> /\ \A t \in Kinds : Tail(<<t>>) = <<>>
<1>1. Tail(<<"so", "inv">>) = <<"inv">>
  <2> DEFINE c == Tail(<<"so", "inv">>)
             d == <<"inv">>
  <2>1. "so" \in Kinds /\ "inv" \in Kinds
    BY DEF Kinds
  <2>2. <<"so", "inv">> \in Seq(Kinds) /\ d \in Seq(Kinds) /\ Len(<<"so", "inv">>) = 2
        /\ <<"so", "inv">> # <<>> /\ <<"so", "inv">>[2] = "inv" /\ Len(d) = 1 /\ d[1] = "inv"
    BY <2>1, Short
  <2>3. c \in Seq(Kinds) /\ Len(c) = 1 /\ c[1] = "inv"
    BY <2>2
  <2> HIDE DEF c, d
  <2>4. \A i \in 1..Len(c) : c[i] = d[i]
    BY <2>2, <2>3
  <2>5. c = d
    BY <2>2, <2>3, <2>4, SeqEqual
  <2>6. QED
    BY <2>5 DEF c, d
<1>2. ASSUME NEW t \in Kinds
      PROVE  Tail(<<t>>) = <<>>
  <2> DEFINE s == <<t>>
  <2>1. s \in Seq(Kinds) /\ Len(s) = 1
    BY Short
  <2> HIDE DEF s
  <2>2. s # <<>>
    BY <2>1, EmptySeq
  <2>3. Tail(s) \in Seq(Kinds) /\ Len(Tail(s)) = 0
    BY <2>1, <2>2
  <2>4. Tail(s) = <<>>
    BY <2>3, EmptySeq
  <2>5. QED
    BY <2>4 DEF s
<1>3. QED
  BY <1>1, <1>2

LEMMA Counting ==
  ASSUME DInv, ~clash, NEW k \in Workers, pc[k] # "idle", NEW t \in Kinds
  PROVE  /\ Counted(Len(docs[t]), faults,
                    row.ids[t] # Absent \/ Knows(pc[k], copy[k].ids, todo[k], t))
         /\ Sole(pc[k], job[k], copy[k].ids, todo[k], row.ids)
<1>1. \A j \in Workers : pc[j] # "idle" => j = k
  BY DEF DInv, HInv, AloneOK
<1>2. \A j \in Workers : Knows(pc[j], copy[j].ids, todo[j], t) => j = k
  BY <1>1 DEF Knows
<1>3. QED
  BY <1>2 DEF DInv, CountOK, SoleOK

LEMMA StartCounts ==
  ASSUME DInv, HInv', NEW k \in Workers, NEW what, NEW where, NEW order, NEW kinds,
         Take(k, what, where, order, kinds), OnlyOf(k), Is(k, where, what, order, kinds, got[k]),
         order.ids = Seen(k).ids, row'.ids = row.ids, row'.version # Absent,
         UNCHANGED open \/ base'.row = row,
         KindsLeft(what, kinds), where \notin {"idle", "post"},
         docs' = docs, faults' = faults,
         what \in {"sync", "push"} => \A i \in DOMAIN kinds : order.ids[kinds[i]] = Absent
  PROVE  DInv'
<1>1. clash' = (clash \/ \E j \in Workers \ {k} : pc[j] # "idle") /\ pc[k] = "idle"
  BY DEF Take
<1>2. LeftOK' /\ BlankOK'
  BY DEF DInv, LeftOK, OnlyOf, Is, BlankOK, Blank, open
<1>3. ASSUME ~clash'
      PROVE  /\ ~clash /\ \A j \in Workers : pc[j] = "idle"
             /\ \A j \in Workers \ {k} : pc'[j] = "idle"
             /\ order.ids = row.ids
  BY <1>1, <1>3, SeenAlone DEF OnlyOf, DInv, HInv
<1>4. ASSUME ~clash'
      PROVE  Sole(where, what, order.ids, kinds, row.ids)
  BY <1>3, <1>4 DEF Sole
<1>5. SoleOK'
  BY <1>3, <1>4 DEF SoleOK, Is
<1>6. CountOK'
  <2>1. SUFFICES ASSUME ~clash', NEW t \in Kinds
                 PROVE  Counted(Len(docs'[t]), faults',
                                row'.ids[t] # Absent \/
                                \E j \in Workers : Knows(pc'[j], copy'[j].ids, todo'[j], t))
    BY DEF CountOK
  <2>2. \A j \in Workers : ~Knows(pc[j], copy[j].ids, todo[j], t)
    BY <1>3, <2>1 DEF Knows
  <2>3. Counted(Len(docs[t]), faults, row.ids[t] # Absent)
    BY <1>3, <2>1, <2>2 DEF DInv, CountOK, Counted
  <2>4. QED
    BY <2>3 DEF Counted
<1>7. PaidOK'
  BY <1>3 DEF PaidOK, Paid, Is
<1>8. QED
  BY <1>2, <1>5, <1>6, <1>7 DEF DInv

LEMMA StepCounts ==
  ASSUME DInv, HInv', NEW k \in Workers, StepsOn(k),
         row'.version # Absent \/ (row' = base.row /\ txn # NoOne),
         KindsLeft(job'[k], todo'[k]),
         ~clash /\ pc'[k] # "idle" => Sole(pc'[k], job'[k], copy'[k].ids, todo'[k], row'.ids),
         ~clash => \A t \in Kinds :
           Counted(Len(docs'[t]), faults',
                   row'.ids[t] # Absent \/ Knows(pc'[k], copy'[k].ids, todo'[k], t)),
         ~clash => Paid(pc'[k], got'[k], docs', faults')
  PROVE  DInv'
<1>1. LeftOK'
  BY DEF DInv, LeftOK, StepsOn, OnlyOf
<1>2. BlankOK'
  BY DEF DInv, BlankOK, Blank, StepsOn
<1>3. clash' = clash
  BY DEF StepsOn
<1>4. ASSUME ~clash
      PROVE  \A j \in Workers \ {k} : pc'[j] = "idle"
  BY <1>4 DEF DInv, HInv, AloneOK, StepsOn, OnlyOf
<1>5. SoleOK'
  BY <1>3, <1>4 DEF SoleOK
<1>6. CountOK'
  <2>1. SUFFICES ASSUME ~clash, NEW t \in Kinds
                 PROVE  Counted(Len(docs'[t]), faults',
                                row'.ids[t] # Absent \/
                                \E j \in Workers : Knows(pc'[j], copy'[j].ids, todo'[j], t))
    BY <1>3 DEF CountOK
  <2>2. QED
    BY <2>1 DEF Counted
<1>7. PaidOK'
  BY <1>3, <1>4 DEF PaidOK, Paid
<1>8. QED
  BY <1>1, <1>2, <1>5, <1>6, <1>7 DEF DInv

LEMMA UpsertCounts ==
  ASSUME DInv, HInv', NEW k \in Workers, Upsert(k),
         UNCHANGED open \/ (txn' = k /\ base' = [row |-> row, log |-> log])
  PROVE  DInv'
<1>1. GInv
  BY DEF DInv, HInv
<1>2. row' = Newer /\ txn = NoOne /\ Newer.ids = row.ids /\ Newer.version # Absent
  BY <1>1, UpsertTakes
<1>3. Seen(k) = row
  BY <1>2 DEF Seen
<1>4. PICK what \in {"sync", "update"}, where \in {"begin", "leave"}, kinds \in Seq(Kinds) :
        /\ Take(k, what, where, Newer, kinds)
        /\ OnlyOf(k) /\ Is(k, where, what, Newer, kinds, got[k])
        /\ what = "sync" => row.version = Absent /\ kinds = Targets
  BY <1>1, UpsertTakes
<1>5. KindsLeft(what, kinds)
  BY <1>4 DEF KindsLeft, Targets
<1>6. what \in {"sync", "push"} => \A i \in DOMAIN kinds : Newer.ids[kinds[i]] = Absent
  BY <1>2, <1>4 DEF DInv, BlankOK, Blank
<1>7. docs' = docs /\ faults' = faults
  BY <1>4 DEF Take
<1>8. UNCHANGED open \/ base'.row = row
  OBVIOUS
<1>9. QED
  BY <1>2, <1>3, <1>4, <1>5, <1>6, <1>7, <1>8, StartCounts

LEMMA UpsertsCounts ==
  ASSUME DInv, HInv', NEW k \in Workers, Webhook(k) \/ Import(k) PROVE DInv'
BY UpsertCounts DEF Webhook, Import

LEMMA PushCounts ==
  ASSUME DInv, HInv', NEW k \in Workers, NEW t \in Kinds, Push(k, t) PROVE DInv'
<1>1. /\ row' = row /\ Take(k, "push", "call", Seen(k), <<t>>) /\ Seen(k).ids[t] = Absent
      /\ Visible(k) /\ UNCHANGED open /\ pc[k] = "idle"
  BY DEF Push, Pushable, Take
<1>2. GInv /\ Seen(k) \in Rows /\ <<t>> \in Seq(Kinds) /\ row.version # Absent
  BY <1>1, SeenTypes, Short DEF DInv, HInv
<1>3. OnlyOf(k) /\ Is(k, "call", "push", Seen(k), <<t>>, got[k])
  BY <1>1, <1>2, TypeParts, TakeTypes DEF GInv, Points, Jobs
<1>4. \A i \in DOMAIN <<t>> : Seen(k).ids[<<t>>[i]] = Absent
  BY <1>1, Short
<1>5. docs' = docs /\ faults' = faults /\ KindsLeft("push", <<t>>)
  BY <1>1 DEF Take, KindsLeft
<1>6. QED
  BY <1>1, <1>2, <1>3, <1>4, <1>5, StartCounts

LEMMA TouchCounts ==
  ASSUME DInv, HInv', NEW k \in Workers, Move(k) \/ Edit(k) PROVE DInv'
<1>1. GInv /\ row' = row /\ UNCHANGED open /\ Visible(k)
  BY TouchTakes DEF DInv, HInv
<1>2. PICK what \in {"move", "edit"}, order \in Rows :
        /\ Take(k, what, "save", order, <<>>)
        /\ OnlyOf(k) /\ Is(k, "save", what, order, <<>>, got[k])
        /\ order.ids = Seen(k).ids
  BY <1>1, TouchTakes
<1>3. /\ docs' = docs /\ faults' = faults /\ KindsLeft(what, <<>>) /\ pc[k] = "idle"
  BY <1>2 DEF Take, KindsLeft
<1>4. row.version # Absent
  BY <1>1, <1>3, SeenTypes
<1>5. QED
  BY <1>1, <1>2, <1>3, <1>4, StartCounts

\* Numbers of documents and of faults.
LEMMA Amounts ==
  ASSUME DInv
  PROVE  faults \in Nat /\ \A t \in Kinds : Len(docs[t]) \in Nat /\ docs[t] \in Seq(Documents)
<1>1. faults \in 0..MaxFaults /\ docs \in [Kinds -> Seq(Documents)]
  BY TypeParts DEF DInv, HInv, GInv, SharedOK
<1>2. QED
  BY <1>1, Numbers

\* A fault pays for whatever is forgotten with it.
LEMMA FaultPays ==
  ASSUME DInv, ~clash, NEW k \in Workers, pc[k] # "idle", NEW t \in Kinds, NEW known,
         faults' = faults + 1
  PROVE  Counted(Len(docs[t]), faults', known)
<1>1. Len(docs[t]) <= faults + 1
  BY Counting, Amounts DEF Counted
<1>2. QED
  BY <1>1 DEF Counted

\* A step without a fault or a new document forgets nothing.
LEMMA NothingForgotten ==
  ASSUME DInv, ~clash, NEW k \in Workers, pc[k] # "idle", NEW t \in Kinds, NEW known,
         (row.ids[t] # Absent \/ Knows(pc[k], copy[k].ids, todo[k], t)) => known
  PROVE  Counted(Len(docs[t]), faults, known)
BY Counting DEF Counted

LEMMA SaveCounts == ASSUME DInv, HInv', NEW k \in Workers, Save(k) PROVE DInv'
<1>1. pc[k] = "save" /\ row' = copy[k] /\ clash' = clash /\ Leave(k) /\ docs' = docs
      /\ faults' = faults /\ GInv /\ txn' = txn /\ base' = base
  BY DEF Save, past, open, DInv, HInv
<1>2. OnlyOf(k) /\ Is(k, "idle", "none", NoRow, <<>>, Absent)
  BY <1>1, Working, LeaveTypes
<1>3. row'.version # Absent /\ KindsLeft("none", <<>>)
  BY <1>1, Working DEF KindsLeft
<1>4. ASSUME ~clash, NEW t \in Kinds
      PROVE  Counted(Len(docs[t]), faults, copy[k].ids[t] # Absent)
  <2>1. (row.ids[t] # Absent \/ Knows(pc[k], copy[k].ids, todo[k], t)) =>
          copy[k].ids[t] # Absent
    BY <1>1, <1>4, Counting DEF Sole, Knows
  <2>2. QED
    BY <1>1, <1>4, <2>1, NothingForgotten
<1>5. \A t \in Kinds : ~Knows("idle", NoRow.ids, <<>>, t)
  BY DEF Knows
<1>6. ~clash => \A t \in Kinds :
        Counted(Len(docs'[t]), faults',
                row'.ids[t] # Absent \/ Knows(pc'[k], copy'[k].ids, todo'[k], t))
  BY <1>1, <1>2, <1>4 DEF Counted, Is
<1>7. QED
  BY <1>1, <1>2, <1>3, <1>6, StepCounts DEF StepsOn, Is, Paid

\* A step between two points of a request, after which the worker knows what it
\* knew; a document that is made counts as known or as lost to a fault.
LEMMA PointCounts ==
  ASSUME DInv, HInv', NEW k \in Workers, NEW p \in Busy, NEW id, pc[k] \in Busy,
         OnlyOf(k), Is(k, p, job[k], copy[k], todo[k], id),
         clash' = clash, txn' = txn, base' = base,
         row'.ids = row.ids, row'.version = row.version,
         ~clash => \A t \in Kinds :
           Counted(Len(docs'[t]), faults',
                   row.ids[t] # Absent \/ Knows(p, copy[k].ids, todo[k], t)),
         ~clash => Paid(p, id, docs', faults')
  PROVE  DInv'
<1>1. StepsOn(k)
  BY DEF StepsOn, Is, Busy
<1>2. GInv /\ row.version # Absent
  BY Working DEF DInv, HInv, Busy
<1>3. KindsLeft(job[k], todo[k])
  BY DEF DInv, LeftOK
<1>4. ~clash => Sole(p, job[k], copy[k].ids, todo[k], row.ids)
  BY DEF DInv, SoleOK, Sole, Busy
<1>5. QED
  BY <1>1, <1>2, <1>3, <1>4, StepCounts DEF Is

LEMMA NothingToPay ==
  ASSUME NEW p, p # "post" PROVE \A id, d, f : Paid(p, id, d, f)
BY DEF Paid

LEMMA BeginCounts ==
  ASSUME DInv, HInv', NEW k \in Workers, Begin(k) \/ ReadToken(k) PROVE DInv'
<1>1. GInv
  BY DEF DInv, HInv
<1>2. ASSUME NEW p \in {"read", "call"}, pc[k] \in {"begin", "read"}, OnlyOf(k),
             Is(k, p, job[k], copy[k], todo[k], got[k]), clash' = clash, txn' = txn,
             base' = base, row'.ids = row.ids, row'.version = row.version, docs' = docs,
             faults' = faults
      PROVE  DInv'
  <2>1. ASSUME ~clash, NEW t \in Kinds
        PROVE  Counted(Len(docs[t]), faults,
                       row.ids[t] # Absent \/ Knows(p, copy[k].ids, todo[k], t))
    <3>1. Knows(pc[k], copy[k].ids, todo[k], t) => Knows(p, copy[k].ids, todo[k], t)
      BY <1>2 DEF Knows, Busy
    <3>2. QED
      BY <1>2, <2>1, <3>1, NothingForgotten
  <2>2. Paid(p, got[k], docs', faults') /\ p \in Busy /\ pc[k] \in Busy
    BY <1>2, NothingToPay DEF Busy
  <2>3. QED
    BY <1>2, <2>1, <2>2, PointCounts
<1>3. CASE Begin(k)
  <2>1. PICK where \in {"read", "call"} : Goto(k, where)
    BY <1>3 DEF Begin, NextStep
  <2>2. /\ pc[k] = "begin" /\ row' = [row EXCEPT !.sync = "PENDING"] /\ clash' = clash
        /\ docs' = docs /\ faults' = faults /\ txn' = txn /\ base' = base
    BY <1>3 DEF Begin, past, open
  <2>3. row \in Rows /\ ~(tries[k] > 0)
    BY <1>1, <2>2, Working DEF RegistersOK
  <2>4. OnlyOf(k) /\ Is(k, where, job[k], copy[k], todo[k], got[k])
    BY <1>1, <2>1, <2>2, <2>3, Working, GotoTypes DEF Points
  <2>5. row'.ids = row.ids /\ row'.version = row.version
    BY <2>2, <2>3 DEF Rows
  <2>6. QED
    BY <1>2, <2>2, <2>4, <2>5 DEF Busy
<1>4. CASE ReadToken(k)
  <2>1. /\ pc[k] = "read" /\ pc' = [pc EXCEPT ![k] = "call"] /\ row' = row /\ clash' = clash
        /\ job' = job /\ copy' = copy /\ todo' = todo /\ got' = got
        /\ docs' = docs /\ faults' = faults /\ txn' = txn /\ base' = base
    BY <1>4 DEF ReadToken, past, open
  <2>2. OnlyOf(k) /\ Is(k, "call", job[k], copy[k], todo[k], got[k])
    BY <1>1, <2>1, Working DEF OnlyOf, RegistersOK, Is
  <2>3. QED
    BY <1>2, <2>1, <2>2 DEF Busy
<1>5. QED
  BY <1>3, <1>4

\* A call that fails with a fault.
LEMMA FaultCounts ==
  ASSUME DInv, HInv', NEW k \in Workers, NEW p \in Busy, pc[k] \in Busy, OnlyOf(k),
         Is(k, p, job[k], copy[k], todo[k], got[k]), clash' = clash, row' = row,
         txn' = txn, base' = base, faults' = faults + 1,
         ~clash => \A t \in Kinds :
           Len(docs'[t]) = Len(docs[t]) \/ (Len(docs'[t]) = Len(docs[t]) + 1 /\
                                            Len(docs[t]) <= faults)
  PROVE  DInv'
<1>1. ASSUME ~clash, NEW t \in Kinds, NEW known
      PROVE  Counted(Len(docs'[t]), faults', known)
  <2>1. Counted(Len(docs[t]), faults + 1, known)
    BY <1>1, FaultPays DEF Busy
  <2>2. faults \in Nat /\ Len(docs[t]) \in Nat
    BY Amounts
  <2>3. CASE Len(docs'[t]) = Len(docs[t])
    BY <2>1, <2>3
  <2>4. CASE Len(docs'[t]) = Len(docs[t]) + 1 /\ Len(docs[t]) <= faults
    BY <2>2, <2>4 DEF Counted
  <2>5. QED
    BY <1>1, <2>3, <2>4
<1>2. ASSUME ~clash
      PROVE  Paid(p, got[k], docs', faults')
  <2>1. "inv" \in Kinds
    BY DEF Kinds
  <2>2. Counted(Len(docs'["inv"]), faults', FALSE)
    BY <1>1, <1>2, <2>1
  <2>3. QED
    BY <2>2 DEF Counted, Paid
<1>3. QED
  BY <1>1, <1>2, PointCounts

LEMMA CreateCounts == ASSUME DInv, HInv', NEW k \in Workers, Create(k) PROVE DInv'
<1> DEFINE t == Kind(k)
           done == [docs EXCEPT ![t] = Append(@, Document(k))]
           where == IF t = "inv" THEN "post" ELSE "record"
<1>1. /\ pc[k] = "call" /\ job[k] \in {"sync", "push"} /\ row' = row /\ clash' = clash
      /\ txn' = txn /\ base' = base
      /\ \/ docs' = done /\ Answered(k, Len(docs[t]) + 1, where)
         \/ Lost(k, done)
         \/ Refused(k)
  BY DEF Create, open
<1>2. GInv
  BY DEF DInv, HInv
<1>3. /\ t \in Kinds /\ t = Head(todo[k]) /\ t = todo[k][1] /\ 1 \in DOMAIN todo[k]
  BY <1>1, <1>2, KindTypes DEF Busy, Kind
<1>4. /\ Len(done[t]) = Len(docs[t]) + 1 /\ Len(docs[t]) + 1 \in Nat
      /\ \A u \in Kinds \ {t} : done[u] = docs[u]
  BY <1>1, <1>2, <1>3, Created
<1>4a. t = "inv" => done["inv"][Len(docs["inv"]) + 1].posted = FALSE
  <2>1. docs \in [Kinds -> Seq(Documents)]
    BY <1>1, <1>2, Working
  <2>2. QED
    BY <1>3, <2>1 DEF Document
<1> HIDE DEF t, done
<1>5. ASSUME ~clash
      PROVE  Len(docs[t]) <= faults
  <2>1. row.ids[t] = Absent /\ copy[k].ids[t] = Absent
    BY <1>1, <1>3, <1>5, Counting DEF Sole, Busy
  <2>2. ~Knows(pc[k], copy[k].ids, todo[k], t)
    BY <1>1, <2>1 DEF Knows
  <2>3. QED
    BY <1>1, <1>3, <1>5, <2>1, <2>2, Counting DEF Counted
<1>6. CASE docs' = done /\ Answered(k, Len(docs[t]) + 1, where)
  <2>1. /\ OnlyOf(k) /\ faults' = faults
        /\ Is(k, where, job[k], copy[k], todo[k], Len(docs[t]) + 1)
    BY <1>1, <1>2, <1>4, <1>6, Working, AnsweredTypes DEF Points
  <2>2. ASSUME ~clash, NEW u \in Kinds
        PROVE  Counted(Len(done[u]), faults,
                       row.ids[u] # Absent \/ Knows(where, copy[k].ids, todo[k], u))
    <3>1. CASE u = t
      <4>1. Knows(where, copy[k].ids, todo[k], u)
        BY <1>3, <3>1 DEF Knows
      <4>2. Len(done[u]) <= faults + 1
        BY <1>3, <1>4, <1>5, <2>2, <3>1, Amounts
      <4>3. QED
        BY <4>1, <4>2 DEF Counted
    <3>2. CASE u # t
      <4>1. done[u] = docs[u]
        BY <1>4, <2>2, <3>2
      <4>2. Knows(pc[k], copy[k].ids, todo[k], u) => Knows(where, copy[k].ids, todo[k], u)
        BY <1>1 DEF Knows
      <4>3. QED
        BY <1>1, <2>2, <4>1, <4>2, NothingForgotten
    <3>3. QED
      BY <3>1, <3>2
  <2>3. where \in Busy
    BY DEF Busy
  <2>4. Paid(where, Len(docs[t]) + 1, docs', faults')
    BY <1>6, <1>4a DEF Paid
  <2> HIDE DEF where
  <2>5. QED
    BY <1>1, <1>6, <2>1, <2>2, <2>3, <2>4, PointCounts DEF Busy
<1>7. CASE Lost(k, done)
  <2>1. /\ OnlyOf(k) /\ docs' = done /\ faults' = faults + 1
        /\ \E p \in {"call", "fail"} : Is(k, p, job[k], copy[k], todo[k], got[k])
    BY <1>1, <1>2, <1>7, Working, LostTypes DEF Lost, Fault
  <2>2. ASSUME ~clash, NEW u \in Kinds
        PROVE  \/ Len(docs'[u]) = Len(docs[u])
               \/ Len(docs'[u]) = Len(docs[u]) + 1 /\ Len(docs[u]) <= faults
    BY <1>4, <1>5, <2>1, <2>2
  <2>3. QED
    BY <1>1, <2>1, <2>2, FaultCounts DEF Busy
<1>8. CASE Refused(k)
  <2>1. OnlyOf(k) /\ docs' = docs /\ Is(k, "fail", job[k], copy[k], todo[k], got[k])
    BY <1>1, <1>2, <1>8, Working, RefusedTypes
  <2>2. faults' = faults + 1
    BY <1>8 DEF Refused, Fault
  <2>3. QED
    BY <1>1, <2>1, <2>2, FaultCounts DEF Busy
<1>9. QED
  BY <1>1, <1>6, <1>7, <1>8

LEMMA PostCounts == ASSUME DInv, HInv', NEW k \in Workers, Post(k) PROVE DInv'
<1>1. /\ pc[k] = "post" /\ row' = row /\ clash' = clash /\ GInv /\ txn' = txn /\ base' = base
      /\ \/ docs' = PostedDocs(k) /\ Answered(k, got[k], "record")
         \/ docs["inv"][got[k]].posted /\ Goto(k, "fail") /\ UNCHANGED <<docs, faults>>
         \/ Lost(k, PostedDocs(k))
         \/ Refused(k)
  BY DEF Post, DInv, HInv, open
<1> DEFINE done == PostedDocs(k)
<1>2. \A u \in Kinds : Len(done[u]) = Len(docs[u])
  BY <1>1, Posted
<1>3. got[k] \in Nat /\ Head(todo[k]) = "inv"
  BY <1>1, Working DEF Holds
<1> HIDE DEF done
<1>4. done = PostedDocs(k)
  BY DEF done
<1>5. ASSUME ~clash, NEW u \in Kinds
      PROVE  Counted(Len(docs[u]), faults,
                     row.ids[u] # Absent \/ Knows("record", copy[k].ids, todo[k], u))
  <2>1. Knows(pc[k], copy[k].ids, todo[k], u) => Knows("record", copy[k].ids, todo[k], u)
    BY <1>1 DEF Knows
  <2>2. QED
    BY <1>1, <1>5, <2>1, NothingForgotten
<1>6. CASE docs' = done /\ Answered(k, got[k], "record")
  <2>1. OnlyOf(k) /\ faults' = faults /\ Is(k, "record", job[k], copy[k], todo[k], got[k])
    BY <1>1, <1>3, <1>6, Working, AnsweredTypes DEF Points
  <2>2. Paid("record", got[k], docs', faults') /\ "record" \in Busy /\ pc[k] \in Busy
    BY <1>1, NothingToPay DEF Busy
  <2>3. QED
    BY <1>1, <1>2, <1>5, <1>6, <2>1, <2>2, PointCounts
<1>7. CASE Lost(k, done)
  <2>1. /\ OnlyOf(k) /\ docs' = done /\ faults' = faults + 1
        /\ \E p \in {"post", "fail"} : Is(k, p, job[k], copy[k], todo[k], got[k])
    BY <1>1, <1>7, Working, LostTypes DEF Lost, Fault
  <2>2. QED
    BY <1>1, <1>2, <2>1, FaultCounts DEF Busy
<1>8. CASE Refused(k)
  <2>1. OnlyOf(k) /\ docs' = docs /\ Is(k, "fail", job[k], copy[k], todo[k], got[k])
    BY <1>1, <1>8, Working, RefusedTypes
  <2>2. faults' = faults + 1
    BY <1>8 DEF Refused, Fault
  <2>3. QED
    BY <1>1, <2>1, <2>2, FaultCounts DEF Busy
<1>9. CASE docs["inv"][got[k]].posted /\ Goto(k, "fail") /\ UNCHANGED <<docs, faults>>
  <2>1. OnlyOf(k) /\ Is(k, "fail", job[k], copy[k], todo[k], got[k])
    BY <1>1, <1>9, Working, GotoTypes DEF Points
  <2>2. ASSUME ~clash
        PROVE  Len(docs["inv"]) <= faults
    <3>1. Paid(pc[k], got[k], docs, faults)
      BY <2>2 DEF DInv, PaidOK
    <3>2. QED
      BY <1>1, <1>9, <3>1 DEF Paid
  <2>3. ASSUME ~clash, NEW u \in Kinds
        PROVE  Counted(Len(docs[u]), faults,
                       row.ids[u] # Absent \/ Knows("fail", copy[k].ids, todo[k], u))
    <3>1. CASE u = "inv"
      BY <2>2, <2>3, <3>1 DEF Counted
    <3>2. CASE u # "inv"
      <4>1. Knows(pc[k], copy[k].ids, todo[k], u) => Knows("fail", copy[k].ids, todo[k], u)
        BY <1>1, <1>3, <3>2 DEF Knows
      <4>2. QED
        BY <1>1, <2>3, <4>1, NothingForgotten
    <3>3. QED
      BY <3>1, <3>2
  <2>4. Paid("fail", got[k], docs', faults') /\ "fail" \in Busy /\ pc[k] \in Busy
    BY <1>1, NothingToPay DEF Busy
  <2>5. QED
    BY <1>1, <1>9, <2>1, <2>3, <2>4, PointCounts
<1>10. QED
  BY <1>1, <1>4, <1>6, <1>7, <1>8, <1>9

\* An update replaces one document; it makes none.
LEMMA RewrittenLengths ==
  ASSUME GInv, NEW k \in Workers, pc[k] = "call", job[k] = "update", NEW done,
         done = [docs EXCEPT ![Kind(k)][copy[k].ids[Kind(k)]] =
                   [Document(k) EXCEPT !.posted = docs[Kind(k)][copy[k].ids[Kind(k)]].posted,
                      !.token = IF Kind(k) = "qb" THEN token[k] + 1 ELSE 0]]
  PROVE  copy[k].ids[Kind(k)] \in Nat /\ \A u \in Kinds : Len(done[u]) = Len(docs[u])
<1>1. copy[k].ids[Kind(k)] \in Nat
  BY UpdatedId DEF Busy
<1>2. \A u \in Kinds : Len(done[u]) = Len(docs[u])
  BY Rewritten
<1>3. QED
  BY <1>1, <1>2

LEMMA RewriteCounts == ASSUME DInv, HInv', NEW k \in Workers, Rewrite(k) PROVE DInv'
<1> DEFINE t == Kind(k)
           id == copy[k].ids[t]
           done == [docs EXCEPT ![t][id] =
                      [Document(k) EXCEPT !.posted = docs[t][id].posted,
                         !.token = IF t = "qb" THEN token[k] + 1 ELSE 0]]
<1>1. /\ pc[k] = "call" /\ job[k] = "update" /\ row' = row /\ clash' = clash
      /\ txn' = txn /\ base' = base
      /\ \/ docs' = done /\ Answered(k, id, "record")
         \/ Lost(k, done)
         \/ Refused(k)
         \/ Goto(k, "fail") /\ UNCHANGED <<docs, faults>>
  BY DEF Rewrite, open
<1>2. GInv
  BY DEF DInv, HInv
<1>3. id \in Nat /\ \A u \in Kinds : Len(done[u]) = Len(docs[u])
  <2>1. pc[k] = "call" /\ job[k] = "update"
    BY <1>1
  <2>2. QED
    BY ONLY <1>2, <2>1, k \in Workers, RewrittenLengths, ZenonT(60)
<1> HIDE DEF t, id, done
<1>4. ASSUME ~clash, NEW u \in Kinds, NEW p
      PROVE  /\ p # "idle" => Counted(Len(docs[u]), faults,
                               row.ids[u] # Absent \/ Knows(p, copy[k].ids, todo[k], u))
  <2>1. p # "idle" /\ Knows(pc[k], copy[k].ids, todo[k], u) =>
          Knows(p, copy[k].ids, todo[k], u)
    BY <1>1 DEF Knows
  <2>2. QED
    BY <1>1, <1>4, <2>1, NothingForgotten
<1>5. CASE docs' = done /\ Answered(k, id, "record")
  <2>1. OnlyOf(k) /\ faults' = faults /\ Is(k, "record", job[k], copy[k], todo[k], id)
    BY <1>1, <1>2, <1>3, <1>5, Working, AnsweredTypes DEF Points
  <2>2. Paid("record", id, docs', faults') /\ "record" \in Busy /\ pc[k] \in Busy
    BY <1>1, NothingToPay DEF Busy
  <2>3. QED
    BY <1>1, <1>3, <1>4, <1>5, <2>1, <2>2, PointCounts
<1>6. CASE Lost(k, done)
  <2>1. /\ OnlyOf(k) /\ docs' = done /\ faults' = faults + 1
        /\ \E p \in {"call", "fail"} : Is(k, p, job[k], copy[k], todo[k], got[k])
    BY <1>1, <1>2, <1>6, Working, LostTypes DEF Lost, Fault
  <2>2. QED
    BY <1>1, <1>3, <2>1, FaultCounts DEF Busy
<1>7. CASE Refused(k)
  <2>1. OnlyOf(k) /\ docs' = docs /\ Is(k, "fail", job[k], copy[k], todo[k], got[k])
    BY <1>1, <1>2, <1>7, Working, RefusedTypes
  <2>2. faults' = faults + 1
    BY <1>7 DEF Refused, Fault
  <2>3. QED
    BY <1>1, <2>1, <2>2, FaultCounts DEF Busy
<1>8. CASE Goto(k, "fail") /\ UNCHANGED <<docs, faults>>
  <2>1. OnlyOf(k) /\ Is(k, "fail", job[k], copy[k], todo[k], got[k])
    BY <1>1, <1>2, <1>8, Working, GotoTypes DEF Points
  <2>2. Paid("fail", got[k], docs', faults') /\ "fail" \in Busy /\ pc[k] \in Busy
    BY <1>1, NothingToPay DEF Busy
  <2>3. QED
    BY <1>1, <1>4, <1>8, <2>1, <2>2, PointCounts
<1>9. QED
  BY <1>1, <1>5, <1>6, <1>7, <1>8

\* A worker that stops for good, or waits for the commit of its import: what it
\* knew is in the row.
LEMMA OverCounts ==
  ASSUME DInv, HInv', NEW k \in Workers, pc[k] \in {"record", "fail", "leave"},
         Over(k), clash' = clash, txn' = txn, base' = base, row'.version # Absent, docs' = docs, faults' = faults,
         ~clash => \A t \in Kinds :
           (row.ids[t] # Absent \/ Knows(pc[k], copy[k].ids, todo[k], t)) =>
             row'.ids[t] # Absent
  PROVE  DInv'
<1>1. GInv /\ RegistersOK
  BY Working DEF DInv, HInv
<1>2. /\ OnlyOf(k)
      /\ \/ Is(k, "commit", job[k], copy[k], todo[k], got[k])
         \/ Is(k, "idle", "none", NoRow, <<>>, Absent)
  BY <1>1, OverTypes
<1>3. StepsOn(k)
  BY <1>2 DEF StepsOn, Is
<1>4. KindsLeft(job'[k], todo'[k])
  BY <1>2 DEF DInv, LeftOK, KindsLeft, Is
<1>5. ~clash /\ pc'[k] # "idle" => Sole(pc'[k], job'[k], copy'[k].ids, todo'[k], row'.ids)
  <2>1. SUFFICES ASSUME ~clash, Is(k, "commit", job[k], copy[k], todo[k], got[k])
                 PROVE  Sole("commit", job[k], copy[k].ids, todo[k], row'.ids)
    BY <1>2 DEF Is
  <2>2. \A t \in Kinds : copy[k].ids[t] # Absent => row'.ids[t] # Absent
    BY <2>1 DEF Knows
  <2>3. QED
    BY <2>2 DEF Sole, Busy
<1>6. ASSUME ~clash, NEW t \in Kinds
      PROVE  Counted(Len(docs[t]), faults,
                     row'.ids[t] # Absent \/ Knows(pc'[k], copy'[k].ids, todo'[k], t))
  BY <1>6, NothingForgotten
<1>7. Paid(pc'[k], got'[k], docs', faults')
  BY <1>2 DEF Paid, Is
<1>8. QED
  BY <1>3, <1>4, <1>5, <1>6, <1>7, StepCounts

LEMMA EndCounts == ASSUME DInv, HInv', NEW k \in Workers, End(k) PROVE DInv'
<1>1. pc[k] = "leave" /\ row' = row /\ clash' = clash /\ Over(k) /\ docs' = docs
      /\ faults' = faults /\ GInv /\ txn' = txn /\ base' = base
  BY DEF End, past, open, DInv, HInv
<1>2. row'.version # Absent /\ job[k] = "update"
  BY <1>1, Working DEF Holds
<1>3. ASSUME ~clash, NEW t \in Kinds
      PROVE  (row.ids[t] # Absent \/ Knows(pc[k], copy[k].ids, todo[k], t)) =>
               row'.ids[t] # Absent
  BY <1>1, <1>2, <1>3, Counting DEF Sole, Knows
<1>4. QED
  BY <1>1, <1>2, <1>3, OverCounts

\* What a worker knew when its last document was recorded is in the row.
LEMMA RecordedAll ==
  ASSUME DInv, NEW k \in Workers, pc[k] = "record", ~clash, NEW t \in Kinds,
         row.ids[t] # Absent \/ Knows(pc[k], copy[k].ids, todo[k], t)
  PROVE  RecordIds(k)[t] # Absent
<1>1. /\ GInv /\ Kind(k) \in Kinds /\ job[k] \in {"sync", "update", "push"}
      /\ Kind(k) = Head(todo[k]) /\ copy[k].ids \in [Kinds -> Nat]
  BY Working, KindTypes DEF DInv, HInv, Busy, Holds, Kind, Rows
<1>2. got[k] # Absent
  <2>1. got[k] \in DOMAIN docs[Kind(k)] /\ docs[Kind(k)] \in Seq(Documents)
    BY <1>1, Working DEF Holds, Kind
  <2>2. QED
    BY <2>1 DEF Absent
<1>3. Sole(pc[k], job[k], copy[k].ids, todo[k], row.ids)
  BY Counting
<1> DEFINE ids == [copy[k].ids EXCEPT ![Kind(k)] = got[k]]
<1>4. /\ ids[Kind(k)] # Absent
      /\ copy[k].ids[t] # Absent => ids[t] # Absent
  BY <1>1, <1>2
<1>5. RecordIds(k)[t] = IF t \in SavedIds(k) THEN ids[t] ELSE row.ids[t]
  BY DEF RecordIds, WithIds
<1>6. row.ids[t] # Absent => ids[t] # Absent
  BY <1>3, <1>4 DEF Sole
<1>7. t = Kind(k) /\ job[k] \in {"sync", "push"} => t \in SavedIds(k)
  BY <1>1 DEF SavedIds, Kinds
<1>8. t = Kind(k) /\ job[k] = "update" => row.ids[t] # Absent
  BY <1>1, <1>3, UpdatedId DEF Sole, Busy
<1>9. copy[k].ids[t] # Absent /\ row.ids[t] = Absent => t \in SavedIds(k)
  BY <1>1, <1>3 DEF Sole, SavedIds
<1> HIDE DEF ids
<1>10. CASE row.ids[t] # Absent
  BY <1>5, <1>6, <1>10
<1>11. CASE row.ids[t] = Absent /\ copy[k].ids[t] # Absent
  BY <1>4, <1>5, <1>9, <1>11
<1>12. CASE row.ids[t] = Absent /\ t = Kind(k)
  BY <1>1, <1>4, <1>5, <1>7, <1>8, <1>12
<1>13. QED
  BY <1>1, <1>10, <1>11, <1>12 DEF Knows

LEMMA RecordCounts == ASSUME DInv, HInv', NEW k \in Workers, Record(k) PROVE DInv'
<1>1. pc[k] = "record" /\ clash' = clash /\ GInv /\ docs' = docs /\ faults' = faults
      /\ txn' = txn /\ base' = base
  BY DEF Record, past, open, DInv, HInv
<1>2. /\ RegistersOK /\ row \in Rows /\ copy[k] \in Rows /\ Kind(k) \in Kinds
      /\ Kind(k) = Head(todo[k]) /\ row.version # Absent
  BY <1>1, Working, KindTypes DEF Busy, Kind
<1>3. CASE Tail(todo[k]) # <<>>
  <2> DEFINE order == [copy[k] EXCEPT !.ids[Kind(k)] = got[k]]
             ids == [copy[k].ids EXCEPT ![Kind(k)] = got[k]]
  <2>1. /\ copy' = [copy EXCEPT ![k] = order]
        /\ todo' = [todo EXCEPT ![k] = Tail(@)]
        /\ got' = [got EXCEPT ![k] = Absent] /\ pc' = [pc EXCEPT ![k] = "call"]
        /\ row' = row /\ job' = job
    BY <1>3 DEF Record
  <2>2. got[k] # Absent
    <3>1. got[k] \in DOMAIN docs[Kind(k)] /\ docs[Kind(k)] \in Seq(Documents)
      BY <1>1, <1>2, Working DEF Holds, Kind
    <3>2. QED
      BY <3>1 DEF Absent
  <2>3. copy[k].ids \in [Kinds -> Nat] /\ order.ids = ids
    BY <1>2 DEF Rows
  <2>4. /\ ids[Kind(k)] # Absent
        /\ \A t \in Kinds : t # Kind(k) => ids[t] = copy[k].ids[t]
    BY <1>2, <2>2, <2>3
  <2> HIDE DEF ids, order
  <2>5. OnlyOf(k) /\ Is(k, "call", job[k], order, Tail(todo[k]), Absent)
    BY <1>2, <2>1 DEF OnlyOf, RegistersOK, Is
  <2>6. KindsLeft(job[k], todo[k])
    BY DEF DInv, LeftOK
  <2>7. job[k] = "sync" => todo[k] = <<"so", "inv">> /\ Tail(todo[k]) = <<"inv">> /\
                           Kind(k) = "so"
    <3>1. "so" \in Kinds /\ "inv" \in Kinds /\ "qb" \in Kinds
      BY DEF Kinds
    <3>2. Tail(<<"inv">>) = <<>> /\ Tail(<<"qb">>) = <<>> /\ Tail(<<"so", "inv">>) = <<"inv">>
      BY <3>1, Tails
    <3>3. job[k] = "sync" => todo[k] = <<"so", "inv">>
      BY <1>3, <2>6, <3>2 DEF KindsLeft
    <3>4. todo[k] = <<"so", "inv">> => Kind(k) = "so"
      BY DEF Kind
    <3>5. QED
      BY <3>2, <3>3, <3>4
  <2>8. job[k] # "push"
    BY <1>3, <2>6, Tails DEF KindsLeft
  <2>9. KindsLeft(job[k], Tail(todo[k]))
    BY <2>7, <2>8 DEF KindsLeft
  <2>10. ~clash => Sole("call", job[k], ids, Tail(todo[k]), row.ids)
    <3>1. SUFFICES ASSUME ~clash
                   PROVE  Sole("call", job[k], ids, Tail(todo[k]), row.ids)
      OBVIOUS
    <3>2. Sole("record", job[k], copy[k].ids, todo[k], row.ids)
      BY <1>1, <3>1 DEF DInv, SoleOK
    <3>3. CASE job[k] = "sync"
      <4>1. /\ \A i \in DOMAIN todo[k] : row.ids[todo[k][i]] = Absent /\
                                         copy[k].ids[todo[k][i]] = Absent
        BY <3>2, <3>3 DEF Sole, Busy
      <4>2. row.ids["inv"] = Absent /\ copy[k].ids["inv"] = Absent
        <5>1. todo[k][2] = "inv" /\ 2 \in DOMAIN todo[k]
          BY <2>7, <3>3
        <5>2. QED
          BY <4>1, <5>1
      <4>3. ids["inv"] = Absent
        BY <2>4, <2>7, <3>3, <4>2 DEF Kinds
      <4>4. \A i \in DOMAIN <<"inv">> : <<"inv">>[i] = "inv"
        OBVIOUS
      <4>5. Head(<<"inv">>) = "inv" /\ Head(todo[k]) # "inv"
        BY <2>7, <3>3
      <4>6. /\ \A t \in Kinds : row.ids[t] # Absent => ids[t] # Absent
            /\ \A t \in Kinds : ids[t] # Absent => row.ids[t] # Absent \/ t = "so"
        BY <2>4, <2>7, <3>2, <3>3, <4>5 DEF Sole
      <4>7. QED
        BY <2>7, <3>3, <4>2, <4>3, <4>4, <4>5, <4>6 DEF Sole
    <3>4. CASE job[k] # "sync"
      <4>1. job[k] = "update"
        BY <1>1, <2>8, <3>4, Working DEF Holds, Busy
      <4>2. copy[k].ids[Kind(k)] # Absent
        BY <1>1, <4>1, UpdatedId DEF Busy
      <4>3. \A t \in Kinds : ids[t] # Absent <=> copy[k].ids[t] # Absent
        BY <2>4, <4>2
      <4>4. QED
        BY <3>2, <4>1, <4>3 DEF Sole
    <3>5. QED
      BY <3>3, <3>4
  <2>11. ASSUME ~clash, NEW t \in Kinds
         PROVE  Counted(Len(docs[t]), faults,
                        row.ids[t] # Absent \/ Knows("call", ids, Tail(todo[k]), t))
    <3>1. Knows(pc[k], copy[k].ids, todo[k], t) => Knows("call", ids, Tail(todo[k]), t)
      BY <1>1, <1>2, <2>4 DEF Knows
    <3>2. QED
      BY <1>1, <2>11, <3>1, NothingForgotten
  <2>12. QED
    BY <1>1, <1>2, <2>1, <2>3, <2>5, <2>9, <2>10, <2>11, StepCounts DEF StepsOn, Is, Paid
<1>4. CASE Tail(todo[k]) = <<>>
  <2>1. row' = [row EXCEPT !.sync = "SUCCESS", !.ids = RecordIds(k)] /\ Over(k)
    BY <1>4 DEF Record
  <2>2. row'.ids = RecordIds(k) /\ row'.version # Absent
    BY <1>2, <2>1 DEF Rows
  <2>3. QED
    BY <1>1, <2>1, <2>2, RecordedAll, OverCounts
<1>5. QED
  BY <1>3, <1>4

LEMMA FailCounts == ASSUME DInv, HInv', NEW k \in Workers, Fail(k) PROVE DInv'
<1>1. /\ pc[k] = "fail" /\ clash' = clash /\ GInv /\ Over(k) /\ docs' = docs
      /\ faults' = faults /\ txn' = txn /\ base' = base
      /\ row' = [row EXCEPT !.sync = "FAILED", !.ids = WithIds(KeptIds(k), copy[k].ids)]
  BY DEF Fail, past, open, DInv, HInv
<1>2. row \in Rows /\ row.version # Absent
  BY <1>1, Working
<1>3. row'.ids = WithIds(KeptIds(k), copy[k].ids) /\ row'.version # Absent
  BY <1>1, <1>2 DEF Rows
<1>4. ASSUME ~clash, NEW t \in Kinds,
             row.ids[t] # Absent \/ Knows(pc[k], copy[k].ids, todo[k], t)
      PROVE  row'.ids[t] # Absent
  <2>1. Sole(pc[k], job[k], copy[k].ids, todo[k], row.ids)
    BY <1>1, <1>4, Counting
  <2>2. copy[k].ids[t] # Absent
    BY <1>1, <1>4, <2>1 DEF Knows, Sole
  <2>3. row.ids[t] # Absent \/ t \in KeptIds(k)
    BY <2>1, <2>2 DEF Sole, KeptIds, Kind
  <2>4. row'.ids[t] = IF t \in KeptIds(k) THEN copy[k].ids[t] ELSE row.ids[t]
    BY <1>3 DEF WithIds
  <2>5. QED
    BY <2>2, <2>3, <2>4
<1>5. QED
  BY <1>1, <1>3, <1>4, OverCounts

LEMMA EndsCounts ==
  ASSUME DInv, HInv', NEW k \in Workers, Commit(k) \/ Die(k) PROVE DInv'
<1>1. /\ pc[k] # "idle" /\ Leave(k) /\ clash' = clash /\ docs' = docs /\ GInv
      /\ row' = row \/ (row' = base.row /\ txn # NoOne)
      /\ (txn' = txn /\ base' = base) \/ txn' = NoOne
      /\ \/ faults' = faults + 1
         \/ faults' = faults /\ row' = row /\ pc[k] = "commit"
  BY Numbers DEF Commit, Die, Fault, DInv, HInv, GInv, TxnOK, Undo, Close, open
<1>2. OnlyOf(k) /\ Is(k, "idle", "none", NoRow, <<>>, Absent) /\ row.version # Absent
  BY <1>1, Working, LeaveTypes
<1>3. KindsLeft("none", <<>>)
  BY DEF KindsLeft
<1>4. ASSUME ~clash, NEW t \in Kinds
      PROVE  Counted(Len(docs[t]), faults',
                     row'.ids[t] # Absent \/ Knows(pc'[k], copy'[k].ids, todo'[k], t))
  <2>1. CASE faults' = faults + 1
    BY <1>1, <1>4, <2>1, FaultPays
  <2>2. CASE faults' = faults /\ row' = row /\ pc[k] = "commit"
    <3>1. Knows(pc[k], copy[k].ids, todo[k], t) => row.ids[t] # Absent
      BY <1>1, <1>4, <2>2, Counting DEF Knows, Sole
    <3>2. QED
      BY <1>1, <1>4, <2>2, <3>1, NothingForgotten
  <2>3. QED
    BY <1>1, <2>1, <2>2
<1>5. QED
  BY <1>1, <1>2, <1>3, <1>4, StepCounts DEF StepsOn, Is, Paid

LEMMA StutterCounts == ASSUME DInv, UNCHANGED vars PROVE DInv'
BY StutterHonest DEF DInv, LeftOK, BlankOK, SoleOK, CountOK, PaidOK, vars, open, local, past

LEMMA NextCounts == ASSUME DInv, [Next]_vars PROVE DInv'
<1>1. HInv'
  BY NextHonest DEF DInv
<1>2. ASSUME NEW k \in Workers, NEW t \in Kinds, Push(k, t)
      PROVE  DInv'
  BY <1>1, <1>2, PushCounts
<1>3. ASSUME NEW k \in Workers, Step(k)
      PROVE  DInv'
  BY <1>1, <1>3, SaveCounts, EndCounts, BeginCounts, CreateCounts, PostCounts, RewriteCounts,
     RecordCounts, FailCounts, EndsCounts
  DEF Step
<1>4. ASSUME NEW k \in Workers,
             Webhook(k) \/ Import(k) \/ Move(k) \/ Edit(k) \/ Step(k) \/ Die(k) \/
             PushToQuickBooks(k) \/ CreateOdooSo(k) \/ CreateOdooInvoice(k)
      PROVE  DInv'
  <2>1. "so" \in Kinds /\ "inv" \in Kinds /\ "qb" \in Kinds
    BY DEF Kinds
  <2>2. QED
    BY <1>1, <1>2, <1>3, <1>4, <2>1, UpsertsCounts, TouchCounts, EndsCounts
    DEF PushToQuickBooks, CreateOdooSo, CreateOdooInvoice
<1>5. QED
  BY <1>4, StutterCounts DEF Next

LEMMA InitCounts == Init => DInv
<1>1. SUFFICES ASSUME Init PROVE DInv
  OBVIOUS
<1>2. HInv
  BY <1>1, InitHonest
<1>3. LeftOK /\ BlankOK /\ SoleOK
  BY <1>1 DEF Init, LeftOK, BlankOK, Blank, SoleOK, KindsLeft, NoRow, NoIds
<1>4. CountOK
  BY <1>1 DEF Init, CountOK, Counted
<1>5. PaidOK
  BY <1>1 DEF Init, PaidOK, Paid
<1>6. QED
  BY <1>2, <1>3, <1>4, <1>5 DEF DInv

\* As long as no two requests for an order overlap, each lost answer, refusal,
\* dead worker or rolled back import costs at most one superfluous document of
\* a kind: the guards against duplicates hold, and every identifier that was
\* answered is kept until the row has it.
THEOREM DuplicatesHaveCauses == Spec => []FewDuplicates
<1>1. Init => DInv
  BY InitCounts
<1>2. DInv /\ [Next]_vars => DInv'
  BY NextCounts
<1>3. DInv => FewDuplicates
  <2>1. SUFFICES ASSUME DInv, ~clash, NEW t \in Kinds
                 PROVE  Len(docs[t]) <= 1 + faults
    BY DEF FewDuplicates
  <2>2. Len(docs[t]) <= faults \/ Len(docs[t]) <= faults + 1
    BY <2>1 DEF DInv, CountOK, Counted
  <2>3. QED
    BY <2>1, <2>2, Amounts
<1>4. QED
  BY <1>1, <1>2, <1>3, PTL DEF Spec
-----------------------------------------------------------------------------
(* What the documents say, while no requests overlap and no worker dies, and *)
(* nothing is edited or undone                                               *)

\* Kinds of documents that the platform of the order's market has.
OnPlatform(t) == t = "qb" <=> platform # "odoo"
PlatformOK ==
  /\ \A t \in Kinds : row.ids[t] # Absent => OnPlatform(t)
  /\ txn # NoOne => \A t \in Kinds : base.row.ids[t] # Absent => OnPlatform(t)
  /\ \A k \in Workers : \A t \in Kinds : copy[k].ids[t] # Absent => OnPlatform(t)
  /\ \A k \in Workers : \A i \in DOMAIN todo[k] : OnPlatform(todo[k][i])

\* Document i of kind t, in the documents d, says what version v of the order says.
Tells(d, t, i, v) == i \in DOMAIN d[t] /\ d[t][i].head = v /\ d[t][i].lines = v
AllTell(ids, d, v) == \A t \in Kinds : ids[t] # Absent => Tells(d, t, ids[t], v)
AllLogged(ids, l) == \A t \in Kinds : ids[t] # Absent => l[t] = "SUCCESS"
Settled(r, l, d) == AllLogged(r.ids, l) => AllTell(r.ids, d, r.version)

\* How far the worker at point p of a request is: a first push has written what it
\* knows ids of, an update all but what it has still to do, and whatever else is
\* at work leaves an order settled that was.
Follows(p, j, order, kinds, id, r, l, d) ==
  /\ order.version = r.version
  /\ p \in {"post", "record"} => Tells(d, Head(kinds), id, r.version)
  /\ (p \in Busy /\ j = "sync") =>
       (\A t \in Kinds : r.ids[t] = Absent) /\ AllTell(order.ids, d, r.version)
  /\ (p \in Busy /\ j = "update") =>
       /\ order.ids = r.ids
       /\ p \in {"post", "record"} => id = order.ids[Head(kinds)]
       /\ \A t \in Kinds : r.ids[t] # Absent =>
            Tells(d, t, r.ids[t], r.version) \/ \E i \in DOMAIN kinds : kinds[i] = t
  /\ p = "save" => order.ids = r.ids
  /\ (p \notin Busy \/ j = "push") => Settled(r, l, d)

FollowsOK ==
  (~clash /\ ~died /\ ~drift) =>
    /\ Quiet => Settled(row, log, docs)
    /\ \A k \in Workers : pc[k] # "idle" =>
         Follows(pc[k], job[k], copy[k], todo[k], got[k], row, log, docs)

MirrorInv == DInv /\ PlatformOK /\ FollowsOK

\* An import stays open, ends, or begins.
Opened == UNCHANGED open \/ txn' = NoOne \/ base'.row = row

\* What worker k has in hand after a step is of the platform.
LEMMA StepPlatform ==
  ASSUME PlatformOK, NEW k \in Workers, OnlyOf(k), platform' = platform, Opened,
         \A t \in Kinds : row'.ids[t] # Absent => OnPlatform(t),
         \A t \in Kinds : copy'[k].ids[t] # Absent => OnPlatform(t),
         \A i \in DOMAIN todo'[k] : OnPlatform(todo'[k][i])
  PROVE  PlatformOK'
<1>1. \A t : OnPlatform(t)' <=> OnPlatform(t)
  BY DEF OnPlatform
<1>2. \A j \in Workers \ {k} :
        /\ \A t \in Kinds : copy'[j].ids[t] # Absent => OnPlatform(t)
        /\ \A i \in DOMAIN todo'[j] : OnPlatform(todo'[j][i])
  BY DEF PlatformOK, OnlyOf
<1>3. \A j \in Workers :
        /\ \A t \in Kinds : copy'[j].ids[t] # Absent => OnPlatform(t)
        /\ \A i \in DOMAIN todo'[j] : OnPlatform(todo'[j][i])
  BY <1>2
<1>4. txn' # NoOne => \A t \in Kinds : base'.row.ids[t] # Absent => OnPlatform(t)
  BY DEF PlatformOK, Opened, open
<1>5. QED
  BY <1>1, <1>3, <1>4 DEF PlatformOK, OnPlatform

LEMMA OverPlatform ==
  ASSUME GInv, PlatformOK, NEW k \in Workers, OnlyOf(k), platform' = platform, Opened,
         \A t \in Kinds : row'.ids[t] # Absent => OnPlatform(t),
         \/ copy'[k] = copy[k] /\ todo'[k] = todo[k]
         \/ copy'[k] = NoRow /\ todo'[k] = <<>>
  PROVE  PlatformOK'
<1>1. CASE copy'[k] = copy[k] /\ todo'[k] = todo[k]
  BY <1>1, StepPlatform DEF PlatformOK
<1>2. CASE copy'[k] = NoRow /\ todo'[k] = <<>>
  <2>1. \A t \in Kinds : copy'[k].ids[t] = Absent
    BY <1>2 DEF NoRow, NoIds
  <2>2. DOMAIN todo'[k] = {}
    BY <1>2
  <2>3. QED
    BY <2>1, <2>2, StepPlatform
<1>3. QED
  BY <1>1, <1>2

LEMMA TargetsOnPlatform ==
  ASSUME GInv PROVE \A i \in DOMAIN Targets : OnPlatform(Targets[i])
<1>1. "so" \in Kinds /\ "inv" \in Kinds /\ "qb" \in Kinds
  BY DEF Kinds
<1>2. CASE platform = "odoo"
  BY <1>1, <1>2, Short DEF Targets, OnPlatform
<1>3. CASE platform # "odoo"
  BY <1>1, <1>3, Short DEF Targets, OnPlatform
<1>4. QED
  BY <1>2, <1>3

\* An update goes through all kinds of documents that the order has.
LEMMA RecordedKnown ==
  ASSUME NEW order \in Rows, \A t \in Kinds : order.ids[t] # Absent => OnPlatform(t)
  PROVE  /\ \A i \in DOMAIN Recorded(order) : OnPlatform(Recorded(order)[i])
         /\ \A t \in Kinds : order.ids[t] # Absent =>
              \E i \in DOMAIN Recorded(order) : Recorded(order)[i] = t
<1>1. "so" \in Kinds /\ "inv" \in Kinds /\ "qb" \in Kinds /\ Kinds = {"so", "inv", "qb"}
  BY DEF Kinds
<1>2. CASE platform = "odoo"
  <2>1. Recorded(order) =
          IF order.ids["so"] = Absent
            THEN IF order.ids["inv"] = Absent THEN <<>> ELSE <<"inv">>
            ELSE IF order.ids["inv"] = Absent THEN <<"so">> ELSE <<"so", "inv">>
    BY <1>1, <1>2, Joined DEF Recorded, IfAny
  <2>2. order.ids["qb"] = Absent
    BY <1>1, <1>2 DEF OnPlatform
  <2>3. OnPlatform("so") /\ OnPlatform("inv")
    BY <1>2 DEF OnPlatform
  <2>4. QED
    BY <1>1, <2>1, <2>2, <2>3, Short
<1>3. CASE platform # "odoo"
  <2>1. Recorded(order) = IF order.ids["qb"] = Absent THEN <<>> ELSE <<"qb">>
    BY <1>3 DEF Recorded, IfAny
  <2>2. order.ids["so"] = Absent /\ order.ids["inv"] = Absent /\ OnPlatform("qb")
    BY <1>1, <1>3 DEF OnPlatform
  <2>3. QED
    BY <1>1, <2>1, <2>2, Short
<1>4. QED
  BY <1>2, <1>3

\* A request that starts, by the row it works on.
LEMMA StartPlatform ==
  ASSUME GInv, PlatformOK, NEW k \in Workers, NEW what \in Jobs, NEW where \in Points,
         NEW order \in Rows, NEW kinds \in Seq(Kinds), Take(k, what, where, order, kinds),
         order.ids = Seen(k).ids, row'.ids = row.ids, Opened,
         \A i \in DOMAIN kinds : OnPlatform(kinds[i])
  PROVE  PlatformOK'
<1>1. OnlyOf(k) /\ Is(k, where, what, order, kinds, got[k]) /\ platform' = platform
  BY TypeParts, TakeTypes DEF GInv, Take
<1>2. \A t \in Kinds : order.ids[t] # Absent => OnPlatform(t)
  BY DEF Seen, PlatformOK
<1>3. QED
  BY <1>1, <1>2, StepPlatform DEF Is, PlatformOK

LEMMA UpsertPlatform ==
  ASSUME GInv, PlatformOK, NEW k \in Workers, Upsert(k), Opened PROVE PlatformOK'
<1>1. /\ row' = Newer /\ txn = NoOne /\ Newer \in Rows /\ Newer.ids = row.ids
      /\ row.version = Absent => Take(k, "sync", "begin", Newer, Targets)
      /\ row.version # Absent =>
           Take(k, "update", IF Recorded(Newer) = <<>> THEN "leave" ELSE "begin",
                Newer, Recorded(Newer))
  BY UpsertTakes
<1>2. Newer.ids = Seen(k).ids
  BY <1>1 DEF Seen
<1>3. \A t \in Kinds : Newer.ids[t] # Absent => OnPlatform(t)
  BY <1>1 DEF PlatformOK
<1>4. CASE row.version = Absent
  BY <1>1, <1>2, <1>4, TargetKinds, TargetsOnPlatform, StartPlatform DEF Jobs, Points
<1>5. CASE row.version # Absent
  <2>1. (IF Recorded(Newer) = <<>> THEN "leave" ELSE "begin") \in Points /\ "update" \in Jobs
    BY DEF Points, Jobs
  <2>2. Recorded(Newer) \in Seq(Kinds)
        /\ \A i \in DOMAIN Recorded(Newer) : OnPlatform(Recorded(Newer)[i])
    BY <1>1, <1>3, RecordedKinds, RecordedKnown
  <2>3. QED
    BY <1>1, <1>2, <1>5, <2>1, <2>2, StartPlatform
<1>6. QED
  BY <1>4, <1>5

LEMMA StartsPlatform ==
  ASSUME GInv, PlatformOK, NEW k \in Workers,
         Webhook(k) \/ Import(k) \/ Move(k) \/ Edit(k) \/ \E t \in Kinds : Push(k, t)
  PROVE  PlatformOK'
<1>1. CASE Webhook(k) \/ Import(k)
  BY <1>1, UpsertPlatform DEF Webhook, Import, Opened
<1>2. CASE Move(k) \/ Edit(k)
  <2>1. row' = row /\ UNCHANGED open
    BY <1>2, TouchTakes
  <2>2. PICK what \in {"move", "edit"}, order \in Rows :
          Take(k, what, "save", order, <<>>) /\ order.ids = Seen(k).ids
    BY <1>2, TouchTakes
  <2>3. <<>> \in Seq(Kinds) /\ DOMAIN <<>> = {}
    OBVIOUS
  <2>4. QED
    BY <2>1, <2>2, <2>3, StartPlatform DEF Jobs, Points, Opened
<1>3. ASSUME NEW t \in Kinds, Push(k, t)
      PROVE  PlatformOK'
  <2>1. row' = row /\ Take(k, "push", "call", Seen(k), <<t>>) /\ UNCHANGED open
        /\ \E i \in DOMAIN Targets : Targets[i] = t
    BY <1>3 DEF Push
  <2>2. OnPlatform(t)
    BY <2>1, TargetsOnPlatform
  <2>3. <<t>> \in Seq(Kinds) /\ \A i \in DOMAIN <<t>> : OnPlatform(<<t>>[i])
    BY <2>2, Short
  <2>4. Seen(k) \in Rows
    BY SeenTypes
  <2>5. QED
    BY <2>1, <2>3, <2>4, StartPlatform DEF Jobs, Points, Opened
<1>4. QED
  BY <1>1, <1>2, <1>3

\* The steps that leave the copy and what there is to do alone, or end the
\* request.
LEMMA StepsPlatform ==
  ASSUME GInv, PlatformOK, NEW k \in Workers,
         Save(k) \/ End(k) \/ Begin(k) \/ Create(k) \/ Post(k) \/ ReadToken(k) \/ Rewrite(k)
  PROVE  PlatformOK'
<1>1. pc[k] # "idle" /\ platform' = platform /\ UNCHANGED open
  BY DEF Save, End, Begin, Create, Post, ReadToken, Rewrite
<1>2. RegistersOK /\ row \in Rows
  BY <1>1, Working
<1>3. row'.ids \in {row.ids, copy[k].ids}
  BY <1>2 DEF Save, End, Begin, Create, Post, ReadToken, Rewrite, Rows
<1>4. \A t \in Kinds : row'.ids[t] # Absent => OnPlatform(t)
  BY <1>3 DEF PlatformOK
<1>5. \/ copy' = copy /\ todo' = todo
      \/ Leave(k)
  BY DEF Save, End, Over, Begin, Create, Post, ReadToken, Rewrite, Goto, Answered, Lost,
         Refused
<1>6. \A j \in Workers \ {k} : copy'[j] = copy[j] /\ todo'[j] = todo[j]
  BY <1>2, <1>5 DEF Leave, RegistersOK
<1>7. \/ copy'[k] = copy[k] /\ todo'[k] = todo[k]
      \/ copy'[k] = NoRow /\ todo'[k] = <<>>
  BY <1>2, <1>5 DEF Leave, RegistersOK
<1>8. /\ \A t \in Kinds : NoRow.ids[t] = Absent
      /\ DOMAIN <<>> = {}
  BY DEF NoRow, NoIds
<1>9. \A j \in Workers :
        /\ \A t \in Kinds : copy'[j].ids[t] # Absent => OnPlatform(t)
        /\ \A i \in DOMAIN todo'[j] : OnPlatform(todo'[j][i])
  BY <1>6, <1>7, <1>8 DEF PlatformOK
<1>10. QED
  BY <1>1, <1>4, <1>9 DEF PlatformOK, OnPlatform, open

LEMMA RecordPlatform ==
  ASSUME GInv, PlatformOK, NEW k \in Workers, Record(k) PROVE PlatformOK'
<1>1. pc[k] = "record" /\ platform' = platform /\ Opened
  BY DEF Record, Opened
<1>2. RegistersOK /\ row \in Rows /\ copy[k] \in Rows /\ Kind(k) \in Kinds /\ OnPlatform(Kind(k))
  BY <1>1, Working, KindTypes DEF Busy, PlatformOK
<1> DEFINE ids == [copy[k].ids EXCEPT ![Kind(k)] = got[k]]
<1>3. \A t \in Kinds : ids[t] # Absent => OnPlatform(t)
  BY <1>2 DEF PlatformOK, Rows
<1>4. CASE Tail(todo[k]) # <<>>
  <2> DEFINE order == [copy[k] EXCEPT !.ids[Kind(k)] = got[k]]
  <2>1. /\ copy' = [copy EXCEPT ![k] = order]
        /\ todo' = [todo EXCEPT ![k] = Tail(@)]
        /\ got' = [got EXCEPT ![k] = Absent] /\ pc' = [pc EXCEPT ![k] = "call"]
        /\ row' = row /\ job' = job
    BY <1>4 DEF Record
  <2>2. order.ids = ids
    BY <1>2 DEF Rows
  <2> HIDE DEF ids, order
  <2>3. OnlyOf(k) /\ Is(k, "call", job[k], order, Tail(todo[k]), Absent)
    BY <1>2, <2>1 DEF OnlyOf, RegistersOK, Is
  <2>4. \A i \in DOMAIN Tail(todo[k]) : OnPlatform(Tail(todo[k])[i])
    BY <1>1, KindTypes DEF Busy, PlatformOK
  <2>5. QED
    BY <1>1, <1>3, <2>1, <2>2, <2>3, <2>4, StepPlatform DEF Is, PlatformOK
<1>5. CASE Tail(todo[k]) = <<>>
  <2>1. row' = [row EXCEPT !.sync = "SUCCESS", !.ids = RecordIds(k)] /\ Over(k)
    BY <1>5 DEF Record
  <2>2. row'.ids = RecordIds(k)
    BY <1>2, <2>1 DEF Rows
  <2>3. \A t \in Kinds : row'.ids[t] \in {ids[t], row.ids[t]}
    BY <2>2 DEF RecordIds, WithIds
  <2> HIDE DEF ids
  <2>4. \A t \in Kinds : row'.ids[t] # Absent => OnPlatform(t)
    BY <1>3, <2>3 DEF PlatformOK
  <2>5. QED
    BY <1>1, <1>2, <2>1, <2>4, OverTypes, OverPlatform DEF Is
<1>6. QED
  BY <1>4, <1>5

LEMMA FailPlatform ==
  ASSUME GInv, PlatformOK, NEW k \in Workers, Fail(k) PROVE PlatformOK'
<1>1. /\ pc[k] = "fail" /\ platform' = platform /\ Over(k) /\ Opened
      /\ row' = [row EXCEPT !.sync = "FAILED", !.ids = WithIds(KeptIds(k), copy[k].ids)]
  BY DEF Fail, Opened
<1>2. RegistersOK /\ row \in Rows
  BY <1>1, Working
<1>3. row'.ids = WithIds(KeptIds(k), copy[k].ids)
  BY <1>1, <1>2 DEF Rows
<1>4. \A t \in Kinds : row'.ids[t] \in {copy[k].ids[t], row.ids[t]}
  BY <1>3 DEF WithIds
<1>5. \A t \in Kinds : row'.ids[t] # Absent => OnPlatform(t)
  BY <1>4 DEF PlatformOK
<1>6. QED
  BY <1>1, <1>2, <1>5, OverTypes, OverPlatform DEF Is

LEMMA EndsPlatform ==
  ASSUME GInv, PlatformOK, NEW k \in Workers, Commit(k) \/ Die(k) PROVE PlatformOK'
<1>1. /\ pc[k] # "idle" /\ Leave(k) /\ platform' = platform /\ Opened
      /\ row' = row \/ (row' = base.row /\ txn # NoOne)
  BY Numbers DEF Commit, Die, GInv, TxnOK, Undo, Close, Opened
<1>2. OnlyOf(k) /\ Is(k, "idle", "none", NoRow, <<>>, Absent)
  BY <1>1, Working, LeaveTypes
<1>3. \A t \in Kinds : row'.ids[t] # Absent => OnPlatform(t)
  BY <1>1 DEF PlatformOK
<1>4. QED
  BY <1>1, <1>2, <1>3, OverPlatform DEF Is

LEMMA NextPlatform == ASSUME GInv, PlatformOK, [Next]_vars PROVE PlatformOK'
<1>1. ASSUME NEW k \in Workers,
             Webhook(k) \/ Import(k) \/ Move(k) \/ Edit(k) \/ Step(k) \/ Die(k) \/
             PushToQuickBooks(k) \/ CreateOdooSo(k) \/ CreateOdooInvoice(k)
      PROVE  PlatformOK'
  <2>1. CASE Webhook(k) \/ Import(k) \/ Move(k) \/ Edit(k)
    BY <2>1, StartsPlatform
  <2>2. CASE PushToQuickBooks(k) \/ CreateOdooSo(k) \/ CreateOdooInvoice(k)
    BY <2>2, StartsPlatform DEF PushToQuickBooks, CreateOdooSo, CreateOdooInvoice, Kinds
  <2>3. CASE Step(k)
    BY <2>3, StepsPlatform, RecordPlatform, FailPlatform, EndsPlatform DEF Step
  <2>4. CASE Die(k)
    BY <2>4, EndsPlatform
  <2>5. QED
    BY <1>1, <2>1, <2>2, <2>3, <2>4
<1>2. CASE UNCHANGED vars
  BY <1>2 DEF PlatformOK, OnPlatform, vars, open, local
<1>3. QED
  BY <1>1, <1>2 DEF Next

\* What says what the order says still says it.
Keeps(d, e, v) == \A t \in Kinds : \A i : Tells(d, t, i, v) => Tells(e, t, i, v)

LEMMA SettledKept ==
  ASSUME NEW r, NEW s, NEW l, NEW d, NEW e, Settled(r, l, d), s.ids = r.ids,
         s.version = r.version, Keeps(d, e, r.version)
  PROVE  Settled(s, l, e)
BY DEF Settled, AllTell, Keeps

LEMMA SameKept == ASSUME NEW d, NEW v PROVE Keeps(d, d, v)
BY DEF Keeps

\* A request that starts follows the row: because of what it brings, or if its
\* order was settled.
LEMMA StartMirrors ==
  ASSUME MirrorInv, NEW k \in Workers, NEW what \in Jobs, NEW where \in Points,
         NEW order \in Rows, NEW kinds \in Seq(Kinds), Take(k, what, where, order, kinds),
         where # "idle",
         ~clash' /\ ~drift' =>
           \/ Follows(where, what, order, kinds, got[k], row', log, docs)
           \/ drift' = drift /\
                (Settled(row, log, docs) =>
                   Follows(where, what, order, kinds, got[k], row', log, docs))
  PROVE  FollowsOK'
<1>1. OnlyOf(k) /\ Is(k, where, what, order, kinds, got[k])
  BY TypeParts, TakeTypes DEF MirrorInv, DInv, HInv, GInv
<1>2. /\ clash' = (clash \/ \E j \in Workers \ {k} : pc[j] # "idle") /\ pc[k] = "idle"
      /\ log' = log /\ docs' = docs /\ died' = died
  BY DEF Take
<1>3. SUFFICES ASSUME ~clash', ~died', ~drift'
               PROVE  /\ Quiet' => Settled(row', log', docs')
                      /\ \A j \in Workers : pc'[j] # "idle" =>
                           Follows(pc'[j], job'[j], copy'[j], todo'[j], got'[j],
                                   row', log', docs')
  BY DEF FollowsOK
<1>4. ~clash /\ ~died /\ \A j \in Workers : pc[j] = "idle"
  BY <1>2, <1>3
<1>5. drift' = drift => Settled(row, log, docs)
  BY <1>3, <1>4 DEF MirrorInv, FollowsOK, Quiet
<1>6. ~Quiet'
  BY <1>1 DEF Quiet, Is
<1>7. \A j \in Workers : pc'[j] # "idle" => j = k
  BY <1>1, <1>4 DEF OnlyOf
<1>8. Follows(pc'[k], job'[k], copy'[k], todo'[k], got'[k], row', log', docs')
  BY <1>1, <1>2, <1>3, <1>5 DEF Is
<1>9. QED
  BY <1>6, <1>7, <1>8

\* A worker that takes a step follows the row, or leaves the order settled.
LEMMA StepMirrors ==
  ASSUME MirrorInv, NEW k \in Workers, pc[k] # "idle", OnlyOf(k), clash' = clash, died' = died,
         drift' = drift,
         (~clash /\ Follows(pc[k], job[k], copy[k], todo[k], got[k], row, log, docs)) =>
           IF pc'[k] = "idle"
             THEN Settled(row', log', docs')
             ELSE Follows(pc'[k], job'[k], copy'[k], todo'[k], got'[k], row', log', docs')
  PROVE  FollowsOK'
<1>1. SUFFICES ASSUME ~clash, ~died, ~drift
               PROVE  /\ Quiet' => Settled(row', log', docs')
                      /\ \A j \in Workers : pc'[j] # "idle" =>
                           Follows(pc'[j], job'[j], copy'[j], todo'[j], got'[j],
                                   row', log', docs')
  BY DEF FollowsOK
<1>2. Follows(pc[k], job[k], copy[k], todo[k], got[k], row, log, docs)
  BY <1>1 DEF MirrorInv, FollowsOK
<1>3. \A j \in Workers : pc[j] # "idle" => j = k
  BY <1>1 DEF MirrorInv, DInv, HInv, AloneOK
<1>4. \A j \in Workers : pc'[j] # "idle" => j = k
  BY <1>3 DEF OnlyOf
<1>5. CASE pc'[k] = "idle"
  BY <1>1, <1>2, <1>4, <1>5
<1>6. CASE pc'[k] # "idle"
  <2>1. ~Quiet'
    BY <1>6 DEF Quiet
  <2>2. Follows(pc'[k], job'[k], copy'[k], todo'[k], got'[k], row', log', docs')
    BY <1>1, <1>2, <1>6
  <2>3. QED
    BY <1>4, <2>1, <2>2
<1>7. QED
  BY <1>5, <1>6

\* A step between two points of a request.
LEMMA PointMirrors ==
  ASSUME MirrorInv, NEW k \in Workers, NEW p \in Busy, NEW id, pc[k] \in Busy, OnlyOf(k),
         Is(k, p, job[k], copy[k], todo[k], id), clash' = clash, died' = died,
         drift' = drift, row'.ids = row.ids, row'.version = row.version, log' = log,
         (~clash /\ Follows(pc[k], job[k], copy[k], todo[k], got[k], row, log, docs)) =>
           /\ Keeps(docs, docs', row.version)
           /\ p \in {"post", "record"} =>
                /\ Tells(docs', Head(todo[k]), id, row.version)
                /\ job[k] = "update" => id = copy[k].ids[Head(todo[k])]
  PROVE  FollowsOK'
<1> DEFINE Before == ~clash /\ Follows(pc[k], job[k], copy[k], todo[k], got[k], row, log, docs)
           After == Follows(p, job[k], copy[k], todo[k], id, row', log', docs')
<1>1. ASSUME Before
      PROVE  After
  <2>1. Keeps(docs, docs', row.version)
    BY <1>1
  <2>2. copy[k].version = row'.version
    BY <1>1 DEF Follows
  <2>3. ASSUME job[k] = "sync"
        PROVE  (\A t \in Kinds : row'.ids[t] = Absent) /\
               AllTell(copy[k].ids, docs', row'.version)
    BY <1>1, <2>1, <2>3 DEF Follows, AllTell, Keeps
  <2>4. ASSUME job[k] = "update"
        PROVE  /\ copy[k].ids = row'.ids
               /\ \A t \in Kinds : row'.ids[t] # Absent =>
                    Tells(docs', t, row'.ids[t], row'.version) \/
                    \E i \in DOMAIN todo[k] : todo[k][i] = t
    BY <1>1, <2>1, <2>4 DEF Follows, Keeps
  <2>5. ASSUME job[k] = "push"
        PROVE  Settled(row', log', docs')
    <3>1. Settled(row, log, docs)
      BY <1>1, <2>5 DEF Follows
    <3>2. QED
      BY <2>1, <3>1, SettledKept
  <2>6. p \in {"post", "record"} =>
          /\ Tells(docs', Head(todo[k]), id, row'.version)
          /\ job[k] = "update" => id = copy[k].ids[Head(todo[k])]
    BY <1>1
  <2>7. p # "save"
    BY DEF Busy
  <2>8. After
    BY ONLY <2>2, <2>3, <2>4, <2>5, <2>6, <2>7, p \in Busy DEF Follows
  <2>9. QED
    BY <2>8
<1>2. pc'[k] # "idle" /\ pc[k] # "idle"
  BY DEF Is, Busy
<1>3. QED
  BY <1>1, <1>2, StepMirrors DEF Is

\* What a webhook or an import brings is followed from the start: a new order has
\* no documents, and an update has them all before it.
LEMMA UpsertMirrors == ASSUME MirrorInv, NEW k \in Workers, Upsert(k) PROVE FollowsOK'
<1>1. /\ row' = Newer /\ Newer \in Rows /\ Newer.ids = row.ids
      /\ row.version = Absent => Take(k, "sync", "begin", Newer, Targets)
      /\ row.version # Absent =>
           Take(k, "update", IF Recorded(Newer) = <<>> THEN "leave" ELSE "begin",
                Newer, Recorded(Newer))
  BY UpsertTakes DEF MirrorInv, DInv, HInv
<1>2. CASE row.version = Absent
  <2>1. \A t \in Kinds : Newer.ids[t] = Absent
    BY <1>1, <1>2 DEF MirrorInv, DInv, BlankOK, Blank
  <2>2. Follows("begin", "sync", Newer, Targets, got[k], row', log, docs)
    BY <1>1, <2>1 DEF Follows, Busy, AllTell
  <2>3. QED
    BY <1>1, <1>2, <2>2, StartMirrors, TargetKinds DEF Jobs, Points
<1>3. CASE row.version # Absent
  <2> DEFINE where == IF Recorded(Newer) = <<>> THEN "leave" ELSE "begin"
  <2>1. Take(k, "update", where, Newer, Recorded(Newer))
    BY <1>1, <1>3
  <2>2. Recorded(Newer) \in Seq(Kinds)
    BY <1>1, RecordedKinds
  <2>3. \A t \in Kinds : Newer.ids[t] # Absent => OnPlatform(t)
    BY <1>1 DEF MirrorInv, PlatformOK
  <2>4. \A t \in Kinds : Newer.ids[t] # Absent =>
          \E i \in DOMAIN Recorded(Newer) : Recorded(Newer)[i] = t
    BY <1>1, <2>3, RecordedKnown
  <2>5. ASSUME Recorded(Newer) = <<>>
        PROVE  Settled(Newer, log, docs)
    <3>1. \A t \in Kinds : Newer.ids[t] = Absent
      BY <2>4, <2>5
    <3>2. QED
      BY <3>1 DEF Settled, AllTell
  <2>6. Follows(where, "update", Newer, Recorded(Newer), got[k], Newer, log, docs)
    BY <2>4, <2>5 DEF Follows, Busy
  <2>7. where \in Points /\ where # "idle" /\ "update" \in Jobs
    BY DEF Points, Jobs
  <2> HIDE DEF where
  <2>8. QED
    BY <1>1, <2>1, <2>2, <2>6, <2>7, StartMirrors
<1>4. QED
  BY <1>2, <1>3

LEMMA PushMirrors ==
  ASSUME MirrorInv, NEW k \in Workers, NEW t \in Kinds, Push(k, t) PROVE FollowsOK'
<1>1. row' = row /\ Take(k, "push", "call", Seen(k), <<t>>) /\ drift' = drift
  BY DEF Push
<1>2. Seen(k) \in Rows /\ <<t>> \in Seq(Kinds)
  BY SeenTypes, Short DEF MirrorInv, DInv, HInv
<1>3. ~clash' => Seen(k) = row
  BY <1>1, SeenAlone DEF MirrorInv, DInv, HInv
<1>4. Settled(row, log, docs) => Follows("call", "push", row, <<t>>, got[k], row, log, docs)
  BY DEF Follows
<1>5. QED
  BY <1>1, <1>2, <1>3, <1>4, StartMirrors DEF Jobs, Points

LEMMA TouchMirrors ==
  ASSUME MirrorInv, NEW k \in Workers, Move(k) \/ Edit(k) PROVE FollowsOK'
<1>1. GInv /\ row' = row
  BY TouchTakes DEF MirrorInv, DInv, HInv
<1>2. PICK what \in {"move", "edit"}, order \in Rows :
        /\ Take(k, what, "save", order, <<>>)
        /\ order.ids = Seen(k).ids
        /\ what = "move" => order.version = Seen(k).version /\ drift' = drift
        /\ what = "edit" => drift' = TRUE
  BY <1>1, TouchTakes
<1>3. ~clash' => Seen(k) = row
  BY <1>1, <1>2, SeenAlone
<1>4. ~clash' /\ ~drift' /\ Settled(row, log, docs) =>
        Follows("save", what, order, <<>>, got[k], row, log, docs)
  BY <1>2, <1>3 DEF Follows, Busy
<1>5. <<>> \in Seq(Kinds)
  OBVIOUS
<1>6. QED
  BY <1>1, <1>2, <1>4, <1>5, StartMirrors DEF Jobs, Points

\* A request that ends without a call leaves the order settled.
LEMMA SaveMirrors == ASSUME MirrorInv, NEW k \in Workers, Save(k) PROVE FollowsOK'
<1>1. /\ pc[k] = "save" /\ Leave(k) /\ GInv /\ row' = copy[k] /\ drift' = drift
      /\ clash' = clash /\ died' = died /\ log' = log /\ docs' = docs
  BY DEF Save, past, MirrorInv, DInv, HInv
<1>2. OnlyOf(k) /\ pc'[k] = "idle"
  BY <1>1, Working, LeaveTypes DEF Is
<1>3. ASSUME Follows(pc[k], job[k], copy[k], todo[k], got[k], row, log, docs)
      PROVE  Settled(row', log', docs')
  <2>1. Settled(row, log, docs) /\ copy[k].version = row.version
    BY <1>1, <1>3 DEF Follows, Busy
  <2>2. copy[k].ids = row.ids
    BY <1>1, <1>3, Working DEF Follows, Holds
  <2>3. QED
    BY <1>1, <2>1, <2>2, SettledKept, SameKept
<1>4. QED
  BY <1>1, <1>2, <1>3, StepMirrors

LEMMA BeginMirrors ==
  ASSUME MirrorInv, NEW k \in Workers, Begin(k) \/ ReadToken(k) PROVE FollowsOK'
<1>1. GInv
  BY DEF MirrorInv, DInv, HInv
<1>2. ASSUME NEW p \in {"read", "call"}, pc[k] \in Busy, OnlyOf(k),
             Is(k, p, job[k], copy[k], todo[k], got[k]), clash' = clash, died' = died,
             drift' = drift, row'.ids = row.ids, row'.version = row.version, log' = log,
             docs' = docs
      PROVE  FollowsOK'
  <2>1. Keeps(docs, docs', row.version)
    BY <1>2, SameKept
  <2>2. p \in Busy /\ p \notin {"post", "record"}
    BY DEF Busy
  <2>3. QED
    BY <1>2, <2>1, <2>2, PointMirrors
<1>3. CASE Begin(k)
  <2>1. PICK where \in {"read", "call"} : Goto(k, where)
    BY <1>3 DEF Begin, NextStep
  <2>2. /\ pc[k] = "begin" /\ row' = [row EXCEPT !.sync = "PENDING"] /\ clash' = clash
        /\ docs' = docs /\ died' = died /\ log' = log /\ drift' = drift
    BY <1>3 DEF Begin, past
  <2>3. row \in Rows /\ ~(tries[k] > 0)
    BY <1>1, <2>2, Working DEF RegistersOK
  <2>4. OnlyOf(k) /\ Is(k, where, job[k], copy[k], todo[k], got[k])
    BY <1>1, <2>1, <2>2, <2>3, Working, GotoTypes DEF Points
  <2>5. row'.ids = row.ids /\ row'.version = row.version
    BY <2>2, <2>3 DEF Rows
  <2>6. QED
    BY <1>2, <2>2, <2>4, <2>5 DEF Busy
<1>4. CASE ReadToken(k)
  <2>1. /\ pc[k] = "read" /\ pc' = [pc EXCEPT ![k] = "call"] /\ row' = row /\ clash' = clash
        /\ job' = job /\ copy' = copy /\ todo' = todo /\ got' = got
        /\ docs' = docs /\ died' = died /\ log' = log /\ drift' = drift
    BY <1>4 DEF ReadToken, past
  <2>2. OnlyOf(k) /\ Is(k, "call", job[k], copy[k], todo[k], got[k])
    BY <1>1, <2>1, Working DEF OnlyOf, RegistersOK, Is
  <2>3. QED
    BY <1>2, <2>1, <2>2 DEF Busy
<1>5. QED
  BY <1>3, <1>4

\* A worker that is alone at work reads the row.
LEMMA SeesRow ==
  ASSUME MirrorInv, NEW k \in Workers, pc[k] # "idle", ~clash PROVE Seen(k) = row
<1>1. txn \in Workers \cup {NoOne} /\ (txn # NoOne => pc[txn] # "idle")
  BY TypeParts DEF MirrorInv, DInv, HInv, GInv, SharedOK, TxnOK
<1>2. \A j \in Workers : pc[j] # "idle" => j = k
  BY DEF MirrorInv, DInv, HInv, AloneOK
<1>3. QED
  BY <1>1, <1>2 DEF Seen

\* A new document says what the order says, and the others what they said.
LEMMA CreateKeeps ==
  ASSUME GInv, NEW k \in Workers, pc[k] # "idle", NEW t \in Kinds, NEW done,
         done = [docs EXCEPT ![t] = Append(@, Document(k))], copy[k].version = row.version,
         Seen(k) = row
  PROVE  /\ Keeps(docs, done, row.version)
         /\ Tells(done, t, Len(docs[t]) + 1, row.version)
<1>1. docs \in [Kinds -> Seq(Documents)] /\ Document(k) \in Documents
  BY Working, NewDocument
<1>2. docs[t] \in Seq(Documents)
  BY <1>1
<1> DEFINE more == Append(docs[t], Document(k))
<1>3. /\ DOMAIN docs[t] \subseteq DOMAIN more /\ Len(docs[t]) + 1 \in DOMAIN more
      /\ \A j \in DOMAIN docs[t] : more[j] = docs[t][j]
  BY <1>1, <1>2, AppendOne
<1>4. more[Len(docs[t]) + 1] = Document(k)
  BY <1>1, <1>2
<1>5. done = [docs EXCEPT ![t] = more]
  OBVIOUS
<1> HIDE DEF more
<1>6. done[t] = more /\ \A u \in Kinds \ {t} : done[u] = docs[u]
  BY <1>1, <1>5
<1>7. Document(k).head = row.version /\ Document(k).lines = row.version
  BY DEF Document
<1>8. Keeps(docs, done, row.version)
  BY <1>3, <1>6 DEF Keeps, Tells
<1>9. Tells(done, t, Len(docs[t]) + 1, row.version)
  BY <1>3, <1>4, <1>6, <1>7 DEF Tells
<1>10. QED
  BY <1>8, <1>9

\* A document is replaced by one that says what v says.
LEMMA ReplaceKeeps ==
  ASSUME NEW d \in [Kinds -> Seq(Documents)], NEW t \in Kinds, NEW i \in DOMAIN d[t],
         NEW doc \in Documents, NEW v,
         Tells(d, t, i, v) => doc.head = v /\ doc.lines = v,
         NEW done, done = [d EXCEPT ![t] = [d[t] EXCEPT ![i] = doc]]
  PROVE  /\ Keeps(d, done, v)
         /\ doc.head = v /\ doc.lines = v => Tells(done, t, i, v)
<1>1. d[t] \in Seq(Documents)
  OBVIOUS
<1> DEFINE new == [d[t] EXCEPT ![i] = doc]
<1>2. /\ DOMAIN new = DOMAIN d[t] /\ new[i] = doc
      /\ \A j \in DOMAIN d[t] : j # i => new[j] = d[t][j]
  BY <1>1, ReplaceOne
<1>3. done = [d EXCEPT ![t] = new]
  OBVIOUS
<1> HIDE DEF new
<1>4. done[t] = new /\ \A u \in Kinds \ {t} : done[u] = d[u]
  BY <1>3
<1>5. ASSUME NEW j, Tells(d, t, j, v)
      PROVE  Tells(done, t, j, v)
  BY <1>2, <1>4, <1>5 DEF Tells
<1>6. Keeps(d, done, v)
  BY <1>4, <1>5 DEF Keeps, Tells
<1>7. QED
  BY <1>2, <1>4, <1>6 DEF Tells

LEMMA PostKeeps ==
  ASSUME GInv, NEW k \in Workers, pc[k] = "post", NEW done, NEW v,
         done = PostedDocs(k)
  PROVE  Keeps(docs, done, v)
<1> DEFINE doc == [docs["inv"][got[k]] EXCEPT !.posted = TRUE]
<1>1. /\ got[k] \in DOMAIN docs["inv"] /\ docs \in [Kinds -> Seq(Documents)]
      /\ "inv" \in Kinds
  BY Working DEF Holds, Kinds
<1>2. docs["inv"][got[k]] \in Documents
  BY <1>1
<1>3. doc \in Documents /\ doc.head = docs["inv"][got[k]].head
      /\ doc.lines = docs["inv"][got[k]].lines
  BY <1>2 DEF Documents
<1>4. done = [docs EXCEPT !["inv"] = [docs["inv"] EXCEPT ![got[k]] = doc]]
  BY DEF PostedDocs
<1>5. Tells(docs, "inv", got[k], v) => doc.head = v /\ doc.lines = v
  BY <1>3 DEF Tells
<1> HIDE DEF doc
<1>6. QED
  BY ONLY <1>1, <1>3, <1>4, <1>5, ReplaceKeeps

LEMMA RewriteKeeps ==
  ASSUME GInv, NEW k \in Workers, pc[k] = "call", job[k] = "update", NEW done,
         done = [docs EXCEPT ![Kind(k)][copy[k].ids[Kind(k)]] =
                   [Document(k) EXCEPT !.posted = docs[Kind(k)][copy[k].ids[Kind(k)]].posted,
                      !.token = IF Kind(k) = "qb" THEN token[k] + 1 ELSE 0]],
         copy[k].version = row.version, Seen(k) = row
  PROVE  /\ Keeps(docs, done, row.version)
         /\ Tells(done, Kind(k), copy[k].ids[Kind(k)], row.version)
<1> DEFINE t == Kind(k)
           id == copy[k].ids[t]
           doc == [Document(k) EXCEPT !.posted = docs[t][id].posted,
                     !.token = IF t = "qb" THEN token[k] + 1 ELSE 0]
           v == row.version
<1>1. pc[k] \in Busy /\ t \in Kinds
  BY KindTypes DEF Busy
<1>2. id \in DOMAIN docs[t]
  BY <1>1, UpdatedId
<1>3. docs \in [Kinds -> Seq(Documents)] /\ docs[t][id] \in Documents
  BY <1>1, <1>2, Working
<1>4. doc \in Documents /\ doc.head = v /\ doc.lines = v
  <2>1. Document(k) \in Documents /\ Document(k).head = v /\ Document(k).lines = v
    BY NewDocument DEF Document
  <2>2. docs[t][id].posted \in BOOLEAN
    BY <1>3 DEF Documents
  <2>3. (IF t = "qb" THEN token[k] + 1 ELSE 0) \in Nat
    BY Working
  <2>4. QED
    BY <2>1, <2>2, <2>3 DEF Documents
<1>5. done = [docs EXCEPT ![t] = [docs[t] EXCEPT ![id] = doc]]
  OBVIOUS
<1> HIDE DEF doc, t, id, v
<1>6. Keeps(docs, done, v) /\ Tells(done, t, id, v)
  BY ONLY <1>1, <1>2, <1>3, <1>4, <1>5, ReplaceKeeps
<1>7. QED
  BY <1>6 DEF t, id, v

LEMMA CreateMirrors == ASSUME MirrorInv, NEW k \in Workers, Create(k) PROVE FollowsOK'
<1> DEFINE t == Kind(k)
           done == [docs EXCEPT ![t] = Append(@, Document(k))]
           where == IF t = "inv" THEN "post" ELSE "record"
<1>1. /\ pc[k] = "call" /\ job[k] \in {"sync", "push"} /\ row' = row /\ clash' = clash
      /\ died' = died /\ log' = log /\ drift' = drift
      /\ \/ docs' = done /\ Answered(k, Len(docs[t]) + 1, where)
         \/ Lost(k, done)
         \/ Refused(k)
  BY DEF Create
<1>2. GInv
  BY DEF MirrorInv, DInv, HInv
<1>3. t \in Kinds /\ t = Head(todo[k])
  BY <1>1, <1>2, KindTypes DEF Busy, Kind
<1>4. Len(docs[t]) + 1 \in Nat
  BY <1>1, <1>2, <1>3, Created
<1>5. ~clash /\ copy[k].version = row.version =>
        Keeps(docs, done, row.version) /\ Tells(done, t, Len(docs[t]) + 1, row.version)
  BY <1>1, <1>2, <1>3, SeesRow, CreateKeeps
<1> HIDE DEF t, done
<1>6. CASE docs' = done /\ Answered(k, Len(docs[t]) + 1, where)
  <2>1. OnlyOf(k) /\ Is(k, where, job[k], copy[k], todo[k], Len(docs[t]) + 1)
    BY <1>1, <1>2, <1>4, <1>6, Working, AnsweredTypes DEF Points
  <2>2. ~clash /\ Follows(pc[k], job[k], copy[k], todo[k], got[k], row, log, docs) =>
          Keeps(docs, docs', row.version) /\ Tells(docs', t, Len(docs[t]) + 1, row.version)
    BY <1>5, <1>6 DEF Follows
  <2>3. where \in Busy /\ pc[k] \in Busy /\ job[k] # "update"
    BY <1>1 DEF Busy
  <2> HIDE DEF where
  <2>4. QED
    BY <1>1, <1>3, <2>1, <2>2, <2>3, PointMirrors
<1>7. ASSUME NEW p \in {"call", "fail"}, Is(k, p, job[k], copy[k], todo[k], got[k]),
             OnlyOf(k), docs' \in {docs, done}
      PROVE  FollowsOK'
  <2>1. ~clash /\ Follows(pc[k], job[k], copy[k], todo[k], got[k], row, log, docs) =>
          Keeps(docs, docs', row.version)
    BY <1>5, <1>7, SameKept DEF Follows
  <2>2. p \in Busy /\ p \notin {"post", "record"} /\ pc[k] \in Busy
    BY <1>1 DEF Busy
  <2>3. QED
    BY <1>1, <1>7, <2>1, <2>2, PointMirrors
<1>8. CASE Lost(k, done)
  BY <1>1, <1>2, <1>7, <1>8, Working, LostTypes
<1>9. CASE Refused(k)
  BY <1>1, <1>2, <1>7, <1>9, Working, RefusedTypes
<1>10. QED
  BY <1>1, <1>6, <1>8, <1>9

LEMMA PostMirrors == ASSUME MirrorInv, NEW k \in Workers, Post(k) PROVE FollowsOK'
<1>1. /\ pc[k] = "post" /\ row' = row /\ clash' = clash /\ died' = died /\ log' = log
      /\ drift' = drift
      /\ \/ docs' = PostedDocs(k) /\ Answered(k, got[k], "record")
         \/ Goto(k, "fail") /\ UNCHANGED <<docs, faults>>
         \/ Lost(k, PostedDocs(k))
         \/ Refused(k)
  BY DEF Post
<1> DEFINE done == PostedDocs(k)
<1>2. GInv /\ pc[k] \in Busy /\ got[k] \in Nat
  BY <1>1, Working DEF MirrorInv, DInv, HInv, Busy
<1>3. Keeps(docs, done, row.version) /\ Keeps(docs, docs, row.version)
  BY <1>1, <1>2, PostKeeps, SameKept
<1> HIDE DEF done
<1>4. done = PostedDocs(k)
  BY DEF done
<1>5. Follows(pc[k], job[k], copy[k], todo[k], got[k], row, log, docs) =>
        /\ Tells(docs, Head(todo[k]), got[k], row.version)
        /\ job[k] = "update" => got[k] = copy[k].ids[Head(todo[k])]
  BY <1>1, <1>2 DEF Follows
<1>6. Head(todo[k]) \in Kinds
  BY <1>2, KindTypes DEF Kind
<1>7. ASSUME NEW p \in {"post", "record", "fail"}, Is(k, p, job[k], copy[k], todo[k], got[k]),
             OnlyOf(k), docs' \in {docs, done}
      PROVE  FollowsOK'
  <2>1. Follows(pc[k], job[k], copy[k], todo[k], got[k], row, log, docs) =>
          Tells(docs', Head(todo[k]), got[k], row.version)
    BY <1>3, <1>5, <1>6, <1>7 DEF Keeps
  <2>2. p \in Busy /\ Keeps(docs, docs', row.version)
    BY <1>3, <1>7 DEF Busy
  <2>3. QED
    BY <1>1, <1>2, <1>5, <1>7, <2>1, <2>2, PointMirrors
<1>8. CASE docs' = done /\ Answered(k, got[k], "record")
  <2>1. OnlyOf(k) /\ Is(k, "record", job[k], copy[k], todo[k], got[k])
    BY <1>1, <1>2, <1>8, Working, AnsweredTypes DEF Points
  <2>2. QED
    BY <1>7, <1>8, <2>1
<1>9. CASE Lost(k, done)
  BY <1>1, <1>2, <1>7, <1>9, Working, LostTypes
<1>10. CASE Refused(k)
  BY <1>1, <1>2, <1>7, <1>10, Working, RefusedTypes
<1>11. CASE Goto(k, "fail") /\ UNCHANGED <<docs, faults>>
  <2>1. OnlyOf(k) /\ Is(k, "fail", job[k], copy[k], todo[k], got[k])
    BY <1>1, <1>2, <1>11, Working, GotoTypes DEF Points
  <2>2. QED
    BY <1>7, <1>11, <2>1
<1>12. QED
  BY <1>1, <1>4, <1>8, <1>9, <1>10, <1>11

LEMMA RewriteMirrors == ASSUME MirrorInv, NEW k \in Workers, Rewrite(k) PROVE FollowsOK'
<1> DEFINE t == Kind(k)
           id == copy[k].ids[t]
           done == [docs EXCEPT ![t][id] =
                      [Document(k) EXCEPT !.posted = docs[t][id].posted,
                         !.token = IF t = "qb" THEN token[k] + 1 ELSE 0]]
<1>1. /\ pc[k] = "call" /\ job[k] = "update" /\ row' = row /\ clash' = clash
      /\ died' = died /\ log' = log /\ drift' = drift
      /\ \/ docs' = done /\ Answered(k, id, "record")
         \/ Lost(k, done)
         \/ Refused(k)
         \/ Goto(k, "fail") /\ UNCHANGED <<docs, faults>>
  BY DEF Rewrite
<1>2. GInv /\ pc[k] \in Busy
  BY <1>1 DEF MirrorInv, DInv, HInv, Busy
<1>3. t = Head(todo[k]) /\ id \in Nat
  BY <1>1, <1>2, UpdatedId DEF Kind
<1>4. ~clash /\ copy[k].version = row.version =>
        Keeps(docs, done, row.version) /\ Tells(done, t, id, row.version)
  <2>1. pc[k] = "call" /\ job[k] = "update"
    BY <1>1
  <2>2. ~clash => Seen(k) = row
    BY <2>1, SeesRow
  <2>3. QED
    BY ONLY <1>2, <2>1, <2>2, k \in Workers, RewriteKeeps
<1> HIDE DEF t, id, done
<1>5. CASE docs' = done /\ Answered(k, id, "record")
  <2>1. OnlyOf(k) /\ Is(k, "record", job[k], copy[k], todo[k], id)
    BY <1>1, <1>2, <1>3, <1>5, Working, AnsweredTypes DEF Points
  <2>2. ~clash /\ Follows(pc[k], job[k], copy[k], todo[k], got[k], row, log, docs) =>
          Keeps(docs, docs', row.version) /\ Tells(docs', t, id, row.version)
    BY <1>4, <1>5 DEF Follows
  <2>3. "record" \in Busy /\ id = copy[k].ids[Head(todo[k])]
    BY <1>3 DEF Busy, id
  <2>4. QED
    BY <1>1, <1>2, <1>3, <2>1, <2>2, <2>3, PointMirrors
<1>6. ASSUME NEW p \in {"call", "fail"}, Is(k, p, job[k], copy[k], todo[k], got[k]),
             OnlyOf(k), docs' \in {docs, done}
      PROVE  FollowsOK'
  <2>1. ~clash /\ Follows(pc[k], job[k], copy[k], todo[k], got[k], row, log, docs) =>
          Keeps(docs, docs', row.version)
    BY <1>4, <1>6, SameKept DEF Follows
  <2>2. p \in Busy /\ p \notin {"post", "record"}
    BY DEF Busy
  <2>3. QED
    BY <1>1, <1>2, <1>6, <2>1, <2>2, PointMirrors
<1>7. CASE Lost(k, done)
  BY <1>1, <1>2, <1>6, <1>7, Working, LostTypes
<1>8. CASE Refused(k)
  BY <1>1, <1>2, <1>6, <1>8, Working, RefusedTypes
<1>9. CASE Goto(k, "fail") /\ UNCHANGED <<docs, faults>>
  <2>1. OnlyOf(k) /\ Is(k, "fail", job[k], copy[k], todo[k], got[k])
    BY <1>1, <1>2, <1>9, Working, GotoTypes DEF Points
  <2>2. QED
    BY <1>6, <1>9, <2>1
<1>10. QED
  BY <1>1, <1>5, <1>7, <1>8, <1>9

\* A worker whose calls are done leaves the order settled, before an import's
\* commit too.
LEMMA OverMirrors ==
  ASSUME MirrorInv, NEW k \in Workers, pc[k] \in {"record", "fail", "leave"},
         Over(k), clash' = clash, died' = died, drift' = drift, row'.version = row.version,
         (~clash /\ Follows(pc[k], job[k], copy[k], todo[k], got[k], row, log, docs)) =>
           Settled(row', log', docs')
  PROVE  FollowsOK'
<1>1. GInv /\ RegistersOK /\ pc[k] # "idle"
  BY Working DEF MirrorInv, DInv, HInv
<1>2. /\ OnlyOf(k)
      /\ \/ Is(k, "commit", job[k], copy[k], todo[k], got[k])
         \/ Is(k, "idle", "none", NoRow, <<>>, Absent)
  BY <1>1, OverTypes
<1>3. CASE Is(k, "commit", job[k], copy[k], todo[k], got[k])
  <2>1. (~clash /\ Follows(pc[k], job[k], copy[k], todo[k], got[k], row, log, docs)) =>
          Follows("commit", job[k], copy[k], todo[k], got[k], row', log', docs')
    BY <1>1 DEF Follows, Busy
  <2>2. QED
    BY <1>1, <1>2, <1>3, <2>1, StepMirrors DEF Is
<1>4. CASE Is(k, "idle", "none", NoRow, <<>>, Absent)
  BY <1>1, <1>2, <1>4, StepMirrors DEF Is
<1>5. QED
  BY <1>2, <1>3, <1>4

\* An update that found nothing to do leaves a settled order.
LEMMA EndMirrors == ASSUME MirrorInv, NEW k \in Workers, End(k) PROVE FollowsOK'
<1>1. /\ pc[k] = "leave" /\ Over(k) /\ row' = row /\ log' = log /\ docs' = docs
      /\ clash' = clash /\ died' = died /\ drift' = drift
  BY DEF End, past
<1>2. Follows(pc[k], job[k], copy[k], todo[k], got[k], row, log, docs) =>
        Settled(row, log, docs)
  BY <1>1 DEF Follows, Busy
<1>3. QED
  BY <1>1, <1>2, OverMirrors

\* What a first push or an update has told once its last document is recorded.
LEMMA AllRecorded ==
  ASSUME MirrorInv, NEW k \in Workers, pc[k] = "record", Tail(todo[k]) = <<>>, ~clash,
         Follows(pc[k], job[k], copy[k], todo[k], got[k], row, log, docs),
         NEW after, after.ids = RecordIds(k), after.version = row.version
  PROVE  Settled(after, [log EXCEPT ![Kind(k)] = "SUCCESS"], docs)
<1>1. /\ GInv /\ Kind(k) \in Kinds /\ job[k] \in {"sync", "update", "push"}
      /\ Kind(k) = Head(todo[k]) /\ copy[k].ids \in [Kinds -> Nat]
      /\ log \in Logs
      /\ todo[k] \in Seq(Kinds) /\ todo[k] # <<>>
  BY Working, KindTypes DEF MirrorInv, DInv, HInv, Busy, Holds, Kind, Rows, SharedOK
<1> DEFINE ids == [copy[k].ids EXCEPT ![Kind(k)] = got[k]]
           more == [log EXCEPT ![Kind(k)] = "SUCCESS"]
           v == row.version
<1>2. ids[Kind(k)] = got[k] /\ \A t \in Kinds : t # Kind(k) => ids[t] = copy[k].ids[t]
  BY <1>1
<1>3. \A t \in Kinds : t # Kind(k) => more[t] = log[t]
  BY <1>1
<1>4. \A t \in Kinds : after.ids[t] = IF t \in SavedIds(k) THEN ids[t] ELSE row.ids[t]
  BY DEF RecordIds, WithIds
<1>5. Tells(docs, Kind(k), got[k], v)
  BY <1>1 DEF Follows
<1> HIDE DEF ids, more
<1>6. CASE job[k] = "sync"
  <2>1. (\A t \in Kinds : row.ids[t] = Absent) /\ AllTell(copy[k].ids, docs, v)
    BY <1>6 DEF Follows, Busy
  <2>2. ASSUME NEW t \in Kinds, after.ids[t] # Absent
        PROVE  Tells(docs, t, after.ids[t], v)
    <3>1. after.ids[t] = ids[t]
      BY <1>4, <2>1, <2>2
    <3>2. QED
      BY <1>2, <1>5, <2>1, <2>2, <3>1 DEF AllTell
  <2>3. QED
    BY <2>2 DEF Settled, AllTell
<1>7. CASE job[k] = "update"
  <2>1. /\ copy[k].ids = row.ids /\ got[k] = copy[k].ids[Kind(k)]
        /\ \A t \in Kinds : row.ids[t] # Absent =>
             Tells(docs, t, row.ids[t], v) \/ \E i \in DOMAIN todo[k] : todo[k][i] = t
    BY <1>1, <1>7 DEF Follows, Busy
  <2>2. \A t \in Kinds : after.ids[t] = row.ids[t]
    BY <1>4, <1>7 DEF SavedIds
  <2>3. \A i \in DOMAIN todo[k] : todo[k][i] = Kind(k)
    <3>1. Len(Tail(todo[k])) = 0
      BY <1>1, EmptySeq
    <3>2. Len(todo[k]) = 1 /\ Kind(k) = todo[k][1]
      BY <1>1, <3>1
    <3>3. QED
      BY <1>1, <3>2
  <2>4. \A t \in Kinds : row.ids[t] # Absent => Tells(docs, t, row.ids[t], v)
    BY <1>5, <2>1, <2>3
  <2>5. QED
    BY <2>2, <2>4 DEF Settled, AllTell
<1>8. CASE job[k] = "push"
  <2>1. Settled(row, log, docs)
    BY <1>8 DEF Follows
  <2>2. row.ids[Kind(k)] = Absent
    <3>1. Sole(pc[k], job[k], copy[k].ids, todo[k], row.ids)
      BY <1>1, Counting DEF MirrorInv
    <3>2. 1 \in DOMAIN todo[k] /\ todo[k][1] = Kind(k)
      BY <1>1
    <3>3. QED
      BY <1>8, <3>1, <3>2 DEF Sole, Busy
  <2>3. \A t \in Kinds : t # Kind(k) => after.ids[t] = row.ids[t]
    BY <1>4, <1>8 DEF SavedIds
  <2>4. after.ids[Kind(k)] = got[k]
    BY <1>1, <1>2, <1>4, <1>8 DEF SavedIds
  <2>5. SUFFICES ASSUME AllLogged(after.ids, more)
                 PROVE  AllTell(after.ids, docs, v)
    BY DEF Settled, more
  <2>6. AllLogged(row.ids, log)
    BY <1>3, <2>2, <2>3, <2>5 DEF AllLogged
  <2>7. AllTell(row.ids, docs, v)
    BY <2>1, <2>6 DEF Settled
  <2>8. QED
    BY <1>5, <2>3, <2>4, <2>7 DEF AllTell
<1>9. QED
  BY <1>1, <1>6, <1>7, <1>8 DEF more

LEMMA RecordMirrors == ASSUME MirrorInv, NEW k \in Workers, Record(k) PROVE FollowsOK'
<1>1. /\ pc[k] = "record" /\ clash' = clash /\ died' = died /\ docs' = docs /\ drift' = drift
      /\ log' = [log EXCEPT ![Kind(k)] = "SUCCESS"]
  BY DEF Record, past
<1>2. /\ GInv /\ RegistersOK /\ row \in Rows /\ copy[k] \in Rows /\ Kind(k) \in Kinds
      /\ Kind(k) = Head(todo[k]) /\ todo[k] \in Seq(Kinds) /\ todo[k] # <<>>
      /\ job[k] \in {"sync", "update", "push"}
  BY <1>1, Working, KindTypes DEF Busy, Kind, MirrorInv, DInv, HInv, Holds
<1>3. CASE Tail(todo[k]) # <<>>
  <2> DEFINE order == [copy[k] EXCEPT !.ids[Kind(k)] = got[k]]
             ids == [copy[k].ids EXCEPT ![Kind(k)] = got[k]]
  <2>1. /\ copy' = [copy EXCEPT ![k] = order]
        /\ todo' = [todo EXCEPT ![k] = Tail(@)]
        /\ got' = [got EXCEPT ![k] = Absent] /\ pc' = [pc EXCEPT ![k] = "call"]
        /\ row' = row /\ job' = job
    BY <1>3 DEF Record
  <2>2. copy[k].ids \in [Kinds -> Nat] /\ order.ids = ids /\ order.version = copy[k].version
    BY <1>2 DEF Rows
  <2>3. ids[Kind(k)] = got[k] /\ \A t \in Kinds : t # Kind(k) => ids[t] = copy[k].ids[t]
    BY <1>2, <2>2
  <2>4. got[k] = copy[k].ids[Kind(k)] => ids = copy[k].ids
    BY <2>2
  <2> HIDE DEF ids, order
  <2>5. OnlyOf(k) /\ Is(k, "call", job[k], order, Tail(todo[k]), Absent)
    BY <1>2, <2>1 DEF OnlyOf, RegistersOK, Is
  <2>6. job[k] # "push"
    BY <1>3, Tails DEF MirrorInv, DInv, LeftOK, KindsLeft
  <2>7. ASSUME Follows("record", job[k], copy[k], todo[k], got[k], row, log, docs)
        PROVE  Follows("call", job[k], order, Tail(todo[k]), Absent, row, log', docs)
    <3>1. order.version = row.version /\ Tells(docs, Kind(k), got[k], row.version)
      BY <1>2, <2>2, <2>7 DEF Follows
    <3>2. ASSUME job[k] = "sync"
          PROVE  (\A t \in Kinds : row.ids[t] = Absent) /\
                 AllTell(order.ids, docs, row.version)
      BY <2>2, <2>3, <2>7, <3>1, <3>2 DEF Follows, Busy, AllTell
    <3>3. ASSUME job[k] = "update"
          PROVE  /\ order.ids = row.ids
                 /\ \A t \in Kinds : row.ids[t] # Absent =>
                      Tells(docs, t, row.ids[t], row.version) \/
                      \E i \in DOMAIN Tail(todo[k]) : Tail(todo[k])[i] = t
      <4>1. /\ copy[k].ids = row.ids /\ got[k] = copy[k].ids[Kind(k)]
            /\ \A t \in Kinds : row.ids[t] # Absent =>
                 Tells(docs, t, row.ids[t], row.version) \/
                 \E i \in DOMAIN todo[k] : todo[k][i] = t
        BY <1>2, <2>7, <3>3 DEF Follows, Busy
      <4>2. \A i \in DOMAIN todo[k] :
              todo[k][i] = Kind(k) \/ \E n \in DOMAIN Tail(todo[k]) : Tail(todo[k])[n] = todo[k][i]
        <5>1. SUFFICES ASSUME NEW i \in DOMAIN todo[k], i # 1
                       PROVE  \E n \in DOMAIN Tail(todo[k]) : Tail(todo[k])[n] = todo[k][i]
          BY <1>2
        <5>2. i - 1 \in DOMAIN Tail(todo[k]) /\ Tail(todo[k])[i - 1] = todo[k][i]
          BY <1>2, <5>1
        <5>3. QED
          BY <5>2
      <4>3. QED
        BY <2>2, <2>4, <3>1, <4>1, <4>2
    <3>4. QED
      BY <1>2, <2>6, <3>1, <3>2, <3>3 DEF Follows, Busy
  <2>8. QED
    BY <1>1, <2>1, <2>5, <2>7, StepMirrors DEF Is
<1>4. CASE Tail(todo[k]) = <<>>
  <2>1. row' = [row EXCEPT !.sync = "SUCCESS", !.ids = RecordIds(k)] /\ Over(k)
    BY <1>4 DEF Record
  <2>2. row'.ids = RecordIds(k) /\ row'.version = row.version
    BY <1>2, <2>1 DEF Rows
  <2>3. (~clash /\ Follows(pc[k], job[k], copy[k], todo[k], got[k], row, log, docs)) =>
          Settled(row', log', docs')
    BY <1>1, <1>4, <2>2, AllRecorded
  <2>4. QED
    BY <1>1, <2>1, <2>2, <2>3, OverMirrors
<1>5. QED
  BY <1>3, <1>4

LEMMA FailMirrors == ASSUME MirrorInv, NEW k \in Workers, Fail(k) PROVE FollowsOK'
<1>1. /\ pc[k] = "fail" /\ clash' = clash /\ died' = died /\ Over(k) /\ docs' = docs
      /\ drift' = drift
      /\ log' = [log EXCEPT ![Kind(k)] = "FAILED"]
      /\ row' = [row EXCEPT !.sync = "FAILED", !.ids = WithIds(KeptIds(k), copy[k].ids)]
  BY DEF Fail, past
<1>2. /\ GInv /\ row \in Rows /\ Kind(k) \in Kinds /\ job[k] \in {"sync", "update", "push"}
      /\ log \in Logs
      /\ 1 \in DOMAIN todo[k] /\ todo[k][1] = Kind(k)
  BY <1>1, Working, KindTypes DEF Busy, MirrorInv, DInv, HInv, Holds, SharedOK
<1>3. row'.ids = WithIds(KeptIds(k), copy[k].ids) /\ row'.version = row.version
  BY <1>1, <1>2 DEF Rows
<1>4. \A t \in Kinds : row'.ids[t] = IF t \in KeptIds(k) THEN copy[k].ids[t] ELSE row.ids[t]
  BY <1>3 DEF WithIds
<1>5. log'[Kind(k)] = "FAILED" /\ \A t \in Kinds : t # Kind(k) => log'[t] = log[t]
  BY ONLY <1>1, <1>2 DEF Logs
<1>6. ASSUME ~clash, Follows(pc[k], job[k], copy[k], todo[k], got[k], row, log, docs)
      PROVE  Settled(row', log', docs)
  <2>1. CASE job[k] = "sync"
    <3>1. (\A t \in Kinds : row.ids[t] = Absent) /\ AllTell(copy[k].ids, docs, row.version)
      BY <1>1, <1>6, <2>1 DEF Follows, Busy
    <3>2. QED
      BY <1>3, <1>4, <3>1 DEF Settled, AllTell
  <2>2. CASE job[k] = "update"
    <3>1. copy[k].ids = row.ids /\ copy[k].ids[Kind(k)] # Absent
      BY <1>1, <1>2, <1>6, <2>2, UpdatedId DEF Follows, Busy
    <3>2. row'.ids[Kind(k)] # Absent
      BY <1>2, <1>4, <3>1
    <3>3. QED
      BY <1>2, <1>5, <3>2 DEF Settled, AllLogged
  <2>3. CASE job[k] = "push"
    <3>1. Settled(row, log, docs)
      BY <1>6, <2>3 DEF Follows
    <3>2. \A t \in Kinds : row'.ids[t] = row.ids[t]
      BY <1>4, <2>3 DEF KeptIds
    <3>3. row.ids[Kind(k)] = Absent
      <4>1. Sole(pc[k], job[k], copy[k].ids, todo[k], row.ids)
        BY <1>1, <1>2, <1>6, Counting DEF MirrorInv
      <4>2. QED
        BY <1>1, <1>2, <2>3, <4>1 DEF Sole, Busy
    <3>4. AllLogged(row'.ids, log') => AllLogged(row.ids, log)
      BY <1>5, <3>2, <3>3 DEF AllLogged
    <3>5. QED
      BY <1>3, <3>1, <3>2, <3>4 DEF Settled, AllTell
  <2>4. QED
    BY <1>2, <2>1, <2>2, <2>3
<1>7. QED
  BY <1>1, <1>3, <1>6, OverMirrors

LEMMA EndsMirrors ==
  ASSUME MirrorInv, NEW k \in Workers, Commit(k) \/ Die(k) PROVE FollowsOK'
<1>1. CASE died' \/ drift'
  BY <1>1 DEF FollowsOK
<1>2. CASE ~died' /\ ~drift'
  <2>1. /\ pc[k] = "commit" /\ Leave(k) /\ clash' = clash /\ died' = died /\ docs' = docs
        /\ row' = row /\ log' = log /\ drift' = drift
    BY <1>2 DEF Commit, Die
  <2>2. OnlyOf(k) /\ pc'[k] = "idle"
    BY <2>1, Working, LeaveTypes DEF Is, MirrorInv, DInv, HInv
  <2>3. Follows(pc[k], job[k], copy[k], todo[k], got[k], row, log, docs) =>
          Settled(row, log, docs)
    BY <2>1 DEF Follows, Busy
  <2>4. QED
    BY <2>1, <2>2, <2>3, StepMirrors
<1>3. QED
  BY <1>1, <1>2

LEMMA NextMirrors == ASSUME MirrorInv, [Next]_vars PROVE MirrorInv'
<1>1. DInv' /\ PlatformOK'
  BY NextCounts, NextPlatform DEF MirrorInv, DInv, HInv
<1>2. ASSUME NEW k \in Workers, Step(k)
      PROVE  FollowsOK'
  BY <1>2, SaveMirrors, EndMirrors, BeginMirrors, CreateMirrors, PostMirrors, RewriteMirrors,
     RecordMirrors, FailMirrors, EndsMirrors
  DEF Step
<1>3. ASSUME NEW k \in Workers,
             Webhook(k) \/ Import(k) \/ Move(k) \/ Edit(k) \/ Step(k) \/ Die(k) \/
             PushToQuickBooks(k) \/ CreateOdooSo(k) \/ CreateOdooInvoice(k)
      PROVE  FollowsOK'
  <2>1. "so" \in Kinds /\ "inv" \in Kinds /\ "qb" \in Kinds
    BY DEF Kinds
  <2>2. QED
    BY <1>2, <1>3, <2>1, UpsertMirrors, TouchMirrors, PushMirrors, EndsMirrors
    DEF Webhook, Import, PushToQuickBooks, CreateOdooSo, CreateOdooInvoice
<1>4. UNCHANGED vars => FollowsOK'
  BY DEF MirrorInv, FollowsOK, Quiet, vars, open, local, past
<1>5. QED
  BY <1>1, <1>3, <1>4 DEF Next, MirrorInv

LEMMA InitMirrors == Init => MirrorInv
<1>1. SUFFICES ASSUME Init PROVE MirrorInv
  OBVIOUS
<1>2. DInv
  BY <1>1, InitCounts
<1>3. PlatformOK
  BY <1>1 DEF Init, PlatformOK, NoRow, NoIds
<1>4. FollowsOK
  BY <1>1 DEF Init, FollowsOK, Settled, AllTell, NoRow, NoIds
<1>5. QED
  BY <1>2, <1>3, <1>4 DEF MirrorInv

\* With no overlap and no dead worker, and no edit and no undone import since the
\* last webhook or import: whatever answers are lost and calls refused, an order
\* whose last attempts for its documents all succeeded has documents that say
\* what the order says.  The documents that an update has passed are those it has
\* told, a failure always leaves a FAILED attempt, and whatever an edit or an
\* undone import has left behind, the next webhook or import starts from it.
THEOREM DocumentsMirror == Spec => []Mirror
<1>1. Init => MirrorInv
  BY InitMirrors
<1>2. MirrorInv /\ [Next]_vars => MirrorInv'
  BY NextMirrors
<1>3. MirrorInv => Mirror
  BY DEF MirrorInv, FollowsOK, Settled, AllLogged, AllTell, Tells, Mirror
<1>4. QED
  BY <1>1, <1>2, <1>3, PTL DEF Spec
=============================================================================
