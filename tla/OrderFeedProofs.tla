-------------------------- MODULE OrderFeedProofs ---------------------------
(***************************************************************************)
(* Proofs about OrderFeed, for any number of workers, versions, lines and  *)
(* faults: an undisturbed rewrite leaves whole lines, an order is pushed   *)
(* once, and the feed implements DeliveryLedger.                           *)
(***************************************************************************)
EXTENDS OrderFeed, TLAPS

-----------------------------------------------------------------------------
(* Types, and which requests are at which statement.                       *)

Working == {"upsert", "wipe", "lines", "push", "mark", "import"}

\* A worker at work writes a version; only deliveries are pushed and marked, and
\* what they carry was announced.
WorkersOK ==
  \A k \in Workers :
    /\ pc[k] \in Working <=> job[k] # "none"
    /\ pc[k] = "import" <=> job[k] = "import"
    /\ pc[k] \in {"upsert", "push", "mark"} => job[k] = "webhook"
    /\ pc[k] \in Working => writes[k] \in Versions
    /\ job[k] = "webhook" => writes[k] \in 1..announced
    /\ pc[k] # "lines" => line[k] = 1

TInv == TypeOK /\ WorkersOK

LEMMA InitTypes == Init => TInv
<1> USE ConstantsAssumption
<1> SUFFICES ASSUME Init PROVE TInv
  OBVIOUS
<1>1. TypeOK
  BY DEF Init, TypeOK, NoItems, Deliveries
<1>2. WorkersOK
  BY DEF Init, WorkersOK, Working
<1>3. QED
  BY <1>1, <1>2 DEF TInv

LEMMA AnnouncedAreDeliveries ==
  ASSUME TypeOK
  PROVE  /\ 1..announced \subseteq Deliveries
         /\ Deliveries \subseteq Versions
         /\ Absent \notin Versions
         /\ Edited \in Versions
         /\ Versions \subseteq Nat
BY ConstantsAssumption DEF TypeOK, Deliveries, Versions, Edited, Absent

\* A count of things goes up by one.
LEMMA OneMore ==
  ASSUME NEW S, NEW f \in [S -> Nat], NEW y
  PROVE  [f EXCEPT ![y] = @ + 1] \in [S -> Nat]
<1> DEFINE g == [f EXCEPT ![y] = @ + 1]
<1>1. ASSUME NEW x \in S PROVE g[x] \in Nat
  <2>1. f[x] \in Nat /\ g[x] = IF x = y THEN f[x] + 1 ELSE f[x]
    OBVIOUS
  <2>2. QED
    BY <2>1
<1>2. g = [x \in S |-> g[x]]
  OBVIOUS
<1> HIDE DEF g
<1>3. g \in [S -> Nat]
  BY <1>1, <1>2
<1>4. QED
  BY <1>3 DEF g

LEMMA AnnounceTypes == ASSUME TInv, Announce PROVE TInv'
<1> USE ConstantsAssumption DEF Announce, local, past, TInv
<1>1. TypeOK'
  BY DEF TypeOK
<1>2. announced \in Nat /\ announced' = announced + 1
  BY DEF TypeOK
<1>3. WorkersOK'
  BY <1>2 DEF WorkersOK, Working
<1>4. QED
  BY <1>1, <1>3

LEMMA ClaimTypes ==
  ASSUME TInv, NEW k \in Workers, NEW d \in Deliveries, Claim(k, d) PROVE TInv'
<1> USE DEF Claim, local, past, TInv
<1>1. announced \in Nat /\ d \in 1..announced /\ d \in Versions
  BY AnnouncedAreDeliveries, ConstantsAssumption, SMTT(30) DEF TypeOK, Deliveries
<1>2. answered' \subseteq 1..announced
  BY <1>1 DEF TypeOK
<1>3. /\ delivery' \in [Deliveries -> {"none", "RECEIVED", "PROCESSED", "FAILED"}]
      /\ pc' \in [Workers -> {"idle"} \cup Working]
      /\ job' \in [Workers -> {"none", "webhook", "import", "edit"}]
      /\ writes' \in [Workers -> {Absent} \cup Versions]
  BY <1>1 DEF TypeOK, Goto, Working
<1>4. TypeOK'
  BY <1>2, <1>3 DEF TypeOK, Working
<1>5. WorkersOK'
  BY <1>1 DEF TypeOK, WorkersOK, Working, Goto
<1>6. QED
  BY <1>4, <1>5

LEMMA UpsertTypes == ASSUME TInv, NEW k \in Workers, Upsert(k) PROVE TInv'
<1> USE DEF Upsert, shopify, TInv
<1>1. writes[k] \in Versions
  BY DEF WorkersOK, Working
<1>2. created' \in [Workers -> BOOLEAN]
  <2> DEFINE new == order = Absent
  <2>1. created' = [created EXCEPT ![k] = new] /\ new \in BOOLEAN
    BY Zenon
  <2> HIDE DEF new
  <2>2. QED
    BY <2>1 DEF TypeOK
<1>3. alone' \in [Workers -> BOOLEAN] /\ intact' \in BOOLEAN
  BY Zenon DEF StartRewrite
<1>4. effects' \in [Deliveries -> Nat]
  BY OneMore DEF TypeOK
<1>5. TypeOK'
  BY <1>1, <1>2, <1>3, <1>4 DEF TypeOK, Goto
<1>6. WorkersOK'
  BY DEF TypeOK, WorkersOK, Working, Goto
<1>7. QED
  BY <1>5, <1>6

LEMMA WipeTypes == ASSUME TInv, NEW k \in Workers, Wipe(k) PROVE TInv'
<1> USE DEF Wipe, shopify, past, TInv
<1>1. TypeOK'
  BY DEF TypeOK, Goto, NoItems
<1>2. WorkersOK'
  BY DEF TypeOK, WorkersOK, Working, Goto
<1>3. QED
  BY <1>1, <1>2

LEMMA LeaveTypes ==
  ASSUME TInv, NEW k \in Workers, Leave(k), UNCHANGED announced
  PROVE  /\ pc' \in [Workers -> {"idle"} \cup Working]
         /\ job' \in [Workers -> {"none", "webhook", "import", "edit"}]
         /\ writes' \in [Workers -> {Absent} \cup Versions]
         /\ created' \in [Workers -> BOOLEAN] /\ line' \in [Workers -> 1..NumLines]
         /\ alone' \in [Workers -> BOOLEAN]
         /\ WorkersOK'
<1> USE DEF Leave, Goto, TInv
<1>1. NumLines \in Nat \ {0}
  BY ConstantsAssumption
<1>2. WorkersOK'
  BY DEF TypeOK, WorkersOK, Working
<1>3. QED
  BY <1>1, <1>2 DEF TypeOK, Working

LEMMA CreateLineTypes == ASSUME TInv, NEW k \in Workers, CreateLine(k) PROVE TInv'
<1> USE DEF TInv
<1>1. NumLines \in Nat \ {0} /\ line[k] \in 1..NumLines
  BY ConstantsAssumption DEF TypeOK
<1>2. items' \in [Lines -> Nat]
  <2> DEFINE l == <<writes[k], line[k]>>
  <2>1. items \in [Lines -> Nat] /\ items' = [items EXCEPT ![l] = @ + 1]
    BY DEF CreateLine, TypeOK
  <2> HIDE DEF l
  <2>2. QED
    BY <2>1, OneMore
<1>3. UNCHANGED <<order, delivery, announced, answered, effects, pushes, undone, faults>>
  BY DEF CreateLine, shopify
<1>4. CASE ~LastLine(k)
  <2>1. /\ line' = [line EXCEPT ![k] = @ + 1]
        /\ UNCHANGED <<pc, job, writes, created, alone, intact>>
    BY <1>4 DEF CreateLine
  <2>2. line[k] + 1 \in 1..NumLines
    BY <1>1, <1>4 DEF LastLine
  <2>3. TypeOK'
    BY <1>2, <1>3, <2>1, <2>2 DEF TypeOK
  <2>4. WorkersOK'
    BY <1>3, <2>1 DEF CreateLine, TypeOK, WorkersOK
  <2>5. QED
    BY <2>3, <2>4
<1>5. CASE LastLine(k) /\ Delivering(k)
  <2>1. /\ pc' = [pc EXCEPT ![k] = "push"]
        /\ line' = [line EXCEPT ![k] = 1]
        /\ alone' = [alone EXCEPT ![k] = FALSE]
        /\ intact' = alone[k]
        /\ UNCHANGED <<job, writes, created>>
    BY <1>5 DEF CreateLine, Goto
  <2>2. TypeOK'
    BY <1>1, <1>2, <1>3, <2>1 DEF TypeOK
  <2>3. WorkersOK'
    BY <1>3, <1>5, <2>1 DEF TypeOK, WorkersOK, Working, Delivering
  <2>4. QED
    BY <2>2, <2>3
<1>6. CASE LastLine(k) /\ ~Delivering(k)
  <2>1. Leave(k) /\ intact' = alone[k]
    BY <1>6 DEF CreateLine
  <2>2. WorkersOK'
    BY <1>3, <2>1, LeaveTypes
  <2>3. TypeOK'
    BY <1>2, <1>3, <2>1, LeaveTypes DEF TypeOK, Working
  <2>4. QED
    BY <2>2, <2>3
<1>7. QED
  BY <1>4, <1>5, <1>6

LEMMA PushTypes == ASSUME TInv, NEW k \in Workers, Push(k) PROVE TInv'
<1> USE DEF Push, shopify, TInv
<1>1. TypeOK'
  BY DEF TypeOK, Goto
<1>2. WorkersOK'
  BY DEF TypeOK, WorkersOK, Working, Goto
<1>3. QED
  BY <1>1, <1>2

LEMMA MarkTypes == ASSUME TInv, NEW k \in Workers, Mark(k) PROVE TInv'
<1> USE DEF TInv
<1>1. writes[k] \in 1..announced
  BY DEF Mark, WorkersOK
<1>2. Leave(k) /\ UNCHANGED <<order, items, announced, effects, pushes, undone, intact>>
  BY DEF Mark
<1>3. /\ answered' \subseteq 1..announced
      /\ faults' \in 0..MaxFaults
      /\ delivery' \in [Deliveries -> {"none", "RECEIVED", "PROCESSED", "FAILED"}]
  <2>1. answered \subseteq 1..announced /\ faults \in 0..MaxFaults
    BY DEF TypeOK
  <2>2. \/ answered' = answered \cup {writes[k]} /\ faults' = faults
        \/ faults < MaxFaults /\ faults' = faults + 1 /\ answered' = answered
    BY DEF Mark
  <2>3. answered' \subseteq 1..announced
    BY <1>1, <2>1, <2>2
  <2>4. faults' \in 0..MaxFaults
    BY <2>1, <2>2, ConstantsAssumption
  <2>5. QED
    BY <2>3, <2>4 DEF Mark, TypeOK
<1>4. WorkersOK'
  BY <1>2, LeaveTypes
<1>5. TypeOK'
  BY <1>2, <1>3, LeaveTypes DEF TypeOK, Working
<1>6. QED
  BY <1>4, <1>5

LEMMA FailTypes ==
  ASSUME TInv, NEW k \in Workers, Fail(k) \/ Die(k) PROVE TInv'
<1> USE DEF TInv
<1>1. Leave(k) /\ UNCHANGED <<order, items, announced, answered, effects, pushes, undone, intact>>
  BY DEF Fail, Die, shopify
<1>2. /\ faults' \in 0..MaxFaults
      /\ delivery' \in [Deliveries -> {"none", "RECEIVED", "PROCESSED", "FAILED"}]
  BY ConstantsAssumption DEF Fail, Die, TypeOK
<1>3. WorkersOK'
  BY <1>1, LeaveTypes
<1>4. TypeOK'
  BY <1>1, <1>2, LeaveTypes DEF TypeOK, Working
<1>5. QED
  BY <1>3, <1>4

LEMMA FetchTypes == ASSUME TInv, NEW k \in Workers, Fetch(k) PROVE TInv'
<1> USE DEF Fetch, shopify, past, TInv
<1>1. announced \in Versions
  BY ConstantsAssumption, AnnouncedAreDeliveries DEF TypeOK
<1>2. TypeOK'
  BY <1>1 DEF TypeOK, Goto
<1>3. WorkersOK'
  BY <1>1 DEF TypeOK, WorkersOK, Working, Goto
<1>4. QED
  BY <1>2, <1>3

LEMMA ImportTypes == ASSUME TInv, NEW k \in Workers, Import(k) PROVE TInv'
<1> USE DEF TInv
<1>1. writes[k] \in Versions
  BY DEF Import, WorkersOK, Working
<1>2. /\ pc' = [pc EXCEPT ![k] = "idle"]
      /\ job' = [job EXCEPT ![k] = "none"]
      /\ writes' = [writes EXCEPT ![k] = Absent]
      /\ UNCHANGED <<delivery, created, line, announced, answered, effects>>
  BY DEF Import, shopify
<1>3. LinesOf(writes[k]) \in [Lines -> Nat]
  BY DEF LinesOf
<1>4. /\ order' \in {Absent} \cup Versions /\ items' \in [Lines -> Nat]
      /\ pushes' \in Nat /\ undone' \in Nat /\ faults' \in 0..MaxFaults
      /\ alone' \in [Workers -> BOOLEAN] /\ intact' \in BOOLEAN
  <2>1. /\ order \in {Absent} \cup Versions /\ items \in [Lines -> Nat]
        /\ pushes \in Nat /\ undone \in Nat /\ faults \in 0..MaxFaults /\ MaxFaults \in Nat
        /\ alone \in [Workers -> BOOLEAN] /\ intact \in BOOLEAN
    BY ConstantsAssumption DEF TypeOK
  <2>2. \/ /\ order' = writes[k] /\ items' = LinesOf(writes[k])
           /\ pushes' \in {pushes, pushes + 1}
           /\ intact' = (Rewriting = {}) /\ alone' = [j \in Workers |-> FALSE]
           /\ UNCHANGED <<undone, faults>>
        \/ /\ faults < MaxFaults /\ faults' = faults + 1
           /\ pushes' \in {pushes, pushes + 1} /\ undone' \in {undone, undone + 1}
           /\ UNCHANGED <<order, items, intact, alone>>
    BY DEF Import
  <2>3. order' \in {Absent} \cup Versions /\ items' \in [Lines -> Nat]
    BY <1>1, <1>3, <2>1, <2>2
  <2>4. pushes' \in Nat /\ undone' \in Nat /\ faults' \in 0..MaxFaults
    BY <2>1, <2>2
  <2>5. alone' \in [Workers -> BOOLEAN] /\ intact' \in BOOLEAN
    BY <2>1, <2>2
  <2>6. QED
    BY <2>3, <2>4, <2>5
<1>5. TypeOK'
  BY <1>2, <1>4 DEF TypeOK
<1>6. WorkersOK'
  BY <1>2 DEF Import, TypeOK, WorkersOK, Working
<1>7. QED
  BY <1>5, <1>6

LEMMA EditTypes == ASSUME TInv, NEW k \in Workers, Edit(k) PROVE TInv'
<1> USE DEF Edit, shopify, TInv
<1>1. Edited \in Versions
  BY AnnouncedAreDeliveries
<1>2. TypeOK'
  BY <1>1 DEF TypeOK, Goto, StartRewrite
<1>3. WorkersOK'
  BY <1>1 DEF TypeOK, WorkersOK, Working, Goto
<1>4. QED
  BY <1>2, <1>3

LEMMA StutterTypes == ASSUME TInv, UNCHANGED vars PROVE TInv'
BY DEF TInv, TypeOK, WorkersOK, vars, local, shopify, past

\* The actions by name: what a proof by cases of Next starts from.
LEMMA NextCases ==
  ASSUME [Next]_vars
  PROVE  \/ Announce
         \/ \E k \in Workers, d \in Deliveries : Claim(k, d)
         \/ \E k \in Workers :
              \/ Upsert(k) \/ Wipe(k) \/ CreateLine(k) \/ Push(k) \/ Mark(k)
              \/ Import(k) \/ Fail(k) \/ Fetch(k) \/ Edit(k) \/ Die(k)
         \/ UNCHANGED vars
BY DEF Next, Send, Step

LEMMA NextTypes == ASSUME TInv, [Next]_vars PROVE TInv'
<1>1. CASE Announce
  BY <1>1, AnnounceTypes
<1>2. CASE \E k \in Workers, d \in Deliveries : Claim(k, d)
  BY <1>2, ClaimTypes
<1>3. ASSUME NEW k \in Workers,
             \/ Upsert(k) \/ Wipe(k) \/ CreateLine(k) \/ Push(k) \/ Mark(k)
             \/ Import(k) \/ Fail(k) \/ Fetch(k) \/ Edit(k) \/ Die(k)
      PROVE  TInv'
  BY <1>3, UpsertTypes, WipeTypes, CreateLineTypes, PushTypes, MarkTypes, ImportTypes,
     FailTypes, FetchTypes, EditTypes
<1>4. CASE UNCHANGED vars
  BY <1>4, StutterTypes
<1>5. QED
  BY <1>1, <1>2, <1>3, <1>4, NextCases

LEMMA TypesHold == Spec => []TInv
<1>1. QED
  BY InitTypes, NextTypes, PTL DEF Spec

\* Every variable of the feed keeps its type: services.py:1784-2168.
THEOREM TypeCorrect == Spec => []TypeOK
<1>1. TInv => TypeOK
  BY DEF TInv
<1>2. QED
  BY <1>1, TypesHold, PTL

-----------------------------------------------------------------------------
(* Whole lines.                                                            *)

\* The lines there are while version v is written and line n is the next.
Written(v, n) == [l \in Lines |-> IF l[1] = v /\ l[2] < n THEN 1 ELSE 0]

LEMMA WrittenNothing == ASSUME NEW v PROVE Written(v, 1) = NoItems
BY DEF Written, NoItems, Lines

LEMMA WrittenAll ==
  ASSUME NEW v, NEW n, n = NumLines PROVE Written(v, n + 1) = LinesOf(v)
BY ConstantsAssumption DEF Written, LinesOf, Lines

LEMMA WrittenNext ==
  ASSUME NEW v \in Versions, NEW n \in 1..NumLines
  PROVE  [Written(v, n) EXCEPT ![<<v, n>>] = @ + 1] = Written(v, n + 1)
<1> DEFINE new == [Written(v, n) EXCEPT ![<<v, n>>] = @ + 1]
<1>1. NumLines \in Nat /\ <<v, n>> \in Lines
  BY ConstantsAssumption DEF Lines
<1>2. ASSUME NEW l \in Lines PROVE new[l] = Written(v, n + 1)[l]
  <2>1. l[1] \in Versions /\ l[2] \in 1..NumLines /\ l = <<l[1], l[2]>>
    BY DEF Lines
  <2>2. CASE l = <<v, n>>
    <3>1. new[l] = Written(v, n)[l] + 1
      BY <1>1, <2>2 DEF Written
    <3>2. l[1] = v /\ l[2] = n
      BY <2>2
    <3>3. QED
      BY <1>1, <3>1, <3>2 DEF Written
  <2>3. CASE l # <<v, n>>
    <3>1. new[l] = Written(v, n)[l]
      BY <2>3 DEF Written
    <3>2. l[1] = v => l[2] # n
      BY <2>1, <2>3
    <3>3. (l[1] = v /\ l[2] < n) <=> (l[1] = v /\ l[2] < n + 1)
      BY <1>1, <2>1, <3>2
    <3>4. QED
      BY <3>1, <3>3 DEF Written
  <2>4. QED
    BY <2>2, <2>3
<1>3. DOMAIN new = Lines /\ DOMAIN Written(v, n + 1) = Lines
  BY DEF Written
<1>4. new = [l \in Lines |-> new[l]] /\ Written(v, n + 1) = [l \in Lines |-> Written(v, n + 1)[l]]
  BY <1>3 DEF Written
<1> HIDE DEF new
<1>5. new = Written(v, n + 1)
  BY <1>2, <1>4
<1>6. QED
  BY <1>5 DEF new

\* A rewrite nobody disturbed has written its lines up to the next one, and no
\* other is under way; nor is any once the order is intact.
AloneOK ==
  \A k \in Workers :
    alone[k] => /\ pc[k] \in {"wipe", "lines"}
                /\ \A j \in Workers : pc[j] \in {"wipe", "lines"} => j = k
                /\ order = writes[k]
                /\ pc[k] = "lines" => items = Written(writes[k], line[k])

IntactOK == intact => \A k \in Workers : pc[k] \notin {"wipe", "lines"}

RInv == AloneOK /\ IntactOK /\ LinesWhole

LEMMA InitRewrites == Init => RInv
BY DEF Init, RInv, AloneOK, IntactOK, LinesWhole

\* Steps that touch neither the order nor a rewrite.
LEMMA OtherStepsRewrites ==
  ASSUME TInv, RInv,
         UNCHANGED <<order, items, intact, alone>>,
         \A k \in Workers : \/ pc'[k] = pc[k] /\ writes'[k] = writes[k] /\ line'[k] = line[k]
                            \/ {pc[k], pc'[k]} \cap {"wipe", "lines"} = {}
  PROVE  RInv'
<1>1. AloneOK'
  BY DEF RInv, AloneOK
<1>2. IntactOK'
  BY DEF RInv, IntactOK
<1>3. LinesWhole'
  BY DEF RInv, LinesWhole
<1>4. QED
  BY <1>1, <1>2, <1>3 DEF RInv

LEMMA LeaveRewrites ==
  ASSUME TInv, RInv, NEW k \in Workers, Leave(k), UNCHANGED <<order, items, intact>>
  PROVE  RInv'
<1> USE DEF Leave, Goto, TInv, TypeOK
<1>1. AloneOK'
  BY DEF RInv, AloneOK
<1>2. IntactOK'
  BY DEF RInv, IntactOK
<1>3. LinesWhole'
  BY DEF RInv, LinesWhole
<1>4. QED
  BY <1>1, <1>2, <1>3 DEF RInv

LEMMA StartRewriteRewrites ==
  ASSUME TInv, RInv, NEW k \in Workers, StartRewrite(k), Goto(k, "wipe"),
         order' = writes'[k]
  PROVE  RInv'
<1>1. AloneOK'
  BY DEF StartRewrite, Goto, Rewriting, TInv, TypeOK, AloneOK
<1>2. ~intact'
  BY DEF StartRewrite
<1>3. QED
  BY <1>1, <1>2 DEF RInv, IntactOK, LinesWhole

LEMMA WipeRewrites == ASSUME TInv, RInv, NEW k \in Workers, Wipe(k) PROVE RInv'
<1>1. line[k] = 1
  BY DEF TInv, WorkersOK, Wipe
<1>2. items' = Written(writes[k], line[k])
  BY <1>1, WrittenNothing DEF Wipe
<1>3. AloneOK'
  BY <1>2 DEF Wipe, Goto, past, TInv, TypeOK, RInv, AloneOK
<1>4. ~intact /\ intact' = intact
  BY DEF RInv, IntactOK, Wipe, past
<1>5. QED
  BY <1>3, <1>4 DEF RInv, IntactOK, LinesWhole

LEMMA CreateLineRewrites ==
  ASSUME TInv, RInv, NEW k \in Workers, CreateLine(k) PROVE RInv'
<1>1. /\ pc[k] = "lines" /\ line[k] \in 1..NumLines /\ NumLines \in Nat
      /\ order' = order /\ items' = [items EXCEPT ![<<writes[k], line[k]>>] = @ + 1]
      /\ writes[k] \in Versions /\ order \in {Absent} \cup Versions
  BY ConstantsAssumption DEF CreateLine, TInv, TypeOK, WorkersOK, Working
<1>2. alone[k] => items' = Written(writes[k], line[k] + 1)
  BY <1>1, WrittenNext DEF RInv, AloneOK
<1>3. \A j \in Workers : alone[j] => j = k
  BY <1>1 DEF RInv, AloneOK
<1>4. CASE ~LastLine(k)
  <2>1. line' = [line EXCEPT ![k] = @ + 1] /\ UNCHANGED <<pc, job, writes, created, alone, intact>>
    BY <1>4 DEF CreateLine
  <2>2. AloneOK'
    BY <1>1, <1>2, <1>3, <2>1 DEF RInv, AloneOK, TInv, TypeOK
  <2>3. ~intact'
    BY <1>1, <2>1 DEF RInv, IntactOK
  <2>4. QED
    BY <2>2, <2>3 DEF RInv, IntactOK, LinesWhole
<1>5. CASE LastLine(k)
  <2>1. /\ intact' = alone[k]
        /\ alone' = [alone EXCEPT ![k] = FALSE]
        /\ \E where \in {"push", "idle"} : pc' = [pc EXCEPT ![k] = where]
    BY <1>5 DEF CreateLine, Leave, Goto
  <2>2. \A j \in Workers : ~alone'[j]
    BY <1>3, <2>1 DEF TInv, TypeOK
  <2>3. AloneOK'
    BY <2>2 DEF AloneOK
  <2>4. ASSUME alone[k], NEW j \in Workers PROVE pc'[j] \notin {"wipe", "lines"}
    <3>1. pc[j] \in {"wipe", "lines"} => j = k
      BY <2>4 DEF RInv, AloneOK
    <3>2. QED
      BY <2>1, <3>1 DEF TInv, TypeOK
  <2>5. ASSUME intact' PROVE order' # Absent /\ items' = LinesOf(order')
    <3>1. alone[k]
      BY <2>1, <2>5
    <3>2. order = writes[k]
      BY <3>1 DEF RInv, AloneOK
    <3>3. line[k] = NumLines
      BY <1>5 DEF LastLine
    <3>4. items' = LinesOf(writes[k])
      BY <1>2, <3>1, <3>3, WrittenAll
    <3>5. QED
      BY <1>1, <3>2, <3>4, AnnouncedAreDeliveries DEF TInv
  <2>6. LinesWhole'
    BY <2>5 DEF LinesWhole
  <2>7. IntactOK'
    BY <2>1, <2>4 DEF IntactOK
  <2>8. QED
    BY <2>3, <2>6, <2>7 DEF RInv
<1>6. QED
  BY <1>4, <1>5

LEMMA ImportRewrites == ASSUME TInv, RInv, NEW k \in Workers, Import(k) PROVE RInv'
<1>1. writes[k] # Absent
  BY AnnouncedAreDeliveries DEF Import, TInv, WorkersOK, Working
<1>2. pc[k] = "import" /\ pc' = [pc EXCEPT ![k] = "idle"]
      /\ writes' = [writes EXCEPT ![k] = Absent] /\ line' = line
  BY DEF Import
<1>3. CASE /\ order' = writes[k] /\ items' = LinesOf(writes[k])
           /\ intact' = (Rewriting = {}) /\ alone' = [j \in Workers |-> FALSE]
  <2>1. AloneOK'
    BY <1>3 DEF AloneOK
  <2>2. IntactOK'
    BY <1>2, <1>3 DEF IntactOK, Rewriting, TInv, TypeOK
  <2>3. LinesWhole'
    BY <1>1, <1>3 DEF LinesWhole, LinesOf
  <2>4. QED
    BY <2>1, <2>2, <2>3 DEF RInv
<1>4. CASE UNCHANGED <<order, items, intact, alone>>
  BY <1>2, <1>4, OtherStepsRewrites DEF TInv, TypeOK
<1>5. QED
  BY <1>3, <1>4 DEF Import

LEMMA NextRewrites == ASSUME TInv, RInv, [Next]_vars PROVE RInv'
<1> USE DEF TInv, TypeOK, Goto, local, past, shopify
<1>1. CASE Announce
  BY <1>1, OtherStepsRewrites DEF Announce
<1>2. ASSUME NEW k \in Workers, NEW d \in Deliveries, Claim(k, d) PROVE RInv'
  BY <1>2, OtherStepsRewrites DEF Claim
<1>3. ASSUME NEW k \in Workers, Fetch(k) \/ Push(k) PROVE RInv'
  BY <1>3, OtherStepsRewrites DEF Fetch, Push
<1>4. ASSUME NEW k \in Workers, Mark(k) \/ Fail(k) \/ Die(k) PROVE RInv'
  BY <1>4, LeaveRewrites DEF Mark, Fail, Die
<1>5. ASSUME NEW k \in Workers, Upsert(k) PROVE RInv'
  BY <1>5, StartRewriteRewrites DEF Upsert
<1>6. ASSUME NEW k \in Workers, Edit(k) PROVE RInv'
  BY <1>6, StartRewriteRewrites DEF Edit
<1>7. CASE UNCHANGED vars
  BY <1>7, OtherStepsRewrites DEF vars
<1>8. QED
  BY <1>1, <1>2, <1>3, <1>4, <1>5, <1>6, <1>7, WipeRewrites, CreateLineRewrites,
     ImportRewrites, NextCases

\* Whoever overlaps, fails or dies: once the last rewrite of the order has ended
\* undisturbed, the order has each line of its version once, and no other:
\* services.py:1850-1906, orders/serializers.py:128-141.
THEOREM LinesStayWhole == Spec => []LinesWhole
<1>1. Init => RInv
  BY InitRewrites
<1>2. TInv /\ RInv /\ [Next]_vars => RInv'
  BY NextRewrites
<1>3. RInv => LinesWhole
  BY DEF RInv
<1>4. QED
  BY <1>1, <1>2, <1>3, TypesHold, PTL DEF Spec

-----------------------------------------------------------------------------
(* One push.                                                               *)

\* Whoever is about to push the order created it, alone, and nobody has pushed
\* it since it last disappeared.
PushesOK ==
  /\ order = Absent => pushes <= undone /\ \A k \in Workers : ~created[k]
  /\ \A k \in Workers : created[k] => pushes <= undone
  /\ \A j, k \in Workers : created[j] /\ created[k] => j = k
  /\ pushes <= 1 + undone

LEMMA InitPushes == Init => PushesOK
BY DEF Init, PushesOK

\* Steps that push nothing, create no order and remove none.
LEMMA OtherStepsPushes ==
  ASSUME PushesOK, UNCHANGED <<pushes, undone>>,
         order' = Absent => order = Absent,
         \A k \in Workers : created'[k] => created[k]
  PROVE  PushesOK'
BY DEF PushesOK

LEMMA UpsertPushes == ASSUME TInv, PushesOK, NEW k \in Workers, Upsert(k) PROVE PushesOK'
<1>1. order' # Absent /\ UNCHANGED <<pushes, undone>> /\ pushes \in Nat /\ undone \in Nat
  BY AnnouncedAreDeliveries DEF Upsert, TInv, TypeOK, WorkersOK, Working
<1>2. CASE order = Absent
  <2>1. pushes <= undone /\ \A j \in Workers : ~created[j]
    BY <1>2 DEF PushesOK
  <2>2. \A j \in Workers : j # k => ~created'[j]
    BY <2>1 DEF Upsert, TInv, TypeOK
  <2>3. QED
    BY <1>1, <2>1, <2>2 DEF PushesOK
<1>3. CASE order # Absent
  <2>1. \A j \in Workers : created'[j] => created[j]
    BY <1>3 DEF Upsert, TInv, TypeOK
  <2>2. QED
    BY <1>1, <2>1, OtherStepsPushes
<1>4. QED
  BY <1>2, <1>3

LEMMA PushPushes == ASSUME TInv, PushesOK, NEW k \in Workers, Push(k) PROVE PushesOK'
<1>1. /\ created' = [created EXCEPT ![k] = FALSE] /\ created \in [Workers -> BOOLEAN]
      /\ UNCHANGED <<order, undone>> /\ pushes \in Nat /\ undone \in Nat
  BY DEF Push, TInv, TypeOK
<1>2. CASE created[k]
  <2>1. pushes' = pushes + 1 /\ pushes <= undone /\ order # Absent
    BY <1>2 DEF Push, IsNew, PushesOK
  <2>2. \A j \in Workers : ~created'[j]
    BY <1>1, <1>2 DEF PushesOK
  <2>3. pushes' <= 1 + undone'
    BY <1>1, <2>1
  <2>4. QED
    BY <1>1, <2>1, <2>2, <2>3 DEF PushesOK
<1>3. CASE ~created[k]
  <2>1. pushes' = pushes
    BY <1>3 DEF Push, IsNew
  <2>2. \A j \in Workers : created'[j] => created[j]
    BY <1>1
  <2>3. QED
    BY <1>1, <2>1, <2>2, OtherStepsPushes
<1>4. QED
  BY <1>2, <1>3

LEMMA ImportPushes == ASSUME TInv, PushesOK, NEW k \in Workers, Import(k) PROVE PushesOK'
<1>1. /\ writes[k] # Absent /\ created' = created
      /\ pushes \in Nat /\ undone \in Nat
  BY AnnouncedAreDeliveries DEF Import, TInv, TypeOK, WorkersOK, Working
<1>2. CASE order # Absent
  <2>1. order' # Absent /\ UNCHANGED <<pushes, undone>>
    BY <1>1, <1>2 DEF Import
  <2>2. QED
    BY <1>1, <2>1, OtherStepsPushes
<1>3. CASE order = Absent
  <2>1. pushes <= undone /\ \A j \in Workers : ~created'[j]
    BY <1>1, <1>3 DEF PushesOK
  <2>2. \/ order' = writes[k] /\ pushes' = pushes + 1 /\ undone' = undone
        \/ order' = order /\ pushes' = pushes /\ undone' = undone
        \/ order' = order /\ pushes' = pushes + 1 /\ undone' = undone + 1
    BY <1>3 DEF Import
  <2>3. /\ pushes' <= 1 + undone'
        /\ order' = Absent => pushes' <= undone'
    BY <1>1, <2>1, <2>2
  <2>4. QED
    BY <2>1, <2>3 DEF PushesOK
<1>4. QED
  BY <1>2, <1>3

LEMMA NextPushes == ASSUME TInv, PushesOK, [Next]_vars PROVE PushesOK'
<1> USE DEF TInv, TypeOK, Leave, local, past, shopify
<1>1. CASE Announce
  BY <1>1, OtherStepsPushes DEF Announce
<1>2. ASSUME NEW k \in Workers, NEW d \in Deliveries, Claim(k, d) PROVE PushesOK'
  BY <1>2, OtherStepsPushes DEF Claim
<1>3. ASSUME NEW k \in Workers, Fetch(k) \/ Wipe(k) PROVE PushesOK'
  BY <1>3, OtherStepsPushes DEF Fetch, Wipe
<1>4. ASSUME NEW k \in Workers, Mark(k) \/ Fail(k) \/ Die(k) PROVE PushesOK'
  BY <1>4, OtherStepsPushes DEF Mark, Fail, Die
<1>5. ASSUME NEW k \in Workers, CreateLine(k) PROVE PushesOK'
  <2>1. UNCHANGED <<order, pushes, undone>>
    BY <1>5 DEF CreateLine
  <2>2. created' = created \/ created' = [created EXCEPT ![k] = FALSE]
    BY <1>5 DEF CreateLine
  <2>3. QED
    BY <2>1, <2>2, OtherStepsPushes
<1>6. ASSUME NEW k \in Workers, Edit(k) PROVE PushesOK'
  <2>1. UNCHANGED <<pushes, undone, created>> /\ order' = Edited /\ Edited # Absent
    BY <1>6, ConstantsAssumption DEF Edit, Edited, Absent
  <2>2. QED
    BY <2>1, OtherStepsPushes
<1>7. CASE UNCHANGED vars
  BY <1>7, OtherStepsPushes DEF vars
<1>8. QED
  BY <1>1, <1>2, <1>3, <1>4, <1>5, <1>6, <1>7, UpsertPushes, PushPushes, ImportPushes,
     NextCases

\* However many deliveries and imports bring an order, it is pushed as new once,
\* and once more for each import that was undone after its push:
\* services.py:1908-1920, 2123-2157.
THEOREM PushedAsNewOnce == Spec => []PushedOnce
<1>1. Init => PushesOK
  BY InitPushes
<1>2. TInv /\ PushesOK /\ [Next]_vars => PushesOK'
  BY NextPushes
<1>3. PushesOK => PushedOnce
  BY DEF PushesOK, PushedOnce
<1>4. QED
  BY <1>1, <1>2, <1>3, TypesHold, PTL DEF Spec

-----------------------------------------------------------------------------
(* The ledger of deliveries.                                               *)

Handles(k, d) == job[k] = "webhook" /\ writes[k] = d

\* A delivery that is PROCESSED, or whose handler is past the upsert, has taken
\* effect.
AppliedOK ==
  /\ \A d \in Deliveries : delivery[d] = "PROCESSED" => effects[d] > 0
  /\ \A k \in Workers, d \in Deliveries :
       Handles(k, d) /\ pc[k] # "upsert" => effects[d] > 0

LEMMA SettledMeans ==
  /\ \A d : d \in Settled <=> /\ d \in Deliveries
                              /\ delivery[d] = "PROCESSED"
                              /\ \A k \in Workers : ~Handles(k, d)
  /\ \A d : d \in Settled' <=> /\ d \in Deliveries
                               /\ delivery'[d] = "PROCESSED"
                               /\ \A k \in Workers : ~Handles(k, d)'
BY DEF Settled, Handles, Delivering

LEMMA InitLedger == Init => AppliedOK /\ Ledger!Init
BY DEF Init, AppliedOK, Handles, Settled, Ledger!Init

\* Steps that neither apply nor settle anything.
LEMMA OtherStepsLedger ==
  ASSUME TInv, AppliedOK,
         UNCHANGED <<delivery, effects>>,
         \A k \in Workers, d \in Deliveries :
           Handles(k, d)' <=> Handles(k, d),
         \A k \in Workers : pc[k] = "upsert" => pc'[k] = "upsert"
  PROVE  AppliedOK' /\ UNCHANGED Ledger!vars
<1>1. AppliedOK'
  BY DEF AppliedOK
<1>2. Settled' = Settled
  BY SettledMeans
<1>3. QED
  BY <1>1, <1>2 DEF Ledger!vars

\* A worker leaves the delivery it handles, which may be settled by that.
LEMMA LeaveLedger ==
  ASSUME TInv, AppliedOK, NEW k \in Workers, NEW d \in Deliveries,
         Handles(k, d), Leave(k), effects' = effects,
         \A e \in Deliveries : e # d => delivery'[e] = delivery[e],
         delivery'[d] = "PROCESSED" => effects[d] > 0
  PROVE  AppliedOK' /\ [Ledger!Next]_(Ledger!vars)
<1>1. \A j \in Workers, e \in Deliveries : Handles(j, e)' <=> Handles(j, e) /\ j # k
  BY DEF Leave, Handles, TInv, TypeOK
<1>2. \A j \in Workers : j # k => pc'[j] = pc[j]
  BY DEF Leave, Goto, TInv, TypeOK
<1>3. AppliedOK'
  BY <1>1, <1>2 DEF AppliedOK
<1>4. \A e \in Deliveries : e # d => (Handles(k, e) <=> FALSE)
  BY DEF Handles
<1>5. \A e : e \in Settled' /\ e # d <=> e \in Settled /\ e # d
  BY <1>1, <1>4, SettledMeans
<1>6. d \notin Settled
  BY SettledMeans
<1>7. CASE d \in Settled'
  <2>1. Settled' = Settled \cup {d}
    BY <1>5, <1>7
  <2>2. effects[d] > 0
    BY <1>7, SettledMeans
  <2>3. Ledger!Settle(d)
    BY <2>1, <2>2 DEF Ledger!Settle
  <2>4. QED
    BY <1>3, <2>3 DEF Ledger!Next
<1>8. CASE d \notin Settled'
  <2>1. Settled' = Settled
    BY <1>5, <1>6, <1>8
  <2>2. QED
    BY <1>3, <2>1 DEF Ledger!vars
<1>9. QED
  BY <1>7, <1>8

LEMMA UpsertLedger ==
  ASSUME TInv, AppliedOK, NEW k \in Workers, Upsert(k)
  PROVE  AppliedOK' /\ Ledger!Next
<1> DEFINE d == writes[k]
<1>1. Handles(k, d) /\ d \in Deliveries
  BY AnnouncedAreDeliveries DEF Handles, Upsert, TInv, WorkersOK
<1>2. /\ effects' = [effects EXCEPT ![d] = @ + 1] /\ effects \in [Deliveries -> Nat]
      /\ UNCHANGED <<delivery, job, writes>>
      /\ pc' = [pc EXCEPT ![k] = "wipe"] /\ DOMAIN pc = Workers
  BY DEF Upsert, Goto, TInv, TypeOK
<1>3. effects'[d] > 0 /\ \A e \in Deliveries : e # d => effects'[e] = effects[e]
  BY <1>1, <1>2
<1>4. \A j \in Workers, e \in Deliveries : Handles(j, e)' <=> Handles(j, e)
  BY <1>2 DEF Handles
<1> HIDE DEF d
<1>5. AppliedOK'
  <2>1. \A e \in Deliveries : delivery'[e] = "PROCESSED" => effects'[e] > 0
    BY <1>2, <1>3 DEF AppliedOK
  <2>2. ASSUME NEW j \in Workers, NEW e \in Deliveries, Handles(j, e)', pc'[j] # "upsert"
        PROVE  effects'[e] > 0
    <3>1. CASE e = d
      BY <1>3, <3>1
    <3>2. CASE e # d
      <4>1. j # k
        BY <1>1, <1>4, <2>2, <3>2 DEF Handles
      <4>2. Handles(j, e) /\ pc[j] # "upsert"
        BY <1>2, <1>4, <2>2, <4>1
      <4>3. QED
        BY <1>3, <3>2, <4>2 DEF AppliedOK
    <3>3. QED
      BY <3>1, <3>2
  <2>3. QED
    BY <2>1, <2>2 DEF AppliedOK
<1>6. d \notin Settled /\ Settled' = Settled
  <2>1. d \notin Settled
    BY <1>1, SettledMeans
  <2>2. \A e : e \in Settled' <=> e \in Settled
    BY <1>2, <1>4, SettledMeans
  <2>3. QED
    BY <2>1, <2>2
<1>7. Ledger!Apply(d)
  BY <1>2, <1>6 DEF Ledger!Apply
<1>8. QED
  BY <1>1, <1>5, <1>7 DEF Ledger!Next

LEMMA ClaimLedger ==
  ASSUME TInv, AppliedOK, NEW k \in Workers, NEW d \in Deliveries, Claim(k, d)
  PROVE  AppliedOK' /\ UNCHANGED Ledger!vars
<1>1. \A e \in Deliveries : ~Handles(k, e)
  BY DEF Claim, Handles, TInv, WorkersOK, Working
<1>2. effects' = effects
  BY DEF Claim, past
<1>3. CASE UNCHANGED <<delivery, local>>
  BY <1>2, <1>3, OtherStepsLedger DEF local, Handles
<1>4. CASE ~UNCHANGED <<delivery, local>>
  <2>1. /\ delivery[d] # "PROCESSED"
        /\ delivery' = [delivery EXCEPT ![d] = "RECEIVED"]
        /\ job' = [job EXCEPT ![k] = "webhook"]
        /\ writes' = [writes EXCEPT ![k] = d]
        /\ pc' = [pc EXCEPT ![k] = "upsert"]
    BY <1>4 DEF Claim, Claimable, Goto
  <2>2. \A j \in Workers, e \in Deliveries :
          Handles(j, e)' <=> Handles(j, e) \/ (j = k /\ e = d)
    BY <1>1, <2>1 DEF Handles, TInv, TypeOK
  <2>3. \A e \in Deliveries : delivery'[e] = "PROCESSED" <=> delivery[e] = "PROCESSED"
    BY <2>1 DEF TInv, TypeOK
  <2>4. AppliedOK'
    <3>1. \A e \in Deliveries : delivery'[e] = "PROCESSED" => effects'[e] > 0
      BY <1>2, <2>3 DEF AppliedOK
    <3>2. \A j \in Workers : pc'[j] # "upsert" => j # k /\ pc'[j] = pc[j]
      BY <2>1 DEF TInv, TypeOK
    <3>3. QED
      BY <1>2, <2>2, <3>1, <3>2 DEF AppliedOK
  <2>5. \A e : e \in Settled' <=> e \in Settled
    BY <2>1, <2>2, <2>3, SettledMeans
  <2>6. Settled' = Settled
    BY <2>5
  <2>7. QED
    BY <1>2, <2>4, <2>6 DEF Ledger!vars
<1>5. QED
  BY <1>3, <1>4

LEMMA MarkLedger ==
  ASSUME TInv, AppliedOK, NEW k \in Workers, Mark(k)
  PROVE  AppliedOK' /\ [Ledger!Next]_(Ledger!vars)
<1>1. Handles(k, writes[k]) /\ writes[k] \in Deliveries
  BY AnnouncedAreDeliveries DEF Handles, Mark, TInv, WorkersOK
<1>2. effects[writes[k]] > 0
  BY <1>1 DEF AppliedOK, Mark
<1>3. Leave(k) /\ effects' = effects
  BY DEF Mark
<1>4. \A e \in Deliveries : e # writes[k] => delivery'[e] = delivery[e]
  BY DEF Mark, TInv, TypeOK
<1>5. QED
  BY <1>1, <1>2, <1>3, <1>4, LeaveLedger

LEMMA FailLedger ==
  ASSUME TInv, AppliedOK, NEW k \in Workers, Fail(k)
  PROVE  AppliedOK' /\ [Ledger!Next]_(Ledger!vars)
<1>1. Handles(k, writes[k]) /\ writes[k] \in Deliveries
  BY AnnouncedAreDeliveries DEF Handles, Fail, Delivering, TInv, WorkersOK
<1>2. Leave(k) /\ effects' = effects
  BY DEF Fail
<1>3. /\ \A e \in Deliveries : e # writes[k] => delivery'[e] = delivery[e]
      /\ delivery'[writes[k]] = "FAILED"
  BY <1>1 DEF Fail, TInv, TypeOK
<1>4. QED
  BY <1>1, <1>2, <1>3, LeaveLedger

LEMMA DieLedger ==
  ASSUME TInv, AppliedOK, NEW k \in Workers, Die(k)
  PROVE  AppliedOK' /\ [Ledger!Next]_(Ledger!vars)
<1>1. Leave(k) /\ UNCHANGED <<delivery, effects>> /\ pc[k] # "idle"
  BY DEF Die
<1>2. CASE job[k] = "webhook"
  <2>1. Handles(k, writes[k]) /\ writes[k] \in Deliveries
    BY <1>2, AnnouncedAreDeliveries DEF Handles, TInv, WorkersOK
  <2>2. delivery'[writes[k]] = "PROCESSED" => effects[writes[k]] > 0
    BY <1>1, <2>1 DEF AppliedOK
  <2>3. QED
    BY <1>1, <2>1, <2>2, LeaveLedger
<1>3. CASE job[k] # "webhook"
  <2>1. \A j \in Workers, e \in Deliveries : Handles(j, e)' <=> Handles(j, e)
    BY <1>1, <1>3 DEF Leave, Handles, TInv, TypeOK
  <2>2. \A j \in Workers : pc[j] = "upsert" => pc'[j] = "upsert"
    BY <1>1, <1>3 DEF Leave, Goto, TInv, TypeOK, WorkersOK
  <2>3. QED
    BY <1>1, <2>1, <2>2, OtherStepsLedger
<1>4. QED
  BY <1>2, <1>3

LEMMA CreateLineLedger ==
  ASSUME TInv, AppliedOK, NEW k \in Workers, CreateLine(k)
  PROVE  AppliedOK' /\ UNCHANGED Ledger!vars
<1>1. UNCHANGED <<delivery, effects>> /\ pc[k] = "lines"
  BY DEF CreateLine
<1>2. \A j \in Workers, e \in Deliveries : Handles(j, e)' <=> Handles(j, e)
  <2>1. \/ UNCHANGED <<job, writes>>
        \/ Leave(k) /\ job[k] # "webhook"
    BY DEF CreateLine, Delivering
  <2>2. QED
    BY <2>1 DEF Leave, Handles, TInv, TypeOK
<1>3. \A j \in Workers : pc[j] = "upsert" => pc'[j] = "upsert"
  <2>1. pc' = pc \/ \E where \in {"push", "idle"} : pc' = [pc EXCEPT ![k] = where]
    BY DEF CreateLine, Leave, Goto
  <2>2. QED
    BY <1>1, <2>1 DEF TInv, TypeOK
<1>4. QED
  BY <1>1, <1>2, <1>3, OtherStepsLedger

LEMMA NextLedger ==
  ASSUME TInv, AppliedOK, [Next]_vars
  PROVE  AppliedOK' /\ [Ledger!Next]_(Ledger!vars)
<1> DEFINE Kept == AppliedOK' /\ [Ledger!Next]_(Ledger!vars)
<1> USE DEF TInv, TypeOK, Goto, Handles, local, past, shopify
<1>1. CASE Announce
  BY <1>1, OtherStepsLedger DEF Announce
<1>2. ASSUME NEW k \in Workers, NEW d \in Deliveries, Claim(k, d) PROVE Kept
  BY <1>2, ClaimLedger
<1>3. ASSUME NEW k \in Workers, Wipe(k) \/ Push(k) PROVE Kept
  BY <1>3, OtherStepsLedger DEF Wipe, Push
<1>4. ASSUME NEW k \in Workers, Fetch(k) \/ Edit(k) PROVE Kept
  <2>1. job[k] = "none" /\ pc[k] = "idle"
    BY <1>4 DEF Fetch, Edit, WorkersOK, Working
  <2>2. QED
    BY <1>4, <2>1, OtherStepsLedger DEF Fetch, Edit
<1>5. ASSUME NEW k \in Workers, Import(k) PROVE Kept
  <2>1. job[k] = "import" /\ pc[k] = "import"
    BY <1>5 DEF Import, WorkersOK
  <2>2. UNCHANGED <<delivery, effects>> /\ pc' = [pc EXCEPT ![k] = "idle"]
        /\ job' = [job EXCEPT ![k] = "none"] /\ writes' = [writes EXCEPT ![k] = Absent]
    BY <1>5 DEF Import
  <2>3. QED
    BY <2>1, <2>2, OtherStepsLedger
<1>6. CASE UNCHANGED vars
  BY <1>6, OtherStepsLedger DEF vars
<1>7. QED
  BY <1>1, <1>2, <1>3, <1>4, <1>5, <1>6, UpsertLedger, CreateLineLedger, MarkLedger,
     FailLedger, DieLedger, NextCases

\* For any workers, versions and faults, the handlers implement the ledger: a
\* delivery that is settled has taken effect and never does again:
\* services.py:1986-2120, README.md:63.
THEOREM FeedKeepsLedger == Spec => KeepsLedger
<1>1. Init => AppliedOK /\ Ledger!Init
  BY InitLedger
<1>2. TInv /\ AppliedOK /\ [Next]_vars => AppliedOK' /\ [Ledger!Next]_(Ledger!vars)
  BY NextLedger
<1>3. QED
  BY <1>1, <1>2, TypesHold, PTL DEF Spec, KeepsLedger, Ledger!Spec
=============================================================================
