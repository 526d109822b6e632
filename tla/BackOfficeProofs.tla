-------------------------- MODULE BackOfficeProofs --------------------------
(***************************************************************************)
(* Proofs about parts of the back office, for any number of actors, rows   *)
(* and lines: how invitations are answered, what the documents of an order *)
(* ask for, that edits of inventory rows conserve units, and what becomes  *)
(* of bills of materials.  All but the first rest on lemmas about sums,    *)
(* which come first.                                                       *)
(***************************************************************************)
EXTENDS Invitations, Billing, InventoryEdit, Catalogue,
        FiniteSetTheorems, WellFoundedInduction, TLAPS

-----------------------------------------------------------------------------
(* Sums of the values of a function on a finite set                         *)

\* Among sets of elements of a finite set, one has no proper subset.
LEMMA Smallest ==
  ASSUME NEW S, IsFiniteSet(S), NEW B \in SUBSET (SUBSET S), B # {}
  PROVE  \E T \in B : \A U \in B : U \subseteq T => U = T
<1>1. IsWellFoundedOn(StrictSubsetOrdering(S), SUBSET S)
  BY FS_StrictSubsetOrderingWellFounded, FS_FiniteSubsetsOfFinite
<1>2. PICK T \in B : \A U \in B : <<U, T>> \notin StrictSubsetOrdering(S)
  BY <1>1, WFMin
<1>3. ASSUME NEW U \in B, U \subseteq T
      PROVE  U = T
  BY <1>2, <1>3 DEF StrictSubsetOrdering
<1>. QED
  BY <1>3

Pick(s) == CHOOSE x \in s : TRUE

\* g gives each subset of S the sum of the values of f on it.
Adds(f, S, g) ==
  g = [s \in SUBSET S |-> IF s = {} THEN 0 ELSE f[Pick(s)] + g[s \ {Pick(s)}]]

LEMMA SumIsAdded ==
  ASSUME NEW f, NEW S
  PROVE  SumFunctionOnSet(f, S) = (CHOOSE g : Adds(f, S, g))[S]
BY DEF SumFunctionOnSet, FoldFunctionOnSet, MapThenFoldSet, Adds, Pick

LEMMA PickIn ==
  ASSUME NEW s, s # {}
  PROVE  Pick(s) \in s
BY DEF Pick

\* Two such functions agree where both are defined...
LEMMA AddsOnce ==
  ASSUME NEW f, NEW S, IsFiniteSet(S), NEW T \in SUBSET S,
         NEW g, Adds(f, S, g), NEW h, Adds(f, T, h)
  PROVE  g[T] = h[T]
<1>. DEFINE B == {s \in SUBSET T : g[s] # h[s]}
<1>1. SUFFICES ASSUME B # {} PROVE FALSE
  OBVIOUS
<1>2. PICK s \in B : \A u \in B : u \subseteq s => u = s
  <2>1. IsFiniteSet(T) /\ B \in SUBSET (SUBSET T)
    BY FS_Subset
  <2>. HIDE DEF B
  <2>. QED
    BY <1>1, <2>1, Smallest
<1>3. s # {} => g[s \ {Pick(s)}] = h[s \ {Pick(s)}]
  BY <1>2, PickIn
<1>4. /\ g[s] = IF s = {} THEN 0 ELSE f[Pick(s)] + g[s \ {Pick(s)}]
      /\ h[s] = IF s = {} THEN 0 ELSE f[Pick(s)] + h[s \ {Pick(s)}]
  <2>1. s \in SUBSET S /\ s \in SUBSET T
    BY <1>2
  <2>. HIDE DEF B
  <2>. QED
    BY <2>1 DEF Adds
<1>. QED
  BY <1>2, <1>3, <1>4

\* ...and there is one for every finite set: a smallest set without one would
\* have it from those of its subsets.
LEMMA AddsExist ==
  ASSUME NEW f, NEW S, IsFiniteSet(S)
  PROVE  \E g : Adds(f, S, g)
<1>. DEFINE B == {T \in SUBSET S : ~ \E g : Adds(f, T, g)}
            Sum(s) == (CHOOSE g : Adds(f, s, g))[s]
<1>1. SUFFICES ASSUME B # {} PROVE FALSE
  OBVIOUS
<1>2. PICK T \in B : \A U \in B : U \subseteq T => U = T
  <2>1. B \in SUBSET (SUBSET S)
    OBVIOUS
  <2>. HIDE DEF B
  <2>. QED
    BY <1>1, <2>1, Smallest
<1>3. T \in SUBSET S /\ IsFiniteSet(T) /\ ~ \E g : Adds(f, T, g)
  BY <1>2, FS_Subset
<1>4. \A U \in SUBSET T : U # T => Adds(f, U, CHOOSE g : Adds(f, U, g))
  BY <1>2, <1>3
<1>. DEFINE h == [s \in SUBSET T |->
                    IF s = {} THEN 0 ELSE f[Pick(s)] + Sum(s \ {Pick(s)})]
<1>. HIDE DEF B
<1>5. ASSUME NEW u \in SUBSET T, u # T
      PROVE  h[u] = Sum(u)
  <2>. DEFINE g == CHOOSE g : Adds(f, u, g)
              w == u \ {Pick(u)}
  <2>1. Adds(f, u, g)
    BY <1>4, <1>5
  <2>. HIDE DEF g
  <2>2. g[u] = IF u = {} THEN 0 ELSE f[Pick(u)] + g[w]
    BY <2>1 DEF Adds
  <2>3. g[w] = Sum(w)
    <3>1. w \in SUBSET u /\ w \in SUBSET T /\ w # T /\ IsFiniteSet(u)
      BY <1>3, <1>5, FS_Subset
    <3>2. Adds(f, w, CHOOSE gg : Adds(f, w, gg))
      BY <1>4, <3>1
    <3>. QED
      BY <2>1, <3>1, <3>2, AddsOnce
  <2>. QED
    BY <2>2, <2>3 DEF g
<1>6. \A s \in SUBSET T : s # {} => h[s \ {Pick(s)}] = Sum(s \ {Pick(s)})
  <2>. SUFFICES ASSUME NEW s \in SUBSET T, s # {}
                PROVE  h[s \ {Pick(s)}] = Sum(s \ {Pick(s)})
    OBVIOUS
  <2>1. s \ {Pick(s)} \in SUBSET T /\ s \ {Pick(s)} # T
    BY PickIn
  <2>. HIDE DEF h, Sum
  <2>. QED
    BY <1>5, <2>1
<1>7. Adds(f, T, h)
  <2>1. \A s \in SUBSET T :
          h[s] = IF s = {} THEN 0 ELSE f[Pick(s)] + h[s \ {Pick(s)}]
    <3>1. \A s \in SUBSET T :
            h[s] = IF s = {} THEN 0 ELSE f[Pick(s)] + Sum(s \ {Pick(s)})
      OBVIOUS
    <3>. HIDE DEF h, Sum
    <3>. QED
      BY <1>6, <3>1
  <2>2. h = [s \in SUBSET T |-> h[s]]
    OBVIOUS
  <2>. HIDE DEF h
  <2>. QED
    BY <2>1, <2>2 DEF Adds
<1>. QED
  BY <1>3, <1>7

\* So a sum is what is left of it after one of its elements.
LEMMA SumUnfold ==
  ASSUME NEW f, NEW S, IsFiniteSet(S)
  PROVE  SumFunctionOnSet(f, S) =
           IF S = {} THEN 0 ELSE f[Pick(S)] + SumFunctionOnSet(f, S \ {Pick(S)})
<1>. DEFINE g == CHOOSE g : Adds(f, S, g)
            T == S \ {Pick(S)}
<1>1. Adds(f, S, g)
  BY AddsExist
<1>2. SumFunctionOnSet(f, S) = g[S]
  BY SumIsAdded
<1>3. IsFiniteSet(T)
  BY FS_Subset
<1>4. Adds(f, T, CHOOSE h : Adds(f, T, h))
  <2>. HIDE DEF T
  <2>. QED
    BY <1>3, AddsExist
<1>5. SumFunctionOnSet(f, T) = (CHOOSE h : Adds(f, T, h))[T]
  BY SumIsAdded
<1>. HIDE DEF g
<1>6. g[T] = SumFunctionOnSet(f, T)
  BY <1>1, <1>4, <1>5, AddsOnce
<1>7. g[S] = IF S = {} THEN 0 ELSE f[Pick(S)] + g[T]
  BY <1>1 DEF Adds
<1>. QED
  BY <1>2, <1>6, <1>7

\* Sums of integers are integers, and any element may be taken out first: in a
\* smallest set where it may not, the element picked commutes with it.
LEMMA SumPick ==
  ASSUME NEW f, NEW S, IsFiniteSet(S), \A x \in S : f[x] \in Int
  PROVE  /\ SumFunctionOnSet(f, S) \in Int
         /\ \A x \in S : SumFunctionOnSet(f, S) = f[x] + SumFunctionOnSet(f, S \ {x})
<1>. DEFINE Sum(s) == SumFunctionOnSet(f, s)
            Fine(s) == Sum(s) \in Int /\ \A x \in s : Sum(s) = f[x] + Sum(s \ {x})
            B == {s \in SUBSET S : ~ Fine(s)}
<1>1. SUFFICES ASSUME B # {} PROVE FALSE
  OBVIOUS
<1>2. PICK T \in B : \A U \in B : U \subseteq T => U = T
  <2>1. B \in SUBSET (SUBSET S)
    OBVIOUS
  <2>. HIDE DEF B
  <2>. QED
    BY <1>1, <2>1, Smallest
<1>3. T \in SUBSET S /\ ~ Fine(T)
  OBVIOUS
<1>4. \A U \in SUBSET T : U # T => Fine(U)
  BY <1>2, <1>3
<1>5. \A U \in SUBSET T : Sum(U) = IF U = {} THEN 0 ELSE f[Pick(U)] + Sum(U \ {Pick(U)})
  <2>1. \A U \in SUBSET T : IsFiniteSet(U)
    BY <1>3, FS_Subset
  <2>. QED
    BY <2>1, SumUnfold
<1>. HIDE DEF B, Sum
<1>6. T # {}
  <2>. SUFFICES ASSUME T = {} PROVE FALSE
    OBVIOUS
  <2>1. Sum(T) = 0
    BY <1>5
  <2>2. \A x \in T : FALSE
    OBVIOUS
  <2>. QED
    BY <1>3, <2>1, <2>2
<1>. DEFINE c == Pick(T)
<1>7. c \in T
  BY <1>6, PickIn
<1>. HIDE DEF c
<1>8. Sum(T) = f[c] + Sum(T \ {c})
  BY <1>5, <1>6 DEF c
<1>9. Fine(T \ {c})
  BY <1>4, <1>7
<1>10. f[c] \in Int /\ Sum(T) \in Int
  BY <1>3, <1>7, <1>8, <1>9
<1>11. ASSUME NEW x \in T
       PROVE  Sum(T) = f[x] + Sum(T \ {x})
  <2>1. CASE x = c
    BY <1>8, <2>1
  <2>2. CASE x # c
    <3>1. Fine(T \ {x}) /\ Fine((T \ {x}) \ {c})
      BY <1>4, <1>11
    <3>2. (T \ {x}) \ {c} = (T \ {c}) \ {x} /\ x \in T \ {c} /\ c \in T \ {x}
      BY <1>7, <2>2
    <3>3. /\ Sum(T \ {c}) = f[x] + Sum((T \ {x}) \ {c})
          /\ Sum(T \ {x}) = f[c] + Sum((T \ {x}) \ {c})
      BY <1>9, <3>1, <3>2
    <3>4. f[x] \in Int /\ Sum((T \ {x}) \ {c}) \in Int
      BY <1>3, <3>1
    <3>. QED
      BY <1>8, <1>10, <3>3, <3>4
  <2>. QED
    BY <2>1, <2>2
<1>. QED
  BY <1>3, <1>10, <1>11

LEMMA SumEmpty ==
  ASSUME NEW f
  PROVE  SumFunctionOnSet(f, {}) = 0
BY SumUnfold, FS_EmptySet

\* Equal values have equal sums.
LEMMA SumSame ==
  ASSUME NEW f, NEW g, NEW S, IsFiniteSet(S), \A x \in S : f[x] = g[x]
  PROVE  SumFunctionOnSet(f, S) = SumFunctionOnSet(g, S)
<1>. DEFINE B == {s \in SUBSET S : SumFunctionOnSet(f, s) # SumFunctionOnSet(g, s)}
<1>1. SUFFICES ASSUME B # {} PROVE FALSE
  OBVIOUS
<1>2. PICK T \in B : \A U \in B : U \subseteq T => U = T
  <2>1. B \in SUBSET (SUBSET S)
    OBVIOUS
  <2>. HIDE DEF B
  <2>. QED
    BY <1>1, <2>1, Smallest
<1>3. T \in SUBSET S /\ SumFunctionOnSet(f, T) # SumFunctionOnSet(g, T)
  OBVIOUS
<1>4. T # {} => /\ Pick(T) \in T
                /\ SumFunctionOnSet(f, T \ {Pick(T)}) = SumFunctionOnSet(g, T \ {Pick(T)})
  BY <1>2, PickIn
<1>5. IsFiniteSet(T)
  BY <1>3, FS_Subset
<1>. HIDE DEF B
<1>. QED
  BY <1>3, <1>4, <1>5, SumUnfold

\* The sum on a set is that on a part of it and that on the rest.
LEMMA SumSplit ==
  ASSUME NEW f, NEW S, IsFiniteSet(S), \A x \in S : f[x] \in Int, NEW P \in SUBSET S
  PROVE  SumFunctionOnSet(f, S) = SumFunctionOnSet(f, P) + SumFunctionOnSet(f, S \ P)
<1>. DEFINE Sum(s) == SumFunctionOnSet(f, s)
            B == {s \in SUBSET S : Sum(S) # Sum(s) + Sum(S \ s)}
<1>1. SUFFICES ASSUME B # {} PROVE FALSE
  OBVIOUS
<1>2. PICK T \in B : \A U \in B : U \subseteq T => U = T
  <2>1. B \in SUBSET (SUBSET S)
    OBVIOUS
  <2>. HIDE DEF B
  <2>. QED
    BY <1>1, <2>1, Smallest
<1>3. T \in SUBSET S /\ Sum(S) # Sum(T) + Sum(S \ T)
  OBVIOUS
<1>4. \A s \in SUBSET S : IsFiniteSet(s) /\ \A x \in s : f[x] \in Int
  BY FS_Subset
<1>5. \A s \in SUBSET S : Sum(s) \in Int /\ \A x \in s : Sum(s) = f[x] + Sum(s \ {x})
  BY <1>4, SumPick
<1>6. T # {}
  <2>. SUFFICES ASSUME T = {} PROVE FALSE
    OBVIOUS
  <2>1. Sum(T) = 0 /\ S \ T = S /\ Sum(S) \in Int
    BY <1>5, SumEmpty
  <2>2. Sum(S \ T) = Sum(S)
    BY <2>1
  <2>. HIDE DEF Sum, B
  <2>. QED
    BY <1>3, <2>1, <2>2
<1>7. PICK x \in T : TRUE
  BY <1>6
<1>8. Sum(S) = Sum(T \ {x}) + Sum(S \ (T \ {x}))
  BY <1>2, <1>7
<1>9. x \in S \ (T \ {x}) /\ (S \ (T \ {x})) \ {x} = S \ T
  BY <1>3, <1>7
<1>10. /\ Sum(T) = f[x] + Sum(T \ {x})
       /\ Sum(S \ (T \ {x})) = f[x] + Sum(S \ T)
       /\ f[x] \in Int /\ Sum(T \ {x}) \in Int /\ Sum(S \ T) \in Int
  <2>1. T \in SUBSET S /\ (T \ {x}) \in SUBSET S /\ (S \ (T \ {x})) \in SUBSET S
        /\ (S \ T) \in SUBSET S
    BY <1>3
  <2>. HIDE DEF Sum
  <2>. QED
    BY <1>4, <1>5, <1>7, <1>9, <2>1
<1>. HIDE DEF Sum, B
<1>. QED
  BY <1>3, <1>8, <1>10

\* Values that are near each other have sums that are.
LEMMA SumNear ==
  ASSUME NEW f, NEW g, NEW d, NEW S, IsFiniteSet(S),
         \A x \in S : /\ f[x] \in Int /\ g[x] \in Int /\ d[x] \in Int
                      /\ 2 * Distance(f[x], g[x]) <= d[x]
  PROVE  2 * Distance(SumFunctionOnSet(f, S), SumFunctionOnSet(g, S))
           <= SumFunctionOnSet(d, S)
<1>. DEFINE Sum(h, s) == SumFunctionOnSet(h, s)
            Near(s) == 2 * Distance(Sum(f, s), Sum(g, s)) <= Sum(d, s)
            B == {s \in SUBSET S : ~ Near(s)}
<1>1. SUFFICES ASSUME B # {} PROVE FALSE
  OBVIOUS
<1>2. PICK T \in B : \A U \in B : U \subseteq T => U = T
  <2>1. B \in SUBSET (SUBSET S)
    OBVIOUS
  <2>. HIDE DEF B
  <2>. QED
    BY <1>1, <2>1, Smallest
<1>3. T \in SUBSET S /\ ~ Near(T)
  OBVIOUS
<1>4. IsFiniteSet(T)
  BY <1>3, FS_Subset
<1>5. T # {}
  <2>1. Sum(f, {}) = 0 /\ Sum(g, {}) = 0 /\ Sum(d, {}) = 0
    BY SumEmpty
  <2>. HIDE DEF Sum
  <2>2. Near({})
    BY <2>1 DEF Distance
  <2>. QED
    BY <1>3, <2>2
<1>6. PICK x \in T : TRUE
  BY <1>5
<1>. DEFINE U == T \ {x}
<1>7. Near(U)
  <2>. HIDE DEF Near
  <2>. QED
    BY <1>2, <1>3, <1>6
<1>8. /\ Sum(f, T) = f[x] + Sum(f, U) /\ Sum(f, U) \in Int
      /\ Sum(g, T) = g[x] + Sum(g, U) /\ Sum(g, U) \in Int
      /\ Sum(d, T) = d[x] + Sum(d, U) /\ Sum(d, U) \in Int
  <2>1. IsFiniteSet(U) /\ U \subseteq T
    BY <1>4, FS_Subset
  <2>2. \A y \in T : f[y] \in Int /\ g[y] \in Int /\ d[y] \in Int
    BY <1>3
  <2>. HIDE DEF U
  <2>3. Sum(f, U) \in Int /\ Sum(g, U) \in Int /\ Sum(d, U) \in Int
    BY <2>1, <2>2, SumPick
  <2>4. Sum(f, T) = f[x] + Sum(f, T \ {x}) /\ Sum(g, T) = g[x] + Sum(g, T \ {x})
        /\ Sum(d, T) = d[x] + Sum(d, T \ {x})
    BY <1>4, <1>6, <2>2, SumPick
  <2>. QED
    BY <2>3, <2>4 DEF U
<1>9. /\ f[x] \in Int /\ g[x] \in Int /\ d[x] \in Int
      /\ 2 * Distance(f[x], g[x]) <= d[x]
  BY <1>3, <1>6
<1>. HIDE DEF Sum, U, B
<1>10. Near(T)
  BY <1>7, <1>8, <1>9 DEF Distance
<1>. QED
  BY <1>3, <1>10

\* The sum changes with the value of one element...
LEMMA SumReplace ==
  ASSUME NEW f, NEW g, NEW S, IsFiniteSet(S), NEW x \in S,
         \A y \in S : f[y] \in Int /\ g[y] \in Int,
         \A y \in S \ {x} : g[y] = f[y]
  PROVE  SumFunctionOnSet(g, S) = SumFunctionOnSet(f, S) - f[x] + g[x]
<1>. DEFINE T == S \ {x}
<1>1. IsFiniteSet(T)
  BY FS_Subset
<1>2. /\ SumFunctionOnSet(f, S) = f[x] + SumFunctionOnSet(f, T)
      /\ SumFunctionOnSet(g, S) = g[x] + SumFunctionOnSet(g, T)
  BY SumPick
<1>3. \A y \in T : g[y] = f[y] /\ f[y] \in Int
  OBVIOUS
<1>. HIDE DEF T
<1>4. SumFunctionOnSet(g, T) = SumFunctionOnSet(f, T)
  BY <1>1, <1>3, SumSame
<1>5. SumFunctionOnSet(f, T) \in Int
  BY <1>1, <1>3, SumPick
<1>. QED
  BY <1>2, <1>4, <1>5

LEMMA SumZero ==
  ASSUME NEW f, NEW S, IsFiniteSet(S), \A x \in S : f[x] = 0
  PROVE  SumFunctionOnSet(f, S) = 0
<1>. DEFINE B == {s \in SUBSET S : SumFunctionOnSet(f, s) # 0}
<1>1. SUFFICES ASSUME B # {} PROVE FALSE
  OBVIOUS
<1>2. PICK T \in B : \A U \in B : U \subseteq T => U = T
  <2>1. B \in SUBSET (SUBSET S)
    OBVIOUS
  <2>. HIDE DEF B
  <2>. QED
    BY <1>1, <2>1, Smallest
<1>3. T \in SUBSET S /\ SumFunctionOnSet(f, T) # 0 /\ IsFiniteSet(T)
  BY FS_Subset
<1>4. T # {} => Pick(T) \in T /\ SumFunctionOnSet(f, T \ {Pick(T)}) = 0
  BY <1>2, PickIn
<1>. HIDE DEF B
<1>. QED
  BY <1>3, <1>4, SumUnfold

\* ...and elements may be merged into one.
LEMMA SumMerge ==
  ASSUME NEW f, NEW g, NEW S, IsFiniteSet(S), NEW P \in SUBSET S, NEW x \in S \ P,
         \A y \in S : f[y] \in Int /\ g[y] \in Int,
         \A y \in P : g[y] = 0,
         \A y \in S \ (P \cup {x}) : g[y] = f[y]
  PROVE  SumFunctionOnSet(g, S)
           = SumFunctionOnSet(f, S) - f[x] - SumFunctionOnSet(f, P) + g[x]
<1>. DEFINE T == S \ P
<1>1. IsFiniteSet(T) /\ IsFiniteSet(P) /\ x \in T
  BY FS_Subset
<1>2. /\ SumFunctionOnSet(f, S) = SumFunctionOnSet(f, P) + SumFunctionOnSet(f, T)
      /\ SumFunctionOnSet(g, S) = SumFunctionOnSet(g, P) + SumFunctionOnSet(g, T)
  BY SumSplit
<1>3. /\ \A y \in T : f[y] \in Int /\ g[y] \in Int
      /\ \A y \in T \ {x} : g[y] = f[y]
  OBVIOUS
<1>. HIDE DEF T
<1>4. SumFunctionOnSet(g, T) = SumFunctionOnSet(f, T) - f[x] + g[x]
  BY <1>1, <1>3, SumReplace
<1>5. SumFunctionOnSet(g, P) = 0
  BY <1>1, SumZero
<1>6. SumFunctionOnSet(f, T) \in Int /\ SumFunctionOnSet(f, P) \in Int
  BY <1>1, <1>3, SumPick
<1>7. f[x] \in Int /\ g[x] \in Int
  OBVIOUS
<1>. QED
  BY <1>2, <1>4, <1>5, <1>6, <1>7

-----------------------------------------------------------------------------
(* Invitations                                                              *)

GuestRows ==
  [address : Addresses, inviter : Users, user : Users \cup {NoGuest},
   status : {"PENDING", "ACCEPTED", "REJECTED"}, accepted : BOOLEAN]
OpenVisits == [id : Invitations, row : GuestRows, answer : BOOLEAN]

GuestTypes ==
  /\ invitation \in [Invitations -> GuestRows \cup {NoInvitation}]
  /\ invited \in 0..MaxInvitations
  /\ visit \in [Users -> OpenVisits \cup {NoVisit}]
  /\ answers \in [Invitations -> Nat]

\* An invitation that was not made yet has no row, no answer and no request.
Unborn ==
  \A i \in Invitations : i > invited =>
    /\ invitation[i] = NoInvitation /\ answers[i] = 0
    /\ \A u \in Users : visit[u].id # i

\* A row says that it was accepted if and only if its status does; a request
\* that answers leaves no row PENDING.
Honest(r) == r.accepted = TRUE <=> r.status = "ACCEPTED"
RowsHonest ==
  /\ \A i \in Invitations : InvitationExists(i) => Honest(invitation[i])
  /\ \A u \in Users : visit[u] # NoVisit =>
       /\ Honest(visit[u].row)
       /\ visit[u].answer = TRUE => visit[u].row.status # "PENDING"

\* As long as no two requests have invitation i open at once: whoever answers
\* it finds it unanswered, and no request under way makes it PENDING again.
Answered(i) ==
  /\ answers[i] = 1
  /\ InvitationExists(i) => invitation[i].status # "PENDING"
  /\ \A u \in Users : visit[u].id = i =>
       visit[u].answer = FALSE /\ visit[u].row.status # "PENDING"
OneAtATime ==
  \A i \in Invitations : i \notin overlapped =>
    /\ \A u, v \in Users : (visit[u].id = i /\ visit[v].id = i) => u = v
    /\ answers[i] = 0 \/ Answered(i)

GuestInv == GuestTypes /\ Unborn /\ RowsHonest /\ OneAtATime

LEMMA GuestFacts ==
  ASSUME MaxInvitations \in Nat
  PROVE  /\ NoInvitation \notin GuestRows
         /\ NoVisit \notin OpenVisits /\ NoVisit.id \notin Invitations
         /\ \A v \in OpenVisits : v.id \in Invitations /\ v.row \in GuestRows /\ v.answer \in BOOLEAN
         /\ Invitations \subseteq Nat
<1>1. NoVisit.id \notin Invitations
  BY DEF NoVisit, Invitations
<1>2. NoInvitation \notin GuestRows
  <2>1. SUFFICES ASSUME NoInvitation \in GuestRows PROVE FALSE
    OBVIOUS
  <2>2. DOMAIN NoInvitation = {"address", "inviter", "user", "status", "accepted"}
    BY <2>1 DEF GuestRows
  <2>3. DOMAIN NoInvitation = {"address"}
    BY DEF NoInvitation
  <2>4. QED
    BY <2>2, <2>3
<1>3. QED
  BY <1>1, <1>2 DEF OpenVisits, Invitations

LEMMA GuestInit == ASSUME MaxInvitations \in Nat, InvitationsInit PROVE GuestInv
<1>1. GuestTypes
  BY DEF InvitationsInit, GuestTypes
<1>2. Unborn /\ OneAtATime
  BY GuestFacts DEF InvitationsInit, Unborn, OneAtATime
<1>3. RowsHonest
  BY DEF InvitationsInit, RowsHonest, InvitationExists
<1>4. QED
  BY <1>1, <1>2, <1>3 DEF GuestInv

LEMMA InviteKeeps ==
  ASSUME MaxInvitations \in Nat, GuestInv, NEW u \in Users, NEW a \in Addresses, Invite(u, a)
  PROVE  GuestInv'
<1> DEFINE new == [address |-> a, inviter |-> u, user |-> NoGuest,
                   status |-> "PENDING", accepted |-> FALSE]
           n == invited + 1
<1>1. /\ n \in Invitations /\ n \in 0..MaxInvitations /\ invited' = n
      /\ invitation' = [invitation EXCEPT ![n] = new]
      /\ visit' = visit /\ overlapped' = overlapped /\ answers' = answers
  BY DEF GuestInv, GuestTypes, Invite, Invitations
<1>2. new \in GuestRows /\ Honest(new)
  BY DEF GuestRows, Honest
<1> HIDE DEF new
<1>3. GuestTypes'
  BY <1>1, <1>2 DEF GuestInv, GuestTypes
<1>4. /\ invitation'[n] = new /\ \A i \in Invitations \ {n} : invitation'[i] = invitation[i]
      /\ answers[n] = 0 /\ \A v \in Users : visit[v].id # n
      /\ \A i \in Invitations : i > invited' => i > invited /\ i # n
  BY <1>1 DEF GuestInv, GuestTypes, Unborn, Invitations
<1>5. Unborn'
  BY <1>1, <1>4 DEF GuestInv, Unborn
<1>6. RowsHonest'
  BY <1>1, <1>2, <1>4 DEF GuestInv, RowsHonest, InvitationExists
<1>7. OneAtATime'
  BY <1>1, <1>4 DEF GuestInv, OneAtATime, Answered, InvitationExists
<1>8. QED
  BY <1>3, <1>5, <1>6, <1>7 DEF GuestInv

\* A request opens row i with a copy that keeps what the row says of its answer,
\* or answers a PENDING one.
LEMMA VisitKeeps ==
  ASSUME MaxInvitations \in Nat, GuestInv, NEW u \in Users, NEW i \in Invitations,
         NEW row \in GuestRows, NEW answer \in BOOLEAN, Visit(u, i, row, answer),
         InvitationExists(i), Honest(row),
         answer = TRUE => row.status # "PENDING" /\ invitation[i].status = "PENDING",
         answer = FALSE => row.status = invitation[i].status
  PROVE  GuestInv'
<1> DEFINE mine == [id |-> i, row |-> row, answer |-> answer]
<1>1. /\ visit[u] = NoVisit /\ visit' = [visit EXCEPT ![u] = mine]
      /\ overlapped' = IF \E v \in Users : visit[v].id = i
                         THEN overlapped \cup {i} ELSE overlapped
      /\ invitation' = invitation /\ invited' = invited /\ answers' = answers
  BY DEF Visit
<1>2. mine \in OpenVisits /\ mine.id = i /\ mine.row = row /\ mine.answer = answer
  BY DEF OpenVisits
<1> HIDE DEF mine
<1>3. visit'[u] = mine /\ \A v \in Users \ {u} : visit'[v] = visit[v]
  BY <1>1 DEF GuestInv, GuestTypes
<1>4. GuestTypes'
  BY <1>1, <1>2 DEF GuestInv, GuestTypes
<1>5. i <= invited
  BY DEF GuestInv, Unborn, InvitationExists, GuestTypes, Invitations
<1>6. Unborn'
  BY <1>1, <1>2, <1>3, <1>5, GuestFacts DEF GuestInv, Unborn, GuestTypes
<1>7. RowsHonest'
  BY <1>1, <1>2, <1>3 DEF GuestInv, RowsHonest, InvitationExists
<1>8. OneAtATime'
  <2>1. SUFFICES ASSUME NEW j \in Invitations, j \notin overlapped'
                 PROVE  /\ \A v, w \in Users : (visit'[v].id = j /\ visit'[w].id = j) => v = w
                        /\ answers'[j] = 0 \/ Answered(j)'
    BY DEF OneAtATime
  <2>2. j \notin overlapped /\ (j = i => \A v \in Users : visit[v].id # i)
    BY <1>1, <2>1
  <2>3. \A v, w \in Users : (visit'[v].id = j /\ visit'[w].id = j) => v = w
    BY <1>2, <1>3, <2>2 DEF GuestInv, OneAtATime
  <2>4. answers[j] = 0 \/ Answered(j)
    BY <2>2 DEF GuestInv, OneAtATime
  <2>5. CASE j # i
    BY <1>1, <1>2, <1>3, <2>3, <2>4, <2>5 DEF Answered, InvitationExists
  <2>6. CASE j = i
    <3>1. Answered(j) => answer = FALSE /\ row.status # "PENDING"
      BY <2>6 DEF Answered
    <3>2. QED
      BY <1>1, <1>2, <1>3, <2>2, <2>3, <2>4, <2>6, <3>1 DEF Answered, InvitationExists
  <2>7. QED
    BY <2>5, <2>6
<1>9. QED
  BY <1>4, <1>6, <1>7, <1>8 DEF GuestInv

LEMMA RequestsKeep ==
  ASSUME MaxInvitations \in Nat, GuestInv, NEW u \in Users, NEW i \in Invitations,
         Accept(u, i) \/ Reject(u, i) \/ Amend(u, i)
  PROVE  GuestInv'
<1>1. InvitationExists(i) /\ invitation[i] \in GuestRows /\ Honest(invitation[i])
  BY DEF Accept, Reject, Amend, MaySee, GuestInv, GuestTypes, RowsHonest, InvitationExists
<1>2. CASE Accept(u, i)
  <2> DEFINE row == [invitation[i] EXCEPT !.status = "ACCEPTED", !.user = u, !.accepted = TRUE]
  <2>1. /\ row \in GuestRows /\ Honest(row) /\ row.status # "PENDING"
        /\ invitation[i].status = "PENDING"
    BY <1>1, <1>2 DEF GuestRows, Honest, Accept, IsPending
  <2>2. Visit(u, i, row, TRUE)
    BY <1>2 DEF Accept
  <2> HIDE DEF row
  <2>3. QED
    BY <1>1, <2>1, <2>2, VisitKeeps
<1>3. CASE Reject(u, i)
  <2> DEFINE row == [invitation[i] EXCEPT !.status = "REJECTED"]
  <2>1. /\ row \in GuestRows /\ Honest(row) /\ row.status # "PENDING"
        /\ invitation[i].status = "PENDING"
    BY <1>1, <1>3 DEF GuestRows, Honest, Reject, IsPending
  <2>2. Visit(u, i, row, TRUE)
    BY <1>3 DEF Reject
  <2> HIDE DEF row
  <2>3. QED
    BY <1>1, <2>1, <2>2, VisitKeeps
<1>4. CASE Amend(u, i)
  <2>1. PICK address \in Addresses, user \in Users \cup {NoGuest} :
          Visit(u, i, [invitation[i] EXCEPT !.address = address, !.user = user], FALSE)
    BY <1>4 DEF Amend
  <2> DEFINE row == [invitation[i] EXCEPT !.address = address, !.user = user]
  <2>2. row \in GuestRows /\ Honest(row) /\ row.status = invitation[i].status
    BY <1>1 DEF GuestRows, Honest
  <2>3. Visit(u, i, row, FALSE)
    BY <2>1
  <2> HIDE DEF row
  <2>4. QED
    BY <1>1, <2>2, <2>3, VisitKeeps
<1>5. QED
  BY <1>2, <1>3, <1>4

LEMMA WithdrawKeeps ==
  ASSUME MaxInvitations \in Nat, GuestInv, NEW u \in Users, NEW i \in Invitations, Withdraw(u, i)
  PROVE  GuestInv'
<1>1. /\ invitation' = [invitation EXCEPT ![i] = NoInvitation]
      /\ invited' = invited /\ visit' = visit /\ overlapped' = overlapped /\ answers' = answers
  BY DEF Withdraw
<1>2. invitation'[i] = NoInvitation /\ \A j \in Invitations \ {i} : invitation'[j] = invitation[j]
  BY <1>1 DEF GuestInv, GuestTypes
<1>3. GuestTypes'
  BY <1>1 DEF GuestInv, GuestTypes
<1>4. Unborn'
  BY <1>1, <1>2 DEF GuestInv, Unborn
<1>5. RowsHonest'
  BY <1>1, <1>2 DEF GuestInv, RowsHonest, InvitationExists
<1>6. OneAtATime'
  BY <1>1, <1>2 DEF GuestInv, OneAtATime, Answered, InvitationExists
<1>7. QED
  BY <1>3, <1>4, <1>5, <1>6 DEF GuestInv

LEMMA SaveVisitKeeps ==
  ASSUME MaxInvitations \in Nat, GuestInv, NEW u \in Users, SaveVisit(u)
  PROVE  GuestInv'
<1> DEFINE i == visit[u].id
           row == visit[u].row
           saved == AddressFree(row.address, i)
<1>1. /\ visit[u] # NoVisit /\ visit' = [visit EXCEPT ![u] = NoVisit]
      /\ invited' = invited /\ overlapped' = overlapped
      /\ invitation' = IF saved THEN [invitation EXCEPT ![i] = row] ELSE invitation
      /\ answers' = IF saved /\ visit[u].answer THEN [answers EXCEPT ![i] = @ + 1] ELSE answers
  BY DEF SaveVisit, SavedRow
<1>2. /\ visit[u] \in OpenVisits /\ i \in Invitations /\ row \in GuestRows
      /\ visit[u].answer \in BOOLEAN
  BY <1>1, GuestFacts DEF GuestInv, GuestTypes
<1>3. Honest(row) /\ (visit[u].answer = TRUE => row.status # "PENDING")
  BY <1>1 DEF GuestInv, RowsHonest
<1>4. i <= invited
  BY <1>2, GuestFacts DEF GuestInv, Unborn, GuestTypes
<1>5. /\ visit'[u] = NoVisit /\ \A v \in Users \ {u} : visit'[v] = visit[v]
      /\ \A j \in Invitations \ {i} : invitation'[j] = invitation[j] /\ answers'[j] = answers[j]
      /\ invitation'[i] = row \/ (invitation'[i] = invitation[i] /\ answers'[i] = answers[i])
      /\ \/ answers'[i] = answers[i] + 1 /\ visit[u].answer = TRUE
         \/ answers'[i] = answers[i]
      /\ answers[i] \in Nat
      /\ visit[u].answer = FALSE => answers'[i] = answers[i]
  BY <1>1, <1>2 DEF GuestInv, GuestTypes
<1>6. \A j \in Invitations : visit'[u].id # j
  BY <1>5, GuestFacts
<1>7. GuestTypes'
  <2>1. visit' \in [Users -> OpenVisits \cup {NoVisit}]
    BY <1>1 DEF GuestInv, GuestTypes
  <2>2. invitation' \in [Invitations -> GuestRows \cup {NoInvitation}]
    BY <1>1, <1>2 DEF GuestInv, GuestTypes
  <2>3. answers' \in [Invitations -> Nat]
    BY <1>1, <1>2 DEF GuestInv, GuestTypes
  <2>4. QED
    BY <1>1, <2>1, <2>2, <2>3 DEF GuestInv, GuestTypes
<1> HIDE DEF i, row, saved
<1>8. Unborn'
  <2>1. SUFFICES ASSUME NEW j \in Invitations, j > invited'
                 PROVE  /\ invitation'[j] = NoInvitation /\ answers'[j] = 0
                        /\ \A v \in Users : visit'[v].id # j
    BY DEF Unborn
  <2>2. j # i
    BY <1>1, <1>2, <1>4, <2>1, GuestFacts DEF GuestInv, GuestTypes
  <2>3. QED
    BY <1>1, <1>5, <1>6, <2>1, <2>2 DEF GuestInv, Unborn
<1>9. RowsHonest'
  BY <1>3, <1>5 DEF GuestInv, RowsHonest, InvitationExists
<1>10. OneAtATime'
  <2>1. SUFFICES ASSUME NEW j \in Invitations, j \notin overlapped
                 PROVE  /\ \A v, w \in Users : (visit'[v].id = j /\ visit'[w].id = j) => v = w
                        /\ answers'[j] = 0 \/ Answered(j)'
    BY <1>1 DEF OneAtATime
  <2>2. /\ \A v, w \in Users : (visit[v].id = j /\ visit[w].id = j) => v = w
        /\ answers[j] = 0 \/ Answered(j)
    BY <2>1 DEF GuestInv, OneAtATime
  <2>3. \A v, w \in Users : (visit'[v].id = j /\ visit'[w].id = j) => v = w
    BY <1>5, <1>6, <2>2
  <2>4. CASE j # i
    BY <1>5, <1>6, <2>2, <2>3, <2>4 DEF Answered, InvitationExists
  <2>5. CASE j = i
    <3>1. \A v \in Users : visit'[v].id # j
      BY <1>5, <1>6, <2>2, <2>5 DEF i
    <3>2. CASE answers[i] = 0
      BY <1>3, <1>5, <2>3, <2>5, <3>1, <3>2 DEF Answered
    <3>3. CASE Answered(i)
      <4>1. visit[u].answer = FALSE /\ row.status # "PENDING"
        BY <3>3 DEF Answered, i, row
      <4>2. answers'[i] = 1 /\ (invitation'[i] = row \/ invitation'[i] = invitation[i])
        BY <1>5, <3>3, <4>1 DEF Answered
      <4>3. QED
        BY <2>3, <2>5, <3>1, <3>3, <4>1, <4>2 DEF Answered, InvitationExists
    <3>4. QED
      BY <2>2, <2>5, <3>2, <3>3
  <2>6. QED
    BY <2>4, <2>5
<1>11. QED
  BY <1>7, <1>8, <1>9, <1>10 DEF GuestInv

LEMMA GuestNext ==
  ASSUME MaxInvitations \in Nat, GuestInv, [InvitationsNext]_invitations PROVE GuestInv'
<1>1. ASSUME NEW i \in Invitations, Expire(i)
      PROVE  GuestInv'
  BY <1>1 DEF Expire, GuestInv, GuestTypes, Unborn, RowsHonest, OneAtATime, Answered,
              InvitationExists
<1>2. ASSUME UNCHANGED invitations
      PROVE  GuestInv'
  BY <1>2 DEF invitations, GuestInv, GuestTypes, Unborn, RowsHonest, OneAtATime, Answered,
              InvitationExists
<1>3. QED
  BY <1>1, <1>2, InviteKeeps, RequestsKeep, WithdrawKeeps, SaveVisitKeeps DEF InvitationsNext

\* However requests overlap, and whoever withdraws, amends or saves a stale copy,
\* accepted_at is set exactly in the accepted invitations; and one that no two
\* requests had open at once is answered once at most, deleted and inserted
\* again or not.
THEOREM InvitationsAnswered ==
  ASSUME MaxInvitations \in Nat
  PROVE  InvitationsSpec => []AnswersSound
<1>1. InvitationsInit => GuestInv
  BY GuestInit
<1>2. GuestInv /\ [InvitationsNext]_invitations => GuestInv'
  BY GuestNext
<1>3. GuestInv => AnswersSound
  BY DEF GuestInv, GuestTypes, RowsHonest, Honest, OneAtATime, Answered, AnswersSound,
         InvitationExists, GuestRows
<1>4. QED
  BY <1>1, <1>2, <1>3, PTL DEF InvitationsSpec

-----------------------------------------------------------------------------
(* Billing                                                                  *)

\* Every document is made of the order as it was imported.
BillInv ==
  /\ payload \in Payloads
  /\ order # None => order = OrderFrom(Market, Products, payload)
  /\ qbInvoice # None =>
       /\ order # None
       /\ \/ qbInvoice = As("created", QbInvoice(Qb, QbCatalogue, Bundles, mapping, order))
          \/ qbInvoice = As("updated", QbUpdatedInvoice(Qb, QbCatalogue, Bundles, mapping, order))
  /\ saleOrder # None =>
       /\ order # None
       /\ saleOrder = As("created", OdooSalesOrder(Odoo, Found, order))
       /\ odooInvoice = As("created", OdooInvoice(Odoo, Found, order))

LEMMA BillInvInvariant ==
  BillSpec => []BillInv
<1>1. BillInit => BillInv
  BY DEF BillInit, BillInv
<1>2. BillInv /\ [BillNext]_bill => BillInv'
  <2>. SUFFICES ASSUME BillInv, [BillNext]_bill PROVE BillInv'
    OBVIOUS
  <2>1. CASE Upsert
    BY <2>1 DEF Upsert, BillInv
  <2>2. CASE PushToOdoo
    BY <2>2 DEF PushToOdoo, BillInv
  <2>3. CASE PushToQuickBooks
    BY <2>3 DEF PushToQuickBooks, BillInv
  <2>4. CASE UpdateQuickBooks
    <3>1. qbInvoice # None
      BY <2>4 DEF UpdateQuickBooks, None
    <3>. QED
      BY <2>4, <3>1 DEF UpdateQuickBooks, BillInv
  <2>5. CASE UNCHANGED bill
    BY <2>5 DEF bill, BillInv
  <2>. QED
    BY <2>1, <2>2, <2>3, <2>4, <2>5 DEF BillNext
<1>. QED
  BY <1>1, <1>2, PTL DEF BillSpec

\* A rounded quotient is within half a unit of the exact one.
LEMMA RoundedIsNear ==
  ASSUME NEW a \in Nat, NEW b \in Nat \ {0}
  PROVE  /\ RoundHalfEven(a, b) \in Nat
         /\ 2 * Distance(a, RoundHalfEven(a, b) * b) <= b
<1>. DEFINE q == a \div b
            r == a % b
            p == q * b
<1>1. q \in Nat /\ r \in Nat /\ r < b /\ a = b * q + r
  OBVIOUS
<1>2. p \in Nat /\ b * q = p /\ (q + 1) * b = p + b
  BY <1>1
<1>3. a = p + r
  BY <1>1, <1>2
<1>4. CASE 2 * r > b \/ (2 * r = b /\ q % 2 = 1)
  <2>1. RoundHalfEven(a, b) = q + 1
    BY <1>4 DEF RoundHalfEven
  <2>2. RoundHalfEven(a, b) * b = p + b
    BY <2>1, <1>2
  <2>3. Distance(a, p + b) = b - r
    <3>. HIDE DEF q, r, p
    <3>. QED
      BY <1>1, <1>2, <1>3 DEF Distance
  <2>4. 2 * (b - r) <= b
    <3>. HIDE DEF q, r, p
    <3>. QED
      BY <1>4, <1>1
  <2>. QED
    BY <2>1, <2>2, <2>3, <2>4, <1>1
<1>5. CASE ~(2 * r > b \/ (2 * r = b /\ q % 2 = 1))
  <2>1. RoundHalfEven(a, b) = q
    BY <1>5 DEF RoundHalfEven
  <2>2. Distance(a, p) = r
    <3>. HIDE DEF q, r, p
    <3>. QED
      BY <1>1, <1>2, <1>3 DEF Distance
  <2>3. 2 * r <= b
    <3>. HIDE DEF q, r, p
    <3>. QED
      BY <1>5, <1>1
  <2>. QED
    BY <2>1, <2>2, <2>3, <1>1
<1>. QED
  BY <1>4, <1>5

\* The price and the total of an order's line agree up to that rounding.
ItemRight(item) ==
  /\ item.quantity \in Nat /\ item.total \in Nat /\ UnitPrice(item) \in Nat
  /\ 2 * Distance(item.total, UnitPrice(item) * item.quantity) <= item.quantity

LEMMA LineIsRight ==
  ASSUME NoPrice \notin Int, NEW products, NEW line,
         line.unit \in Nat, line.discount \in Nat, line.quantity \in Nat \ {0}
  PROVE  ItemRight(OrderItem(products, line))
<1>. DEFINE item == OrderItem(products, line)
            gross == line.unit * line.quantity
            net == Most(0, gross - line.discount)
<1>1. /\ item.quantity = line.quantity /\ item.unit = line.unit
      /\ item.sale = SalePrice(line) /\ item.total = TotalPrice(line)
  BY DEF OrderItem
<1>2. gross \in Nat
  OBVIOUS
<1>3. net \in Nat
  <2>. HIDE DEF gross
  <2>. QED
    BY <1>2 DEF Most
<1>4. CASE line.discount > 0
  <2>1. item.sale = RoundHalfEven(net, line.quantity) /\ item.total = net
    BY <1>1, <1>4 DEF SalePrice, TotalPrice
  <2>. HIDE DEF item, net
  <2>2. /\ RoundHalfEven(net, line.quantity) \in Nat
        /\ 2 * Distance(net, RoundHalfEven(net, line.quantity) * line.quantity) <= line.quantity
    BY <1>3, RoundedIsNear
  <2>3. item.sale # NoPrice
    BY <2>1, <2>2
  <2>4. UnitPrice(item) = RoundHalfEven(net, line.quantity)
    BY <2>1, <2>3 DEF UnitPrice
  <2>5. ItemRight(item)
    BY <1>1, <1>3, <2>1, <2>2, <2>4 DEF ItemRight
  <2>. QED
    BY <2>5 DEF item
<1>5. CASE ~(line.discount > 0)
  <2>1. item.sale = NoPrice /\ item.total = gross
    BY <1>1, <1>5 DEF SalePrice, TotalPrice
  <2>2. UnitPrice(item) = line.unit
    BY <1>1, <2>1 DEF UnitPrice
  <2>. HIDE DEF item
  <2>3. Distance(item.total, UnitPrice(item) * item.quantity) = 0
    <3>1. UnitPrice(item) * item.quantity = gross
      BY <1>1, <2>2
    <3>. HIDE DEF gross
    <3>. QED
      BY <3>1, <2>1, <1>2 DEF Distance
  <2>4. ItemRight(item)
    BY <1>1, <1>2, <2>1, <2>2, <2>3 DEF ItemRight
  <2>. QED
    BY <2>4 DEF item
<1>. QED
  BY <1>4, <1>5

\* What the order holds that its documents are made of.
LEMMA OrderIsRight ==
  ASSUME PayloadsSound, NoPrice \notin Int, BillInv, order # None
  PROVE  /\ Len(order.items) \in Nat
         /\ \A i \in 1..Len(order.items) : ItemRight(order.items[i])
         /\ order.discount \in Nat /\ order.shipping \in Nat
         /\ order.tags = payload.tags /\ order.channel = OrderChannel(payload)
<1>1. order = OrderFrom(Market, Products, payload) /\ payload \in Payloads
  BY DEF BillInv
<1>2. /\ Len(payload.lines) \in Nat
      /\ order.items = [i \in 1..Len(payload.lines) |-> OrderItem(Products, payload.lines[i])]
      /\ order.discount = payload.discount
      /\ order.shipping = IF payload.methods THEN payload.shipping ELSE 0
      /\ order.tags = payload.tags /\ order.channel = OrderChannel(payload)
  BY <1>1 DEF OrderFrom, PayloadsSound
<1>3. Len(order.items) = Len(payload.lines)
  BY <1>2
<1>4. ASSUME NEW i \in 1..Len(order.items)
      PROVE  ItemRight(order.items[i])
  <2>1. i \in 1..Len(payload.lines)
    BY <1>3, <1>4
  <2>2. /\ payload.lines[i].unit \in Nat /\ payload.lines[i].discount \in Nat
        /\ payload.lines[i].quantity \in Nat \ {0}
    BY <1>1, <2>1 DEF PayloadsSound
  <2>3. ItemRight(OrderItem(Products, payload.lines[i]))
    BY <2>2, LineIsRight
  <2>. QED
    BY <1>2, <2>1, <2>3
<1>5. order.discount \in Nat /\ order.shipping \in Nat
  BY <1>1, <1>2 DEF PayloadsSound
<1>. QED
  BY <1>2, <1>3, <1>4, <1>5

\* A reference of QuickBooks is one of its items or the default, and the
\* mapped one if it is an item.
LEMMA ReferenceIsActive ==
  ASSUME NEW creds, NEW skus, NEW mapped, NEW item
  PROVE  /\ QbItemRef(creds, skus, mapped, item) \in QbIds(skus) \cup {creds.default}
         /\ mapped \in QbIds(skus) => QbItemRef(creds, skus, mapped, item) = mapped
<1>1. CASE mapped \in QbIds(skus)
  <2>1. QbItemRef(creds, skus, mapped, item) = mapped
    BY <1>1 DEF QbItemRef
  <2>. QED
    BY <1>1, <2>1
<1>2. CASE mapped \notin QbIds(skus)
  <2>1. \A key \in DOMAIN skus : skus[key] \in QbIds(skus)
    BY DEF QbIds
  <2>2. \/ \E key \in DOMAIN skus : QbItemRef(creds, skus, mapped, item) = skus[key]
        \/ QbItemRef(creds, skus, mapped, item) = creds.default
    <3>1. CASE mapped \in DOMAIN skus
      BY <1>2, <3>1 DEF QbItemRef
    <3>2. CASE mapped \notin DOMAIN skus /\ item.sku \in DOMAIN skus
      BY <1>2, <3>2 DEF QbItemRef
    <3>3. CASE mapped \notin DOMAIN skus /\ item.sku \notin DOMAIN skus
               /\ item.label \in DOMAIN skus
      BY <1>2, <3>3 DEF QbItemRef
    <3>4. CASE mapped \notin DOMAIN skus /\ item.sku \notin DOMAIN skus
               /\ item.label \notin DOMAIN skus
      BY <1>2, <3>4 DEF QbItemRef
    <3>. QED
      BY <3>1, <3>2, <3>3, <3>4
  <2>. QED
    BY <1>2, <2>1, <2>2
<1>. QED
  BY <1>1, <1>2

\* What LinesRight says of line i of an invoice of QuickBooks.
AmountRight(l) ==
  l.kind # "group" =>
    /\ 2 * Distance(l.amount, l.price * l.quantity) <= l.quantity
    /\ l.amount >= 0 \/ l.kind = "discount"
ReferenceRight(l, i) ==
  l.kind \in {"item", "group"} =>
    /\ l.item \in QbIds(QbSkuMap(QbCatalogue)) \cup {Qb.default}
    /\ QbMapped(mapping, order.items[i]) \in QbIds(QbSkuMap(QbCatalogue)) =>
         l.item = QbMapped(mapping, order.items[i])

\* The line of an item is right...
LEMMA ItemLineIsRight ==
  ASSUME NEW i, ItemRight(order.items[i])
  PROVE  LET l == QbLine(Qb, QbCatalogue, Bundles, mapping, order.items[i])
         IN AmountRight(l) /\ ReferenceRight(l, i)
<1>. DEFINE item == order.items[i]
            ref == QbItemRef(Qb, QbSkuMap(QbCatalogue), QbMapped(mapping, item), item)
            l == QbLine(Qb, QbCatalogue, Bundles, mapping, item)
<1>1. \/ l = Line("group", NoPrice, item.quantity, NoPrice, ref)
      \/ l = Line("item", UnitPrice(item), item.quantity, item.total, ref)
  BY DEF QbLine
<1>2. /\ ref \in QbIds(QbSkuMap(QbCatalogue)) \cup {Qb.default}
      /\ QbMapped(mapping, item) \in QbIds(QbSkuMap(QbCatalogue)) =>
           ref = QbMapped(mapping, item)
  BY ReferenceIsActive
<1>. HIDE DEF ref, l
<1>3. l.item = ref
  BY <1>1 DEF Line
<1>4. ReferenceRight(l, i)
  BY <1>2, <1>3 DEF ReferenceRight
<1>5. AmountRight(l)
  <2>1. CASE l = Line("group", NoPrice, item.quantity, NoPrice, ref)
    BY <2>1 DEF Line, AmountRight
  <2>2. CASE l = Line("item", UnitPrice(item), item.quantity, item.total, ref)
    <3>1. /\ l.amount = item.total /\ l.price = UnitPrice(item)
          /\ l.quantity = item.quantity
      BY <2>2 DEF Line
    <3>2. ItemRight(item)
      OBVIOUS
    <3>. HIDE DEF item
    <3>. QED
      BY <3>1, <3>2 DEF AmountRight, ItemRight
  <2>. QED
    BY <1>1, <2>1, <2>2
<1>. QED
  BY <1>4, <1>5 DEF l

\* ...and so is a line beside those of the items.
ExtraLine(l) ==
  \/ \E n \in Nat : \E item : l = Line("shipping", n, 1, n, item)
  \/ \E n \in Nat : \E item : l = Line("discount", -n, 1, -n, item)

LEMMA ExtraLineIsRight ==
  ASSUME NEW i, NEW l, ExtraLine(l)
  PROVE  AmountRight(l) /\ ReferenceRight(l, i)
<1>1. CASE \E n \in Nat : \E item : l = Line("shipping", n, 1, n, item)
  <2>1. PICK n \in Nat : \E item : l = Line("shipping", n, 1, n, item)
    BY <1>1
  <2>2. l.kind = "shipping" /\ l.amount = n /\ l.price = n /\ l.quantity = 1
    BY <2>1 DEF Line
  <2>. QED
    BY <2>2 DEF AmountRight, ReferenceRight, Distance
<1>2. CASE \E n \in Nat : \E item : l = Line("discount", -n, 1, -n, item)
  <2>1. PICK n \in Nat : \E item : l = Line("discount", -n, 1, -n, item)
    BY <1>2
  <2>2. l.kind = "discount" /\ l.amount = -n /\ l.price = -n /\ l.quantity = 1
    BY <2>1 DEF Line
  <2>. QED
    BY <2>2 DEF AmountRight, ReferenceRight, Distance
<1>. QED
  BY <1>1, <1>2 DEF ExtraLine

\* A sequence followed by another, element by element.
LEMMA Joined ==
  ASSUME NEW S, NEW s \in Seq(S), NEW t \in Seq(S), NEW i \in DOMAIN (s \o t)
  PROVE  \/ i \in 1..Len(s) /\ (s \o t)[i] = s[i]
         \/ i - Len(s) \in 1..Len(t) /\ (s \o t)[i] = t[i - Len(s)]
OBVIOUS

\* An invoice's lines: one per item, then others.
LEMMA InvoiceLines ==
  ASSUME PayloadsSound, NoPrice \notin Int, BillInv, qbInvoice # None,
         NEW i \in DOMAIN qbInvoice.lines
  PROVE  \/ /\ i \in 1..Len(order.items)
            /\ qbInvoice.lines[i] = QbLine(Qb, QbCatalogue, Bundles, mapping, order.items[i])
         \/ ExtraLine(qbInvoice.lines[i])
<1>. DEFINE items == QbItemLines(Qb, QbCatalogue, Bundles, mapping, order)
            minus == DiscountLines(order, NoItem)
            plus == ShippingLines(Qb, order, Qb.shipping)
            S == {items[j] : j \in DOMAIN items} \cup {minus[j] : j \in DOMAIN minus}
                 \cup {plus[j] : j \in DOMAIN plus}
<1>1. order # None
  BY DEF BillInv
<1>2. /\ Len(order.items) \in Nat
      /\ order.discount \in Nat /\ order.shipping \in Nat
  BY <1>1, OrderIsRight
<1>3. /\ items = [j \in 1..Len(order.items) |->
                    QbLine(Qb, QbCatalogue, Bundles, mapping, order.items[j])]
      /\ DOMAIN items = 1..Len(order.items)
  BY DEF QbItemLines, LinesOf
<1>4. minus = <<>> \/ (\E l : ExtraLine(l) /\ minus = <<l>>)
  BY <1>2 DEF DiscountLines, ExtraLine
<1>5. plus = <<>> \/ (\E l : ExtraLine(l) /\ plus = <<l>>)
  BY <1>2 DEF ShippingLines, ExtraLine
<1>6. \/ qbInvoice.lines = items \o plus
      \/ qbInvoice.lines = items \o minus \o plus
  BY SMTT(30) DEF BillInv, As, QbInvoice, QbUpdatedInvoice
<1>. HIDE DEF items, minus, plus
<1>7. Len(items) = Len(order.items) /\ items \in Seq(S)
  <2>1. items \in [1..Len(order.items) -> S]
    BY <1>3
  <2>. QED
    BY <1>2, <1>3, <2>1
<1>8. minus \in Seq(S) /\ plus \in Seq(S)
  <2>1. minus \in Seq(S)
    <3>1. CASE minus = <<>>
      BY <3>1
    <3>2. CASE \E l : minus = <<l>>
      <4>1. PICK l : minus = <<l>>
        BY <3>2
      <4>2. DOMAIN minus = 1..1 /\ minus[1] = l
        BY <4>1
      <4>3. l \in S
        BY <4>2
      <4>. HIDE DEF S
      <4>. QED
        BY <4>1, <4>3
    <3>. QED
      BY <1>4, <3>1, <3>2
  <2>2. plus \in Seq(S)
    <3>1. CASE plus = <<>>
      BY <3>1
    <3>2. CASE \E l : plus = <<l>>
      <4>1. PICK l : plus = <<l>>
        BY <3>2
      <4>2. DOMAIN plus = 1..1 /\ plus[1] = l
        BY <4>1
      <4>3. l \in S
        BY <4>2
      <4>. HIDE DEF S
      <4>. QED
        BY <4>1, <4>3
    <3>. QED
      BY <1>5, <3>1, <3>2
  <2>. QED
    BY <2>1, <2>2
<1>9. /\ \A j \in 1..Len(minus) : ExtraLine(minus[j])
      /\ \A j \in 1..Len(plus) : ExtraLine(plus[j])
  <2>. HIDE DEF S
  <2>. HIDE DEF ExtraLine
  <2>. QED
    BY <1>4, <1>5
<1>. HIDE DEF S
<1>10. CASE qbInvoice.lines = items \o plus
  <2>1. \/ i \in 1..Len(items) /\ qbInvoice.lines[i] = items[i]
        \/ i - Len(items) \in 1..Len(plus) /\ qbInvoice.lines[i] = plus[i - Len(items)]
    BY <1>7, <1>8, <1>10, Joined
  <2>. QED
    BY <1>3, <1>7, <1>9, <2>1
<1>11. CASE qbInvoice.lines = items \o minus \o plus
  <2>1. items \o minus \in Seq(S)
    BY <1>7, <1>8
  <2>2. \/ i \in 1..Len(items \o minus) /\ qbInvoice.lines[i] = (items \o minus)[i]
        \/ i - Len(items \o minus) \in 1..Len(plus)
             /\ qbInvoice.lines[i] = plus[i - Len(items \o minus)]
    BY <1>8, <1>11, <2>1, Joined
  <2>3. ASSUME i \in DOMAIN (items \o minus)
        PROVE  \/ i \in 1..Len(items) /\ (items \o minus)[i] = items[i]
               \/ i - Len(items) \in 1..Len(minus) /\ (items \o minus)[i] = minus[i - Len(items)]
    BY <1>7, <1>8, <2>3, Joined
  <2>4. DOMAIN (items \o minus) = 1..Len(items \o minus)
    BY <2>1
  <2>. QED
    BY <1>3, <1>7, <1>9, <2>2, <2>3, <2>4
<1>. QED
  BY <1>6, <1>10, <1>11

\* LinesRight follows from what the documents are made of...
LEMMA RightFollows ==
  ASSUME PayloadsSound, NoPrice \notin Int, BillInv
  PROVE  LinesRight
<1>1. ASSUME NEW i \in DOMAIN qbInvoice.lines
      PROVE  AmountRight(qbInvoice.lines[i]) /\ ReferenceRight(qbInvoice.lines[i], i)
  <2>1. qbInvoice # None
    BY <1>1 DEF None
  <2>2. order # None
    BY <2>1 DEF BillInv
  <2>3. CASE ExtraLine(qbInvoice.lines[i])
    BY <2>3, ExtraLineIsRight
  <2>4. CASE /\ i \in 1..Len(order.items)
             /\ qbInvoice.lines[i] = QbLine(Qb, QbCatalogue, Bundles, mapping, order.items[i])
    <3>1. ItemRight(order.items[i])
      BY <2>2, <2>4, OrderIsRight
    <3>. QED
      BY <2>4, <3>1, ItemLineIsRight
  <2>. QED
    BY <2>1, <2>3, <2>4, InvoiceLines
<1>2. AmountsFollow
  BY <1>1 DEF AmountsFollow, AmountRight
<1>3. ReferencesActive
  BY <1>1 DEF ReferencesActive, ReferenceRight
<1>4. PartnerFollowsChannel
  <2>. SUFFICES ASSUME saleOrder # None,
                       ~(order.channel = "POS" /\ order.tags \cap ChatTags # {})
                PROVE  saleOrder.partner =
                         CASE order.channel = "POS" -> Odoo.partners.pos
                           [] order.channel = "WHATSAPP" -> Odoo.partners.chat
                           [] OTHER -> Odoo.partners.shop
    BY DEF PartnerFollowsChannel
  <2>1. order # None /\ saleOrder.partner = Partner(Odoo, order)
    BY DEF BillInv, As, OdooSalesOrder
  <2>2. order.tags = payload.tags /\ order.channel = OrderChannel(payload)
    BY <2>1, OrderIsRight
  <2>3. CASE IsPosOrder(payload)
    <3>1. order.channel = "POS" /\ order.tags \cap ChatTags = {}
      BY <2>2, <2>3 DEF OrderChannel
    <3>. QED
      BY <2>1, <3>1 DEF Partner
  <2>4. CASE ~IsPosOrder(payload) /\ payload.tags \cap ChatTags # {}
    <3>1. order.channel = "WHATSAPP"
      BY <2>2, <2>4 DEF OrderChannel
    <3>. QED
      BY <2>1, <2>2, <2>4, <3>1 DEF Partner
  <2>5. CASE ~IsPosOrder(payload) /\ payload.tags \cap ChatTags = {}
    <3>1. order.channel = "WEBSITE"
      BY <2>2, <2>5 DEF OrderChannel
    <3>. QED
      BY <2>1, <2>2, <2>5, <3>1 DEF Partner
  <2>. QED
    BY <2>3, <2>4, <2>5
<1>. QED
  BY <1>2, <1>3, <1>4 DEF LinesRight

\* ...so in every invoice of QuickBooks an amount is its price times its
\* quantity up to half a cent a unit and a reference names an active item, and
\* documents in Odoo go to the customer of the channel (services.py:892-1476).
THEOREM InvoiceLinesAreRight ==
  ASSUME PayloadsSound, NoPrice \notin Int
  PROVE  BillSpec => []LinesRight
<1>1. BillInv => LinesRight
  BY RightFollows
<1>. QED
  BY <1>1, BillInvInvariant, PTL

\* A list of lines, of any length.
Listed(s) == Len(s) \in Nat /\ s = [i \in 1..Len(s) |-> s[i]]
Priced(s) == \A i \in DOMAIN s : s[i].amount \in Int

LEMMA OneMore ==
  ASSUME NEW s, Listed(s), NEW l
  PROVE  /\ Listed(s \o <<l>>) /\ Len(s \o <<l>>) = Len(s) + 1
         /\ (s \o <<l>>)[Len(s) + 1] = l
         /\ \A i \in 1..Len(s) : (s \o <<l>>)[i] = s[i]
         /\ s \o <<>> = s
<1>. DEFINE S == {s[i] : i \in 1..Len(s)} \cup {l}
            n == Len(s)
            t == <<l>>
            u == s \o t
<1>1. s \in Seq(S) /\ t \in Seq(S)
  <2>1. s \in [1..n -> S] /\ n \in Nat /\ l \in S
    BY DEF Listed
  <2>. HIDE DEF S, n
  <2>. QED
    BY <2>1
<1>. HIDE DEF S
<1>2. Len(t) = 1 /\ t[1] = l
  OBVIOUS
<1>3. u \in Seq(S) /\ Len(u) = n + 1 /\ n \in Nat
  BY <1>1, <1>2
<1>4. \A i \in 1..(n + 1) : u[i] = IF i <= n THEN s[i] ELSE t[i - n]
  BY <1>1, <1>2
<1>5. u[n + 1] = l /\ \A i \in 1..n : u[i] = s[i]
  <2>. HIDE DEF u, t, n
  <2>. QED
    BY <1>2, <1>3, <1>4
<1>6. Listed(u)
  <2>. HIDE DEF u, t
  <2>. QED
    BY <1>3 DEF Listed
<1>7. s \o <<>> = s
  BY <1>1
<1>. QED
  BY <1>3, <1>5, <1>6, <1>7

\* One line more adds its amount.
LEMMA TotalOneMore ==
  ASSUME NEW s, Listed(s), Priced(s), NEW l, l.amount \in Int
  PROVE  /\ Priced(s \o <<l>>)
         /\ Total(s \o <<l>>) = Total(s) + l.amount
         /\ Total(s) \in Int
<1>. DEFINE n == Len(s)
            u == s \o <<l>>
            f == [i \in DOMAIN s |-> s[i].amount]
            g == [i \in DOMAIN u |-> u[i].amount]
<1>1. n \in Nat /\ DOMAIN s = 1..n
  BY DEF Listed
<1>2. /\ Listed(u) /\ Len(u) = n + 1 /\ u[n + 1] = l
      /\ \A i \in 1..n : u[i] = s[i]
  BY OneMore
<1>3. DOMAIN u = 1..(n + 1)
  BY <1>2 DEF Listed
<1>. HIDE DEF u, n
<1>4. /\ DOMAIN f = 1..n /\ DOMAIN g = 1..(n + 1)
      /\ \A i \in 1..n : f[i] = g[i] /\ f[i] \in Int
      /\ g[n + 1] = l.amount
  BY <1>1, <1>2, <1>3 DEF Priced
<1>5. /\ Total(s) = SumFunctionOnSet(f, 1..n)
      /\ Total(u) = SumFunctionOnSet(g, 1..(n + 1))
  BY <1>4 DEF Total, SumFunction
<1>6. Priced(u)
  BY <1>1, <1>2, <1>3, <1>4 DEF Priced
<1>. HIDE DEF f, g
<1>7. /\ IsFiniteSet(1..n) /\ IsFiniteSet(1..(n + 1))
      /\ (1..(n + 1)) \ {n + 1} = 1..n /\ n + 1 \in 1..(n + 1)
  BY <1>1, FS_Interval
<1>8. \A i \in 1..(n + 1) : g[i] \in Int
  BY <1>1, <1>4
<1>9. SumFunctionOnSet(g, 1..(n + 1)) = g[n + 1] + SumFunctionOnSet(g, (1..(n + 1)) \ {n + 1})
  BY <1>7, <1>8, SumPick
<1>10. SumFunctionOnSet(g, 1..n) = SumFunctionOnSet(f, 1..n)
  <2>1. \A i \in 1..n : g[i] = f[i]
    BY <1>4
  <2>. QED
    BY ONLY <2>1, <1>7, SumSame
<1>11. SumFunctionOnSet(f, 1..n) \in Int
  BY <1>4, <1>7, SumPick
<1>12. Total(u) = l.amount + Total(s) /\ Total(s) \in Int
  BY ONLY <1>4, <1>5, <1>7, <1>9, <1>10, <1>11
<1>13. Total(u) = Total(s) + l.amount
  BY <1>12
<1>. QED
  BY <1>6, <1>12, <1>13 DEF u

\* The lines for the discount and for shipping add what they say.
LEMMA TotalDiscount ==
  ASSUME NEW s, Listed(s), Priced(s), NEW item, order.discount \in Nat
  PROVE  LET u == s \o DiscountLines(order, item)
         IN Listed(u) /\ Priced(u) /\ Total(u) = Total(s) - order.discount
<1>1. CASE order.discount > 0
  <2>. DEFINE l == Line("discount", -order.discount, 1, -order.discount, item)
  <2>1. l.amount = -order.discount /\ l.amount \in Int
    BY DEF Line
  <2>2. DiscountLines(order, item) = <<l>>
    BY <1>1 DEF DiscountLines
  <2>. HIDE DEF l
  <2>3. Listed(s \o <<l>>)
    BY OneMore
  <2>4. Priced(s \o <<l>>) /\ Total(s \o <<l>>) = Total(s) + l.amount /\ Total(s) \in Int
    BY <2>1, TotalOneMore
  <2>. QED
    BY <2>1, <2>2, <2>3, <2>4
<1>2. CASE ~(order.discount > 0)
  <2>1. DiscountLines(order, item) = <<>> /\ s \o <<>> = s /\ order.discount = 0
    BY <1>2, OneMore DEF DiscountLines
  <2>2. Total(s) \in Int
    <3>1. [amount |-> 0].amount \in Int
      OBVIOUS
    <3>. QED
      BY <3>1, TotalOneMore
  <2>. QED
    BY <2>1, <2>2
<1>. QED
  BY <1>1, <1>2

Billed(creds) == IF creds.shipping = NoItem THEN 0 ELSE order.shipping

LEMMA TotalShipping ==
  ASSUME NEW s, Listed(s), Priced(s), NEW creds, NEW item, order.shipping \in Nat
  PROVE  LET u == s \o ShippingLines(creds, order, item)
         IN Total(u) = Total(s) + Billed(creds)
<1>1. CASE order.shipping > 0 /\ creds.shipping # NoItem
  <2>. DEFINE l == Line("shipping", order.shipping, 1, order.shipping, item)
  <2>1. l.amount = order.shipping /\ l.amount \in Int
    BY DEF Line
  <2>2. ShippingLines(creds, order, item) = <<l>>
    BY <1>1 DEF ShippingLines
  <2>. HIDE DEF l
  <2>3. Total(s \o <<l>>) = Total(s) + l.amount
    BY <2>1, TotalOneMore
  <2>. QED
    BY <1>1, <2>1, <2>2, <2>3 DEF Billed
<1>2. CASE ~(order.shipping > 0 /\ creds.shipping # NoItem)
  <2>1. ShippingLines(creds, order, item) = <<>> /\ s \o <<>> = s /\ Billed(creds) = 0
    BY <1>2, OneMore DEF ShippingLines, Billed
  <2>2. Total(s) \in Int
    <3>1. [amount |-> 0].amount \in Int
      OBVIOUS
    <3>. QED
      BY <3>1, TotalOneMore
  <2>. QED
    BY <2>1, <2>2
<1>. QED
  BY <1>1, <1>2

\* The lines of the items, as Odoo is asked for them, come to the lines' totals
\* up to half a cent a unit.
LEMMA OdooItemsTotal ==
  ASSUME PayloadsSound, NoPrice \notin Int, BillInv, order # None
  PROVE  LET s == LinesOf(order, LAMBDA item : OdooLine(Odoo, Found, item))
             totals == SumFunction([i \in DOMAIN order.items |-> order.items[i].total])
         IN /\ Listed(s) /\ Priced(s) /\ Total(s) \in Int /\ totals \in Int /\ Slack \in Int
            /\ 2 * Distance(Total(s), totals) <= Slack
<1>. DEFINE n == Len(order.items)
            s == [i \in 1..n |-> OdooLine(Odoo, Found, order.items[i])]
            f == [i \in DOMAIN s |-> s[i].amount]
            g == [i \in DOMAIN order.items |-> order.items[i].total]
            d == [i \in DOMAIN order.items |-> order.items[i].quantity]
<1>1. /\ n \in Nat /\ \A i \in 1..n : ItemRight(order.items[i])
      /\ DOMAIN order.items = 1..n
  <2>1. order.items = [i \in 1..Len(payload.lines) |-> OrderItem(Products, payload.lines[i])]
    BY DEF BillInv, OrderFrom
  <2>2. payload \in Payloads /\ Len(payload.lines) \in Nat
    BY DEF BillInv, PayloadsSound
  <2>. QED
    BY <2>1, <2>2, OrderIsRight
<1>2. \A i \in 1..n : s[i].amount = UnitPrice(order.items[i]) * order.items[i].quantity
  BY DEF OdooLine, Line
<1>3. \A i \in 1..n : /\ f[i] \in Int /\ g[i] \in Int /\ d[i] \in Int
                      /\ 2 * Distance(f[i], g[i]) <= d[i]
  <2>. SUFFICES ASSUME NEW i \in 1..n
                PROVE  /\ f[i] \in Int /\ g[i] \in Int /\ d[i] \in Int
                       /\ 2 * Distance(f[i], g[i]) <= d[i]
    OBVIOUS
  <2>1. /\ f[i] = UnitPrice(order.items[i]) * order.items[i].quantity
        /\ g[i] = order.items[i].total /\ d[i] = order.items[i].quantity
    BY <1>1, <1>2
  <2>2. ItemRight(order.items[i])
    BY <1>1
  <2>. HIDE DEF f, g, d
  <2>3. /\ UnitPrice(order.items[i]) * order.items[i].quantity \in Int
        /\ order.items[i].total \in Int /\ order.items[i].quantity \in Int
    BY <2>2 DEF ItemRight
  <2>4. Distance(order.items[i].total, f[i]) = Distance(f[i], order.items[i].total)
    BY <2>1, <2>3 DEF Distance
  <2>. QED
    BY <2>1, <2>2, <2>3, <2>4 DEF ItemRight
<1>4. /\ Total(s) = SumFunctionOnSet(f, 1..n)
      /\ SumFunction(g) = SumFunctionOnSet(g, 1..n)
      /\ Slack = SumFunctionOnSet(d, 1..n)
  <2>1. DOMAIN f = 1..n /\ DOMAIN g = 1..n /\ DOMAIN d = 1..n
    BY <1>1
  <2>. QED
    BY <2>1 DEF Total, Slack, SumFunction
<1>5. Listed(s) /\ Priced(s)
  <2>1. Len(s) = n
    BY <1>1
  <2>2. Listed(s)
    BY <1>1, <2>1 DEF Listed
  <2>3. DOMAIN s = 1..n /\ \A i \in 1..n : f[i] = s[i].amount
    OBVIOUS
  <2>. QED
    BY <1>3, <2>2, <2>3 DEF Priced
<1>6. IsFiniteSet(1..n)
  <2>1. n \in Int
    BY <1>1
  <2>. HIDE DEF n
  <2>. QED
    BY ONLY <2>1, FS_Interval
<1>. HIDE DEF f, g, d, n
<1>7. /\ SumFunctionOnSet(f, 1..n) \in Int /\ SumFunctionOnSet(g, 1..n) \in Int
      /\ SumFunctionOnSet(d, 1..n) \in Int
  BY <1>3, <1>6, SumPick
<1>8. 2 * Distance(SumFunctionOnSet(f, 1..n), SumFunctionOnSet(g, 1..n))
        <= SumFunctionOnSet(d, 1..n)
  BY <1>3, <1>6, SumNear
<1>9. s = LinesOf(order, LAMBDA item : OdooLine(Odoo, Found, item))
  BY DEF LinesOf, n
<1>10. SumFunction(g) = SumFunction([i \in DOMAIN order.items |-> order.items[i].total])
  BY DEF g
<1>. HIDE DEF s
<1>. QED
  BY <1>4, <1>5, <1>7, <1>8, <1>9, <1>10

LEMMA OdooAgrees ==
  ASSUME PayloadsSound, NoPrice \notin Int, BillInv
  PROVE  OdooBillsOrder
<1>. SUFFICES ASSUME saleOrder # None
              PROVE  /\ Total(saleOrder.lines) = Total(odooInvoice.lines)
                     /\ 2 * Distance(Total(saleOrder.lines), Due(Odoo)) <= Slack
  BY DEF OdooBillsOrder
<1>. DEFINE s == LinesOf(order, LAMBDA item : OdooLine(Odoo, Found, item))
            totals == SumFunction([i \in DOMAIN order.items |-> order.items[i].total])
            asked == Total(s) - order.discount + Billed(Odoo)
<1>1. order # None
  BY DEF BillInv
<1>2. order.discount \in Nat /\ order.shipping \in Nat
  BY <1>1, OrderIsRight
<1>3. /\ Listed(s) /\ Priced(s) /\ Total(s) \in Int /\ totals \in Int /\ Slack \in Int
      /\ 2 * Distance(Total(s), totals) <= Slack
  BY <1>1, OdooItemsTotal
<1>4. /\ saleOrder.lines = (s \o DiscountLines(order, NoItem))
                             \o ShippingLines(Odoo, order, NoItem)
      /\ odooInvoice.lines = (s \o DiscountLines(order, Odoo.discount))
                               \o ShippingLines(Odoo, order, Odoo.shipping)
  <2>1. /\ saleOrder = As("created", OdooSalesOrder(Odoo, Found, order))
        /\ odooInvoice = As("created", OdooInvoice(Odoo, Found, order))
    BY DEF BillInv
  <2>2. /\ saleOrder.lines = OdooSalesOrder(Odoo, Found, order).lines
        /\ odooInvoice.lines = OdooInvoice(Odoo, Found, order).lines
    BY <2>1 DEF As
  <2>3. OdooSalesOrder(Odoo, Found, order).lines =
          (s \o DiscountLines(order, NoItem)) \o ShippingLines(Odoo, order, NoItem)
    BY DEF OdooSalesOrder
  <2>4. OdooInvoice(Odoo, Found, order).lines =
          (s \o DiscountLines(order, Odoo.discount)) \o ShippingLines(Odoo, order, Odoo.shipping)
    BY DEF OdooInvoice
  <2>. QED
    BY <2>2, <2>3, <2>4
<1>5. Due(Odoo) = totals - order.discount + Billed(Odoo)
  BY DEF Due, Billed
<1>6. Billed(Odoo) \in Nat
  BY <1>2 DEF Billed
<1>. HIDE DEF s, totals
<1>7. ASSUME NEW x, NEW y
      PROVE  Total((s \o DiscountLines(order, x)) \o ShippingLines(Odoo, order, y)) = asked
  <2>. DEFINE u == s \o DiscountLines(order, x)
  <2>1. Listed(u) /\ Priced(u) /\ Total(u) = Total(s) - order.discount
    BY <1>2, <1>3, TotalDiscount
  <2>. HIDE DEF u
  <2>2. Total(u \o ShippingLines(Odoo, order, y)) = Total(u) + Billed(Odoo)
    BY <1>2, <2>1, TotalShipping
  <2>. QED
    BY <2>1, <2>2 DEF u
<1>8. Total(saleOrder.lines) = asked /\ Total(odooInvoice.lines) = asked
  BY <1>4, <1>7
<1>9. Distance(asked, Due(Odoo)) = Distance(Total(s), totals)
  BY <1>2, <1>3, <1>5, <1>6 DEF Distance
<1>. QED
  BY <1>3, <1>8, <1>9

\* QuickBooks is sent the lines' totals themselves.
LEMMA QuickBooksAgrees ==
  ASSUME PayloadsSound, NoPrice \notin Int, BillInv
  PROVE  QuickBooksBillsOrder
<1>. SUFFICES ASSUME qbInvoice # None, Whole(qbInvoice.lines)
              PROVE  Total(qbInvoice.lines) =
                       Due(Qb) + IF qbInvoice.stage = "created" THEN order.discount ELSE 0
  BY DEF QuickBooksBillsOrder
<1>. DEFINE n == Len(order.items)
            line(i) == QbLine(Qb, QbCatalogue, Bundles, mapping, order.items[i])
            s == [i \in 1..n |-> line(i)]
            minus == DiscountLines(order, NoItem)
            plus == ShippingLines(Qb, order, Qb.shipping)
            g == [i \in DOMAIN order.items |-> order.items[i].total]
<1>1. order # None
  BY DEF BillInv
<1>2. order.discount \in Nat /\ order.shipping \in Nat
  BY <1>1, OrderIsRight
<1>3. /\ n \in Nat /\ \A i \in 1..n : order.items[i].total \in Int
      /\ DOMAIN order.items = 1..n
  <2>1. order.items = [i \in 1..Len(payload.lines) |-> OrderItem(Products, payload.lines[i])]
    BY <1>1 DEF BillInv, OrderFrom
  <2>2. payload \in Payloads /\ Len(payload.lines) \in Nat
    BY DEF BillInv, PayloadsSound
  <2>. QED
    BY <1>1, <2>1, <2>2, OrderIsRight DEF ItemRight
<1>4. s = QbItemLines(Qb, QbCatalogue, Bundles, mapping, order)
  BY DEF QbItemLines, LinesOf
<1>5. \/ qbInvoice.lines = s \o plus /\ qbInvoice.stage = "created"
      \/ qbInvoice.lines = (s \o minus) \o plus /\ qbInvoice.stage = "updated"
  <2>1. /\ QbInvoice(Qb, QbCatalogue, Bundles, mapping, order).lines = s \o plus
        /\ QbUpdatedInvoice(Qb, QbCatalogue, Bundles, mapping, order).lines
             = (s \o minus) \o plus
    <3>. HIDE DEF s
    <3>. QED
      BY <1>4 DEF QbInvoice, QbUpdatedInvoice
  <2>2. \/ qbInvoice = As("created", QbInvoice(Qb, QbCatalogue, Bundles, mapping, order))
        \/ qbInvoice = As("updated", QbUpdatedInvoice(Qb, QbCatalogue, Bundles, mapping, order))
    BY DEF BillInv
  <2>. HIDE DEF s, minus, plus
  <2>. QED
    BY <2>1, <2>2 DEF As
<1>6. /\ DOMAIN s = 1..n /\ Len(s) = n /\ \A i \in 1..n : s[i] = line(i)
  BY <1>3
<1>7. \A i \in 1..n : \/ s[i].kind = "group"
                      \/ s[i].amount = order.items[i].total
  BY <1>6 DEF QbLine, Line
<1>. HIDE DEF line, s
<1>8. Listed(s)
  <2>1. s = [i \in 1..n |-> s[i]]
    BY <1>6 DEF s
  <2>. QED
    BY <1>3, <1>6, <2>1 DEF Listed
<1>9. /\ minus = <<>> \/ (\E l : minus = <<l>>)
      /\ plus = <<>> \/ (\E l : plus = <<l>>)
  BY DEF DiscountLines, ShippingLines
<1>. HIDE DEF minus, plus
<1>10. ASSUME NEW u, Listed(u), NEW t, t = <<>> \/ \E l : t = <<l>>
       PROVE  /\ Listed(u \o t) /\ Len(u) <= Len(u \o t)
              /\ \A i \in 1..Len(u) : (u \o t)[i] = u[i]
  <2>1. CASE t = <<>>
    <3>1. u \o t = u
      BY <1>10, <2>1, OneMore
    <3>. QED
      BY <1>10, <3>1 DEF Listed
  <2>2. CASE \E l : t = <<l>>
    <3>1. PICK l : t = <<l>>
      BY <2>2
    <3>. QED
      BY <1>10, <3>1, OneMore DEF Listed
  <2>. QED
    BY <1>10, <2>1, <2>2
<1>11. /\ Listed(s \o minus) /\ Len(s) <= Len(s \o minus)
       /\ \A i \in 1..Len(s) : (s \o minus)[i] = s[i]
  BY <1>8, <1>9, <1>10
<1>12. /\ Listed(qbInvoice.lines) /\ n <= Len(qbInvoice.lines)
       /\ \A i \in 1..n : qbInvoice.lines[i] = s[i]
  <2>1. CASE qbInvoice.lines = s \o plus
    BY <1>6, <1>8, <1>9, <1>10, <2>1
  <2>2. CASE qbInvoice.lines = (s \o minus) \o plus
    <3>1. /\ Listed((s \o minus) \o plus) /\ Len(s \o minus) <= Len((s \o minus) \o plus)
          /\ \A i \in 1..Len(s \o minus) : ((s \o minus) \o plus)[i] = (s \o minus)[i]
      BY <1>9, <1>10, <1>11
    <3>. QED
      BY <1>3, <1>6, <1>11, <2>2, <3>1 DEF Listed
  <2>. QED
    BY <1>5, <2>1, <2>2
<1>13. \A i \in 1..n : s[i].amount = order.items[i].total
  <2>1. \A i \in 1..n : i \in DOMAIN qbInvoice.lines
    BY <1>3, <1>12 DEF Listed
  <2>. QED
    BY <1>7, <1>12, <2>1 DEF Whole
<1>14. Priced(s)
  BY <1>3, <1>6, <1>13 DEF Priced
<1>15. Total(s) = SumFunction(g)
  <2>1. [i \in DOMAIN s |-> s[i].amount] = g
    BY <1>3, <1>6, <1>13
  <2>. QED
    BY <2>1 DEF Total
<1>16. Due(Qb) = SumFunction(g) - order.discount + Billed(Qb)
  BY DEF Due, Billed
<1>17. Total(s) \in Int /\ Billed(Qb) \in Nat
  <2>1. [amount |-> 0].amount \in Int
    OBVIOUS
  <2>. QED
    BY <1>2, <1>8, <1>14, <2>1, TotalOneMore DEF Billed
<1>. HIDE DEF g
<1>18. CASE qbInvoice.lines = s \o plus /\ qbInvoice.stage = "created"
  <2>1. Total(s \o plus) = Total(s) + Billed(Qb)
    BY <1>2, <1>8, <1>14, TotalShipping DEF plus
  <2>. QED
    BY <1>2, <1>15, <1>16, <1>17, <1>18, <2>1
<1>19. CASE qbInvoice.lines = (s \o minus) \o plus /\ qbInvoice.stage = "updated"
  <2>1. Priced(s \o minus) /\ Total(s \o minus) = Total(s) - order.discount
    BY <1>2, <1>8, <1>14, TotalDiscount DEF minus
  <2>2. Total((s \o minus) \o plus) = Total(s \o minus) + Billed(Qb)
    BY <1>2, <1>11, <2>1, TotalShipping DEF plus
  <2>. QED
    BY <1>2, <1>15, <1>16, <1>17, <1>19, <2>1, <2>2
<1>. QED
  BY <1>5, <1>18, <1>19

\* However many lines an order has and whatever they cost: the sales order and
\* the invoice in Odoo ask for the same, which is the order's money up to half a
\* cent a unit, and an updated invoice of QuickBooks asks for it to the cent
\* (services.py:720-1476).
THEOREM DocumentsAgree ==
  ASSUME PayloadsSound, NoPrice \notin Int
  PROVE  BillSpec => []MoneyAgrees
<1>1. BillInv => MoneyAgrees
  BY OdooAgrees, QuickBooksAgrees DEF MoneyAgrees
<1>. QED
  BY <1>1, BillInvInvariant, PTL

-----------------------------------------------------------------------------
(* Edits of inventory rows                                                  *)

ShelfRows == [place : Places, quantity : Int, reserved : Int]
Requests ==
  [id : Ids, copy : ShelfRows, place : Places \cup {Stay},
   quantity : Amounts \cup {Unsaid}, reserved : Amounts \cup {Unsaid}]

EditTypes ==
  /\ shelf \in [Ids -> ShelfRows \cup {NoShelf}]
  /\ shelved \in 0..MaxShelved
  /\ \A i \in Ids : i > shelved => shelf[i] = NoShelf
  /\ edit \in [Editors -> Requests \cup {NoEdit}]
  /\ \A e \in Editors : edit[e] # NoEdit => edit[e].id <= shelved
  /\ owed \in [quantity : Int, reserved : Int]
  /\ overwrote \in BOOLEAN

EditInv == EditTypes /\ EditsConserve

LEMMA ShelfFacts ==
  ASSUME ShelfSound
  PROVE  /\ Ids = 1..MaxShelved /\ IsFiniteSet(Ids) /\ MaxShelved \in Nat
         /\ NoEdit \notin Requests /\ NoShelf \notin ShelfRows
         /\ NoShelf.quantity = 0 /\ NoShelf.reserved = 0
         /\ \A r \in ShelfRows \cup {NoShelf} : r.quantity \in Int /\ r.reserved \in Int
         /\ Amounts \subseteq Int /\ Unsaid \in Int
<1>1. MaxShelved \in Nat /\ Amounts \subseteq Int /\ NoShelf.place \notin Places
  BY DEF ShelfSound
<1>2. IsFiniteSet(Ids)
  BY <1>1, FS_Interval DEF Ids
<1>3. NoEdit \notin Requests
  <2>1. \A r \in Requests : r.id \in Ids
    BY DEF Requests
  <2>2. NoEdit.id \notin Ids
    BY DEF NoEdit, Ids
  <2>. QED
    BY <2>1, <2>2
<1>4. NoShelf \notin ShelfRows
  BY <1>1 DEF ShelfRows
<1>5. NoShelf.quantity = 0 /\ NoShelf.reserved = 0
  BY DEF NoShelf
<1>6. \A r \in ShelfRows : r.quantity \in Int /\ r.reserved \in Int
  BY DEF ShelfRows
<1>. QED
  BY <1>1, <1>2, <1>3, <1>4, <1>5, <1>6 DEF Ids, Unsaid

\* What the rows have together are sums of integers, of either field.
LEMMA StoredIsInt ==
  ASSUME ShelfSound, EditTypes, NEW ids \in SUBSET Ids
  PROVE  Stored("quantity", ids) \in Int /\ Stored("reserved", ids) \in Int
<1>1. IsFiniteSet(ids)
  BY ShelfFacts, FS_Subset
<1>2. \A i \in Ids : shelf[i].quantity \in Int /\ shelf[i].reserved \in Int
  BY ShelfFacts DEF EditTypes
<1>. DEFINE q == [i \in Ids |-> shelf[i].quantity]
            r == [i \in Ids |-> shelf[i].reserved]
<1>3. \A i \in ids : q[i] \in Int /\ r[i] \in Int
  BY <1>2
<1>4. /\ Stored("quantity", ids) = SumFunctionOnSet(q, ids)
      /\ Stored("reserved", ids) = SumFunctionOnSet(r, ids)
  BY DEF Stored
<1>. HIDE DEF q, r
<1>. QED
  BY <1>1, <1>3, <1>4, SumPick

\* A step that changes row i and empties the rows that it merges.
LEMMA StoredMerge ==
  ASSUME ShelfSound, EditTypes, EditTypes', NEW P \in SUBSET Ids, NEW i \in Ids \ P,
         \A j \in P : shelf'[j] = NoShelf,
         \A j \in Ids \ (P \cup {i}) : shelf'[j] = shelf[j]
  PROVE  /\ Stored("quantity", Ids)' = Stored("quantity", Ids) - shelf[i].quantity
              - Stored("quantity", P) + shelf'[i].quantity
         /\ Stored("reserved", Ids)' = Stored("reserved", Ids) - shelf[i].reserved
              - Stored("reserved", P) + shelf'[i].reserved
<1>. DEFINE fq == [j \in Ids |-> shelf[j].quantity]
            fr == [j \in Ids |-> shelf[j].reserved]
            gq == [j \in Ids |-> shelf'[j].quantity]
            gr == [j \in Ids |-> shelf'[j].reserved]
<1>1. \A j \in Ids : /\ fq[j] \in Int /\ fr[j] \in Int
                     /\ gq[j] \in Int /\ gr[j] \in Int
  BY ShelfFacts DEF EditTypes
<1>2. /\ \A j \in P : gq[j] = 0 /\ gr[j] = 0
      /\ \A j \in Ids \ (P \cup {i}) : gq[j] = fq[j] /\ gr[j] = fr[j]
  BY ShelfFacts
<1>3. /\ fq[i] = shelf[i].quantity /\ fr[i] = shelf[i].reserved
      /\ gq[i] = shelf'[i].quantity /\ gr[i] = shelf'[i].reserved
  OBVIOUS
<1>4. /\ Stored("quantity", Ids) = SumFunctionOnSet(fq, Ids)
      /\ Stored("reserved", Ids) = SumFunctionOnSet(fr, Ids)
      /\ Stored("quantity", P) = SumFunctionOnSet(fq, P)
      /\ Stored("reserved", P) = SumFunctionOnSet(fr, P)
  BY DEF Stored
<1>5. /\ Stored("quantity", Ids)' = SumFunctionOnSet(gq, Ids)
      /\ Stored("reserved", Ids)' = SumFunctionOnSet(gr, Ids)
  BY DEF Stored
<1>6. IsFiniteSet(Ids)
  BY ShelfFacts
<1>. HIDE DEF fq, fr, gq, gr
<1>7. SumFunctionOnSet(gq, Ids) =
        SumFunctionOnSet(fq, Ids) - fq[i] - SumFunctionOnSet(fq, P) + gq[i]
  BY <1>1, <1>2, <1>6, SumMerge
<1>8. SumFunctionOnSet(gr, Ids) =
        SumFunctionOnSet(fr, Ids) - fr[i] - SumFunctionOnSet(fr, P) + gr[i]
  BY <1>1, <1>2, <1>6, SumMerge
<1>. QED
  BY <1>3, <1>4, <1>5, <1>7, <1>8

\* A step that changes row i alone.
LEMMA StoredChange ==
  ASSUME ShelfSound, EditTypes, EditTypes', NEW i \in Ids,
         \A j \in Ids \ {i} : shelf'[j] = shelf[j]
  PROVE  /\ Stored("quantity", Ids)' =
              Stored("quantity", Ids) - shelf[i].quantity + shelf'[i].quantity
         /\ Stored("reserved", Ids)' =
              Stored("reserved", Ids) - shelf[i].reserved + shelf'[i].reserved
<1>1. /\ Stored("quantity", Ids)' = Stored("quantity", Ids) - shelf[i].quantity
           - Stored("quantity", {}) + shelf'[i].quantity
      /\ Stored("reserved", Ids)' = Stored("reserved", Ids) - shelf[i].reserved
           - Stored("reserved", {}) + shelf'[i].reserved
  BY StoredMerge
<1>2. Stored("quantity", {}) = 0 /\ Stored("reserved", {}) = 0
  BY SumEmpty DEF Stored
<1>3. /\ Stored("quantity", Ids) \in Int /\ Stored("reserved", Ids) \in Int
      /\ shelf[i].quantity \in Int /\ shelf[i].reserved \in Int
      /\ shelf'[i].quantity \in Int /\ shelf'[i].reserved \in Int
  <2>1. shelf[i] \in ShelfRows \cup {NoShelf} /\ shelf'[i] \in ShelfRows \cup {NoShelf}
    BY DEF EditTypes
  <2>. QED
    BY <2>1, StoredIsInt, ShelfFacts
<1>. QED
  BY <1>1, <1>2, <1>3

LEMMA EditInit ==
  ASSUME ShelfSound
  PROVE  InventoryEditInit => EditInv
<1>. SUFFICES ASSUME InventoryEditInit PROVE EditInv
  OBVIOUS
<1>1. /\ MaxShelved \in Nat
      /\ Len(FirstShelf) \in 0..MaxShelved /\ DOMAIN FirstShelf = 1..Len(FirstShelf)
      /\ \A i \in DOMAIN FirstShelf : FirstShelf[i] \in ShelfRows
  BY DEF ShelfSound, ShelfRows
<1>2. shelved = Len(FirstShelf)
  <2>. DEFINE n == Len(FirstShelf)
  <2>1. n \in Int /\ n >= 0
    BY <1>1
  <2>2. shelved = Cardinality(1..n)
    BY <1>1 DEF InventoryEditInit
  <2>. HIDE DEF n
  <2>3. Cardinality(1..n) = n
    BY <2>1, FS_Interval
  <2>. QED
    BY <2>2, <2>3 DEF n
<1>3. /\ shelf \in [Ids -> ShelfRows \cup {NoShelf}]
      /\ \A i \in Ids : i > shelved => shelf[i] = NoShelf
  BY <1>1, <1>2 DEF InventoryEditInit, Ids
<1>4. Stored("quantity", Ids) \in Int /\ Stored("reserved", Ids) \in Int
  <2>1. IsFiniteSet(Ids)
    BY ShelfFacts
  <2>. DEFINE q == [i \in Ids |-> shelf[i].quantity]
              r == [i \in Ids |-> shelf[i].reserved]
  <2>2. \A i \in Ids : q[i] \in Int /\ r[i] \in Int
    BY <1>3, ShelfFacts
  <2>3. /\ Stored("quantity", Ids) = SumFunctionOnSet(q, Ids)
        /\ Stored("reserved", Ids) = SumFunctionOnSet(r, Ids)
    BY DEF Stored
  <2>. HIDE DEF q, r
  <2>. QED
    BY <2>1, <2>2, <2>3, SumPick
<1>5. owed = [quantity |-> Stored("quantity", Ids), reserved |-> Stored("reserved", Ids)]
  BY DEF InventoryEditInit
<1>6. EditsConserve /\ owed \in [quantity : Int, reserved : Int]
  BY <1>4, <1>5 DEF EditsConserve
<1>7. /\ edit \in [Editors -> Requests \cup {NoEdit}]
      /\ \A e \in Editors : edit[e] = NoEdit
      /\ overwrote \in BOOLEAN
  BY DEF InventoryEditInit
<1>. QED
  BY <1>1, <1>2, <1>3, <1>6, <1>7 DEF EditInv, EditTypes

\* A service changes one row and what there should be alike.
LEMMA OneRowConserves ==
  ASSUME ShelfSound, EditInv, EditTypes', NEW i \in Ids,
         \A j \in Ids \ {i} : shelf'[j] = shelf[j],
         owed'.quantity = owed.quantity + shelf'[i].quantity - shelf[i].quantity,
         owed'.reserved = owed.reserved + shelf'[i].reserved - shelf[i].reserved,
         UNCHANGED overwrote
  PROVE  EditsConserve'
<1>1. EditTypes
  BY DEF EditInv
<1>2. /\ Stored("quantity", Ids)' =
           Stored("quantity", Ids) - shelf[i].quantity + shelf'[i].quantity
      /\ Stored("reserved", Ids)' =
           Stored("reserved", Ids) - shelf[i].reserved + shelf'[i].reserved
  BY <1>1, StoredChange
<1>3. /\ shelf[i].quantity \in Int /\ shelf[i].reserved \in Int
      /\ shelf'[i].quantity \in Int /\ shelf'[i].reserved \in Int
      /\ Stored("quantity", Ids) \in Int /\ Stored("reserved", Ids) \in Int
  <2>1. shelf[i] \in ShelfRows \cup {NoShelf} /\ shelf'[i] \in ShelfRows \cup {NoShelf}
    BY <1>1 DEF EditTypes
  <2>. QED
    BY <1>1, <2>1, StoredIsInt, ShelfFacts
<1>4. ~overwrote => /\ Stored("quantity", Ids) = owed.quantity
                    /\ Stored("reserved", Ids) = owed.reserved
  BY DEF EditInv, EditsConserve
<1>. QED
  BY <1>2, <1>3, <1>4 DEF EditsConserve

LEMMA AddUnitKeeps ==
  ASSUME ShelfSound, EditInv, NEW place \in Places, AddUnit(place)
  PROVE  EditInv'
<1>1. EditTypes /\ owed \in [quantity : Int, reserved : Int]
  BY DEF EditInv, EditTypes
<1>2. /\ UNCHANGED <<edit, overwrote>>
      /\ owed' = [owed EXCEPT !.quantity = @ + 1]
  BY DEF AddUnit
<1>3. /\ owed' \in [quantity : Int, reserved : Int]
      /\ owed'.quantity = owed.quantity + 1 /\ owed'.reserved = owed.reserved
  BY <1>1, <1>2
<1>4. CASE At(place) # {}
  <2>1. PICK i \in At(place) : shelf' = [shelf EXCEPT ![i].quantity = @ + 1]
    BY <1>4 DEF AddUnit
  <2>2. i \in Ids /\ shelf[i].place = place /\ UNCHANGED shelved
    BY <1>4, <2>1 DEF AddUnit, At
  <2>3. shelf[i] \in ShelfRows
    <3>1. NoShelf.place # place
      BY DEF ShelfSound
    <3>. QED
      BY <1>1, <2>2, <3>1 DEF EditTypes
  <2>4. /\ shelf' \in [Ids -> ShelfRows \cup {NoShelf}]
        /\ shelf'[i].quantity = shelf[i].quantity + 1
        /\ shelf'[i].reserved = shelf[i].reserved
        /\ \A j \in Ids \ {i} : shelf'[j] = shelf[j]
    BY <1>1, <2>1, <2>2, <2>3 DEF EditTypes, ShelfRows
  <2>5. i <= shelved
    <3>1. shelf[i] # NoShelf
      BY <2>3, ShelfFacts
    <3>. QED
      BY <1>1, <2>2, <3>1, ShelfFacts DEF EditTypes
  <2>6. EditTypes'
    BY <1>1, <1>2, <1>3, <2>2, <2>4, <2>5, ShelfFacts DEF EditTypes
  <2>7. shelf[i].quantity \in Int /\ shelf[i].reserved \in Int
    BY <2>3, ShelfFacts
  <2>8. EditsConserve'
    BY <1>1, <1>2, <1>3, <2>2, <2>4, <2>6, <2>7, OneRowConserves
  <2>. QED
    BY <2>6, <2>8 DEF EditInv
<1>5. CASE At(place) = {}
  <2>. DEFINE i == shelved + 1
              row == [place |-> place, quantity |-> 1, reserved |-> 0]
  <2>1. /\ shelved < MaxShelved /\ shelved' = shelved + 1
        /\ shelf' = [shelf EXCEPT ![i] = row]
    BY <1>5 DEF AddUnit
  <2>2. i \in Ids /\ shelf[i] = NoShelf
    <3>1. /\ Ids = 1..MaxShelved /\ MaxShelved \in Nat
          /\ shelved \in 0..MaxShelved
          /\ \A j \in Ids : j > shelved => shelf[j] = NoShelf
      BY <1>1, ShelfFacts DEF EditTypes
    <3>2. i \in Ids /\ i > shelved
      BY <2>1, <3>1
    <3>. QED
      BY <3>1, <3>2
  <2>3. row \in ShelfRows /\ row.quantity = 1 /\ row.reserved = 0
    BY DEF ShelfRows
  <2>. HIDE DEF row
  <2>4. /\ shelf' \in [Ids -> ShelfRows \cup {NoShelf}]
        /\ shelf'[i] = row
        /\ \A j \in Ids \ {i} : shelf'[j] = shelf[j]
    BY <1>1, <2>1, <2>2, <2>3 DEF EditTypes
  <2>5. EditTypes'
    <3>1. shelved' \in 0..MaxShelved /\ shelved <= shelved'
      BY <1>1, <2>1, ShelfFacts DEF EditTypes
    <3>2. \A j \in Ids : j > shelved' => shelf'[j] = NoShelf
      BY <1>1, <2>1, <2>4, ShelfFacts DEF EditTypes
    <3>3. \A e \in Editors : edit'[e] # NoEdit => edit'[e].id <= shelved'
      <4>1. \A e \in Editors : edit[e] # NoEdit => edit[e].id \in Ids /\ edit[e].id <= shelved
        BY <1>1, ShelfFacts DEF EditTypes, Requests
      <4>. QED
        BY <1>1, <1>2, <3>1, <4>1, ShelfFacts DEF EditTypes
    <3>. QED
      BY <1>1, <1>2, <1>3, <2>4, <3>1, <3>2, <3>3 DEF EditTypes
  <2>6. /\ owed'.quantity = owed.quantity + shelf'[i].quantity - shelf[i].quantity
        /\ owed'.reserved = owed.reserved + shelf'[i].reserved - shelf[i].reserved
    BY <1>1, <1>3, <2>2, <2>3, <2>4, ShelfFacts
  <2>. HIDE DEF i
  <2>7. EditsConserve'
    BY <1>2, <2>2, <2>4, <2>5, <2>6, OneRowConserves
  <2>. QED
    BY <2>5, <2>7 DEF EditInv
<1>. QED
  BY <1>4, <1>5

LEMMA RemoveUnitKeeps ==
  ASSUME ShelfSound, EditInv, NEW place \in Places, RemoveUnit(place)
  PROVE  EditInv'
<1>1. EditTypes /\ owed \in [quantity : Int, reserved : Int]
  BY DEF EditInv, EditTypes
<1>2. /\ UNCHANGED <<shelved, edit, overwrote>>
      /\ owed' = [owed EXCEPT !.quantity = @ - 1]
  BY DEF RemoveUnit
<1>3. /\ owed' \in [quantity : Int, reserved : Int]
      /\ owed'.quantity = owed.quantity - 1 /\ owed'.reserved = owed.reserved
  BY <1>1, <1>2
<1>4. PICK i \in At(place) : shelf' = [shelf EXCEPT ![i].quantity = @ - 1]
  BY DEF RemoveUnit
<1>5. i \in Ids /\ shelf[i].place = place
  BY <1>4 DEF At
<1>6. shelf[i] \in ShelfRows
  <2>1. NoShelf.place # place
    BY DEF ShelfSound
  <2>. QED
    BY <1>1, <1>5, <2>1 DEF EditTypes
<1>7. /\ shelf' \in [Ids -> ShelfRows \cup {NoShelf}]
      /\ shelf'[i].quantity = shelf[i].quantity - 1
      /\ shelf'[i].reserved = shelf[i].reserved
      /\ \A j \in Ids \ {i} : shelf'[j] = shelf[j]
  BY <1>1, <1>4, <1>5, <1>6 DEF EditTypes, ShelfRows
<1>8. i <= shelved
  <2>1. shelf[i] # NoShelf
    BY <1>6, ShelfFacts
  <2>. QED
    BY <1>1, <1>5, <2>1, ShelfFacts DEF EditTypes
<1>9. EditTypes'
  BY <1>1, <1>2, <1>3, <1>5, <1>7, <1>8, ShelfFacts DEF EditTypes
<1>10. shelf[i].quantity \in Int /\ shelf[i].reserved \in Int
  BY <1>6, ShelfFacts
<1>11. EditsConserve'
  BY <1>1, <1>2, <1>3, <1>5, <1>7, <1>9, <1>10, OneRowConserves
<1>. QED
  BY <1>9, <1>11 DEF EditInv

LEMMA OpenEditKeeps ==
  ASSUME ShelfSound, EditInv, NEW e \in Editors, NEW i \in Ids,
         NEW place \in Places \cup {Stay},
         NEW quantity \in Amounts \cup {Unsaid}, NEW reserved \in Amounts \cup {Unsaid},
         OpenEdit(e, i, place, quantity, reserved)
  PROVE  EditInv'
<1>. DEFINE r == [id |-> i, copy |-> shelf[i], place |-> place,
                  quantity |-> quantity, reserved |-> reserved]
<1>1. EditTypes
  BY DEF EditInv
<1>2. /\ shelf[i] # NoShelf /\ UNCHANGED <<shelf, shelved, owed, overwrote>>
      /\ edit' = [edit EXCEPT ![e] = r]
  BY DEF OpenEdit
<1>3. shelf[i] \in ShelfRows /\ i <= shelved
  BY <1>1, <1>2, ShelfFacts DEF EditTypes
<1>4. r \in Requests /\ r.id <= shelved
  BY <1>3 DEF Requests
<1>. HIDE DEF r
<1>5. EditTypes'
  BY <1>1, <1>2, <1>4 DEF EditTypes
<1>6. EditsConserve'
  BY <1>2 DEF EditInv, EditsConserve, Stored
<1>. QED
  BY <1>5, <1>6 DEF EditInv

\* A PATCH that is refused leaves the rows. One that is accepted puts the row
\* and those it merges into what it saves, and what it means to add is owed.
LEMMA SaveEditKeeps ==
  ASSUME ShelfSound, EditInv, NEW e \in Editors, SaveEdit(e)
  PROVE  EditInv'
<1>. DEFINE r == edit[e]
            P == Conflicts(r)
            s == Saved(r)
<1>1. EditTypes /\ r # NoEdit /\ owed \in [quantity : Int, reserved : Int]
  BY DEF EditInv, EditTypes, SaveEdit
<1>2. /\ r \in Requests /\ r.id \in Ids /\ r.copy \in ShelfRows /\ r.id <= shelved
      /\ r.place \in Places \cup {Stay}
      /\ r.quantity \in Amounts \cup {Unsaid} /\ r.reserved \in Amounts \cup {Unsaid}
  BY <1>1 DEF EditTypes, Requests
<1>3. UNCHANGED shelved /\ edit' = [edit EXCEPT ![e] = NoEdit]
  BY DEF SaveEdit
<1>4. /\ edit' \in [Editors -> Requests \cup {NoEdit}]
      /\ \A a \in Editors : edit'[a] # NoEdit => edit'[a].id <= shelved'
  BY <1>1, <1>3 DEF EditTypes
<1>5. CASE ~Accepted(r)
  <2>1. UNCHANGED <<shelf, owed, overwrote>>
    BY <1>5 DEF SaveEdit
  <2>2. EditTypes'
    BY <1>1, <1>3, <1>4, <2>1 DEF EditTypes
  <2>3. EditsConserve'
    BY <2>1 DEF EditInv, EditsConserve, Stored
  <2>. QED
    BY <2>2, <2>3 DEF EditInv
<1>6. CASE Accepted(r)
  <2>. DEFINE mq == Stored("quantity", P)
              mr == Stored("reserved", P)
  <2>1. /\ shelf' = [i \in Ids |-> CASE i = r.id -> s
                                     [] i \in P -> NoShelf
                                     [] OTHER -> shelf[i]]
        /\ owed' = [quantity |-> owed.quantity + Meant(r, "quantity", r.quantity),
                    reserved |-> owed.reserved + Meant(r, "reserved", r.reserved)]
        /\ overwrote' = (overwrote \/ shelf[r.id] # r.copy)
    BY <1>6 DEF SaveEdit
  <2>2. P \in SUBSET Ids /\ r.id \notin P
    BY DEF Conflicts, At
  <2>3. mq \in Int /\ mr \in Int
    BY <1>1, <2>2, StoredIsInt
  <2>4. /\ r.copy.quantity \in Int /\ r.copy.reserved \in Int
        /\ r.quantity \in Int /\ r.reserved \in Int
    BY <1>2, ShelfFacts
  <2>5. /\ s.quantity = IF r.quantity = Unsaid THEN r.copy.quantity + mq ELSE r.quantity
        /\ s.reserved = IF r.reserved = Unsaid THEN r.copy.reserved + mr ELSE r.reserved
        /\ s.place = IF Moving(r) THEN r.place ELSE r.copy.place
        /\ s = [place |-> s.place, quantity |-> s.quantity, reserved |-> s.reserved]
    BY DEF Saved, Given, Merged
  <2>6. /\ Meant(r, "quantity", r.quantity) =
             IF r.quantity = Unsaid THEN 0 ELSE r.quantity - r.copy.quantity - mq
        /\ Meant(r, "reserved", r.reserved) =
             IF r.reserved = Unsaid THEN 0 ELSE r.reserved - r.copy.reserved - mr
    BY DEF Meant
  <2>. HIDE DEF s, P, mq, mr
  <2>7. s \in ShelfRows
    <3>1. s.place \in Places
      BY <1>2, <2>5 DEF Moving, ShelfRows
    <3>2. s.quantity \in Int /\ s.reserved \in Int
      BY <2>3, <2>4, <2>5
    <3>. QED
      BY <2>5, <3>1, <3>2 DEF ShelfRows
  <2>8. /\ owed' \in [quantity : Int, reserved : Int]
        /\ owed'.quantity = owed.quantity + Meant(r, "quantity", r.quantity)
        /\ owed'.reserved = owed.reserved + Meant(r, "reserved", r.reserved)
    <3>1. Meant(r, "quantity", r.quantity) \in Int /\ Meant(r, "reserved", r.reserved) \in Int
      BY <2>3, <2>4, <2>6
    <3>2. owed.quantity \in Int /\ owed.reserved \in Int
      BY <1>1
    <3>. QED
      BY <2>1, <3>1, <3>2
  <2>9. /\ shelf' \in [Ids -> ShelfRows \cup {NoShelf}]
        /\ shelf'[r.id] = s
        /\ \A j \in P : shelf'[j] = NoShelf
        /\ \A j \in Ids \ (P \cup {r.id}) : shelf'[j] = shelf[j]
    <3>. HIDE DEF r
    <3>. QED
      BY <1>1, <1>2, <2>1, <2>2, <2>7 DEF EditTypes
  <2>10. EditTypes'
    <3>1. \A j \in Ids : j > shelved' => shelf'[j] = NoShelf
      <4>1. \A j \in Ids : j > shelved => j # r.id /\ shelf[j] = NoShelf
        <5>1. Ids \subseteq Int /\ shelved \in Int
          BY <1>1, ShelfFacts DEF EditTypes
        <5>2. \A j \in Ids : j > shelved => shelf[j] = NoShelf
          BY <1>1 DEF EditTypes
        <5>3. r.id \in Ids /\ r.id <= shelved
          BY <1>2
        <5>. HIDE DEF r
        <5>. QED
          BY ONLY <5>1, <5>2, <5>3
      <4>. HIDE DEF r
      <4>. QED
        BY <1>3, <2>9, <4>1
    <3>2. overwrote' \in BOOLEAN
      BY <2>1
    <3>. QED
      BY <1>1, <1>3, <1>4, <2>8, <2>9, <3>1, <3>2 DEF EditTypes
  <2>11. /\ Stored("quantity", Ids)' =
              Stored("quantity", Ids) - shelf[r.id].quantity - mq + s.quantity
         /\ Stored("reserved", Ids)' =
              Stored("reserved", Ids) - shelf[r.id].reserved - mr + s.reserved
    <3>. HIDE DEF r
    <3>1. r.id \in Ids \ P
      BY <1>2, <2>2
    <3>. QED
      BY <1>1, <2>2, <2>9, <2>10, <3>1, StoredMerge DEF mq, mr
  <2>12. ASSUME ~overwrote'
         PROVE  /\ Stored("quantity", Ids)' = owed'.quantity
                /\ Stored("reserved", Ids)' = owed'.reserved
    <3>1. ~overwrote /\ shelf[r.id] = r.copy
      BY <2>1, <2>12
    <3>2. Stored("quantity", Ids) = owed.quantity /\ Stored("reserved", Ids) = owed.reserved
      BY <3>1 DEF EditInv, EditsConserve
    <3>3. owed.quantity \in Int /\ owed.reserved \in Int
      BY <1>1
    <3>. HIDE DEF r
    <3>. QED
      BY <2>3, <2>4, <2>5, <2>6, <2>8, <2>11, <3>1, <3>2, <3>3
  <2>. QED
    BY <2>10, <2>12 DEF EditInv, EditsConserve
<1>. QED
  BY <1>5, <1>6

\* Of any number of managers, rows and places: moves and merges neither lose
\* nor invent units or reservations until a row is saved that changed since it
\* was read (InventorySerializer.update, products/serializers.py).
THEOREM EditsConserveUnits ==
  ASSUME ShelfSound
  PROVE  InventoryEditSpec => []EditsConserve
<1>1. InventoryEditInit => EditInv
  BY EditInit
<1>2. EditInv /\ [InventoryEditNext]_shelves => EditInv'
  <2>. SUFFICES ASSUME EditInv, [InventoryEditNext]_shelves PROVE EditInv'
    OBVIOUS
  <2>1. ASSUME NEW place \in Places, AddUnit(place) PROVE EditInv'
    BY <2>1, AddUnitKeeps
  <2>2. ASSUME NEW place \in Places, RemoveUnit(place) PROVE EditInv'
    BY <2>2, RemoveUnitKeeps
  <2>3. ASSUME NEW e \in Editors, NEW i \in Ids, NEW place \in Places \cup {Stay},
               NEW quantity \in Amounts \cup {Unsaid}, NEW reserved \in Amounts \cup {Unsaid},
               OpenEdit(e, i, place, quantity, reserved)
        PROVE  EditInv'
    BY <2>3, OpenEditKeeps
  <2>4. ASSUME NEW e \in Editors, SaveEdit(e) PROVE EditInv'
    BY <2>4, SaveEditKeeps
  <2>5. CASE UNCHANGED shelves
    BY <2>5 DEF shelves, EditInv, EditTypes, EditsConserve, Stored
  <2>. QED
    BY <2>1, <2>2, <2>3, <2>4, <2>5 DEF InventoryEditNext
<1>3. EditInv => EditsConserve
  BY DEF EditInv
<1>. QED
  BY <1>1, <1>2, <1>3, PTL DEF InventoryEditSpec

-----------------------------------------------------------------------------
(* The catalogue's bills of materials.  Its recursive functions go through *)
(* a sequence, so that induction is over its prefixes.                     *)

\* Induction up to a bound, in the form of a set.
LEMMA UpTo ==
  ASSUME NEW N \in Nat, NEW S, 0 \in S, \A k \in 1..N : k - 1 \in S => k \in S
  PROVE  \A k \in 0..N : k \in S
<1>. DEFINE B == {k \in 0..N : k \notin S}
            C == {1..k : k \in B}
            D == 1..N
<1>1. SUFFICES ASSUME B # {} PROVE FALSE
  OBVIOUS
<1>2. PICK T \in C : \A U \in C : U \subseteq T => U = T
  <2>1. \A k \in B : 1..k \in SUBSET D
    OBVIOUS
  <2>2. IsFiniteSet(D)
    BY FS_Interval
  <2>. HIDE DEF B
  <2>3. C \in SUBSET (SUBSET D) /\ C # {}
    BY <1>1, <2>1
  <2>. HIDE DEF C, D
  <2>4. \E T \in C : \A U \in C : U \subseteq T => U = T
    BY ONLY <2>2, <2>3, Smallest
  <2>. QED
    BY <2>4
<1>3. PICK m \in B : T = 1..m
  OBVIOUS
<1>4. m \in 1..N /\ m \notin S
  OBVIOUS
<1>5. m - 1 \in B
  BY <1>4
<1>6. 1..(m - 1) \in C /\ 1..(m - 1) \subseteq T
  BY <1>3, <1>4, <1>5
<1>7. m \in T /\ m \notin 1..(m - 1)
  BY <1>3, <1>4
<1>. QED
  BY <1>2, <1>6, <1>7

\* SetToSeq lists every element of a finite set once.
LEMMA SetInTurn ==
  ASSUME NEW S, IsFiniteSet(S), NEW s, s = SetToSeq(S)
  PROVE  /\ Len(s) \in Nat /\ DOMAIN s = 1..Len(s)
         /\ \A i \in 1..Len(s) : s[i] \in S
         /\ \A x \in S : \E i \in 1..Len(s) : s[i] = x
         /\ \A i, j \in 1..Len(s) : s[i] = s[j] => i = j
<1>. DEFINE n == Cardinality(S)
<1>1. n \in Nat /\ \E f \in [1..n -> S] : IsInjective(f)
  <2>1. n \in Nat /\ ExistsBijection(1..n, S)
    BY FS_CardinalityType
  <2>. QED
    BY <2>1 DEF ExistsBijection, Bijection, Injection
<1>2. s \in [1..n -> S] /\ IsInjective(s)
  BY <1>1 DEF SetToSeq
<1>3. s \in Surjection(1..n, S)
  <2>1. s \in Injection(1..n, S)
    BY <1>2 DEF Injection
  <2>2. Cardinality(1..n) = n
    BY <1>1, FS_Interval
  <2>. QED
    BY <2>1, <2>2, FS_Injection
<1>. HIDE DEF n
<1>4. Len(s) = n /\ DOMAIN s = 1..n
  BY <1>1, <1>2
<1>. QED
  BY <1>1, <1>2, <1>3, <1>4 DEF Surjection, IsInjective

\* What a function makes of a finite set is finite.
LEMMA Image ==
  ASSUME NEW S, IsFiniteSet(S), NEW f
  PROVE  IsFiniteSet({f[x] : x \in S})
<1>. DEFINE T == {f[x] : x \in S}
            g == [x \in S |-> f[x]]
<1>1. g \in Surjection(S, T)
  BY DEF Surjection
<1>. QED
  BY <1>1, FS_Surjection

\* The quantities of the parts with one more part named.
OnePart(old, part) ==
  [sku \in DOMAIN old \cup {part.sku} |->
     (IF sku \in DOMAIN old THEN old[sku] ELSE 0)
       + (IF sku = part.sku THEN part.quantity ELSE 0)]

\* g gives the quantities of the first parts, up to the m-th.
Aggregates(named, m, g) ==
  g = [n \in 0..m |-> IF n = 0 THEN <<>> ELSE OnePart(g[n - 1], named[n])]

LEMMA PartsAreAggregated ==
  ASSUME NEW products, NEW p
  PROVE  LET named == NamedParts(products, p)
         IN  Parts(products, p) = (CHOOSE g : Aggregates(named, Len(named), g))[Len(named)]
BY DEF Parts, Aggregates, OnePart

LEMMA AggregatesExist ==
  ASSUME NEW named, NEW N \in Nat
  PROVE  \E g : Aggregates(named, N, g)
<1>. DEFINE S == {m \in 0..N : \E g : Aggregates(named, m, g)}
<1>1. 0 \in S
  <2>1. Aggregates(named, 0, [n \in 0..0 |-> <<>>])
    BY DEF Aggregates
  <2>. QED
    BY <2>1
<1>2. ASSUME NEW k \in 1..N, k - 1 \in S
      PROVE  k \in S
  <2>1. PICK g : Aggregates(named, k - 1, g)
    BY <1>2
  <2>. DEFINE h == [n \in 0..k |-> IF n = k THEN OnePart(g[k - 1], named[k]) ELSE g[n]]
  <2>2. \A n \in 0..(k - 1) : g[n] = IF n = 0 THEN <<>> ELSE OnePart(g[n - 1], named[n])
    BY <2>1 DEF Aggregates
  <2>3. \A n \in 0..k : n # 0 => n - 1 \in 0..k /\ n - 1 # k
    OBVIOUS
  <2>4. \A n \in 0..k : h[n] = IF n = 0 THEN <<>> ELSE OnePart(h[n - 1], named[n])
    <3>. SUFFICES ASSUME NEW n \in 0..k
                  PROVE  h[n] = IF n = 0 THEN <<>> ELSE OnePart(h[n - 1], named[n])
      OBVIOUS
    <3>1. n # 0 => h[n - 1] = g[n - 1]
      BY <2>3
    <3>2. n # k => n \in 0..(k - 1)
      OBVIOUS
    <3>. QED
      BY <2>2, <3>1, <3>2
  <2>5. h = [n \in 0..k |-> h[n]]
    OBVIOUS
  <2>6. Aggregates(named, k, h)
    <3>. HIDE DEF h
    <3>. QED
      BY <2>4, <2>5 DEF Aggregates
  <2>. QED
    BY <2>6
<1>3. \A k \in 0..N : k \in S
  <2>. HIDE DEF S
  <2>. QED
    BY ONLY <1>1, <1>2, N \in Nat, UpTo
<1>. QED
  BY <1>3

\* The positions of a SKU among the first n parts, and the quantities named.
Mentions(named, n, sku) == {i \in 1..n : named[i].sku = sku}
Quantities(named) == [i \in DOMAIN named |-> named[i].quantity]

\* What is aggregated for a SKU is the sum of the quantities named for it.
LEMMA AggregatesAdd ==
  ASSUME NEW named, NEW N \in Nat, DOMAIN named = 1..N,
         \A i \in 1..N : named[i].quantity \in Int,
         NEW g, Aggregates(named, N, g)
  PROVE  /\ DOMAIN g[N] = {named[i].sku : i \in 1..N}
         /\ \A sku \in DOMAIN g[N] :
              g[N][sku] = SumFunctionOnSet(Quantities(named), Mentions(named, N, sku))
<1>. DEFINE Sum(s) == SumFunctionOnSet(Quantities(named), s)
            Right(n) == /\ DOMAIN g[n] = {named[i].sku : i \in 1..n}
                        /\ \A sku \in DOMAIN g[n] : g[n][sku] = Sum(Mentions(named, n, sku))
            S == {n \in 0..N : Right(n)}
<1>1. \A n \in 0..N : g[n] = IF n = 0 THEN <<>> ELSE OnePart(g[n - 1], named[n])
  BY DEF Aggregates
<1>2. 0 \in S
  <2>1. g[0] = <<>> /\ DOMAIN <<>> = {} /\ 1..0 = {}
    BY <1>1
  <2>. QED
    BY <2>1
<1>3. ASSUME NEW n \in 1..N, n - 1 \in S
      PROVE  n \in S
  <2>. DEFINE old == g[n - 1]
              part == named[n]
  <2>1. /\ n - 1 \in 0..N /\ n \in 0..N /\ n # 0
        /\ DOMAIN old = {named[i].sku : i \in 1..(n - 1)}
        /\ \A sku \in DOMAIN old : old[sku] = Sum(Mentions(named, n - 1, sku))
    BY <1>3
  <2>2. g[n] = OnePart(old, part)
    BY <1>1, <2>1
  <2>3. 1..n = (1..(n - 1)) \cup {n} /\ n \notin 1..(n - 1) /\ 1..(n - 1) \subseteq 1..N
    OBVIOUS
  <2>. HIDE DEF old, Sum
  <2>4. DOMAIN g[n] = {named[i].sku : i \in 1..n}
    BY <2>1, <2>2, <2>3 DEF OnePart, part
  <2>5. ASSUME NEW sku \in DOMAIN g[n]
        PROVE  g[n][sku] = Sum(Mentions(named, n, sku))
    <3>1. g[n][sku] = (IF sku \in DOMAIN old THEN old[sku] ELSE 0)
                        + (IF sku = part.sku THEN part.quantity ELSE 0)
      BY <2>2, <2>5 DEF OnePart
    <3>2. /\ IsFiniteSet(Mentions(named, n, sku))
          /\ \A x \in Mentions(named, n, sku) : Quantities(named)[x] \in Int
      <4>1. IsFiniteSet(1..n)
        <5>1. 1 \in Int /\ n \in Int
          BY <2>1
        <5>. QED
          BY ONLY <5>1, FS_Interval
      <4>2. Mentions(named, n, sku) \in SUBSET (1..n)
        BY DEF Mentions
      <4>3. IsFiniteSet(Mentions(named, n, sku))
        BY ONLY <4>1, <4>2, FS_Subset
      <4>4. \A x \in Mentions(named, n, sku) : x \in 1..N
        BY <2>3 DEF Mentions
      <4>. QED
        BY <4>3, <4>4 DEF Quantities
    <3>3. sku \notin DOMAIN old => Mentions(named, n - 1, sku) = {}
      BY <2>1 DEF Mentions
    <3>4. Sum({}) = 0
      BY SumEmpty DEF Sum
    <3>5. (IF sku \in DOMAIN old THEN old[sku] ELSE 0) = Sum(Mentions(named, n - 1, sku))
      BY <2>1, <3>3, <3>4
    <3>6. CASE sku = part.sku
      <4>1. n \in Mentions(named, n, sku)
        BY <2>3, <3>6 DEF Mentions, part
      <4>2. Mentions(named, n, sku) \ {n} = Mentions(named, n - 1, sku)
        BY <2>3 DEF Mentions
      <4>3. Sum(Mentions(named, n, sku)) = Quantities(named)[n] + Sum(Mentions(named, n - 1, sku))
            /\ Sum(Mentions(named, n, sku)) \in Int
        <5>. DEFINE m == Mentions(named, n, sku)
                    q == Quantities(named)
        <5>1. n \in m /\ IsFiniteSet(m) /\ \A x \in m : q[x] \in Int
          BY <3>2, <4>1
        <5>. HIDE DEF m, q
        <5>2. /\ SumFunctionOnSet(q, m) \in Int
              /\ \A x \in m : SumFunctionOnSet(q, m) = q[x] + SumFunctionOnSet(q, m \ {x})
          BY ONLY <5>1, SumPick, ZenonT(30)
        <5>. QED
          BY <4>2, <5>1, <5>2 DEF Sum, m, q
      <4>4. Quantities(named)[n] = part.quantity
        BY DEF Quantities, part
      <4>5. Sum(Mentions(named, n - 1, sku)) \in Int /\ part.quantity \in Int
        <5>1. /\ IsFiniteSet(Mentions(named, n - 1, sku))
              /\ \A x \in Mentions(named, n - 1, sku) : Quantities(named)[x] \in Int
          BY <3>2, <4>2, FS_Subset
        <5>2. Sum(Mentions(named, n - 1, sku)) \in Int
          BY <5>1, SumPick DEF Sum
        <5>. QED
          BY <5>2 DEF part
      <4>. HIDE DEF part
      <4>6. \A a, b \in Int : a + b = b + a
        OBVIOUS
      <4>. QED
        BY <3>1, <3>5, <3>6, <4>3, <4>4, <4>5, <4>6
    <3>7. CASE sku # part.sku
      <4>1. Mentions(named, n, sku) = Mentions(named, n - 1, sku)
        BY <2>3, <3>7 DEF Mentions, part
      <4>2. Sum(Mentions(named, n, sku)) \in Int
        BY <3>2, SumPick DEF Sum
      <4>. HIDE DEF part
      <4>3. g[n][sku] = Sum(Mentions(named, n, sku)) + 0
        BY <3>1, <3>5, <3>7, <4>1
      <4>. QED
        BY <4>2, <4>3
    <3>. QED
      BY <3>6, <3>7
  <2>. QED
    BY <2>1, <2>4, <2>5
<1>4. \A n \in 0..N : n \in S
  <2>. HIDE DEF S
  <2>. QED
    BY ONLY <1>2, <1>3, N \in Nat, UpTo
<1>. QED
  BY <1>4

\* Parts gives the sum of the quantities named for each SKU that is named.
LEMMA PartsAreSums ==
  ASSUME NEW products, NEW p \in ShopProduct
  PROVE  LET named == NamedParts(products, p)
             parts == Parts(products, p)
             Sum(sku) == SumFunctionOnSet([i \in DOMAIN named |-> named[i].quantity],
                                          {i \in DOMAIN named : named[i].sku = sku})
         IN  /\ IsFiniteSet(DOMAIN parts)
             /\ \A sku \in DOMAIN parts : parts[sku] = Sum(sku) /\ Sum(sku) \in Int
             /\ \A sku : sku \notin DOMAIN parts => Sum(sku) = 0
<1>. DEFINE named == NamedParts(products, p)
            parts == Parts(products, p)
            N == Len(named)
            Sum(sku) == SumFunctionOnSet([i \in DOMAIN named |-> named[i].quantity],
                                         {i \in DOMAIN named : named[i].sku = sku})
<1>1. N \in Nat /\ DOMAIN named = 1..N /\ \A i \in 1..N : named[i].quantity \in Int
  <2>1. /\ p.items \in Seq([sku : STRING, variant : STRING, product : STRING, quantity : Int])
        /\ Len(p.items) \in Nat
    BY DEF ShopProduct
  <2>2. \A i \in 1..Len(p.items) : p.items[i].quantity \in Int
    <3>. DEFINE items == p.items
                Item == [sku : STRING, variant : STRING, product : STRING, quantity : Int]
    <3>1. items \in Seq(Item)
      BY <2>1
    <3>2. \A x \in Item : x.quantity \in Int
      OBVIOUS
    <3>. HIDE DEF items, Item
    <3>3. \A i \in 1..Len(items) : items[i] \in Item
      BY <3>1
    <3>. QED
      BY <3>2, <3>3 DEF items
  <2>3. \A i \in 1..Len(p.items) : AtLeastOne(p.items[i].quantity) \in Int
    BY <2>2 DEF AtLeastOne
  <2>4. DOMAIN named = 1..Len(p.items) /\ Len(named) = Len(p.items)
    BY <2>1 DEF NamedParts
  <2>5. \A i \in 1..Len(p.items) : named[i].quantity = AtLeastOne(p.items[i].quantity)
    BY DEF NamedParts
  <2>. HIDE DEF named
  <2>. QED
    BY <2>1, <2>3, <2>4, <2>5
<1>2. parts = (CHOOSE g : Aggregates(named, N, g))[N]
  BY PartsAreAggregated
<1>. HIDE DEF named, parts
<1>3. PICK g : Aggregates(named, N, g) /\ parts = g[N]
  BY <1>1, <1>2, AggregatesExist
<1>. HIDE DEF N
<1>4. /\ DOMAIN parts = {named[i].sku : i \in 1..N}
      /\ \A sku \in DOMAIN parts :
           parts[sku] = SumFunctionOnSet(Quantities(named), Mentions(named, N, sku))
  BY <1>1, <1>3, AggregatesAdd
<1>5. \A sku : Sum(sku) = SumFunctionOnSet(Quantities(named), Mentions(named, N, sku))
  BY <1>1 DEF Quantities, Mentions
<1>. HIDE DEF Sum
<1>6. IsFiniteSet(1..N)
  BY <1>1, FS_Interval
<1>7. IsFiniteSet(DOMAIN parts)
  <2>. DEFINE skus == [i \in 1..N |-> named[i].sku]
              D == 1..N
  <2>1. DOMAIN parts = {skus[i] : i \in D}
    BY <1>4
  <2>2. IsFiniteSet(D)
    BY <1>6
  <2>. HIDE DEF skus, D
  <2>3. IsFiniteSet({skus[i] : i \in D})
    BY ONLY <2>2, Image
  <2>. QED
    BY <2>1, <2>3
<1>8. ASSUME NEW sku
      PROVE  Sum(sku) \in Int
  <2>. DEFINE m == Mentions(named, N, sku)
              q == Quantities(named)
              D == 1..N
  <2>1. m \in SUBSET D /\ IsFiniteSet(D) /\ \A x \in m : q[x] \in Int
    BY <1>1, <1>6 DEF Mentions, Quantities
  <2>. HIDE DEF m, q, D
  <2>2. IsFiniteSet(m)
    BY ONLY <2>1, FS_Subset
  <2>3. SumFunctionOnSet(q, m) \in Int
    BY ONLY <2>1, <2>2, SumPick
  <2>. QED
    BY <1>5, <2>3 DEF m, q
<1>9. ASSUME NEW sku, sku \notin DOMAIN parts
      PROVE  Sum(sku) = 0
  <2>1. Mentions(named, N, sku) = {}
    BY <1>4, <1>9 DEF Mentions
  <2>. QED
    BY <1>5, <2>1, SumEmpty
<1>. QED
  BY <1>4, <1>5, <1>7, <1>8, <1>9 DEF named, parts, Sum

\* The row that lists a part in the bill of shop product p.
RowFor(products, p, sku) ==
  [bundle |-> ParentSku(p), component |-> sku, quantity |-> Parts(products, p)[sku]]

\* NewRows lists every usable part once.
LEMMA NewRowsAre ==
  ASSUME NEW products, NEW is, NEW p \in ShopProduct
  PROVE  LET parts == Parts(products, p)
             new == NewRows(products, is, p)
         IN  /\ Len(new) \in Nat
             /\ \A i \in 1..Len(new) :
                  \E sku \in DOMAIN parts :
                    Usable(is, sku, ParentSku(p)) /\ new[i] = RowFor(products, p, sku)
             /\ \A sku \in DOMAIN parts :
                  Usable(is, sku, ParentSku(p)) =>
                    \E i \in 1..Len(new) : new[i] = RowFor(products, p, sku)
             /\ \A i, j \in 1..Len(new) : new[i].component = new[j].component => i = j
<1>. DEFINE parts == Parts(products, p)
            U == {c \in DOMAIN parts : Usable(is, c, ParentSku(p))}
            row == [c \in U |-> RowFor(products, p, c)]
            S == {row[c] : c \in U}
            new == SetToSeq(S)
<1>1. new = NewRows(products, is, p)
  BY DEF NewRows, RowFor
<1>2. IsFiniteSet(U)
  <2>1. IsFiniteSet(DOMAIN parts)
    BY PartsAreSums
  <2>. QED
    BY <2>1, FS_Subset
<1>3. IsFiniteSet(S)
  <2>. HIDE DEF U, row
  <2>. QED
    BY <1>2, Image
<1>. HIDE DEF S
<1>4. /\ Len(new) \in Nat /\ \A i \in 1..Len(new) : new[i] \in S
      /\ \A x \in S : \E i \in 1..Len(new) : new[i] = x
      /\ \A i, j \in 1..Len(new) : new[i] = new[j] => i = j
  <2>1. new = SetToSeq(S)
    OBVIOUS
  <2>. HIDE DEF new
  <2>. QED
    BY ONLY <1>3, <2>1, SetInTurn
<1>. HIDE DEF new
<1>5. \A i \in 1..Len(new) : \E c \in U : new[i] = RowFor(products, p, c)
  BY <1>4 DEF S
<1>6. \A i \in 1..Len(new) : new[i] = RowFor(products, p, new[i].component)
  <2>1. \A c : RowFor(products, p, c).component = c
    BY DEF RowFor
  <2>. HIDE DEF U
  <2>. QED
    BY ONLY <1>5, <2>1
<1>7. \A c \in U : \E i \in 1..Len(new) : new[i] = RowFor(products, p, c)
  BY <1>4 DEF S
<1>8. \A i, j \in 1..Len(new) : new[i].component = new[j].component => i = j
  BY <1>4, <1>6
<1>. HIDE DEF parts
<1>. QED
  BY <1>1, <1>4, <1>5, <1>7, <1>8 DEF parts

\* The bills with those of one more shop product replaced.
OneBill(products, is, old, p) ==
  IF IsParent(is, p)
    THEN [rows |-> Replace(old.rows, ParentSku(p), NewRows(products, is, p), old.n),
          n |-> old.n + Len(NewRows(products, is, p))]
    ELSE old

\* g gives the bills after the first shop products, up to the m-th.
Rebuilds(products, is, first, m, g) ==
  g = [k \in 0..m |-> IF k = 0 THEN first ELSE OneBill(products, is, g[k - 1], products[k])]

LEMMA BillsAreRebuilt ==
  ASSUME NEW products, NEW is, NEW rows, NEW n
  PROVE  LET first == [rows |-> rows, n |-> n]
             N == Len(products)
         IN  Rebuilt(products, is, rows, n)
               = (CHOOSE g : Rebuilds(products, is, first, N, g))[N]
BY DEF Rebuilt, Rebuilds, OneBill

LEMMA RebuildsExist ==
  ASSUME NEW products, NEW is, NEW first, NEW N \in Nat
  PROVE  \E g : Rebuilds(products, is, first, N, g)
<1>. DEFINE S == {m \in 0..N : \E g : Rebuilds(products, is, first, m, g)}
            Next1(old, k) == OneBill(products, is, old, products[k])
<1>. HIDE DEF Next1
<1>1. 0 \in S
  <2>1. Rebuilds(products, is, first, 0, [k \in 0..0 |-> first])
    BY DEF Rebuilds
  <2>. QED
    BY <2>1
<1>2. ASSUME NEW k \in 1..N, k - 1 \in S
      PROVE  k \in S
  <2>1. PICK g : Rebuilds(products, is, first, k - 1, g)
    BY <1>2
  <2>. DEFINE h == [n \in 0..k |-> IF n = k THEN Next1(g[k - 1], k) ELSE g[n]]
  <2>2. \A n \in 0..(k - 1) : g[n] = IF n = 0 THEN first ELSE Next1(g[n - 1], n)
    BY <2>1 DEF Rebuilds, Next1
  <2>3. \A n \in 0..k : n # 0 => n - 1 \in 0..k /\ n - 1 # k
    OBVIOUS
  <2>4. \A n \in 0..k : h[n] = IF n = 0 THEN first ELSE Next1(h[n - 1], n)
    <3>. SUFFICES ASSUME NEW n \in 0..k
                  PROVE  h[n] = IF n = 0 THEN first ELSE Next1(h[n - 1], n)
      OBVIOUS
    <3>1. n # 0 => h[n - 1] = g[n - 1]
      BY <2>3
    <3>2. n # k => n \in 0..(k - 1)
      OBVIOUS
    <3>. QED
      BY <2>2, <3>1, <3>2
  <2>5. h = [n \in 0..k |-> h[n]]
    OBVIOUS
  <2>6. Rebuilds(products, is, first, k, h)
    <3>. HIDE DEF h
    <3>. QED
      BY <2>4, <2>5 DEF Rebuilds, Next1
  <2>. QED
    BY <2>6
<1>3. \A k \in 0..N : k \in S
  <2>. HIDE DEF S
  <2>. QED
    BY ONLY <1>1, <1>2, N \in Nat, UpTo
<1>. QED
  BY <1>3

\* No row lists a bundle as a part of itself.
Apart(rows) == \A i \in BillRows : rows[i] # NoBillRow => rows[i].bundle # rows[i].component

\* Among the first k shop products, the j-th is the last one for its bundle.
IsLast(products, is, k, j) ==
  /\ IsParent(is, products[j])
  /\ \A i \in 1..k : IsParent(is, products[i]) /\ ParentSku(products[i]) = ParentSku(products[j])
                       => i <= j

\* The bill of shop product p is what NewRows makes of it, somewhere up to id n.
Lists(products, is, rows, n, p) ==
  LET new == NewRows(products, is, p)
  IN \E m \in Nat :
       /\ m + Len(new) <= n
       /\ RowsOf(rows, ParentSku(p)) = {i \in BillRows : m < i /\ i <= m + Len(new)}
       /\ \A i \in RowsOf(rows, ParentSku(p)) : rows[i] = new[i - m]

\* One bill replaced by the rows of p: ids grow, rows stay apart, the bill is there,
\* and the bills of other bundles are as they were.
LEMMA OneBillIs ==
  ASSUME NEW products, NEW is, NEW old, NEW p \in ShopProduct, IsParent(is, p),
         MaxBillRows \in Nat, old.n \in Nat, Apart(old.rows)
  PROVE  LET new == OneBill(products, is, old, p)
         IN  /\ new.n \in Nat /\ old.n <= new.n /\ DOMAIN new.rows = BillRows
             /\ Apart(new.rows)
             /\ Lists(products, is, new.rows, new.n, p)
             /\ \A other : other # ParentSku(p) /\ other # NoSku
                           /\ (\A i \in RowsOf(old.rows, other) : i <= old.n) =>
                  /\ RowsOf(new.rows, other) = RowsOf(old.rows, other)
                  /\ \A i \in RowsOf(old.rows, other) : new.rows[i] = old.rows[i]
<1>. DEFINE new == OneBill(products, is, old, p)
            b == ParentSku(p)
            rows == NewRows(products, is, p)
            I == {i \in BillRows : old.n < i /\ i <= old.n + Len(rows)}
<1>1. /\ Len(rows) \in Nat
      /\ \A i \in 1..Len(rows) : rows[i].bundle = b /\ rows[i].component # b
  <2>1. \A sku : RowFor(products, p, sku).bundle = b /\ RowFor(products, p, sku).component = sku
    BY DEF RowFor
  <2>2. \A sku : Usable(is, sku, b) => sku # b
    BY DEF Usable
  <2>3. Len(rows) \in Nat
        /\ \A i \in 1..Len(rows) : \E sku : Usable(is, sku, b) /\ rows[i] = RowFor(products, p, sku)
    BY NewRowsAre
  <2>. HIDE DEF rows, b
  <2>. QED
    BY <2>1, <2>2, <2>3
<1>2. /\ new.n = old.n + Len(rows)
      /\ new.rows = Replace(old.rows, b, rows, old.n)
  BY DEF OneBill
<1>3. b # NoSku
  BY DEF IsParent
<1>. HIDE DEF new, b, rows
<1>4. /\ DOMAIN new.rows = BillRows
      /\ \A i \in I : new.rows[i] = rows[i - old.n] /\ i - old.n \in 1..Len(rows)
      /\ \A i \in BillRows \ I :
           new.rows[i] = IF i \in RowsOf(old.rows, b) THEN NoBillRow ELSE old.rows[i]
  <2>1. BillRows \subseteq Nat
    BY DEF BillRows
  <2>2. \A l, n, i \in Nat :
          /\ i \in (n + 1)..(n + l) <=> n < i /\ i <= n + l
          /\ n < i /\ i <= n + l => i - n \in 1..l
    OBVIOUS
  <2>3. \A i \in BillRows : i \in (old.n + 1)..(old.n + Len(rows)) <=> i \in I
    BY <1>1, <2>1, <2>2
  <2>4. \A i \in I : i - old.n \in 1..Len(rows) /\ i \in BillRows
    BY <1>1, <2>1, <2>2
  <2>5. DOMAIN new.rows = BillRows
    BY <1>2 DEF Replace
  <2>6. \A i \in BillRows :
          new.rows[i] = IF i \in (old.n + 1)..(old.n + Len(rows)) THEN rows[i - old.n]
                        ELSE IF i \in RowsOf(old.rows, b) THEN NoBillRow ELSE old.rows[i]
    BY <1>2 DEF Replace
  <2>. HIDE DEF I
  <2>. QED
    BY ONLY <2>3, <2>4, <2>5, <2>6
<1>5. new.n \in Nat /\ old.n <= new.n
  BY <1>1, <1>2
<1>6. Apart(new.rows)
  BY <1>1, <1>4 DEF Apart
<1>7. NoBillRow.bundle = NoSku
  BY DEF NoBillRow
<1>8. RowsOf(new.rows, b) = I
  BY <1>1, <1>3, <1>4, <1>7 DEF RowsOf
<1>9. Lists(products, is, new.rows, new.n, p)
  <2>. SUFFICES \E m \in Nat :
                  /\ m + Len(rows) <= new.n
                  /\ RowsOf(new.rows, b) = {i \in BillRows : m < i /\ i <= m + Len(rows)}
                  /\ \A i \in RowsOf(new.rows, b) : new.rows[i] = rows[i - m]
    BY DEF Lists, rows, b
  <2>. WITNESS old.n \in Nat
  <2>. QED
    BY <1>1, <1>2, <1>4, <1>5, <1>8
<1>10. ASSUME NEW other, other # b, other # NoSku, \A i \in RowsOf(old.rows, other) : i <= old.n
       PROVE  /\ RowsOf(new.rows, other) = RowsOf(old.rows, other)
              /\ \A i \in RowsOf(old.rows, other) : new.rows[i] = old.rows[i]
  <2>1. \A i \in RowsOf(old.rows, other) : i \in BillRows \ I /\ i \notin RowsOf(old.rows, b)
    <3>1. BillRows \subseteq Nat
      BY DEF BillRows
    <3>2. \A i \in RowsOf(old.rows, other) :
            i \in BillRows /\ old.rows[i].bundle = other /\ i <= old.n
      BY <1>10 DEF RowsOf
    <3>3. \A i \in I : i \in Nat /\ old.n < i
      BY <3>1
    <3>4. \A i \in RowsOf(old.rows, b) : old.rows[i].bundle = b
      BY DEF RowsOf
    <3>. HIDE DEF I
    <3>5. \A i \in Nat : ~ (i <= old.n /\ old.n < i)
      OBVIOUS
    <3>. QED
      BY ONLY <1>10, <3>1, <3>2, <3>3, <3>4, <3>5
  <2>2. \A i \in RowsOf(old.rows, other) : new.rows[i] = old.rows[i]
    BY <1>4, <2>1
  <2>3. \A i \in RowsOf(new.rows, other) : i \in RowsOf(old.rows, other)
    <3>. SUFFICES ASSUME NEW i \in RowsOf(new.rows, other)
                  PROVE  i \in RowsOf(old.rows, other)
      OBVIOUS
    <3>1. i \in BillRows /\ new.rows[i].bundle = other
      BY DEF RowsOf
    <3>. HIDE DEF I
    <3>2. i \notin I
      <4>1. \A j \in I : new.rows[j].bundle = b
        BY <1>1, <1>4
      <4>. QED
        BY <1>10, <3>1, <4>1
    <3>3. new.rows[i] = IF i \in RowsOf(old.rows, b) THEN NoBillRow ELSE old.rows[i]
      BY <1>4, <3>1, <3>2
    <3>4. new.rows[i] = old.rows[i]
      BY <1>7, <1>10, <3>1, <3>3
    <3>. QED
      BY <3>1, <3>4 DEF RowsOf
  <2>4. \A i \in RowsOf(old.rows, other) : i \in RowsOf(new.rows, other)
    BY <2>2 DEF RowsOf
  <2>. QED
    BY <2>2, <2>3, <2>4
<1>. QED
  BY <1>4, <1>5, <1>6, <1>9, <1>10 DEF new, b

\* What the second pass leaves: rows stay apart, and the bill of every bundle is
\* that of the last shop product for it.
LEMMA RebuiltIs ==
  ASSUME NEW products \in Seq(ShopProduct), NEW is, NEW rows, NEW n \in Nat,
         MaxBillRows \in Nat, DOMAIN rows = BillRows, Apart(rows)
  PROVE  LET bills == Rebuilt(products, is, rows, n)
             N == Len(products)
         IN  /\ bills.n \in Nat /\ DOMAIN bills.rows = BillRows /\ Apart(bills.rows)
             /\ \A j \in 1..N : IsLast(products, is, N, j) =>
                                  Lists(products, is, bills.rows, bills.n, products[j])
<1>. DEFINE N == Len(products)
            first == [rows |-> rows, n |-> n]
            Fine(bills, k) ==
              /\ bills.n \in Nat /\ DOMAIN bills.rows = BillRows /\ Apart(bills.rows)
              /\ \A j \in 1..k : IsLast(products, is, k, j) =>
                                   Lists(products, is, bills.rows, bills.n, products[j])
<1>1. N \in Nat /\ \A k \in 1..N : products[k] \in ShopProduct
  OBVIOUS
<1>2. \E g : Rebuilds(products, is, first, N, g)
  BY <1>1, RebuildsExist
<1>3. Rebuilt(products, is, rows, n) = (CHOOSE g : Rebuilds(products, is, first, N, g))[N]
  BY BillsAreRebuilt
<1>4. PICK g : Rebuilds(products, is, first, N, g) /\ Rebuilt(products, is, rows, n) = g[N]
  BY <1>2, <1>3
<1>. DEFINE S == {k \in 0..N : Fine(g[k], k)}
<1>. HIDE DEF N
<1>5. \A k \in 0..N :
        g[k] = IF k = 0 THEN first ELSE OneBill(products, is, g[k - 1], products[k])
  BY <1>4 DEF Rebuilds
<1>6. 0 \in S
  <2>1. g[0] = first /\ 0 \in 0..N /\ 1..0 = {}
    BY <1>1, <1>5
  <2>2. Fine(first, 0)
    BY <2>1
  <2>. HIDE DEF first, Fine
  <2>. QED
    BY <2>1, <2>2
<1>7. ASSUME NEW k \in 1..N, k - 1 \in S
      PROVE  k \in S
  <2>. DEFINE old == g[k - 1]
              new == g[k]
              p == products[k]
  <2>1. Fine(old, k - 1)
    BY <1>7
  <2>2. new = OneBill(products, is, old, p) /\ p \in ShopProduct
    <3>1. k \in 0..N /\ k # 0
      BY <1>1
    <3>. QED
      BY <1>1, <1>5, <3>1
  <2>3. 1..k = (1..(k - 1)) \cup {k} /\ \A j \in 1..(k - 1) : j < k /\ ~ (k <= j)
    BY <1>1
  <2>. HIDE DEF old, new
  <2>4. CASE ~ IsParent(is, p)
    <3>1. new = old
      BY <2>2, <2>4 DEF OneBill
    <3>2. ASSUME NEW j \in 1..k, IsLast(products, is, k, j)
          PROVE  j \in 1..(k - 1) /\ IsLast(products, is, k - 1, j)
      BY <2>3, <2>4, <3>2 DEF IsLast, p
    <3>3. Fine(new, k)
      BY <2>1, <3>1, <3>2
    <3>. HIDE DEF Fine
    <3>. QED
      BY <3>3, <1>1 DEF new
  <2>5. CASE IsParent(is, p)
    <3>. DEFINE b == ParentSku(p)
    <3>1. old.n \in Nat /\ Apart(old.rows)
      BY <2>1
    <3>2. /\ new.n \in Nat /\ old.n <= new.n /\ DOMAIN new.rows = BillRows
          /\ Apart(new.rows)
          /\ Lists(products, is, new.rows, new.n, p)
          /\ \A other : other # b /\ other # NoSku
                        /\ (\A i \in RowsOf(old.rows, other) : i <= old.n) =>
               /\ RowsOf(new.rows, other) = RowsOf(old.rows, other)
               /\ \A i \in RowsOf(old.rows, other) : new.rows[i] = old.rows[i]
      <4>. HIDE DEF p, Fine
      <4>. QED
        BY <2>2, <2>5, <3>1, OneBillIs
    <3>3. ASSUME NEW j \in 1..k, IsLast(products, is, k, j)
          PROVE  Lists(products, is, new.rows, new.n, products[j])
      <4>. DEFINE q == products[j]
                  c == ParentSku(q)
                  m2 == NewRows(products, is, q)
      <4>1. CASE j = k
        BY <3>2, <4>1 DEF p
      <4>2. CASE j # k
        <5>1. j \in 1..(k - 1) /\ IsLast(products, is, k - 1, j) /\ c # b /\ c # NoSku
          BY <2>3, <2>5, <3>3, <4>2 DEF IsLast, IsParent, p
        <5>2. Lists(products, is, old.rows, old.n, q)
          BY <2>1, <5>1
        <5>3. q \in ShopProduct
          BY <1>1, <2>3, <5>1
        <5>. HIDE DEF q, b, c, p
        <5>4. Len(m2) \in Nat
          BY <5>3, NewRowsAre
        <5>. HIDE DEF m2
        <5>5. PICK m \in Nat :
                /\ m + Len(m2) <= old.n
                /\ RowsOf(old.rows, c) = {i \in BillRows : m < i /\ i <= m + Len(m2)}
                /\ \A i \in RowsOf(old.rows, c) : old.rows[i] = m2[i - m]
          BY <5>2 DEF Lists, m2, c
        <5>6. \A i \in RowsOf(old.rows, c) : i <= old.n
          <6>1. \A i \in RowsOf(old.rows, c) : i \in Nat /\ i <= m + Len(m2)
            BY <5>5 DEF BillRows
          <6>2. \A i \in Nat : i <= m + Len(m2) => i <= old.n
            BY ONLY <3>1, <5>4, <5>5
          <6>. QED
            BY ONLY <6>1, <6>2
        <5>7. /\ RowsOf(new.rows, c) = RowsOf(old.rows, c)
              /\ \A i \in RowsOf(old.rows, c) : new.rows[i] = old.rows[i]
          BY <3>2, <5>1, <5>6
        <5>8. m + Len(m2) <= new.n
          BY ONLY <3>1, <3>2, <5>4, <5>5
        <5>. QED
          BY <5>5, <5>7, <5>8 DEF Lists, m2, c, q
      <4>. QED
        BY <4>1, <4>2
    <3>4. Fine(new, k)
      BY <3>2, <3>3
    <3>. HIDE DEF Fine
    <3>. QED
      BY <3>4, <1>1 DEF new
  <2>. QED
    BY <2>4, <2>5
<1>8. \A k \in 0..N : k \in S
  <2>. HIDE DEF S
  <2>. QED
    BY ONLY <1>1, <1>6, <1>7, UpTo
<1>9. Fine(g[N], N)
  BY <1>1, <1>8
<1>. QED
  BY <1>4, <1>9 DEF N

\* What Shopify names of part c for shop product p, and what the rows list of it.
NamedOf(products, p, c) ==
  LET named == NamedParts(products, p)
  IN SumFunctionOnSet([i \in DOMAIN named |-> named[i].quantity],
                      {i \in DOMAIN named : named[i].sku = c})
BilledOf(rows, p, c) ==
  SumFunctionOnSet([r \in BillRows |-> rows[r].quantity],
                   {r \in RowsOf(rows, ParentSku(p)) : rows[r].component = c})

\* The quantity that the bill of a shop product lists of a part, is[c] being what
\* the part is, is the one that Shopify names for it.
LEMMA ListedIsNamed ==
  ASSUME NEW products, NEW is, NEW rows, NEW n \in Nat, NEW p \in ShopProduct,
         MaxBillRows \in Nat, n <= MaxBillRows,
         IsParent(is, p), Lists(products, is, rows, n, p), NEW c \in Skus
  PROVE  BilledOf(rows, p, c) = IF is[c] = Plain THEN NamedOf(products, p, c) ELSE 0
<1>. DEFINE named == NamedParts(products, p)
            parts == Parts(products, p)
            new == NewRows(products, is, p)
            b == ParentSku(p)
            Named1(sku) == NamedOf(products, p, sku)
            R == {r \in RowsOf(rows, b) : rows[r].component = c}
            q == [r \in BillRows |-> rows[r].quantity]
<1>1. /\ \A sku \in DOMAIN parts : parts[sku] = Named1(sku) /\ Named1(sku) \in Int
      /\ \A sku : sku \notin DOMAIN parts => Named1(sku) = 0
  BY PartsAreSums DEF NamedOf
<1>2. /\ Len(new) \in Nat
      /\ \A i \in 1..Len(new) : \E sku \in DOMAIN parts :
           Usable(is, sku, b) /\ new[i] = RowFor(products, p, sku)
      /\ \A sku \in DOMAIN parts : Usable(is, sku, b) =>
           \E i \in 1..Len(new) : new[i] = RowFor(products, p, sku)
      /\ \A i, j \in 1..Len(new) : new[i].component = new[j].component => i = j
  BY NewRowsAre
<1>3. PICK m \in Nat :
        /\ m + Len(new) <= n
        /\ RowsOf(rows, b) = {i \in BillRows : m < i /\ i <= m + Len(new)}
        /\ \A i \in RowsOf(rows, b) : rows[i] = new[i - m]
  BY DEF Lists
<1>4. \A sku : RowFor(products, p, sku).component = sku
               /\ RowFor(products, p, sku).quantity = parts[sku]
  BY DEF RowFor
<1>5. Usable(is, c, b) <=> is[c] = Plain
  BY DEF Usable, IsParent, Plain, Bundle
<1>. HIDE DEF Named1, new, parts
<1>6. \A r \in RowsOf(rows, b) : r \in Nat /\ r \in BillRows /\ r - m \in 1..Len(new)
  <2>1. \A r \in RowsOf(rows, b) : r \in Nat /\ r \in BillRows /\ m < r /\ r <= m + Len(new)
    BY <1>3 DEF BillRows
  <2>2. \A r \in Nat : m < r /\ r <= m + Len(new) => r - m \in 1..Len(new)
    BY <1>2
  <2>. QED
    BY <2>1, <2>2
<1>7. CASE is[c] = Plain /\ c \in DOMAIN parts
  <2>1. PICK i \in 1..Len(new) : new[i] = RowFor(products, p, c)
    BY <1>2, <1>5, <1>7
  <2>2. m + i \in RowsOf(rows, b) /\ (m + i) - m = i
    <3>1. m + i \in BillRows /\ m < m + i /\ m + i <= m + Len(new) /\ (m + i) - m = i
      BY <1>2, <1>3 DEF BillRows
    <3>. QED
      BY <1>3, <3>1
  <2>3. rows[m + i] = new[i]
    BY <1>3, <2>2
  <2>4. ASSUME NEW r \in R
        PROVE  r = m + i
    <3>1. r \in RowsOf(rows, b) /\ rows[r].component = c /\ r - m \in 1..Len(new) /\ r \in Nat
      BY <1>6
    <3>2. new[r - m].component = new[i].component
      BY <1>3, <1>4, <2>1, <3>1
    <3>3. r - m = i
      BY <1>2, <3>1, <3>2
    <3>. QED
      BY <3>1, <3>3
  <2>5. R = {m + i}
    <3>1. m + i \in R
      BY <1>4, <2>1, <2>2, <2>3
    <3>. QED
      BY <2>4, <3>1
  <2>6. q[m + i] = Named1(c) /\ Named1(c) \in Int
    <3>1. m + i \in BillRows
      BY <1>6, <2>2
    <3>2. rows[m + i].quantity = parts[c]
      BY <1>4, <2>1, <2>3
    <3>. QED
      BY <1>1, <1>7, <3>1, <3>2
  <2>. HIDE DEF q
  <2>7. SumFunctionOnSet(q, {m + i}) = q[m + i]
    <3>. DEFINE x == m + i
    <3>1. q[x] \in Int
      BY <2>6
    <3>. HIDE DEF x
    <3>2. IsFiniteSet({x}) /\ {x} \ {x} = {}
      BY FS_Singleton
    <3>3. \A y \in {x} : SumFunctionOnSet(q, {x}) = q[y] + SumFunctionOnSet(q, {x} \ {y})
      <4>1. \A y \in {x} : q[y] \in Int
        BY <3>1
      <4>. QED
        BY ONLY <3>2, <4>1, SumPick
    <3>4. SumFunctionOnSet(q, {x}) = q[x] + 0
      BY <3>2, <3>3, SumEmpty
    <3>. QED
      BY <3>1, <3>4 DEF x
  <2>. HIDE DEF R
  <2>. QED
    BY <1>7, <2>5, <2>6, <2>7 DEF Named1, R, q, BilledOf
<1>8. CASE ~ (is[c] = Plain /\ c \in DOMAIN parts)
  <2>1. R = {}
    <3>. SUFFICES ASSUME NEW r \in R PROVE FALSE
      OBVIOUS
    <3>1. r \in RowsOf(rows, b) /\ rows[r].component = c /\ r - m \in 1..Len(new)
      BY <1>6
    <3>2. PICK sku \in DOMAIN parts :
            Usable(is, sku, b) /\ new[r - m] = RowFor(products, p, sku)
      BY <1>2, <3>1
    <3>3. sku = c
      BY <1>3, <1>4, <3>1, <3>2
    <3>. QED
      BY <1>5, <1>8, <3>2, <3>3
  <2>2. SumFunctionOnSet(q, R) = 0
    BY <2>1, SumEmpty
  <2>3. is[c] = Plain => Named1(c) = 0
    BY <1>1, <1>8
  <2>. HIDE DEF R, q
  <2>. QED
    BY <2>2, <2>3 DEF Named1, R, q, BilledOf
<1>. QED
  BY <1>7, <1>8

\* The inductive invariant: what is stored and what staff are about to store names no
\* bundle as a part of itself, and the last import is as Shopify listed it.
BillInTask(t) ==
  /\ t.what = "line" => t.row.bundle # t.row.component
  /\ t.what = "product" => IsFiniteSet(t.parts) /\ t.sku \notin t.parts

CatalogueInv ==
  /\ listing \in Listings /\ billed \in Nat
  /\ DOMAIN billRows = BillRows /\ DOMAIN task = Sessions
  /\ NoSelfBundle
  /\ \A s \in Sessions : BillInTask(task[s])
  /\ ImportFaithful

LEMMA ApartIs == NoSelfBundle <=> Apart(billRows)
BY DEF NoSelfBundle, Apart

\* The bills are those that Shopify names for the shop products in I.
Faithful(products, is, rows, I) ==
  \A i \in I :
    (\A j \in I : ParentSku(products[j]) = ParentSku(products[i]) => j <= i) =>
      \A c \in Skus :
        BilledOf(rows, products[i], c)
          = IF is[c] = Plain THEN NamedOf(products, products[i], c) ELSE 0

LEMMA FaithfulIs == ImportFaithful <=> Faithful(listing, isBundle, billRows, imported)
BY DEF ImportFaithful, Faithful, Named, BilledOf, NamedOf

LEMMA FaithfulNext ==
  ImportFaithful' <=> Faithful(listing', isBundle', billRows', imported')
BY DEF ImportFaithful, Faithful, Named, BilledOf, NamedOf

LEMMA CatalogueStarts == ASSUME CatalogueSound, CatalogueInit PROVE CatalogueInv
<1>1. /\ listing \in Listings /\ DOMAIN billRows = BillRows /\ DOMAIN task = Sessions
      /\ \A s \in Sessions : task[s] = NoTask
  BY DEF CatalogueInit
<1>2. billed \in Nat
  BY DEF CatalogueInit, CatalogueSound
<1>3. NoSelfBundle
  <2>. SUFFICES ASSUME NEW i \in BillRows, billRows[i] # NoBillRow
                PROVE  billRows[i].bundle # billRows[i].component
    BY DEF NoSelfBundle
  <2>1. i <= Len(FirstBill) /\ billRows[i] = FirstBill[i]
    BY DEF CatalogueInit
  <2>2. i \in 1..Len(FirstBill)
    BY <2>1 DEF BillRows, CatalogueSound
  <2>. QED
    BY <2>1, <2>2 DEF CatalogueSound
<1>4. BillInTask(NoTask)
  BY DEF BillInTask, NoTask
<1>5. ImportFaithful
  BY DEF CatalogueInit, ImportFaithful
<1>. QED
  BY <1>1, <1>2, <1>3, <1>4, <1>5 DEF CatalogueInv

\* After an import, Shopify's parts are in the bills.
LEMMA ImportKeeps ==
  ASSUME CatalogueSound, CatalogueInv, ImportProducts
  PROVE  CatalogueInv'
<1>. DEFINE is == Upserted(listing, isBundle)
            bills == Rebuilt(listing, is, billRows, billed)
            N == Len(listing)
<1>1. /\ bills.n <= MaxBillRows /\ isBundle' = is /\ billRows' = bills.rows /\ billed' = bills.n
      /\ imported' = {i \in DOMAIN listing : IsParent(is, listing[i])}
      /\ listing' = listing /\ task' = task
  BY DEF ImportProducts
<1>2. listing \in Seq(ShopProduct) /\ MaxBillRows \in Nat
  BY DEF CatalogueSound, CatalogueInv
<1>3. N \in Nat /\ DOMAIN listing = 1..N /\ \A i \in 1..N : listing[i] \in ShopProduct
  BY <1>2
<1>. HIDE DEF is, bills
<1>4. /\ bills.n \in Nat /\ DOMAIN bills.rows = BillRows /\ Apart(bills.rows)
      /\ \A j \in 1..N : IsLast(listing, is, N, j) =>
                           Lists(listing, is, bills.rows, bills.n, listing[j])
  BY <1>2, RebuiltIs, ApartIs DEF CatalogueInv, bills
<1>5. ImportFaithful'
  <2>. DEFINE I == {i \in DOMAIN listing : IsParent(is, listing[i])}
  <2>1. Faithful(listing, is, bills.rows, I)
    <3>. SUFFICES ASSUME NEW i \in I,
                         \A j \in I : ParentSku(listing[j]) = ParentSku(listing[i]) => j <= i,
                         NEW c \in Skus
                  PROVE  BilledOf(bills.rows, listing[i], c)
                           = IF is[c] = Plain THEN NamedOf(listing, listing[i], c) ELSE 0
      BY DEF Faithful
    <3>1. i \in 1..N /\ IsParent(is, listing[i]) /\ IsLast(listing, is, N, i)
      BY <1>3 DEF IsLast
    <3>2. Lists(listing, is, bills.rows, bills.n, listing[i]) /\ listing[i] \in ShopProduct
      BY <1>3, <1>4, <3>1
    <3>. HIDE DEF I, N
    <3>. QED
      BY <1>1, <1>2, <1>4, <3>1, <3>2, ListedIsNamed
  <2>. QED
    BY <1>1, <2>1, FaithfulNext
<1>6. NoSelfBundle'
  BY <1>1, <1>4 DEF NoSelfBundle, Apart
<1>. QED
  BY <1>1, <1>4, <1>5, <1>6 DEF CatalogueInv

\* Whatever forgets the last import leaves nothing to show of it.
LEMMA Forgotten == ASSUME imported' = {} PROVE ImportFaithful'
BY DEF ImportFaithful

\* Rows that are replaced by rows that are apart stay apart.
LEMMA ReplaceApart ==
  ASSUME NEW rows, NEW sku, NEW new, NEW n \in Nat, Len(new) \in Nat, MaxBillRows \in Nat,
         Apart(rows), \A i \in 1..Len(new) : new[i].bundle # new[i].component
  PROVE  Apart(Replace(rows, sku, new, n)) /\ DOMAIN Replace(rows, sku, new, n) = BillRows
<1>1. ASSUME NEW i \in (n + 1)..(n + Len(new)) PROVE i - n \in 1..Len(new)
  OBVIOUS
<1>. QED
  BY <1>1 DEF Replace, Apart

LEMMA ProductWebhookKeeps ==
  ASSUME CatalogueSound, CatalogueInv, ProductWebhook
  PROVE  CatalogueInv'
<1>1. PICK p \in ToSet(listing) :
        /\ billRows' = IF IsBundleProduct(p) /\ ParentSku(p) # NoSku
                         THEN Replace(billRows, ParentSku(p), <<>>, billed) ELSE billRows
        /\ imported' = {}
  BY DEF ProductWebhook
<1>2. listing' = listing /\ billed' = billed /\ task' = task
  BY DEF ProductWebhook
<1>3. Apart(billRows') /\ DOMAIN billRows' = BillRows
  <2>. DEFINE none == << >>
  <2>1. Len(none) = 0 /\ 1..0 = {}
    OBVIOUS
  <2>2. Apart(billRows) /\ DOMAIN billRows = BillRows /\ billed \in Nat /\ MaxBillRows \in Nat
    BY ApartIs DEF CatalogueInv, CatalogueSound
  <2>3. \A i \in 1..Len(none) : none[i].bundle # none[i].component
    BY <2>1
  <2>. HIDE DEF none
  <2>4. /\ Apart(Replace(billRows, ParentSku(p), none, billed))
        /\ DOMAIN Replace(billRows, ParentSku(p), none, billed) = BillRows
    BY <2>1, <2>2, <2>3, ReplaceApart
  <2>. QED
    BY <1>1, <2>2, <2>4 DEF none
<1>. QED
  BY <1>1, <1>2, <1>3, Forgotten DEF CatalogueInv, NoSelfBundle, Apart

\* A request that staff begin changes no table.
LEMMA BeginsKeeps ==
  ASSUME CatalogueInv, NEW s \in Sessions, NEW t, Begins(s, t), BillInTask(t)
  PROVE  CatalogueInv'
<1>1. /\ task' = [task EXCEPT ![s] = t]
      /\ listing' = listing /\ isBundle' = isBundle /\ billRows' = billRows
      /\ billed' = billed /\ imported' = imported
  BY DEF Begins
<1>2. DOMAIN task' = Sessions /\ \A x \in Sessions : BillInTask(task'[x])
  BY <1>1 DEF CatalogueInv
<1>3. ImportFaithful'
  BY <1>1, FaithfulIs, FaithfulNext DEF CatalogueInv
<1>4. NoSelfBundle'
  BY <1>1 DEF CatalogueInv, NoSelfBundle
<1>. QED
  BY <1>1, <1>2, <1>3, <1>4 DEF CatalogueInv

LEMMA OpenLineKeeps ==
  ASSUME CatalogueInv, NEW s \in Sessions, NEW i, NEW b, NEW c, OpenLine(s, i, b, c)
  PROVE  CatalogueInv'
<1>. DEFINE row == [bundle |-> b, component |-> c, quantity |-> billRows[i].quantity]
            t == [what |-> "line", id |-> i, row |-> row, read |-> billRows[i]]
<1>1. b # c /\ Begins(s, t)
  BY DEF OpenLine, ValidPair
<1>2. BillInTask(t)
  BY <1>1 DEF BillInTask
<1>. HIDE DEF t
<1>. QED
  BY <1>1, <1>2, BeginsKeeps

LEMMA OpenProductKeeps ==
  ASSUME CatalogueSound, CatalogueInv, NEW s \in Sessions, NEW sku, NEW is, NEW listed,
         NEW parts \in SUBSET Skus, OpenProduct(s, sku, is, listed, parts)
  PROVE  CatalogueInv'
<1>. DEFINE t == [what |-> "product", sku |-> sku, is |-> is, listed |-> listed,
                  parts |-> parts]
<1>1. sku \notin parts /\ Begins(s, t)
  BY DEF OpenProduct
<1>2. IsFiniteSet(parts)
  BY FS_Subset DEF CatalogueSound
<1>3. BillInTask(t)
  BY <1>1, <1>2 DEF BillInTask
<1>. HIDE DEF t
<1>. QED
  BY <1>1, <1>3, BeginsKeeps

\* A request that ends, and what it saves.
LEMMA EndsKeeps ==
  ASSUME CatalogueInv, NEW s \in Sessions,
         task' = [task EXCEPT ![s] = NoTask], listing' = listing, billed' \in Nat,
         DOMAIN billRows' = BillRows, Apart(billRows'), ImportFaithful'
  PROVE  CatalogueInv'
<1>1. BillInTask(NoTask)
  BY DEF BillInTask, NoTask
<1>2. DOMAIN task' = Sessions /\ \A x \in Sessions : BillInTask(task'[x])
  BY <1>1 DEF CatalogueInv
<1>3. NoSelfBundle'
  BY DEF NoSelfBundle, Apart
<1>. QED
  BY <1>2, <1>3 DEF CatalogueInv

LEMMA SaveLineKeeps ==
  ASSUME CatalogueInv, NEW s \in Sessions, SaveLine(s)
  PROVE  CatalogueInv'
<1>. DEFINE row == task[s].row
            id == task[s].id
<1>1. /\ billRows' = billRows \/ billRows' = [billRows EXCEPT ![id] = row]
      /\ task' = [task EXCEPT ![s] = NoTask] /\ imported' = {}
      /\ listing' = listing /\ billed' = billed
  BY DEF SaveLine, SavedLine
<1>2. row.bundle # row.component
  BY DEF SaveLine, CatalogueInv, BillInTask
<1>. HIDE DEF row, id
<1>3. DOMAIN billRows' = BillRows /\ Apart(billRows')
  BY <1>1, <1>2, ApartIs DEF CatalogueInv, Apart
<1>. QED
  BY <1>1, <1>3, Forgotten, EndsKeeps DEF CatalogueInv

LEMMA SaveProductKeeps ==
  ASSUME CatalogueSound, CatalogueInv, NEW s \in Sessions, SaveProduct(s)
  PROVE  CatalogueInv'
<1>. DEFINE t == task[s]
            row == [c \in t.parts |-> [bundle |-> t.sku, component |-> c, quantity |-> 1]]
            R == {row[c] : c \in t.parts}
            new == SetToSeq(R)
<1>1. /\ task' = [task EXCEPT ![s] = NoTask] /\ listing' = listing
      /\ \/ /\ billed' = billed + Len(new)
            /\ billRows' = billRows \/ billRows' = Replace(billRows, t.sku, new, billed)
            /\ imported' = {}
         \/ UNCHANGED <<isBundle, billRows, billed, imported>>
  <2>1. R = {[bundle |-> t.sku, component |-> c, quantity |-> 1] : c \in t.parts}
    OBVIOUS
  <2>. HIDE DEF R
  <2>. QED
    BY <2>1 DEF SaveProduct
<1>2. IsFiniteSet(t.parts) /\ t.sku \notin t.parts
  BY DEF SaveProduct, CatalogueInv, BillInTask
<1>3. IsFiniteSet(R)
  <2>. HIDE DEF t, row
  <2>. QED
    BY <1>2, Image
<1>4. \A r \in R : r.bundle # r.component
  <2>1. \A c \in t.parts : t.sku # c
    BY <1>2
  <2>2. \A c \in t.parts : row[c].bundle = t.sku /\ row[c].component = c
    OBVIOUS
  <2>. HIDE DEF t, row
  <2>. QED
    BY <2>1, <2>2
<1>. HIDE DEF R, t
<1>5. Len(new) \in Nat /\ \A i \in 1..Len(new) : new[i] \in R
  BY <1>3, SetInTurn
<1>. HIDE DEF new
<1>6. CASE UNCHANGED <<isBundle, billRows, billed, imported>>
  <2>1. ImportFaithful'
    BY <1>1, <1>6, FaithfulIs, FaithfulNext DEF CatalogueInv
  <2>2. Apart(billRows)
    BY ApartIs DEF CatalogueInv
  <2>. QED
    BY <1>1, <1>6, <2>1, <2>2, EndsKeeps DEF CatalogueInv
<1>7. CASE /\ billed' = billed + Len(new)
           /\ billRows' = billRows \/ billRows' = Replace(billRows, t.sku, new, billed)
           /\ imported' = {}
  <2>1. Apart(billRows) /\ DOMAIN billRows = BillRows /\ billed \in Nat /\ MaxBillRows \in Nat
    BY ApartIs DEF CatalogueInv, CatalogueSound
  <2>2. \A i \in 1..Len(new) : new[i].bundle # new[i].component
    BY <1>4, <1>5
  <2>3. /\ Apart(Replace(billRows, t.sku, new, billed))
        /\ DOMAIN Replace(billRows, t.sku, new, billed) = BillRows
    BY <1>5, <2>1, <2>2, ReplaceApart
  <2>4. Apart(billRows') /\ DOMAIN billRows' = BillRows /\ billed' \in Nat
    BY <1>5, <1>7, <2>1, <2>3
  <2>. QED
    BY <1>1, <1>7, <2>4, Forgotten, EndsKeeps
<1>. QED
  BY <1>1, <1>6, <1>7

LEMMA LinesKeep ==
  ASSUME CatalogueInv,
         \/ \E b, c \in Skus : AddLine(b, c)
         \/ \E i \in BillRows : DropLine(i)
         \/ \E sku \in Skus : DropProduct(sku)
  PROVE  CatalogueInv'
<1>1. /\ listing' = listing /\ task' = task /\ imported' = {}
      /\ billed' = billed \/ billed' = billed + 1
  BY DEF AddLine, DropLine, DropProduct
<1>2. DOMAIN billRows' = BillRows /\ Apart(billRows')
  <2>1. Apart(billRows) /\ DOMAIN billRows = BillRows
    BY ApartIs DEF CatalogueInv
  <2>2. ASSUME NEW b \in Skus, NEW c \in Skus, AddLine(b, c)
        PROVE  DOMAIN billRows' = BillRows /\ Apart(billRows')
    <3>. DEFINE row == [bundle |-> b, component |-> c, quantity |-> 1]
    <3>1. billRows' = [billRows EXCEPT ![billed + 1] = row] /\ row.bundle # row.component
      BY <2>2 DEF AddLine, ValidPair
    <3>. HIDE DEF row
    <3>. QED
      BY <2>1, <3>1 DEF Apart
  <2>3. ASSUME NEW i \in BillRows, DropLine(i)
        PROVE  DOMAIN billRows' = BillRows /\ Apart(billRows')
    BY <2>1, <2>3 DEF DropLine, Apart
  <2>4. ASSUME NEW sku \in Skus, DropProduct(sku)
        PROVE  DOMAIN billRows' = BillRows /\ Apart(billRows')
    BY <2>1, <2>4 DEF DropProduct, Apart
  <2>. QED
    BY <2>2, <2>3, <2>4
<1>3. NoSelfBundle'
  BY <1>2 DEF NoSelfBundle, Apart
<1>4. \A x \in Sessions : BillInTask(task'[x])
  BY <1>1 DEF CatalogueInv
<1>. QED
  BY <1>1, <1>2, <1>3, <1>4, Forgotten DEF CatalogueInv

LEMMA CatalogueInvariant == ASSUME CatalogueSound PROVE CatalogueSpec => []CatalogueInv
<1>1. CatalogueInit => CatalogueInv
  BY CatalogueStarts
<1>2. CatalogueInv /\ [CatalogueNext]_catalogue => CatalogueInv'
  <2>. SUFFICES ASSUME CatalogueInv, [CatalogueNext]_catalogue
                PROVE  CatalogueInv'
    OBVIOUS
  <2>1. CASE ImportProducts
    BY <2>1, ImportKeeps
  <2>2. CASE ProductWebhook
    BY <2>2, ProductWebhookKeeps
  <2>3. ASSUME NEW s \in Sessions, SaveLine(s) \/ SaveProduct(s)
        PROVE  CatalogueInv'
    BY <2>3, SaveLineKeeps, SaveProductKeeps
  <2>4. ASSUME NEW s \in Sessions, NEW i \in BillRows, NEW b \in Skus, NEW c \in Skus,
               OpenLine(s, i, b, c)
        PROVE  CatalogueInv'
    BY <2>4, OpenLineKeeps
  <2>5. CASE \/ \E b, c \in Skus : AddLine(b, c)
             \/ \E i \in BillRows : DropLine(i)
             \/ \E sku \in Skus : DropProduct(sku)
    BY <2>5, LinesKeep
  <2>6. ASSUME NEW s \in Sessions, NEW sku \in Skus, NEW is, NEW listed,
               NEW parts \in SUBSET Skus, OpenProduct(s, sku, is, listed, parts)
        PROVE  CatalogueInv'
    BY <2>6, OpenProductKeeps
  <2>7. CASE UNCHANGED catalogue
    <3>1. /\ listing' = listing /\ isBundle' = isBundle /\ billRows' = billRows
          /\ billed' = billed /\ task' = task /\ imported' = imported
      BY <2>7 DEF catalogue
    <3>2. ImportFaithful'
      BY <3>1, FaithfulIs, FaithfulNext DEF CatalogueInv
    <3>. QED
      BY <3>1, <3>2 DEF CatalogueInv, NoSelfBundle
  <2>. QED
    BY <2>1, <2>2, <2>3, <2>4, <2>5, <2>6, <2>7 DEF CatalogueNext
<1>. QED
  BY <1>1, <1>2, PTL DEF CatalogueSpec

\* "A bundle cannot contain itself": however requests of staff, webhooks and imports
\* overlap, no stored row lists a product as a part of itself.
THEOREM NoBundleInItself == ASSUME CatalogueSound PROVE CatalogueSpec => []NoSelfBundle
<1>1. CatalogueInv => NoSelfBundle
  BY DEF CatalogueInv
<1>. QED
  BY <1>1, CatalogueInvariant, PTL

\* As long as nothing else changed a bill, each bundle of the last import lists exactly
\* the plain products that Shopify names for it, in the sum of their quantities.
THEOREM ImportsAreFaithful == ASSUME CatalogueSound PROVE CatalogueSpec => []ImportFaithful
<1>1. CatalogueInv => ImportFaithful
  BY DEF CatalogueInv
<1>. QED
  BY <1>1, CatalogueInvariant, PTL
=============================================================================
