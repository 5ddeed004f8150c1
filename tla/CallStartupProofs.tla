------------------------- MODULE CallStartupProofs -------------------------
(***************************************************************************)
(* Proofs, for every list of stored chunks, of what a call replays: each   *)
(* turn once and in order, each tool result right behind its call.         *)
(***************************************************************************)
EXTENDS CallStartup, FiniteSetTheorems, TLAPS

----------------------------------------------------------------------------
(* Places.                                                                 *)

Triple == Nat \X Nat \X Nat

\* Places are compared number by number, which orders them (the order in which
\* reorderToolResultMessages appends).
LEMMA PrecedesOrders ==
    ASSUME NEW p \in Triple, NEW q \in Triple, NEW r \in Triple
    PROVE  /\ ~Precedes(p, p)
           /\ Precedes(p, q) \/ Precedes(q, p) \/ p = q
           /\ Precedes(p, q) /\ Precedes(q, r) => Precedes(p, r)
           /\ Precedes(p, q) => ~Precedes(q, p)
<1>1. /\ p[1] \in Nat /\ p[2] \in Nat /\ p[3] \in Nat
      /\ q[1] \in Nat /\ q[2] \in Nat /\ q[3] \in Nat
      /\ r[1] \in Nat /\ r[2] \in Nat /\ r[3] \in Nat
      /\ p = <<p[1], p[2], p[3]>> /\ q = <<q[1], q[2], q[3]>>
  BY DEF Triple
<1>2. p[1] = q[1] /\ p[2] = q[2] /\ p[3] = q[3] => p = q
  BY <1>1
<1> QED BY <1>1, <1>2 DEF Precedes

\* at lists the places P in their order.
Lists(at, P) ==
    /\ at \in [1..Cardinality(P) -> P]
    /\ \A i, j \in 1..Cardinality(P) : i < j <=> Precedes(at[i], at[j])
    /\ \A p \in P : \E i \in 1..Cardinality(P) : at[i] = p

\* Arranging a list puts what stands at each place of P into its order, each
\* once and nothing else.
LEMMA ArrangedLists ==
    ASSUME NEW P \in SUBSET Triple, IsFiniteSet(P), NEW s
    PROVE  /\ Cardinality(P) \in Nat
           /\ \E at : /\ Lists(at, P)
                      /\ Arranged(s, P) = [k \in 1..Cardinality(P) |-> s[at[k][3]]]
<1> DEFINE C == Cardinality(P)
           below(p) == {q \in P : Precedes(q, p)}
           rank == [p \in P |-> Cardinality(below(p)) + 1]
           at == [k \in 1..C |-> CHOOSE p \in P : Cardinality(below(p)) = k - 1]
<1>1. C \in Nat
  BY FS_CardinalityType
<1>2. ASSUME NEW p \in P PROVE rank[p] \in 1..C /\ Cardinality(below(p)) \in Nat
  <2>1. below(p) \in SUBSET P /\ p \notin below(p)
    BY PrecedesOrders
  <2>2. IsFiniteSet(below(p)) /\ Cardinality(below(p)) <= C /\ below(p) # P
        /\ (C = Cardinality(below(p)) => P = below(p))
    BY <2>1, FS_Subset
  <2>3. Cardinality(below(p)) \in Nat
    BY <2>2, FS_CardinalityType
  <2> QED BY <1>1, <2>2, <2>3
<1>3. ASSUME NEW p \in P, NEW q \in P, Precedes(p, q) PROVE rank[p] < rank[q]
  <2>1. below(p) \in SUBSET below(q) /\ below(p) # below(q)
    <3>1. ASSUME NEW r \in below(p) PROVE r \in below(q)
      BY <1>3, PrecedesOrders
    <3>2. p \in below(q) /\ p \notin below(p)
      BY <1>3, PrecedesOrders
    <3> QED BY <3>1, <3>2
  <2>2. IsFiniteSet(below(q))
    BY FS_Subset
  <2>3. /\ Cardinality(below(p)) <= Cardinality(below(q))
        /\ Cardinality(below(p)) # Cardinality(below(q))
    BY <2>1, <2>2, FS_Subset
  <2> QED BY <1>2, <2>3
<1>4. ASSUME NEW p \in P, NEW q \in P, rank[p] = rank[q] PROVE p = q
  <2>1. rank[p] \in Nat /\ rank[q] \in Nat
    <3>1. rank[p] \in 1..C /\ rank[q] \in 1..C
      BY <1>2
    <3> HIDE DEF rank, C
    <3> QED BY <1>1, <3>1
  <2> HIDE DEF rank
  <2>2. ~Precedes(p, q) /\ ~Precedes(q, p)
    BY <1>3, <1>4, <2>1
  <2> QED BY <2>2, PrecedesOrders
<1>5. ASSUME NEW k \in 1..C PROVE \E p \in P : rank[p] = k
  <2> SUFFICES ASSUME \A p \in P : rank[p] # k PROVE FALSE
    OBVIOUS
  <2> DEFINE T == (1..C) \ {k}
  <2>1. IsFiniteSet(1..C) /\ Cardinality(1..C) = C
    BY <1>1, FS_Interval
  <2>2. IsFiniteSet(T) /\ Cardinality(T) = C - 1
    BY <2>1, FS_RemoveElement
  <2>3. rank \in [P -> T]
    BY <1>2
  <2>4. \E p, q \in P : p # q /\ rank[p] = rank[q]
    <3>1. Cardinality(T) < Cardinality(P)
      BY <1>1, <2>2
    <3> HIDE DEF T, rank
    <3> QED BY <2>2, <2>3, <3>1, FS_PigeonHole
  <2> QED BY <1>4, <2>4
<1>6. ASSUME NEW k \in 1..C PROVE at[k] \in P /\ rank[at[k]] = k
  <2>1. PICK p \in P : rank[p] = k
    BY <1>5
  <2>2. Cardinality(below(p)) = k - 1
    BY <1>2, <2>1
  <2>3. at[k] \in P /\ Cardinality(below(at[k])) = k - 1
    BY <2>2
  <2> QED BY <2>3
<1>7. ASSUME NEW i \in 1..C, NEW j \in 1..C
      PROVE  i < j <=> Precedes(at[i], at[j])
  <2>1. at[i] \in P /\ at[j] \in P /\ rank[at[i]] = i /\ rank[at[j]] = j
    BY <1>6
  <2> HIDE DEF at, rank
  <2>2. Precedes(at[i], at[j]) => i < j
    BY <1>3, <2>1
  <2>3. Precedes(at[j], at[i]) => j < i
    BY <1>3, <2>1
  <2>4. at[i] = at[j] => i = j
    BY <2>1
  <2> QED BY <1>1, <2>1, <2>2, <2>3, <2>4, PrecedesOrders
<1>8. ASSUME NEW p \in P PROVE \E i \in 1..C : at[i] = p
  <2>1. rank[p] \in 1..C
    BY <1>2
  <2>2. at[rank[p]] \in P /\ rank[at[rank[p]]] = rank[p]
    BY <1>6, <2>1
  <2>3. at[rank[p]] = p
    BY <1>4, <2>2
  <2> QED BY <2>1, <2>3
<1>9. at \in [1..C -> P]
  BY <1>6
<1>10. Arranged(s, P) = [k \in 1..C |-> s[at[k][3]]]
  BY DEF Arranged
<1> HIDE DEF at
<1>11. Lists(at, P)
  BY <1>7, <1>8, <1>9 DEF Lists
<1> QED BY <1>1, <1>10, <1>11

\* A list that grows one by one from i to h[k] without leaving a number out has
\* k more elements than it started with.
LEMMA NoGaps ==
    ASSUME NEW k \in Nat, NEW h \in [0..k -> Nat],
           \A i, j \in 0..k : i < j => h[i] < h[j],
           \A x \in h[0]..h[k] : \E j \in 0..k : h[j] = x
    PROVE  h[k] = h[0] + k
<1> DEFINE T == h[0]..h[k]
<1>0. 0 \in 0..k /\ k \in 0..k
  OBVIOUS
<1>1. h[0] \in Nat /\ h[k] \in Nat /\ h[0] <= h[k]
  <2>1. k = 0 \/ 0 < k
    OBVIOUS
  <2> QED BY <1>0, <2>1
<1>2. h \in [0..k -> T]
  <2>1. ASSUME NEW j \in 0..k PROVE h[j] \in T
    <3>1. (j = 0 \/ 0 < j) /\ (j = k \/ j < k)
      OBVIOUS
    <3>2. h[j] \in Nat
      OBVIOUS
    <3> QED BY <1>0, <1>1, <3>1, <3>2
  <2> QED BY <2>1
<1>3. \A i, j \in 0..k : h[i] = h[j] => i = j
  <2> SUFFICES ASSUME NEW i \in 0..k, NEW j \in 0..k, h[i] = h[j] PROVE i = j
    OBVIOUS
  <2>1. h[i] \in Nat /\ h[j] \in Nat
    OBVIOUS
  <2>2. ~(i < j) /\ ~(j < i)
    BY <2>1
  <2> QED BY <2>2
<1>4. h \in Bijection(0..k, T)
  BY <1>2, <1>3 DEF Bijection, Injection, Surjection, IsInjective
<1>5. IsFiniteSet(0..k) /\ Cardinality(0..k) = k + 1
  BY FS_Interval
<1>6. Cardinality(T) = Cardinality(0..k)
  BY <1>4, <1>5, FS_Bijection DEF ExistsBijection
<1>7. Cardinality(T) = h[k] - h[0] + 1
  BY <1>1, FS_Interval
<1> QED BY <1>1, <1>5, <1>6, <1>7

----------------------------------------------------------------------------
(* Results behind their calls.                                             *)

\* In a list of messages every call has one result and every result one call.
Paired(L, T) ==
    /\ \A n \in DOMAIN L : L[n].calls \in Seq(T)
    /\ \A n \in DOMAIN L : L[n].role = "tool" =>
          /\ L[n].answers # NoCall /\ L[n].calls = <<>>
          /\ \E i \in DOMAIN L : \E k \in DOMAIN L[i].calls :
                L[i].calls[k] = L[n].answers
    /\ \A i \in DOMAIN L : \A k \in DOMAIN L[i].calls :
          \E n \in DOMAIN L : L[n].role = "tool" /\ L[n].answers = L[i].calls[k]
    /\ \A m, n \in DOMAIN L :
          /\ L[m].role = "tool" /\ L[n].role = "tool"
          /\ L[m].answers = L[n].answers
          => m = n
    /\ \A i, j \in DOMAIN L :
          \A k \in DOMAIN L[i].calls, l \in DOMAIN L[j].calls :
             L[i].calls[k] = L[j].calls[l] => i = j /\ k = l

\* The smallest member of a set with one member.
LEMMA MinOfOne == \A x \in Nat : Min({x}) = x
BY DEF Min

\* What is not a result stays in its place, a result goes behind the call that
\* asks for it (reorderToolResultMessages).
LEMMA PlaceIs ==
    ASSUME NEW S, NEW T, NEW L \in Seq(S), Paired(L, T), NEW n \in DOMAIN L
    PROVE  /\ L[n].role # "tool" => PlaceOf(L, n) = <<n, 0, n>>
           /\ \A i \in DOMAIN L : \A k \in DOMAIN L[i].calls :
                 L[n].role = "tool" /\ L[i].calls[k] = L[n].answers =>
                    PlaceOf(L, n) = <<i, k, n>>
<1>1. ASSUME L[n].role # "tool" PROVE PlaceOf(L, n) = <<n, 0, n>>
  BY <1>1, Zenon DEF PlaceOf, IsResult
<1>2. ASSUME NEW i \in DOMAIN L, NEW k \in DOMAIN L[i].calls,
             L[n].role = "tool", L[i].calls[k] = L[n].answers
      PROVE  PlaceOf(L, n) = <<i, k, n>>
  <2> DEFINE call == L[n].answers
             asked == {l \in DOMAIN L[i].calls : L[i].calls[l] = call}
  <2>0. ASSUME NEW j \in DOMAIN L, NEW l \in DOMAIN L[j].calls,
               L[j].calls[l] = L[n].answers
        PROVE  j = i /\ l = k
    BY <1>2, <2>0 DEF Paired
  <2>1. IsResult(L[n])
    BY <1>2, Zenon DEF IsResult, Paired
  <2>2. L[i].calls # <<>>
    BY <1>2
  <2>3. ~IsResult(L[i])
    BY <2>2, Zenon DEF IsResult, Paired
  <2>4. Asking(L, call) = {i}
    <3>1. i \in Asking(L, call)
      BY <1>2, <2>3, Zenon DEF Asking
    <3>2. ASSUME NEW j \in Asking(L, call) PROVE j = i
      <4>1. PICK l \in DOMAIN L[j].calls : L[j].calls[l] = call
        BY Zenon DEF Asking
      <4>2. j \in DOMAIN L
        BY Zenon DEF Asking
      <4> QED BY <2>0, <4>1, <4>2
    <3> QED BY <3>1, <3>2
  <2>5. asked = {k}
    BY <1>2, <2>0
  <2>6. L[i].calls \in Seq(T)
    BY DEF Paired
  <2>7. i \in Nat /\ k \in Nat
    BY <2>6
  <2>8. Min(Asking(L, call)) = i /\ Min(asked) = k /\ Asking(L, call) # {}
    BY <2>4, <2>5, <2>7, MinOfOne
  <2>9. PlaceOf(L, n) = <<i, Min(asked), n>>
    BY <2>1, <2>8, Zenon DEF PlaceOf
  <2> QED BY <2>8, <2>9, Zenon
<1> QED BY <1>1, <1>2

\* The places of a list of messages are as many as the messages.
LEMMA PlacesTyped ==
    ASSUME NEW S, NEW T, NEW L \in Seq(S), Paired(L, T)
    PROVE  LET P == {PlaceOf(L, n) : n \in DOMAIN L} IN
           /\ P \in SUBSET Triple /\ IsFiniteSet(P)
           /\ Cardinality(P) = Len(L)
           /\ \A n \in DOMAIN L : PlaceOf(L, n)[3] = n
<1> DEFINE P == {PlaceOf(L, n) : n \in DOMAIN L}
           f == [n \in DOMAIN L |-> PlaceOf(L, n)]
<1>0. DOMAIN L = 1..Len(L) /\ Len(L) \in Nat
  OBVIOUS
<1>1. ASSUME NEW n \in DOMAIN L
      PROVE  PlaceOf(L, n) \in Triple /\ PlaceOf(L, n)[3] = n
  <2>1. CASE L[n].role # "tool"
    <3>1. PlaceOf(L, n) = <<n, 0, n>>
      BY <2>1, PlaceIs
    <3> QED BY <1>0, <3>1 DEF Triple
  <2>2. CASE L[n].role = "tool"
    <3>1. PICK i \in DOMAIN L : \E k \in DOMAIN L[i].calls :
                L[i].calls[k] = L[n].answers
      BY <2>2, Zenon DEF Paired
    <3>2. PICK k \in DOMAIN L[i].calls : L[i].calls[k] = L[n].answers
      BY <3>1
    <3>3. PlaceOf(L, n) = <<i, k, n>>
      BY <2>2, <3>2, PlaceIs
    <3>4. L[i].calls \in Seq(T)
      BY DEF Paired
    <3>5. k \in Nat
      BY <3>4
    <3> QED BY <1>0, <3>3, <3>5 DEF Triple
  <2> QED BY <2>1, <2>2
<1>2. f \in Bijection(DOMAIN L, P)
  <2>1. f \in [DOMAIN L -> P]
    OBVIOUS
  <2>2. \A m, n \in DOMAIN L : f[m] = f[n] => m = n
    <3> SUFFICES ASSUME NEW m \in DOMAIN L, NEW n \in DOMAIN L, f[m] = f[n]
                 PROVE  m = n
      OBVIOUS
    <3>1. f[m][3] = m /\ f[n][3] = n
      BY <1>1
    <3> QED BY <3>1, Zenon
  <2>3. \A p \in P : \E n \in DOMAIN L : f[n] = p
    OBVIOUS
  <2> HIDE DEF f, P
  <2> QED BY <2>1, <2>2, <2>3 DEF Bijection, Injection, Surjection, IsInjective
<1>3. IsFiniteSet(DOMAIN L) /\ Cardinality(DOMAIN L) = Len(L)
  BY <1>0, FS_Interval
<1>4. IsFiniteSet(P) /\ Cardinality(P) = Len(L)
  <2> HIDE DEF f, P
  <2> QED BY <1>2, <1>3, FS_Bijection DEF ExistsBijection
<1>5. P \in SUBSET Triple
  BY <1>1
<1> QED BY <1>1, <1>4, <1>5

\* Every place is that of a message, or that of a result behind its call.
LEMMA PlaceShape ==
    ASSUME NEW S, NEW T, NEW L \in Seq(S), Paired(L, T), NEW n \in DOMAIN L
    PROVE  LET p == PlaceOf(L, n) IN
           \/ L[n].role # "tool" /\ p[1] = n /\ p[2] = 0 /\ p[3] = n
           \/ /\ L[n].role = "tool" /\ p[1] \in DOMAIN L /\ p[3] = n
              /\ p[2] \in 1..Len(L[p[1]].calls) /\ L[p[1]].calls \in Seq(T)
              /\ L[p[1]].calls[p[2]] = L[n].answers
<1>1. CASE L[n].role # "tool"
  <2>1. PlaceOf(L, n) = <<n, 0, n>>
    BY <1>1, PlaceIs
  <2> QED BY <1>1, <2>1
<1>2. CASE L[n].role = "tool"
  <2>1. PICK i \in DOMAIN L : \E k \in DOMAIN L[i].calls :
              L[i].calls[k] = L[n].answers
    BY <1>2, Zenon DEF Paired
  <2>2. PICK k \in DOMAIN L[i].calls : L[i].calls[k] = L[n].answers
    BY <2>1
  <2>3. PlaceOf(L, n) = <<i, k, n>>
    BY <1>2, <2>2, PlaceIs
  <2>4. L[i].calls \in Seq(T)
    BY DEF Paired
  <2>5. k \in 1..Len(L[i].calls)
    BY <2>4
  <2> QED BY <1>2, <2>2, <2>3, <2>4, <2>5
<1> QED BY <1>1, <1>2

\* The first two numbers tell a place from all others.
LEMMA PlacesDiffer ==
    ASSUME NEW S, NEW T, NEW L \in Seq(S), Paired(L, T),
           NEW m \in DOMAIN L, NEW n \in DOMAIN L,
           PlaceOf(L, m)[1] = PlaceOf(L, n)[1], PlaceOf(L, m)[2] = PlaceOf(L, n)[2]
    PROVE  m = n
<1> DEFINE p == PlaceOf(L, m)
           q == PlaceOf(L, n)
<1>1. \/ L[m].role # "tool" /\ p[1] = m /\ p[2] = 0
      \/ /\ L[m].role = "tool" /\ p[2] # 0
         /\ L[p[1]].calls[p[2]] = L[m].answers
  BY PlaceShape
<1>2. \/ L[n].role # "tool" /\ q[1] = n /\ q[2] = 0
      \/ /\ L[n].role = "tool" /\ q[2] # 0
         /\ L[q[1]].calls[q[2]] = L[n].answers
  BY PlaceShape
<1>3. p[1] = q[1] /\ p[2] = q[2]
  OBVIOUS
<1> HIDE DEF p, q
<1>4. L[m].role = "tool" /\ L[n].role = "tool" /\ L[m].answers = L[n].answers
        => m = n
  BY Zenon DEF Paired
<1> QED BY <1>1, <1>2, <1>3, <1>4

\* at is how a list of messages was reordered: what it moves it moves behind
\* its call, and everything else keeps its order.
Reorders(at, L) ==
    /\ at \in [DOMAIN L -> DOMAIN L]
    /\ \A n \in DOMAIN L : \E i \in DOMAIN L : at[i] = n
    /\ \A i, j \in DOMAIN L : at[i] = at[j] => i = j
    /\ \A i, j \in DOMAIN L :
          L[at[i]].role # "tool" /\ L[at[j]].role # "tool" /\ at[i] < at[j] => i < j
    /\ \A i \in DOMAIN L : \A k \in DOMAIN L[at[i]].calls :
          /\ i + k \in DOMAIN L /\ L[at[i + k]].role = "tool"
          /\ L[at[i + k]].answers = L[at[i]].calls[k]
    /\ \A i \in DOMAIN L : L[at[i]].role = "tool" =>
          \E j \in DOMAIN L : \E k \in DOMAIN L[at[j]].calls : i = j + k

\* Reordering puts the results of a message right behind it, in the order of
\* its calls, and leaves the order of all other messages alone.
LEMMA Reordered ==
    ASSUME NEW S, NEW T, NEW L \in Seq(S), Paired(L, T)
    PROVE  \E at : /\ Reorders(at, L)
                   /\ reorderToolResultMessages(L) = [k \in DOMAIN L |-> L[at[k]]]
<1> DEFINE P == {PlaceOf(L, n) : n \in DOMAIN L}
           D == 1..Len(L)
<1>0. DOMAIN L = D /\ Len(L) \in Nat
  OBVIOUS
<1>1. /\ P \in SUBSET Triple /\ IsFiniteSet(P) /\ Cardinality(P) = Len(L)
      /\ \A n \in DOMAIN L : PlaceOf(L, n)[3] = n
  BY PlacesTyped
<1>2. PICK pl : /\ Lists(pl, P)
                /\ Arranged(L, P) = [k \in 1..Cardinality(P) |-> L[pl[k][3]]]
  <2> HIDE DEF P
  <2> QED BY <1>1, ArrangedLists
<1>3. /\ pl \in [D -> P]
      /\ \A i, j \in D : i < j <=> Precedes(pl[i], pl[j])
      /\ \A p \in P : \E i \in D : pl[i] = p
  <2> HIDE DEF P
  <2> QED BY <1>1, <1>2 DEF Lists
<1> DEFINE at == [k \in D |-> pl[k][3]]
<1>4. ASSUME NEW i \in D
      PROVE  at[i] \in DOMAIN L /\ pl[i] = PlaceOf(L, at[i]) /\ pl[i] \in Triple
  <2>1. PICK n \in DOMAIN L : pl[i] = PlaceOf(L, n)
    BY <1>3
  <2>2. at[i] = n
    BY <1>1, <2>1
  <2> QED BY <1>1, <1>3, <2>1, <2>2
<1>5. reorderToolResultMessages(L) = [k \in DOMAIN L |-> L[at[k]]]
  <2>1. reorderToolResultMessages(L) = Arranged(L, P)
    BY DEF reorderToolResultMessages
  <2> QED BY <1>0, <1>1, <1>2, <2>1
<1>6. ASSUME NEW n \in DOMAIN L PROVE \E i \in D : at[i] = n /\ pl[i] = PlaceOf(L, n)
  <2>1. PICK i \in D : pl[i] = PlaceOf(L, n)
    BY <1>3
  <2> QED BY <1>1, <2>1
<1>7. ASSUME NEW i \in D, NEW j \in D, pl[i] = pl[j] PROVE i = j
  <2>1. ~Precedes(pl[i], pl[j]) /\ ~Precedes(pl[j], pl[i])
    BY <1>4, <1>7, PrecedesOrders
  <2> QED BY <1>0, <1>3, <2>1
<1>8. ASSUME NEW i \in D, NEW j \in D, at[i] = at[j] PROVE i = j
  BY <1>4, <1>7, <1>8
<1>9. ASSUME NEW i \in D, NEW j \in D, pl[i][1] = pl[j][1], pl[i][2] = pl[j][2]
      PROVE  i = j
  <2>1. at[i] = at[j]
    BY <1>4, <1>9, PlacesDiffer
  <2> QED BY <1>8, <2>1
<1>t. ASSUME NEW i \in D
      PROVE  /\ pl[i][1] \in Nat /\ pl[i][2] \in Nat /\ pl[i][3] \in Nat
  BY <1>4 DEF Triple
<1> HIDE DEF P, D, at
<1>10. ASSUME NEW i \in D, NEW j \in D, L[at[i]].role # "tool",
              L[at[j]].role # "tool", at[i] < at[j]
       PROVE  i < j
  <2>1. pl[i][1] = at[i] /\ pl[j][1] = at[j]
    BY <1>4, <1>10, PlaceShape
  <2>2. Precedes(pl[i], pl[j])
    BY <1>10, <2>1 DEF Precedes
  <2> QED BY <1>3, <2>2
<1>11. ASSUME NEW i \in D, NEW k \in DOMAIN L[at[i]].calls
       PROVE  /\ i + k \in D /\ L[at[i + k]].role = "tool"
              /\ L[at[i + k]].answers = L[at[i]].calls[k]
              /\ pl[i + k][1] = at[i] /\ pl[i + k][2] = k
  <2> DEFINE m == at[i]
             h == [j \in 0..k |-> CHOOSE x \in D : pl[x][1] = m /\ pl[x][2] = j]
  <2>0. m \in DOMAIN L /\ L[m].calls \in Seq(T)
    BY <1>4 DEF Paired
  <2>1. k \in 1..Len(L[m].calls) /\ k \in Nat /\ DOMAIN L[m].calls = 1..Len(L[m].calls)
    BY <1>11, <2>0
  <2>2. L[m].role # "tool"
    <3>1. L[m].calls # <<>>
      BY <2>0, <2>1
    <3> QED BY <2>0, <3>1 DEF Paired
  <2>3. pl[i][1] = m /\ pl[i][2] = 0
    BY <1>4, <2>2, PlaceShape
  <2>4. ASSUME NEW j \in 1..k
        PROVE  \E x \in D : /\ pl[x][1] = m /\ pl[x][2] = j
                            /\ L[at[x]].role = "tool" /\ L[at[x]].answers = L[m].calls[j]
    <3>1. j \in DOMAIN L[m].calls
      BY <2>1
    <3>2. PICK n \in DOMAIN L : L[n].role = "tool" /\ L[n].answers = L[m].calls[j]
      BY <2>0, <3>1 DEF Paired
    <3>3. PlaceOf(L, n) = <<m, j, n>>
      BY <2>0, <3>1, <3>2, PlaceIs
    <3>4. PICK x \in D : at[x] = n /\ pl[x] = PlaceOf(L, n)
      BY <1>6
    <3> QED BY <3>2, <3>3, <3>4
  <2>5. ASSUME NEW j \in 0..k PROVE h[j] \in D /\ pl[h[j]][1] = m /\ pl[h[j]][2] = j
    <3>1. \E x \in D : pl[x][1] = m /\ pl[x][2] = j
      <4>1. j = 0 \/ j \in 1..k
        BY <2>1
      <4> HIDE DEF m
      <4> QED BY <2>3, <2>4, <4>1
    <3> QED BY <3>1
  <2> HIDE DEF m, h
  <2>6. 0 \in 0..k /\ k \in 0..k /\ h[0] = i
    <3>1. 0 \in 0..k /\ k \in 0..k
      BY <2>1
    <3>2. h[0] \in D /\ pl[h[0]][1] = m /\ pl[h[0]][2] = 0
      BY <2>5, <3>1
    <3> QED BY <1>9, <2>3, <3>1, <3>2
  <2>7. ASSUME NEW j \in 0..k, NEW l \in 0..k, j < l PROVE h[j] < h[l]
    <3>1. Precedes(pl[h[j]], pl[h[l]])
      BY <2>5, <2>7 DEF Precedes
    <3>2. h[j] \in D /\ h[l] \in D
      BY <2>5
    <3> QED BY <1>3, <3>1, <3>2
  <2>8. ASSUME NEW x \in h[0]..h[k] PROVE \E j \in 0..k : h[j] = x
    <3>0. h[0] \in D /\ h[k] \in D /\ i \in D
      BY <2>5, <2>6
    <3>1. x \in D
      BY <1>0, <3>0 DEF D
    <3>2. ~(x < i) /\ ~(h[k] < x)
      BY <1>0, <2>6, <3>0, <3>1 DEF D
    <3>3. ~Precedes(pl[x], pl[i]) /\ ~Precedes(pl[h[k]], pl[x])
      BY <1>3, <3>0, <3>1, <3>2
    <3>4. pl[h[k]][1] = m /\ pl[h[k]][2] = k
      BY <2>5, <2>6
    <3>5. /\ pl[x][1] \in Nat /\ pl[x][2] \in Nat
          /\ pl[i][1] \in Nat
      BY <1>t, <3>0, <3>1
    <3>6. pl[x][1] = m /\ pl[x][2] \in 0..k
      BY <2>1, <2>3, <3>3, <3>4, <3>5 DEF Precedes
    <3>7. h[pl[x][2]] = x
      <4>1. /\ h[pl[x][2]] \in D /\ pl[h[pl[x][2]]][1] = m
            /\ pl[h[pl[x][2]]][2] = pl[x][2]
        BY <2>5, <3>6
      <4> QED BY <1>9, <3>1, <3>6, <4>1
    <3> QED BY <3>6, <3>7
  <2>9. h[k] = i + k
    <3>1. \A j \in 0..k : h[j] \in Nat
      BY <1>0, <2>5 DEF D
    <3>2. h \in [0..k -> Nat]
      BY <3>1 DEF h
    <3>3. h[k] = h[0] + k
      BY <2>1, <2>7, <2>8, <3>2, NoGaps
    <3> QED BY <2>6, <3>3
  <2>10. i + k \in D /\ pl[i + k][1] = m /\ pl[i + k][2] = k
    BY <2>5, <2>6, <2>9
  <2>11. PICK x \in D : /\ pl[x][1] = m /\ pl[x][2] = k
                        /\ L[at[x]].role = "tool" /\ L[at[x]].answers = L[m].calls[k]
    BY <2>1, <2>4
  <2>12. x = i + k
    BY <1>9, <2>10, <2>11
  <2> QED BY <2>10, <2>11, <2>12 DEF m
<1>12. ASSUME NEW i \in D, L[at[i]].role = "tool"
       PROVE  \E j \in D : \E k \in DOMAIN L[at[j]].calls : i = j + k
  <2> DEFINE m == pl[i][1]
             k == pl[i][2]
  <2>1. m \in DOMAIN L /\ k \in 1..Len(L[m].calls) /\ L[m].calls \in Seq(T)
    BY <1>4, <1>12, PlaceShape
  <2> HIDE DEF m, k
  <2>2. PICK j \in D : at[j] = m
    BY <1>6, <2>1
  <2>3. k \in DOMAIN L[at[j]].calls
    BY <2>1, <2>2
  <2>4. j + k \in D /\ pl[j + k][1] = m /\ pl[j + k][2] = k
    BY <1>11, <2>2, <2>3
  <2>5. j + k = i
    BY <1>9, <2>4 DEF m, k
  <2> QED BY <2>3, <2>5
<1>13. at \in [D -> D]
  <2>1. \A i \in D : at[i] \in D
    BY <1>0, <1>4
  <2> QED BY <2>1 DEF at
<1>14. Reorders(at, L)
  <2>1. \A n \in D : \E i \in D : at[i] = n
    BY <1>0, <1>6
  <2> QED BY <1>0, <1>8, <1>10, <1>11, <1>12, <1>13, <2>1 DEF Reorders
<1> QED BY <1>5, <1>14

\* A reordered list, and what may be appended to it, is one a provider accepts.
LEMMA ReorderedIsWellFormed ==
    ASSUME NEW S, NEW T, NEW L \in Seq(S), Paired(L, T), NEW at, Reorders(at, L),
           NEW R, NEW M \in Seq(R), Len(L) <= Len(M),
           \A k \in DOMAIN L : M[k] = L[at[k]],
           \A k \in DOMAIN M : k \notin DOMAIN L => M[k].calls = <<>> /\ M[k].role # "tool"
    PROVE  WellFormed(M)
<1>0. /\ DOMAIN L = 1..Len(L) /\ Len(L) \in Nat
      /\ DOMAIN M = 1..Len(M) /\ Len(M) \in Nat /\ DOMAIN L \subseteq DOMAIN M
  OBVIOUS
<1>1. ASSUME NEW i \in DOMAIN M, M[i].calls # <<>> PROVE Answered(M, i)
  <2>1. i \in DOMAIN L /\ M[i] = L[at[i]] /\ at[i] \in DOMAIN L
    BY <1>1 DEF Reorders
  <2> DEFINE calls == L[at[i]].calls
  <2>2. calls \in Seq(T)
    BY <2>1 DEF Paired
  <2> HIDE DEF calls
  <2>3. calls = M[i].calls /\ calls # <<>> /\ Len(calls) \in Nat
        /\ DOMAIN calls = 1..Len(calls)
    BY <1>1, <2>1, <2>2 DEF calls
  <2>4. ASSUME NEW k \in DOMAIN calls
        PROVE  i + k \in DOMAIN L /\ M[i + k].answers = calls[k]
    <3>1. /\ i + k \in DOMAIN L
          /\ L[at[i + k]].answers = L[at[i]].calls[k]
      BY <2>1 DEF Reorders, calls
    <3> QED BY <3>1 DEF calls
  <2>5. i + Len(calls) <= Len(M)
    <3>1. Len(calls) \in DOMAIN calls
      BY <2>2, <2>3
    <3> QED BY <1>0, <2>4, <3>1
  <2>6. {M[i + k].answers : k \in 1..Len(calls)} = {calls[k] : k \in DOMAIN calls}
    <3>1. {M[i + k].answers : k \in DOMAIN calls} = {calls[k] : k \in DOMAIN calls}
      BY <2>4
    <3> QED BY <2>3, <3>1
  <2>7. ToSet(calls) = {calls[k] : k \in DOMAIN calls}
    BY DEF ToSet
  <2> QED BY <2>3, <2>5, <2>6, <2>7 DEF Answered
<1>2. ASSUME NEW i \in DOMAIN M, M[i].role = "tool"
      PROVE  \E j \in 1..(i - 1) : j + Len(M[j].calls) >= i
  <2>1. i \in DOMAIN L /\ L[at[i]].role = "tool"
    BY <1>2
  <2>2. PICK j \in DOMAIN L : \E k \in DOMAIN L[at[j]].calls : i = j + k
    BY <2>1 DEF Reorders
  <2>3. PICK k \in DOMAIN L[at[j]].calls : i = j + k
    BY <2>2
  <2>4. L[at[j]].calls \in Seq(T) /\ M[j] = L[at[j]]
    BY <2>2 DEF Paired, Reorders
  <2>5. k \in 1..Len(M[j].calls) /\ Len(M[j].calls) \in Nat
    BY <2>4
  <2>6. j \in 1..(i - 1) /\ j + Len(M[j].calls) >= i
    BY <1>0, <2>3, <2>5
  <2> QED BY <2>6
<1> QED BY <1>1, <1>2 DEF WellFormed

----------------------------------------------------------------------------
(* From stored chunks to messages.                                         *)

\* f lists the positions N that a filter keeps of s, in order.
Keeps(f, s, N) ==
    /\ f \in [1..Cardinality(N) -> N]
    /\ \A i, j \in 1..Cardinality(N) : i < j <=> f[i] < f[j]
    /\ \A n \in N : \E i \in 1..Cardinality(N) : f[i] = n
    /\ Kept(s, N) = [k \in 1..Cardinality(N) |-> s[f[k]]]

\* Filtering a list keeps its order.
LEMMA KeptInOrder ==
    ASSUME NEW len \in Nat, NEW N \in SUBSET (1..len), NEW s
    PROVE  Cardinality(N) \in Nat /\ \E f : Keeps(f, s, N)
<1> DEFINE P == {<<n, 0, n>> : n \in N}
           b == [n \in N |-> <<n, 0, n>>]
<1>0. N \in SUBSET Nat
  OBVIOUS
<1>1. P \in SUBSET Triple
  BY <1>0 DEF Triple
<1>2. b \in Bijection(N, P)
  <2>1. b \in [N -> P]
    OBVIOUS
  <2>2. \A m, n \in N : b[m] = b[n] => m = n
    OBVIOUS
  <2>3. \A p \in P : \E n \in N : b[n] = p
    OBVIOUS
  <2> HIDE DEF b, P
  <2> QED BY <2>1, <2>2, <2>3 DEF Bijection, Injection, Surjection, IsInjective
<1>3. IsFiniteSet(N)
  <2>1. IsFiniteSet(1..len)
    BY FS_Interval
  <2> QED BY <2>1, FS_Subset
<1>4. IsFiniteSet(P) /\ Cardinality(P) = Cardinality(N)
  <2> HIDE DEF b, P
  <2> QED BY <1>2, <1>3, FS_Bijection DEF ExistsBijection
<1> DEFINE C == Cardinality(N)
<1>5. PICK at : /\ Lists(at, P)
                /\ Arranged(s, P) = [k \in 1..C |-> s[at[k][3]]]
  <2> HIDE DEF P
  <2> QED BY <1>1, <1>4, ArrangedLists
<1>6. C \in Nat
  BY <1>3, FS_CardinalityType
<1> HIDE DEF C
<1> DEFINE f == [k \in 1..C |-> at[k][3]]
<1>7. ASSUME NEW k \in 1..C
      PROVE  at[k] = <<f[k], 0, f[k]>> /\ f[k] \in N
  <2>1. at[k] \in P
    BY <1>4, <1>5 DEF Lists, C
  <2>2. PICK n \in N : at[k] = <<n, 0, n>>
    BY <2>1
  <2> QED BY <2>2
<1>8. ASSUME NEW i \in 1..C, NEW j \in 1..C PROVE i < j <=> f[i] < f[j]
  <2>1. i < j <=> Precedes(at[i], at[j])
    BY <1>4, <1>5 DEF Lists, C
  <2>2. at[i] = <<f[i], 0, f[i]>> /\ at[j] = <<f[j], 0, f[j]>>
    BY <1>7
  <2>3. f[i] \in Nat /\ f[j] \in Nat
    BY <1>0, <1>7
  <2> HIDE DEF f
  <2>4. /\ at[i][1] = f[i] /\ at[i][2] = 0 /\ at[i][3] = f[i]
        /\ at[j][1] = f[j] /\ at[j][2] = 0 /\ at[j][3] = f[j]
    BY <2>2
  <2> QED BY <2>1, <2>3, <2>4 DEF Precedes
<1>9. ASSUME NEW n \in N PROVE \E i \in 1..C : f[i] = n
  <2>1. <<n, 0, n>> \in P
    OBVIOUS
  <2>2. PICK i \in 1..C : at[i] = <<n, 0, n>>
    BY <1>4, <1>5, <2>1 DEF Lists, C
  <2>3. f[i] = n
    BY <2>2
  <2> QED BY <2>3
<1>10. Kept(s, N) = [k \in 1..C |-> s[f[k]]]
  BY <1>5 DEF Kept
<1>11. f \in [1..C -> N]
  BY <1>7
<1> HIDE DEF f
<1> QED BY <1>6, <1>8, <1>9, <1>10, <1>11 DEF C, Keeps

\* Reading stored chunks back loses none and doubles none, and moves chunks
\* among those of one time only.
Reads(f, read, src) ==
    /\ f \in [DOMAIN src -> DOMAIN src]
    /\ \A i, j \in DOMAIN src : f[i] = f[j] => i = j
    /\ \A n \in DOMAIN src : \E i \in DOMAIN src : f[i] = n
    /\ \A i \in DOMAIN src : SameTime(src[f[i]], src[i])
    /\ read = [n \in DOMAIN src |-> src[f[n]]]

\* What the database may return is such a reading (StorageOrders).
LEMMA StorageReads ==
    ASSUME NEW S, NEW src \in Seq(S), NEW read \in StorageOrders(src)
    PROVE  \E f : Reads(f, read, src)
<1> DEFINE D == DOMAIN src
<1>1. PICK f \in [D -> D] :
         /\ \A i, j \in D : f[i] = f[j] => i = j
         /\ \A i \in D : SameTime(src[f[i]], src[i])
         /\ read = [n \in D |-> src[f[n]]]
  BY DEF StorageOrders
<1>2. IsFiniteSet(D) /\ Cardinality(D) = Len(src) /\ Len(src) \in Nat
  <2>1. D = 1..Len(src) /\ Len(src) \in Nat
    OBVIOUS
  <2>2. \A l \in Nat : IsFiniteSet(1..l) /\ Cardinality(1..l) = l
    BY FS_Interval
  <2> HIDE DEF D
  <2> QED BY <2>1, <2>2
<1>3. ASSUME NEW n \in D PROVE \E i \in D : f[i] = n
  <2> SUFFICES ASSUME \A i \in D : f[i] # n PROVE FALSE
    OBVIOUS
  <2> HIDE DEF D
  <2>1. /\ IsFiniteSet(D \ {n})
        /\ Cardinality(D \ {n}) = Cardinality(D) - 1
    BY <1>2, FS_RemoveElement
  <2>2. f \in [D -> D \ {n}]
    OBVIOUS
  <2>3. Cardinality(D \ {n}) < Cardinality(D)
    BY <1>2, <2>1
  <2>4. \E i, j \in D : i # j /\ f[i] = f[j]
    BY <1>2, <2>1, <2>2, <2>3, FS_PigeonHole
  <2> QED BY <1>1, <2>4
<1> QED BY <1>1, <1>3 DEF Reads

\* The messages before they are reordered (buildInitialMessages).
Replayed(chunks) ==
    LET replay == Kept(chunks, {n \in DOMAIN chunks : Replayable(chunks[n])})
    IN  <<SystemMessage("prompt")>>
          \o [n \in DOMAIN replay |-> messageFromChunk(replay[n])]

\* The n-th message of L, but for the prompt, is the chunk at sg[n]; no chunk
\* that is replayed is missing or there twice, and turns keep their order.
Plays(L, sg, src) ==
    /\ L[1] = SystemMessage("prompt")
    /\ \A n \in 2..Len(L) :
          /\ sg[n] \in DOMAIN src /\ Replayable(src[sg[n]])
          /\ L[n] = messageFromChunk(src[sg[n]])
    /\ \A p \in DOMAIN src : Replayable(src[p]) =>
          \E n \in 2..Len(L) : sg[n] = p
    /\ \A m, n \in 2..Len(L) : sg[m] = sg[n] => m = n
    /\ \A m, n \in 2..Len(L) :
          Turn(src[sg[m]]) /\ Turn(src[sg[n]]) /\ sg[m] < sg[n] => m < n

\* Turns are read back in their order: only chunks of one time change places,
\* and one of them at most is a turn.
LEMMA TurnsKeepOrder ==
    ASSUME NEW S, NEW src \in Seq(S), Timed(src), NEW f, NEW read, Reads(f, read, src),
           NEW a \in DOMAIN src, NEW b \in DOMAIN src,
           Turn(src[f[a]]), Turn(src[f[b]]), f[a] < f[b]
    PROVE  a < b
<1> DEFINE m == f[a]
           n == f[b]
<1>0. /\ DOMAIN src \subseteq Nat /\ m \in DOMAIN src /\ n \in DOMAIN src
      /\ m \in Nat /\ n \in Nat /\ a \in Nat /\ b \in Nat
  <2>1. DOMAIN src \subseteq Nat
    OBVIOUS
  <2>2. f \in [DOMAIN src -> DOMAIN src]
    BY DEF Reads
  <2>3. m \in DOMAIN src /\ n \in DOMAIN src
    BY <2>2
  <2> HIDE DEF m, n
  <2> QED BY <2>1, <2>3
<1>1. SameTime(src[m], src[a]) /\ SameTime(src[n], src[b])
  BY DEF Reads
<1>2. ~SameTime(src[m], src[n])
  <2>1. m # n
    BY <1>0
  <2> QED BY <1>0, <2>1 DEF Timed
<1> HIDE DEF m, n
<1>3. a # b
  BY <1>1, <1>2 DEF SameTime
<1>4. ASSUME b < a PROVE FALSE
  <2>t. ASSUME NEW i \in DOMAIN src, NEW j \in DOMAIN src, NEW k \in DOMAIN src,
               i < j, j < k, SameTime(src[i], src[k])
        PROVE  SameTime(src[i], src[j])
    BY <2>t DEF Timed
  <2>s. \A c, d, e : /\ SameTime(c, d) => SameTime(d, c)
                     /\ SameTime(c, d) /\ SameTime(d, e) => SameTime(c, e)
    BY DEF SameTime
  <2>0. m < n
    BY DEF m, n
  <2>1. CASE n < a
    <3>1. SameTime(src[m], src[n])
      BY <1>0, <1>1, <2>0, <2>1, <2>t
    <3> QED BY <1>2, <3>1
  <2>2. CASE a < n
    <3>1. SameTime(src[b], src[n])
      BY <1>1, <2>s
    <3>2. SameTime(src[b], src[a])
      BY <1>0, <1>4, <2>2, <2>t, <3>1
    <3> QED BY <1>1, <1>2, <2>s, <3>1, <3>2
  <2>3. CASE n = a
    BY <1>1, <1>2, <2>3, <2>s
  <2> QED BY <1>0, <2>1, <2>2, <2>3
<1> QED BY <1>0, <1>3, <1>4

\* What is replayed of the chunks read back is the prompt and every replayable
\* chunk once, turns in their order.
LEMMA ReplayedPlays ==
    ASSUME NEW S, NEW src \in Seq(S), Timed(src), NEW read \in StorageOrders(src)
    PROVE  \E R, sg : Replayed(read) \in Seq(R) /\ Len(Replayed(read)) > 0
                      /\ Plays(Replayed(read), sg, src)
<1> DEFINE D == DOMAIN src
           N == {n \in DOMAIN read : Replayable(read[n])}
           C == Cardinality(N)
           L == Replayed(read)
<1>0. D = 1..Len(src) /\ Len(src) \in Nat
  OBVIOUS
<1>1. PICK f : Reads(f, read, src)
  BY StorageReads
<1>2. /\ DOMAIN read = D /\ N \in SUBSET (1..Len(src))
      /\ \A n \in D : read[n] = src[f[n]] /\ f[n] \in D
  BY <1>0, <1>1 DEF Reads
<1>3. PICK v : Keeps(v, read, N)
  <2> HIDE DEF N
  <2> QED BY <1>0, <1>2, KeptInOrder
<1>k. /\ v \in [1..C -> N]
      /\ \A i, j \in 1..C : i < j <=> v[i] < v[j]
      /\ \A n \in N : \E i \in 1..C : v[i] = n
      /\ Kept(read, N) = [k \in 1..C |-> read[v[k]]]
  <2> HIDE DEF N
  <2> QED BY <1>3 DEF Keeps
<1>4. C \in Nat
  BY <1>0, <1>2, KeptInOrder
<1> DEFINE R == {SystemMessage("prompt")} \cup {messageFromChunk(src[p]) : p \in D}
           tail == [k \in 1..C |-> messageFromChunk(src[f[v[k]]])]
           sg == [n \in 2..(C + 1) |-> f[v[n - 1]]]
<1>5. ASSUME NEW k \in 1..C
      PROVE  v[k] \in N /\ v[k] \in D /\ f[v[k]] \in D /\ Replayable(src[f[v[k]]])
             /\ read[v[k]] = src[f[v[k]]]
  BY <1>2, <1>k
<1>6. L = <<SystemMessage("prompt")>> \o tail
  <2>1. Kept(read, N) = [k \in 1..C |-> src[f[v[k]]]]
    BY <1>k, <1>5
  <2>2. L = <<SystemMessage("prompt")>>
              \o [n \in DOMAIN Kept(read, N) |-> messageFromChunk(Kept(read, N)[n])]
    BY DEF Replayed
  <2> HIDE DEF N, L, C
  <2>3. [n \in DOMAIN Kept(read, N) |-> messageFromChunk(Kept(read, N)[n])] = tail
    BY <2>1
  <2> QED BY <2>2, <2>3
<1>7. /\ L \in Seq(R) /\ Len(L) = C + 1 /\ L[1] = SystemMessage("prompt")
      /\ \A n \in 2..(C + 1) : L[n] = messageFromChunk(src[f[v[n - 1]]])
  <2>1. \A k \in 1..C : messageFromChunk(src[f[v[k]]]) \in R
    BY <1>5
  <2>2. SystemMessage("prompt") \in R
    OBVIOUS
  <2>3. \A k \in 1..C : tail[k] = messageFromChunk(src[f[v[k]]])
    OBVIOUS
  <2> HIDE DEF R, N, L, C
  <2>4. tail \in Seq(R) /\ Len(tail) = C
    BY <1>4, <2>1
  <2> HIDE DEF tail
  <2>5. PICK q \in R : q = SystemMessage("prompt")
    BY <2>2
  <2>6. L = <<q>> \o tail
    BY <1>6, <2>5
  <2> QED BY <1>4, <2>3, <2>4, <2>5, <2>6
<1>8. \A n \in 2..(C + 1) : n - 1 \in 1..C /\ sg[n] = f[v[n - 1]]
  BY <1>4
<1> HIDE DEF R, L, C, tail, sg
<1>9. ASSUME NEW n \in 2..Len(L)
      PROVE  /\ sg[n] \in D /\ Replayable(src[sg[n]])
             /\ L[n] = messageFromChunk(src[sg[n]])
  BY <1>5, <1>7, <1>8
<1>10. ASSUME NEW p \in D, Replayable(src[p]) PROVE \E n \in 2..Len(L) : sg[n] = p
  <2>1. PICK i \in D : f[i] = p
    BY <1>1 DEF Reads
  <2>2. i \in N
    BY <1>2, <1>10, <2>1
  <2>3. PICK k \in 1..C : v[k] = i
    BY <1>k, <2>2
  <2>4. k + 1 \in 2..(C + 1) /\ (k + 1) - 1 = k
    BY <1>4
  <2>5. sg[k + 1] = p
    BY <1>8, <2>1, <2>3, <2>4
  <2> QED BY <1>7, <2>4, <2>5
<1>11. ASSUME NEW m \in 2..Len(L), NEW n \in 2..Len(L), sg[m] = sg[n] PROVE m = n
  <2>1. v[m - 1] = v[n - 1] /\ m - 1 \in 1..C /\ n - 1 \in 1..C
    <3>1. m - 1 \in 1..C /\ n - 1 \in 1..C /\ f[v[m - 1]] = f[v[n - 1]]
      BY <1>7, <1>8, <1>11
    <3>2. v[m - 1] \in D /\ v[n - 1] \in D
      BY <1>5, <3>1
    <3>3. \A i, j \in D : f[i] = f[j] => i = j
      BY <1>1, Zenon DEF Reads
    <3> HIDE DEF D
    <3> QED BY <3>1, <3>2, <3>3
  <2>2. v[m - 1] \in Nat
    BY <1>0, <1>5, <2>1
  <2>3. ~(m - 1 < n - 1) /\ ~(n - 1 < m - 1)
    BY <1>k, <2>1, <2>2
  <2> QED BY <1>4, <1>7, <2>3
<1>12. ASSUME NEW m \in 2..Len(L), NEW n \in 2..Len(L),
              Turn(src[sg[m]]), Turn(src[sg[n]]), sg[m] < sg[n]
       PROVE  m < n
  <2>1. /\ m - 1 \in 1..C /\ n - 1 \in 1..C
        /\ sg[m] = f[v[m - 1]] /\ sg[n] = f[v[n - 1]]
        /\ v[m - 1] \in D /\ v[n - 1] \in D
    BY <1>5, <1>7, <1>8
  <2>2. v[m - 1] < v[n - 1]
    BY <1>1, <1>12, <2>1, TurnsKeepOrder
  <2>3. m - 1 < n - 1
    BY <1>k, <2>1, <2>2
  <2> QED BY <1>4, <1>7, <2>3
<1>13. Plays(L, sg, src)
  BY <1>7, <1>9, <1>10, <1>11, <1>12 DEF Plays
<1> QED
  <2>1. L \in Seq(R) /\ Len(L) > 0
    BY <1>4, <1>7
  <2> QED BY <1>13, <2>1 DEF L

\* The tool call ids of stored chunks.
CallIds(chunks) == UNION {ToSet(d.calls) : d \in chunks}

\* A chunk becomes one message; a message with tool calls is the call alone.
LEMMA MessageIs ==
    /\ \A c : /\ messageFromChunk(c).id = c.id
              /\ messageFromChunk(c).role = c.role
              /\ messageFromChunk(c).calls = c.calls
              /\ c.calls = <<>> => messageFromChunk(c).answers = c.answers
    /\ \A x : /\ SystemMessage(x).id = <<x, "added">>
              /\ SystemMessage(x).role = "system"
              /\ SystemMessage(x).calls = <<>>
BY DEF messageFromChunk, SystemMessage

\* What is replayed of whole calls has a result for every call, once, and
\* messages with different ids.
LEMMA PlaysPaired ==
    ASSUME NEW S, NEW src \in Seq(S), Timed(src), Whole(ToSet(src)),
           NEW R, NEW L \in Seq(R), Len(L) > 0, NEW sg, Plays(L, sg, src)
    PROVE  /\ Paired(L, CallIds(ToSet(src)))
           /\ \A m, n \in DOMAIN L : L[m].id = L[n].id => m = n
           /\ \A n \in 2..Len(L) : L[n].id # <<"prompt", "added">>
<1> DEFINE Q == {c \in ToSet(src) : Replayable(c)}
           results == {c \in Q : c.role = "tool"}
           T == CallIds(ToSet(src))
<1>0. DOMAIN L = {1} \cup (2..Len(L)) /\ Len(L) \in Nat /\ 1 \notin 2..Len(L)
  <2>1. DOMAIN L = 1..Len(L) /\ Len(L) \in Nat
    OBVIOUS
  <2>2. \A l \in Nat : l > 0 => 1..l = {1} \cup (2..l) /\ 1 \notin 2..l
    OBVIOUS
  <2> QED BY <2>1, <2>2
<1>1. /\ L[1].id = <<"prompt", "added">> /\ L[1].calls = <<>>
      /\ L[1].role = "system"
  <2>1. L[1] = SystemMessage("prompt")
    BY DEF Plays
  <2> QED BY <2>1, MessageIs
<1> DEFINE chunk == [n \in 2..Len(L) |-> src[sg[n]]]
<1>2. ASSUME NEW n \in 2..Len(L)
      PROVE  /\ chunk[n] \in Q
             /\ L[n].id = chunk[n].id /\ L[n].role = chunk[n].role
             /\ L[n].calls = chunk[n].calls
             /\ chunk[n].calls = <<>> => L[n].answers = chunk[n].answers
  <2>1. /\ sg[n] \in DOMAIN src /\ Replayable(src[sg[n]])
        /\ L[n] = messageFromChunk(src[sg[n]])
    BY DEF Plays
  <2>2. chunk[n] = src[sg[n]] /\ src[sg[n]] \in ToSet(src)
    BY <2>1 DEF ToSet
  <2> HIDE DEF chunk
  <2>3. chunk[n] \in Q
    BY <2>1, <2>2
  <2> QED BY <2>1, <2>2, <2>3, MessageIs
<1>3. ASSUME NEW c \in Q PROVE \E n \in 2..Len(L) : chunk[n] = c
  <2>1. PICK p \in DOMAIN src : c = src[p] /\ Replayable(src[p])
    BY DEF ToSet
  <2>2. PICK n \in 2..Len(L) : sg[n] = p
    BY <2>1 DEF Plays
  <2> QED BY <2>1, <2>2
<1>4. ASSUME NEW m \in 2..Len(L), NEW n \in 2..Len(L), chunk[m] = chunk[n]
      PROVE  m = n
  <2>1. sg[m] \in DOMAIN src /\ sg[n] \in DOMAIN src /\ src[sg[m]] = src[sg[n]]
    BY <1>4 DEF Plays
  <2>2. sg[m] = sg[n]
    BY <2>1 DEF Timed
  <2> QED BY <2>2 DEF Plays
<1>5. /\ \A c, d \in Q : c.id = d.id => c = d
      /\ \A c \in Q : c.id # <<"prompt", "added">>
      /\ \A c \in Q : c.calls \in Seq(T)
  <2>1. /\ \A c, d \in ToSet(src) : c.id = d.id => c = d
        /\ \A c \in ToSet(src) : c.id[2] # "added"
        /\ \A c \in ToSet(src) : c.calls \in Seq(T)
    BY Zenon DEF Whole, CallIds
  <2>2. \A x : x = <<"prompt", "added">> => x[2] = "added"
    OBVIOUS
  <2> HIDE DEF T
  <2>3. \A c \in Q : c \in ToSet(src)
    OBVIOUS
  <2> QED BY <2>1, <2>2, <2>3
<1>6. \A r \in results : /\ r.calls = <<>> /\ r.answers # NoCall
                         /\ \E c \in Q : r.answers \in ToSet(c.calls)
  BY Zenon DEF Whole
<1>7. \A c \in Q : \A k \in DOMAIN c.calls : \E r \in results : r.answers = c.calls[k]
  BY Zenon DEF Whole
<1>8. \A r, s \in results : r.answers = s.answers => r = s
  BY Zenon DEF Whole
<1>9. \A c, d \in Q : \A k \in DOMAIN c.calls, l \in DOMAIN d.calls :
         c.calls[k] = d.calls[l] => c = d /\ k = l
  BY Zenon DEF Whole
<1>r. \A c \in Q : c.role = "tool" <=> c \in results
  OBVIOUS
<1> HIDE DEF Q, results, T, chunk
<1>10. ASSUME NEW m \in DOMAIN L, NEW n \in DOMAIN L, L[m].id = L[n].id PROVE m = n
  <2>3. ASSUME NEW j \in 2..Len(L) PROVE L[j].id # <<"prompt", "added">>
    <3>1. chunk[j] \in Q /\ L[j].id = chunk[j].id
      BY <1>2, Zenon
    <3> QED BY <3>1, <1>5, Zenon
  <2>1. CASE m = 1 \/ n = 1
    BY <1>0, <1>1, <1>10, <2>1, <2>3
  <2>2. CASE m \in 2..Len(L) /\ n \in 2..Len(L)
    BY <1>2, <1>4, <1>5, <1>10, <2>2
  <2> QED BY <1>0, <2>1, <2>2
<1>11. ASSUME NEW n \in DOMAIN L PROVE L[n].calls \in Seq(T)
  <2>1. <<>> \in Seq(T)
    OBVIOUS
  <2> QED BY <1>0, <1>1, <1>2, <1>5, <2>1
<1>12. ASSUME NEW n \in DOMAIN L, L[n].role = "tool"
       PROVE  /\ n \in 2..Len(L) /\ chunk[n] \in results
              /\ L[n].answers = chunk[n].answers
              /\ L[n].answers # NoCall /\ L[n].calls = <<>>
  <2>1. n \in 2..Len(L)
    BY <1>0, <1>1, <1>12
  <2>2. chunk[n] \in Q /\ chunk[n] \in results
    BY <1>2, <1>12, <1>r, <2>1
  <2>3. chunk[n].calls = <<>> /\ chunk[n].answers # NoCall
    BY <1>6, <2>2
  <2> QED BY <1>2, <2>1, <2>2, <2>3
<1>13. ASSUME NEW n \in DOMAIN L, L[n].role = "tool"
       PROVE  \E i \in DOMAIN L : \E k \in DOMAIN L[i].calls : L[i].calls[k] = L[n].answers
  <2>1. PICK c \in Q : L[n].answers \in ToSet(c.calls)
    BY <1>6, <1>12, <1>13
  <2>2. PICK k \in DOMAIN c.calls : L[n].answers = c.calls[k]
    BY <2>1 DEF ToSet
  <2>3. PICK i \in 2..Len(L) : chunk[i] = c
    BY <1>3
  <2>4. L[i].calls = c.calls /\ i \in DOMAIN L
    BY <1>0, <1>2, <2>3
  <2> QED BY <2>2, <2>4
<1>14. ASSUME NEW i \in DOMAIN L, NEW k \in DOMAIN L[i].calls
       PROVE  \E n \in DOMAIN L : L[n].role = "tool" /\ L[n].answers = L[i].calls[k]
  <2>1. i \in 2..Len(L)
    BY <1>0, <1>1
  <2>2. chunk[i] \in Q /\ L[i].calls = chunk[i].calls
    BY <1>2, <2>1
  <2>3. PICK r \in results : r.answers = L[i].calls[k]
    BY <1>7, <2>2
  <2>4. r \in Q /\ r.role = "tool" /\ r.calls = <<>>
    BY <1>6 DEF results
  <2>5. PICK n \in 2..Len(L) : chunk[n] = r
    BY <1>3, <2>4
  <2>6. L[n].role = "tool" /\ L[n].answers = r.answers /\ n \in DOMAIN L
    BY <1>0, <1>2, <2>4, <2>5
  <2> QED BY <2>3, <2>6
<1>15. ASSUME NEW m \in DOMAIN L, NEW n \in DOMAIN L, L[m].role = "tool",
              L[n].role = "tool", L[m].answers = L[n].answers
       PROVE  m = n
  <2>1. chunk[m] = chunk[n]
    BY <1>8, <1>12, <1>15
  <2> QED BY <1>4, <1>12, <1>15, <2>1
<1>16. ASSUME NEW i \in DOMAIN L, NEW j \in DOMAIN L, NEW k \in DOMAIN L[i].calls,
              NEW l \in DOMAIN L[j].calls, L[i].calls[k] = L[j].calls[l]
       PROVE  i = j /\ k = l
  <2>1. i \in 2..Len(L) /\ j \in 2..Len(L)
    BY <1>0, <1>1
  <2>2. chunk[i] = chunk[j] /\ k = l
    <3>1. /\ chunk[i] \in Q /\ L[i].calls = chunk[i].calls
          /\ chunk[j] \in Q /\ L[j].calls = chunk[j].calls
      BY <1>2, <2>1
    <3> QED BY <1>9, <1>16, <3>1
  <2> QED BY <1>4, <2>1, <2>2
<1>17. Paired(L, T)
  BY <1>11, <1>12, <1>13, <1>14, <1>15, <1>16 DEF Paired
<1> QED
  <2>1. ASSUME NEW j \in 2..Len(L) PROVE L[j].id # <<"prompt", "added">>
    <3>1. chunk[j] \in Q /\ L[j].id = chunk[j].id
      BY <1>2, Zenon
    <3> QED BY <3>1, <1>5, Zenon
  <2> QED BY <1>10, <1>17, <2>1, Zenon DEF T

----------------------------------------------------------------------------
(* From messages to the next call's context.                               *)

\* A reordered list of what is replayed, and a message of its own id that may be
\* appended to it, shows every replayable chunk once, and turns in their order.
LEMMA ReorderedReplays ==
    ASSUME NEW S, NEW src \in Seq(S), Timed(src), Whole(ToSet(src)),
           NEW R, NEW L \in Seq(R), Len(L) > 0, NEW sg, Plays(L, sg, src),
           NEW at, Reorders(at, L), NEW Q, NEW M \in Seq(Q),
           Len(L) <= Len(M), Len(M) <= Len(L) + 1,
           \A k \in DOMAIN L : M[k] = L[at[k]],
           \A k \in DOMAIN M : k \notin DOMAIN L =>
              /\ \A n \in DOMAIN L : M[k].id # L[n].id
              /\ \A c \in ToSet(src) : M[k].id # c.id
    PROVE  Replays(M, src)
<1> DEFINE ids == [n \in DOMAIN M |-> M[n].id]
<1>0. /\ DOMAIN L = 1..Len(L) /\ Len(L) \in Nat /\ DOMAIN M = 1..Len(M)
      /\ Len(M) \in Nat
  OBVIOUS
<1>1. /\ DOMAIN L \subseteq DOMAIN M
      /\ \A i, j \in DOMAIN M : i \notin DOMAIN L /\ j \notin DOMAIN L => i = j
      /\ \A n \in DOMAIN L : n = 1 \/ n \in 2..Len(L)
      /\ \A n \in 2..Len(L) : n \in DOMAIN L
  BY <1>0
<1>2. /\ at \in [DOMAIN L -> DOMAIN L]
      /\ \A n \in DOMAIN L : \E i \in DOMAIN L : at[i] = n
      /\ \A i, j \in DOMAIN L : at[i] = at[j] => i = j
      /\ \A i, j \in DOMAIN L :
            L[at[i]].role # "tool" /\ L[at[j]].role # "tool" /\ at[i] < at[j] => i < j
  BY Zenon DEF Reorders
<1>3. \A m, n \in DOMAIN L : L[m].id = L[n].id => m = n
  BY PlaysPaired
<1>4. ASSUME NEW n \in 2..Len(L)
      PROVE  /\ sg[n] \in DOMAIN src /\ src[sg[n]] \in ToSet(src)
             /\ Replayable(src[sg[n]])
             /\ L[n].id = src[sg[n]].id /\ L[n].role = src[sg[n]].role
  <2>1. /\ sg[n] \in DOMAIN src /\ Replayable(src[sg[n]])
        /\ L[n] = messageFromChunk(src[sg[n]])
    BY DEF Plays
  <2> QED BY <2>1, MessageIs DEF ToSet
<1>5. ASSUME NEW c \in ToSet(src) PROVE L[1].id # c.id
  <2>1. L[1].id = <<"prompt", "added">>
    BY MessageIs DEF Plays
  <2>2. c.id[2] # "added"
    BY Zenon DEF Whole
  <2> QED BY <2>1, <2>2
<1>6. ASSUME NEW i \in DOMAIN M, NEW p \in DOMAIN src, M[i].id = src[p].id
      PROVE  /\ i \in DOMAIN L /\ at[i] \in 2..Len(L) /\ sg[at[i]] = p
             /\ Replayable(src[p]) /\ L[at[i]].role = src[p].role
  <2>0. src[p] \in ToSet(src)
    BY DEF ToSet
  <2>1. i \in DOMAIN L
    BY <1>6, <2>0
  <2>2. M[i] = L[at[i]] /\ at[i] \in DOMAIN L
    BY <1>2, <2>1
  <2>3. at[i] \in 2..Len(L)
    BY <1>1, <1>5, <1>6, <2>0, <2>2
  <2>4. src[sg[at[i]]].id = src[p].id /\ src[sg[at[i]]] \in ToSet(src)
    BY <1>4, <1>6, <2>2, <2>3
  <2>5. src[sg[at[i]]] = src[p]
    BY <2>0, <2>4, Zenon DEF Whole
  <2>6. sg[at[i]] = p
    BY <1>4, <2>3, <2>5 DEF Timed
  <2> QED BY <1>4, <2>1, <2>3, <2>6
<1>7. IsInjective(ids)
  <2> SUFFICES ASSUME NEW i \in DOMAIN M, NEW j \in DOMAIN M, M[i].id = M[j].id
               PROVE  i = j
    BY DEF IsInjective
  <2>1. CASE i \in DOMAIN L /\ j \in DOMAIN L
    <3>1. at[i] \in DOMAIN L /\ at[j] \in DOMAIN L /\ L[at[i]].id = L[at[j]].id
      BY <1>2, <2>1
    <3> QED BY <1>2, <1>3, <2>1, <3>1
  <2>2. ASSUME NEW a \in DOMAIN L, NEW b \in DOMAIN M, b \notin DOMAIN L,
               M[a].id = M[b].id
        PROVE  FALSE
    <3>1. at[a] \in DOMAIN L /\ M[a] = L[at[a]]
      BY <1>2
    <3> QED BY <2>2, <3>1
  <2> QED BY <1>1, <2>1, <2>2
<1>8. ASSUME NEW p \in DOMAIN src
      PROVE  Replayable(src[p]) <=> src[p].id \in ToSet(ids)
  <2>1. ASSUME Replayable(src[p]) PROVE src[p].id \in ToSet(ids)
    <3>1. PICK n \in 2..Len(L) : sg[n] = p
      BY <2>1 DEF Plays
    <3>2. PICK i \in DOMAIN L : at[i] = n
      BY <1>1, <1>2
    <3>3. i \in DOMAIN M /\ M[i].id = src[p].id
      BY <1>1, <1>4, <3>1, <3>2
    <3> QED BY <3>3 DEF ToSet
  <2>2. ASSUME src[p].id \in ToSet(ids) PROVE Replayable(src[p])
    <3>1. PICK i \in DOMAIN M : M[i].id = src[p].id
      BY <2>2 DEF ToSet
    <3> QED BY <1>6, <3>1
  <2> QED BY <2>1, <2>2
<1>9. ASSUME NEW m \in DOMAIN src, NEW n \in DOMAIN src, Turn(src[m]), Turn(src[n]),
             m < n, NEW i \in DOMAIN M, NEW j \in DOMAIN M,
             M[i].id = src[m].id, M[j].id = src[n].id
      PROVE  i < j
  <2>1. /\ i \in DOMAIN L /\ at[i] \in 2..Len(L) /\ sg[at[i]] = m
        /\ j \in DOMAIN L /\ at[j] \in 2..Len(L) /\ sg[at[j]] = n
        /\ L[at[i]].role # "tool" /\ L[at[j]].role # "tool"
    BY <1>6, <1>9 DEF Turn
  <2>2. at[i] < at[j]
    BY <1>9, <2>1, Zenon DEF Plays
  <2> QED BY <1>2, <2>1, <2>2
<1> QED BY <1>7, <1>8, <1>9 DEF Replays

\* buildInitialMessages: whatever order storage returns the chunks of one moment
\* in, the next call's context is one an LLM provider accepts and replays every
\* stored turn once and in order, with or without a message about resuming.
THEOREM ReplayIsFaithful ==
    ASSUME NEW S, NEW src \in Seq(S), Timed(src), Whole(ToSet(src)),
           NEW read \in StorageOrders(src),
           NEW r \in {NoResume, "within_window", "after_window"}
    PROVE  /\ WellFormed(buildInitialMessages(read, r))
           /\ Replays(buildInitialMessages(read, r), src)
<1> DEFINE L == Replayed(read)
           N == reorderToolResultMessages(L)
           M == buildInitialMessages(read, r)
           hello == messageFromChunk(Plain(<<"hello", "added">>, "user"))
           T == CallIds(ToSet(src))
<1>1. PICK R, sg : L \in Seq(R) /\ Len(L) > 0 /\ Plays(L, sg, src)
  BY ReplayedPlays
<1>2. M = IF Len(N) = 1 THEN Append(N, hello)
          ELSE IF r = NoResume THEN N ELSE Append(N, SystemMessage(r))
  BY DEF buildInitialMessages, Replayed
<1> HIDE DEF L
<1>3. Paired(L, T) /\ L[1] = SystemMessage("prompt")
      /\ \A n \in 2..Len(L) : L[n].id # <<"prompt", "added">>
  <2>1. L[1] = SystemMessage("prompt")
    BY <1>1 DEF Plays
  <2>2. /\ Paired(L, CallIds(ToSet(src)))
        /\ \A n \in 2..Len(L) : L[n].id # <<"prompt", "added">>
    BY <1>1, PlaysPaired
  <2> QED BY <2>1, <2>2 DEF T
<1>4. PICK at : Reorders(at, L) /\ N = [k \in DOMAIN L |-> L[at[k]]]
  BY <1>1, <1>3, Reordered
<1>5. N \in Seq(R) /\ Len(N) = Len(L) /\ \A k \in DOMAIN L : N[k] = L[at[k]]
  <2>1. DOMAIN L = 1..Len(L) /\ Len(L) \in Nat /\ \A k \in DOMAIN L : L[k] \in R
    BY <1>1
  <2>2. at \in [DOMAIN L -> DOMAIN L]
    BY <1>4 DEF Reorders
  <2> HIDE DEF N
  <2>3. N = [k \in 1..Len(L) |-> L[at[k]]]
    BY <1>4, <2>1
  <2>4. \A k \in 1..Len(L) : L[at[k]] \in R
    BY <2>1, <2>2
  <2> QED BY <2>1, <2>3, <2>4
<1> HIDE DEF N, T
<1> DEFINE Holds == WellFormed(M) /\ Replays(M, src)
<1> SUFFICES Holds
  OBVIOUS
<1> HIDE DEF M
<1>6. ASSUME M = N PROVE Holds
  <2>0. /\ M \in Seq(R) /\ Len(L) <= Len(M) /\ Len(M) <= Len(L) + 1
        /\ \A k \in DOMAIN L : M[k] = L[at[k]]
        /\ \A k \in DOMAIN M : k \in DOMAIN L
    BY <1>1, <1>5, <1>6
  <2>1. WellFormed(M)
    BY <1>1, <1>3, <1>4, <2>0, ReorderedIsWellFormed
  <2>2. Replays(M, src)
    BY <1>1, <1>4, <2>0, ReorderedReplays
  <2> QED BY <2>1, <2>2
<1>7. ASSUME NEW x, M = Append(N, x), x.calls = <<>>, x.role # "tool",
             \A n \in DOMAIN L : x.id # L[n].id,
             \A c \in ToSet(src) : x.id # c.id
      PROVE  Holds
  <2>1. /\ M \in Seq(R \cup {x}) /\ Len(M) = Len(L) + 1
        /\ \A k \in DOMAIN L : M[k] = L[at[k]]
        /\ \A k \in DOMAIN M : k \notin DOMAIN L => M[k] = x
        /\ Len(L) <= Len(M) /\ Len(M) <= Len(L) + 1
    <3>1. /\ N \in Seq(R \cup {x}) /\ x \in R \cup {x} /\ Len(L) \in Nat
          /\ DOMAIN L = 1..Len(L)
      BY <1>1, <1>5
    <3>2. /\ M \in Seq(R \cup {x}) /\ Len(M) = Len(L) + 1
          /\ \A k \in 1..Len(L) : M[k] = N[k]
          /\ M[Len(L) + 1] = x
      BY <1>5, <1>7, <3>1
    <3>3. \A k \in DOMAIN M : k \in 1..Len(L) \/ k = Len(L) + 1
      BY <3>1, <3>2
    <3>4. Len(L) <= Len(M) /\ Len(M) <= Len(L) + 1
      BY <3>1, <3>2
    <3> QED BY <1>5, <3>1, <3>2, <3>3, <3>4
  <2> DEFINE Q == R \cup {x}
  <2> HIDE DEF Q
  <2>q. M \in Seq(Q)
    BY <2>1 DEF Q
  <2>2. WellFormed(M)
    <3>1. \A k \in DOMAIN M :
             k \notin DOMAIN L => M[k].calls = <<>> /\ M[k].role # "tool"
      BY <1>7, <2>1
    <3> QED BY <1>1, <1>3, <1>4, <2>1, <2>q, <3>1, ReorderedIsWellFormed
  <2>3. Replays(M, src)
    <3>1. \A k \in DOMAIN M : k \notin DOMAIN L =>
             /\ \A n \in DOMAIN L : M[k].id # L[n].id
             /\ \A c \in ToSet(src) : M[k].id # c.id
      BY <1>7, <2>1
    <3>2. /\ Len(L) <= Len(M) /\ Len(M) <= Len(L) + 1
          /\ \A k \in DOMAIN L : M[k] = L[at[k]]
      BY <2>1
    <3> QED BY <1>1, <1>4, <2>q, <3>1, <3>2, ReorderedReplays
  <2> QED BY <2>2, <2>3
<1> HIDE DEF Holds
<1>8. CASE Len(N) = 1
  <2>1. hello.calls = <<>> /\ hello.role # "tool" /\ hello.id = <<"hello", "added">>
    BY MessageIs DEF Plain
  <2>2. \A n \in DOMAIN L : hello.id # L[n].id
    <3>1. L[1].id = <<"prompt", "added">>
      BY <1>3, MessageIs
    <3>2. DOMAIN L = 1..1
      <4>1. Len(L) = 1
        BY <1>5, <1>8
      <4>2. DOMAIN L = 1..Len(L)
        BY <1>1
      <4> QED BY <4>1, <4>2
    <3> QED BY <2>1, <3>1, <3>2
  <2>3. \A c \in ToSet(src) : hello.id # c.id
    <3>1. \A c \in ToSet(src) : c.id[2] # "added"
      BY Zenon DEF Whole
    <3>2. hello.id[2] = "added"
      BY <2>1
    <3> QED BY <3>1, <3>2
  <2> QED BY <1>2, <1>7, <1>8, <2>1, <2>2, <2>3
<1>9. CASE Len(N) # 1 /\ r = NoResume
  BY <1>2, <1>6, <1>9
<1>10. CASE Len(N) # 1 /\ r # NoResume
  <2> DEFINE x == SystemMessage(r)
  <2>1. x.calls = <<>> /\ x.role # "tool" /\ x.id = <<r, "added">> /\ r # "prompt"
    BY <1>10, MessageIs
  <2>2. ASSUME NEW c \in ToSet(src) PROVE x.id # c.id
    <3>1. c.id[2] # "added"
      BY Zenon DEF Whole
    <3> QED BY <2>1, <3>1
  <2>3. ASSUME NEW n \in DOMAIN L PROVE x.id # L[n].id
    <3>1. CASE n = 1
      BY <1>3, <2>1, <3>1, MessageIs
    <3>2. CASE n \in 2..Len(L)
      <4>1. PICK p \in DOMAIN src : L[n] = messageFromChunk(src[p])
        BY <1>1, <3>2 DEF Plays
      <4>2. src[p] \in ToSet(src) /\ L[n].id = src[p].id
        BY <4>1, MessageIs DEF ToSet
      <4> QED BY <2>2, <4>2
    <3> QED BY <1>1, <3>1, <3>2
  <2> HIDE DEF x
  <2>4. M = Append(N, x)
    BY <1>2, <1>10 DEF x
  <2> QED BY <1>7, <2>1, <2>2, <2>3, <2>4
<1> QED BY <1>8, <1>9, <1>10 DEF Holds

----------------------------------------------------------------------------
(* Chunks of several calls, and chunks stored more than once.              *)

\* c is a, then b.
Joined(c, a, b) ==
    /\ Len(a) \in Nat
    /\ \A i, j \in DOMAIN a : i \in Nat /\ \A k \in Nat : i < k /\ k < j => k \in DOMAIN a
    /\ \A k \in DOMAIN b : k \in Nat
    /\ \A n \in DOMAIN a : n \in DOMAIN c /\ c[n] = a[n]
    /\ \A k \in DOMAIN b : /\ Len(a) + k \in DOMAIN c /\ Len(a) + k \notin DOMAIN a
                           /\ c[Len(a) + k] = b[k]
    /\ \A n \in DOMAIN c : n \in DOMAIN a \/ \E k \in DOMAIN b : n = Len(a) + k
    /\ \A i \in DOMAIN a, j \in DOMAIN c : i \in Nat /\ j \in Nat /\ (j \notin DOMAIN a => i < j)

\* Two lists end to end.
LEMMA EndToEnd ==
    ASSUME NEW S, NEW a \in Seq(S), NEW b \in Seq(S)
    PROVE  /\ Joined(a \o b, a, b) /\ a \o b \in Seq(S)
           /\ DOMAIN a = 1..Len(a) /\ DOMAIN b = 1..Len(b)
           /\ DOMAIN (a \o b) = 1..(Len(a) + Len(b))
<1> DEFINE c == a \o b
           x == Len(a)
           y == Len(b)
           X == DOMAIN a
           Y == DOMAIN b
           Z == DOMAIN c
<1>1. /\ x \in Nat /\ y \in Nat /\ c \in Seq(S)
      /\ X = 1..x /\ Y = 1..y /\ Z = 1..(x + y)
  OBVIOUS
<1>2. \A n \in X : c[n] = a[n]
  OBVIOUS
<1>3. \A n \in Y : c[x + n] = b[n]
  OBVIOUS
<1> HIDE DEF x, y, X, Y, Z, c
<1>4. ASSUME NEW n \in Z, n \notin X PROVE \E k \in Y : n = x + k
  <2>1. n - x \in Y /\ n = x + (n - x)
    BY <1>1, <1>4
  <2> QED BY <2>1
<1>5. \A n \in X : n \in Z
  BY <1>1
<1>6. \A k \in Y : x + k \in Z /\ x + k \notin X /\ k \in Nat
  BY <1>1
<1>7. \A i \in X, j \in Z : i \in Nat /\ j \in Nat /\ (j \notin X => i < j)
  BY <1>1
<1>8. \A i, j \in X : i \in Nat /\ \A k \in Nat : i < k /\ k < j => k \in X
  BY <1>1
<1>9. Joined(c, a, b)
  BY <1>1, <1>2, <1>3, <1>4, <1>5, <1>6, <1>7, <1>8, Zenon DEF Joined, x, X, Y, Z
<1> QED BY <1>1, <1>9 DEF x, y, X, Y, Z, c

\* Storage returns the chunks of two calls as it returns those of each.
LEMMA OrdersJoin ==
    ASSUME NEW S, NEW a \in Seq(S), NEW b \in Seq(S),
           NEW old \in StorageOrders(a), NEW new \in StorageOrders(b)
    PROVE  old \o new \in StorageOrders(a \o b)
<1> DEFINE x == Len(a)
           X == DOMAIN a
           Y == DOMAIN b
           c == a \o b
           Z == DOMAIN c
           d == old \o new
<1>s. /\ \A n \in X : a[n] \in S
      /\ \A k \in Y : b[k] \in S
  OBVIOUS
<1>j. Joined(c, a, b)
  BY EndToEnd
<1>0. /\ x \in Nat /\ \A k \in Y : k \in Nat
      /\ \A n \in X : n \in Z /\ c[n] = a[n]
      /\ \A k \in Y : x + k \in Z /\ x + k \notin X /\ c[x + k] = b[k]
      /\ \A n \in Z : n \in X \/ \E k \in Y : n = x + k
  BY <1>j, Zenon DEF Joined
<1>t. X = 1..x /\ Y = 1..Len(b) /\ Z = 1..(x + Len(b)) /\ Len(b) \in Nat
  BY EndToEnd
<1>1. PICK f \in [X -> X] : /\ \A i, j \in X : f[i] = f[j] => i = j
                            /\ \A i \in X : SameTime(a[f[i]], a[i])
                            /\ old = [n \in X |-> a[f[n]]]
  BY DEF StorageOrders
<1>2. PICK g \in [Y -> Y] : /\ \A i, j \in Y : g[i] = g[j] => i = j
                            /\ \A i \in Y : SameTime(b[g[i]], b[i])
                            /\ new = [n \in Y |-> b[g[n]]]
  BY DEF StorageOrders
<1> HIDE DEF x, X, Y, c, Z
<1>3. /\ old \in Seq(S) /\ DOMAIN old = X /\ Len(old) = x
      /\ \A n \in X : old[n] = a[f[n]]
      /\ new \in Seq(S) /\ DOMAIN new = Y /\ Len(new) = Len(b)
      /\ \A n \in Y : new[n] = b[g[n]]
  <2>1. \A n \in X : a[f[n]] \in S
    BY <1>s
  <2>2. \A n \in Y : b[g[n]] \in S
    BY <1>s
  <2>3. old \in Seq(S) /\ DOMAIN old = X /\ \A n \in X : old[n] = a[f[n]]
    BY <1>t, <1>0, <1>1, <2>1
  <2>4. new \in Seq(S) /\ DOMAIN new = Y /\ \A n \in Y : new[n] = b[g[n]]
    BY <1>t, <1>2, <2>2
  <2> QED BY <1>t, <1>0, <2>3, <2>4
<1>4. /\ d \in Seq(S) /\ DOMAIN d = Z
      /\ \A n \in X : d[n] = a[f[n]]
      /\ \A k \in Y : d[x + k] = b[g[k]]
  <2>1. Joined(d, old, new) /\ DOMAIN d = 1..(x + Len(b)) /\ d \in Seq(S)
    BY <1>3, EndToEnd
  <2>2. /\ \A n \in DOMAIN old : d[n] = old[n]
        /\ \A k \in DOMAIN new : d[Len(old) + k] = new[k]
    BY <2>1, Zenon DEF Joined
  <2> QED BY <1>t, <1>3, <2>1, <2>2
<1> HIDE DEF d
<1> DEFINE h == [n \in Z |-> IF n \in X THEN f[n] ELSE x + g[n - x]]
<1>5. ASSUME NEW n \in X
      PROVE  /\ h[n] = f[n] /\ h[n] \in X /\ h[n] \in Z
             /\ d[n] = c[h[n]] /\ SameTime(c[h[n]], c[n])
  <2>1. h[n] = f[n] /\ f[n] \in X
    BY <1>0
  <2> HIDE DEF h
  <2>2. c[h[n]] = a[f[n]] /\ c[n] = a[n] /\ h[n] \in Z
    BY <1>0, <2>1
  <2> QED BY <1>1, <1>4, <2>1, <2>2
<1>6. ASSUME NEW k \in Y, NEW n \in Z, n = x + k
      PROVE  /\ h[n] = x + g[k] /\ h[n] \notin X /\ h[n] \in Z
             /\ d[n] = c[h[n]] /\ SameTime(c[h[n]], c[n])
  <2>1. x \in Nat /\ k \in Nat /\ g[k] \in Y /\ n \notin X
    BY <1>0, <1>6
  <2>2. n - x = k
    BY <1>6, <2>1
  <2>3. h[n] = x + g[n - x]
    BY <2>1
  <2> HIDE DEF h
  <2>4. h[n] = x + g[k]
    BY <2>2, <2>3
  <2>5. /\ c[h[n]] = b[g[k]] /\ c[n] = b[k]
        /\ h[n] \notin X /\ h[n] \in Z
    BY <1>0, <1>6, <2>1, <2>4
  <2>6. d[n] = b[g[k]]
    BY <1>4, <1>6
  <2> QED BY <1>2, <2>4, <2>5, <2>6
<1>7. h \in [Z -> Z]
  <2>1. ASSUME NEW n \in Z PROVE h[n] \in Z
    <3> HIDE DEF h
    <3> QED BY <1>0, <1>5, <1>6
  <2> QED BY <2>1
<1> HIDE DEF h
<1>8. ASSUME NEW i \in Z, NEW j \in Z, h[i] = h[j] PROVE i = j
  <2>1. CASE i \in X /\ j \in X
    BY <1>1, <1>5, <1>8, <2>1
  <2>2. CASE i \notin X /\ j \notin X
    <3>1. PICK k \in Y, l \in Y : i = x + k /\ j = x + l
      BY <1>0, <2>2
    <3>2. x + g[k] = x + g[l] /\ g[k] \in Y /\ g[l] \in Y
      BY <1>6, <1>8, <3>1
    <3>3. g[k] = g[l]
      BY <1>0, <3>2
    <3> QED BY <1>2, <3>1, <3>3
  <2>3. ASSUME NEW m \in X, NEW n \in Z, n \notin X, h[m] = h[n]
        PROVE  FALSE
    <3>1. PICK k \in Y : n = x + k
      BY <1>0, <2>3
    <3> QED BY <1>5, <1>6, <2>3, <3>1
  <2> QED BY <1>8, <2>1, <2>2, <2>3
<1>9. \A i \in Z : SameTime(c[h[i]], c[i]) /\ d[i] = c[h[i]]
  <2> SUFFICES ASSUME NEW i \in Z
               PROVE  SameTime(c[h[i]], c[i]) /\ d[i] = c[h[i]]
    OBVIOUS
  <2>1. CASE i \in X
    BY <1>5, <2>1, Zenon
  <2>2. ASSUME NEW k \in Y, i = x + k
        PROVE  SameTime(c[h[i]], c[i]) /\ d[i] = c[h[i]]
    BY <1>6, <2>2, Zenon
  <2> QED BY <1>0, <2>1, <2>2, Zenon
<1>10. d = [n \in Z |-> c[h[n]]]
  <2>1. d = [n \in Z |-> d[n]]
    BY <1>4
  <2> QED BY <1>9, <2>1
<1> QED
  <2>1. h \in {k \in [Z -> Z] : /\ \A i, j \in Z : k[i] = k[j] => i = j
                                /\ \A i \in Z : SameTime(c[k[i]], c[i])}
    BY <1>7, <1>8, <1>9
  <2>2. d \in StorageOrders(c)
    BY <1>10, <2>1, Zenon DEF StorageOrders, Z
  <2> QED BY <2>2 DEF c, d

\* Chunks of two calls share no moment, so that they are listed by their time if
\* those of each call are.
LEMMA TimedJoin ==
    ASSUME NEW S, NEW a \in Seq(S), NEW b \in Seq(S), Timed(a), Timed(b),
           \A c \in ToSet(a), d \in ToSet(b) : ~SameTime(c, d)
    PROVE  /\ a \o b \in Seq(S) /\ ToSet(a \o b) = ToSet(a) \cup ToSet(b)
           /\ Timed(a \o b)
<1> DEFINE x == Len(a)
           c == a \o b
<1>j. Joined(c, a, b) /\ c \in Seq(S)
  BY EndToEnd
<1>0. /\ x \in Nat /\ \A k \in DOMAIN b : k \in Nat
      /\ \A n \in DOMAIN a : n \in DOMAIN c /\ c[n] = a[n]
      /\ \A n \in DOMAIN b : x + n \in DOMAIN c /\ c[x + n] = b[n]
      /\ \A n \in DOMAIN c : n \in DOMAIN a \/ \E k \in DOMAIN b : n = x + k
  BY <1>j, Zenon DEF Joined
<1>o. /\ \A i, j \in DOMAIN a : i \in Nat /\ \A k \in Nat : i < k /\ k < j => k \in DOMAIN a
      /\ \A i \in DOMAIN a, j \in DOMAIN c : i \in Nat /\ j \in Nat /\ (j \notin DOMAIN a => i < j)
  BY <1>j, Zenon DEF Joined
<1> HIDE DEF x, c
<1>1. ASSUME NEW n \in DOMAIN c
      PROVE  \/ n \in DOMAIN a /\ c[n] = a[n] /\ c[n] \in ToSet(a)
             \/ \E k \in DOMAIN b : n = x + k /\ c[n] = b[k] /\ c[n] \in ToSet(b)
  <2>1. /\ \A k \in DOMAIN a : a[k] \in ToSet(a)
        /\ \A k \in DOMAIN b : b[k] \in ToSet(b)
    BY DEF ToSet
  <2>2. CASE n \in DOMAIN a
    BY <1>0, <2>1, <2>2
  <2>3. ASSUME NEW k \in DOMAIN b, n = x + k
        PROVE  c[n] = b[k] /\ c[n] \in ToSet(b)
    BY <1>0, <2>1, <2>3
  <2> QED BY <1>0, <2>2, <2>3
<1>2. ToSet(c) = ToSet(a) \cup ToSet(b)
  <2>1. \A n \in DOMAIN a : n \in DOMAIN c /\ c[n] = a[n]
    BY <1>0
  <2>2. \A k \in DOMAIN b : x + k \in DOMAIN c /\ c[x + k] = b[k]
    BY <1>0
  <2>3. \A d \in ToSet(c) : d \in ToSet(a) \cup ToSet(b)
    BY <1>1 DEF ToSet
  <2>4. \A d \in ToSet(a) : d \in ToSet(c)
    BY <2>1 DEF ToSet
  <2>5. \A d \in ToSet(b) : d \in ToSet(c)
    BY <2>2 DEF ToSet
  <2> QED BY <2>3, <2>4, <2>5
<1>3. ASSUME NEW i \in DOMAIN c, NEW j \in DOMAIN c, SameTime(c[i], c[j])
      PROVE  \/ /\ i \in DOMAIN a /\ j \in DOMAIN a /\ c[i] = a[i] /\ c[j] = a[j]
             \/ \E k, l \in DOMAIN b :
                   i = x + k /\ j = x + l /\ c[i] = b[k] /\ c[j] = b[l]
  <2>1. \A d, e : SameTime(d, e) => SameTime(e, d)
    BY DEF SameTime
  <2>2. ~(c[i] \in ToSet(a) /\ c[j] \in ToSet(b)) /\ ~(c[i] \in ToSet(b) /\ c[j] \in ToSet(a))
    BY <1>3, <2>1
  <2> QED BY <1>1, <2>2
<1>4. ASSUME NEW i \in DOMAIN c, NEW j \in DOMAIN c, c[i] = c[j] PROVE i = j
  <2>1. SameTime(c[i], c[j])
    BY <1>4 DEF SameTime
  <2>2. CASE i \in DOMAIN a /\ j \in DOMAIN a /\ c[i] = a[i] /\ c[j] = a[j]
    BY <1>4, <2>2 DEF Timed
  <2>3. ASSUME NEW k \in DOMAIN b, NEW l \in DOMAIN b,
               i = x + k, j = x + l, c[i] = b[k], c[j] = b[l]
        PROVE  i = j
    BY <1>4, <2>3 DEF Timed
  <2> QED BY <1>3, <2>1, <2>2, <2>3
<1>5. ASSUME NEW i \in DOMAIN c, NEW j \in DOMAIN c, NEW k \in DOMAIN c,
             i < j, j < k, SameTime(c[i], c[k])
      PROVE  SameTime(c[i], c[j])
  <2>1. CASE i \in DOMAIN a /\ k \in DOMAIN a /\ c[i] = a[i] /\ c[k] = a[k]
    <3>1. j \in DOMAIN a /\ c[j] = a[j]
      <4>1. j \in DOMAIN a
        BY <1>o, <1>5, <2>1
      <4> QED BY <1>0, <4>1
    <3> QED BY <1>5, <2>1, <3>1 DEF Timed
  <2>2. ASSUME NEW m \in DOMAIN b, NEW n \in DOMAIN b,
               i = x + m, k = x + n, c[i] = b[m], c[k] = b[n]
        PROVE  SameTime(c[i], c[j])
    <3>1. j \notin DOMAIN a
      <4>1. i \notin DOMAIN a
        BY <1>j, <2>2, Zenon DEF Joined, x
      <4>2. ASSUME j \in DOMAIN a PROVE FALSE
        <5>1. j < i /\ i \in Nat /\ j \in Nat
          BY <1>o, <4>1, <4>2
        <5> QED BY <1>5, <5>1
      <4> QED BY <4>2
    <3>2. PICK l \in DOMAIN b : j = x + l /\ c[j] = b[l]
      BY <1>1, <3>1
    <3>3. m < l /\ l < n
      BY <1>0, <1>5, <2>2, <3>2
    <3> QED BY <1>5, <2>2, <3>2, <3>3, Zenon DEF Timed
  <2> QED BY <1>3, <1>5, <2>1, <2>2
<1>6. ASSUME NEW i \in DOMAIN c, NEW j \in DOMAIN c,
             Turn(c[i]), Turn(c[j]), SameTime(c[i], c[j])
      PROVE  i = j
  <2>1. CASE i \in DOMAIN a /\ j \in DOMAIN a /\ c[i] = a[i] /\ c[j] = a[j]
    BY <1>6, <2>1 DEF Timed
  <2>2. ASSUME NEW k \in DOMAIN b, NEW l \in DOMAIN b,
               i = x + k, j = x + l, c[i] = b[k], c[j] = b[l]
        PROVE  i = j
    BY <1>6, <2>2 DEF Timed
  <2> QED BY <1>3, <1>6, <2>1, <2>2
<1>7. Timed(c)
  BY <1>4, <1>5, <1>6, Zenon DEF Timed
<1> QED BY <1>j, <1>2, <1>7 DEF c

\* Chunks of two calls share no id and no tool call, so that they are whole if
\* those of each call are.
LEMMA WholeJoin ==
    ASSUME NEW A, NEW B, Whole(A), Whole(B),
           \A c \in A, d \in B : /\ c.id # d.id
                                 /\ ToSet(c.calls) \cap ToSet(d.calls) = {}
    PROVE  Whole(A \cup B)
<1> DEFINE U == A \cup B
           P == {c \in A : Replayable(c)}
           Q == {c \in B : Replayable(c)}
           V == {c \in U : Replayable(c)}
           RA == {c \in P : c.role = "tool"}
           RB == {c \in Q : c.role = "tool"}
           RV == {c \in V : c.role = "tool"}
<1>0. V = P \cup Q /\ RV = RA \cup RB /\ P \subseteq A /\ Q \subseteq B
      /\ RA \subseteq P /\ RB \subseteq Q
  OBVIOUS
<1>a. /\ \A c, d \in A : c.id = d.id => c = d
      /\ \A c \in A : c.id[2] # "added"
      /\ \A c \in A : c.calls \in Seq(CallIds(A))
      /\ \A r \in RA : r.calls = <<>> /\ r.answers # NoCall
                       /\ \E c \in P : r.answers \in ToSet(c.calls)
      /\ \A c \in P : \A k \in DOMAIN c.calls : \E r \in RA : r.answers = c.calls[k]
      /\ \A r, s \in RA : r.answers = s.answers => r = s
      /\ \A c, d \in P : \A k \in DOMAIN c.calls, l \in DOMAIN d.calls :
            c.calls[k] = d.calls[l] => c = d /\ k = l
  BY Zenon DEF Whole, CallIds
<1>b. /\ \A c, d \in B : c.id = d.id => c = d
      /\ \A c \in B : c.id[2] # "added"
      /\ \A c \in B : c.calls \in Seq(CallIds(B))
      /\ \A r \in RB : r.calls = <<>> /\ r.answers # NoCall
                       /\ \E c \in Q : r.answers \in ToSet(c.calls)
      /\ \A c \in Q : \A k \in DOMAIN c.calls : \E r \in RB : r.answers = c.calls[k]
      /\ \A r, s \in RB : r.answers = s.answers => r = s
      /\ \A c, d \in Q : \A k \in DOMAIN c.calls, l \in DOMAIN d.calls :
            c.calls[k] = d.calls[l] => c = d /\ k = l
  BY Zenon DEF Whole, CallIds
<1>c. \A c \in A, d \in B : c.id # d.id
  OBVIOUS
<1>d. \A c \in P, d \in Q : \A x : ~(x \in ToSet(c.calls) /\ x \in ToSet(d.calls))
  BY <1>0
<1>e. \A c : \A k \in DOMAIN c.calls : c.calls[k] \in ToSet(c.calls)
  BY DEF ToSet
<1>f. CallIds(A) \subseteq CallIds(U) /\ CallIds(B) \subseteq CallIds(U)
  BY DEF CallIds
<1>g. \A s, X, Y : s \in Seq(X) /\ X \subseteq Y => s \in Seq(Y)
  OBVIOUS
<1>1. \A c, d \in U : c.id = d.id => c = d
  BY <1>a, <1>b, <1>c
<1>2. \A c \in U : c.id[2] # "added"
  BY <1>a, <1>b
<1>3. \A c \in U : c.calls \in Seq(CallIds(U))
  BY <1>a, <1>b, <1>f, <1>g
<1> HIDE DEF P, Q, V, RA, RB, RV, U
<1>4. \A r \in RV : r.calls = <<>> /\ r.answers # NoCall
                    /\ \E c \in V : r.answers \in ToSet(c.calls)
  BY <1>0, <1>a, <1>b
<1>5. \A c \in V : \A k \in DOMAIN c.calls : \E r \in RV : r.answers = c.calls[k]
  BY <1>0, <1>a, <1>b
<1>6. \A r, s \in RV : r.answers = s.answers => r = s
  <2>1. ASSUME NEW r \in RA, NEW s \in RB, r.answers = s.answers PROVE FALSE
    <3>1. PICK c \in P : r.answers \in ToSet(c.calls)
      BY <1>a
    <3>2. PICK d \in Q : s.answers \in ToSet(d.calls)
      BY <1>b
    <3> QED BY <1>d, <2>1, <3>1, <3>2
  <2> QED BY <1>0, <1>a, <1>b, <2>1
<1>7. \A c, d \in V : \A k \in DOMAIN c.calls, l \in DOMAIN d.calls :
            c.calls[k] = d.calls[l] => c = d /\ k = l
  <2>1. ASSUME NEW c \in P, NEW d \in Q, NEW k \in DOMAIN c.calls,
               NEW l \in DOMAIN d.calls, c.calls[k] = d.calls[l]
        PROVE  FALSE
    BY <1>d, <1>e, <2>1
  <2> QED BY <1>0, <1>a, <1>b, <2>1
<1>8. Whole(U)
  BY <1>1, <1>2, <1>3, <1>4, <1>5, <1>6, <1>7, Zenon DEF Whole, CallIds, V, RV
<1> QED BY <1>8 DEF U

\* A set of positions has a first one.
LEMMA FirstOf ==
    ASSUME NEW len \in Nat, NEW N \in SUBSET (1..len), N # {}
    PROVE  \E m \in N : \A n \in N : m <= n
<1>1. Cardinality(N) \in Nat /\ \E f : Keeps(f, <<>>, N)
  BY KeptInOrder
<1>2. PICK f : Keeps(f, <<>>, N)
  BY <1>1
<1> DEFINE C == Cardinality(N)
<1> HIDE DEF C
<1>3. /\ f \in [1..C -> N]
      /\ \A i, j \in 1..C : i < j <=> f[i] < f[j]
      /\ \A n \in N : \E i \in 1..C : f[i] = n
      /\ C \in Nat
  BY <1>1, <1>2, Zenon DEF Keeps, C
<1>4. 1 \in 1..C
  <2>1. PICK i \in 1..C : TRUE
    BY <1>3
  <2> QED BY <1>3, <2>1
<1>5. ASSUME NEW n \in N PROVE f[1] <= n
  <2>1. PICK i \in 1..C : f[i] = n
    BY <1>3
  <2>2. f[1] \in Nat /\ n \in Nat
    <3>1. f[1] \in N /\ n \in N
      BY <1>3, <1>4
    <3>2. \A m \in N : m \in Nat
      OBVIOUS
    <3> QED BY <3>1, <3>2, Zenon
  <2>3. i = 1 \/ 1 < i
    BY <1>3, <2>1
  <2> QED BY <1>3, <1>4, <2>1, <2>2, <2>3
<1> QED BY <1>3, <1>4, <1>5
=============================================================================
