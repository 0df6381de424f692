-------------------------- MODULE MessageLogProofs --------------------------
(***************************************************************************)
(* Proofs about the rows of a channel buffer (MessageLog).                 *)
(*                                                                         *)
(* The invariant grows in four layers: LogInv (the log and the queues),    *)
(* RowsInv (what a row is, and that deletions are kept), TidyInv (what is  *)
(* on the screen when texts differ) and HoleInv (what is not missing).     *)
(* The loops, sorts and folds of a flush and of a page are described by    *)
(* lemmas about one turn each, then about the whole.                       *)
(***************************************************************************)
EXTENDS MessageLog, FiniteSetTheorems, WellFoundedInduction, TLAPS

-----------------------------------------------------------------------------
(* Induction and the least and greatest elements of sets of numbers *)

\* A non-empty set of natural numbers has a least element.
LEMMA LeastElement ==
  ASSUME NEW S \in SUBSET Nat, S # {}
  PROVE  \E k \in S : \A j \in S : k <= j
<1>1. PICK k \in S : \A j \in S : ~(<<j, k>> \in OpToRel(<, Nat))
  <2>1. IsWellFoundedOn(OpToRel(<, Nat), Nat)
    BY NatLessThanWellFounded
  <2>2. S \subseteq Nat
    OBVIOUS
  <2> QED BY <2>1, <2>2, WFMin
<1>2. \A j \in S : ~(j < k)
  BY <1>1 DEF OpToRel
<1> QED BY <1>2

\* Induction, with the property as a set of numbers.
LEMMA SetInduction ==
  ASSUME NEW S \in SUBSET Nat, 0 \in S, \A n \in S : n + 1 \in S
  PROVE  S = Nat
<1> SUFFICES ASSUME Nat \ S # {} PROVE FALSE
  OBVIOUS
<1>1. PICK k \in Nat \ S : \A j \in Nat \ S : k <= j
  <2> DEFINE rest == Nat \ S
  <2>1. rest \in SUBSET Nat /\ rest # {}
    OBVIOUS
  <2> HIDE DEF rest
  <2>2. \E k \in rest : \A j \in rest : k <= j
    BY <2>1, LeastElement
  <2> QED BY <2>2 DEF rest
<1>2. k # 0 /\ k - 1 \in Nat
  BY <1>1
<1>3. k - 1 \in S
  BY <1>1, <1>2
<1>4. (k - 1) + 1 \in S
  BY <1>3
<1> QED BY <1>1, <1>2, <1>4

\* A non-empty set of numbers with an upper bound has a greatest element.
LEMMA GreatestElement ==
  ASSUME NEW n \in Nat, NEW S \in SUBSET (0..n), S # {}
  PROVE  \E k \in S : \A j \in S : j <= k
<1> DEFINE Bounds == {u \in Nat : \A j \in S : j <= u}
<1>1. Bounds \in SUBSET Nat /\ n \in Bounds
  OBVIOUS
<1>2. PICK u \in Bounds : \A v \in Bounds : u <= v
  <2> HIDE DEF Bounds
  <2> QED BY <1>1, LeastElement
<1>3. u \in S
  <2> SUFFICES ASSUME u \notin S PROVE FALSE
    OBVIOUS
  <2>1. \A j \in S : j < u
    BY <1>2
  <2>2. PICK k \in S : TRUE
    OBVIOUS
  <2>3. u \in Nat /\ k \in Nat /\ k < u /\ S \subseteq Nat
    BY <1>2, <2>1
  <2>4. u > 0 /\ u - 1 \in Nat /\ \A j \in S : j <= u - 1
    BY <2>1, <2>3
  <2>5. u - 1 \in Bounds
    BY <2>4
  <2> QED BY <1>2, <2>3, <2>4, <2>5
<1> QED BY <1>2, <1>3

\* First of a set is its least element.
LEMMA FirstIs ==
  ASSUME NEW S \in SUBSET Nat
  PROVE  /\ S = {} => First(S) = 0
         /\ S # {} => First(S) \in S /\ \A j \in S : First(S) <= j
<1>1. S # {} => \E k \in S : \A j \in S : k <= j
  BY LeastElement
<1> QED BY <1>1 DEF First

\* Last of a bounded set is its greatest element.
LEMMA LastIs ==
  ASSUME NEW n \in Nat, NEW S \in SUBSET (0..n)
  PROVE  /\ S = {} => Last(S) = 0
         /\ S # {} => Last(S) \in S /\ \A j \in S : j <= Last(S)
<1>1. S # {} => \E k \in S : \A j \in S : j <= k
  BY GreatestElement
<1> QED BY <1>1 DEF Last

\* An injection of 1..n into itself reaches every number.
LEMMA InjectionIsOnto ==
  ASSUME NEW n \in Nat, NEW f \in [1..n -> 1..n],
         \A i, j \in 1..n : f[i] = f[j] => i = j
  PROVE  \A k \in 1..n : \E i \in 1..n : f[i] = k
<1>1. IsFiniteSet(1..n)
  BY FS_Interval
<1>2. f \in Injection(1..n, 1..n)
  BY DEF Injection, IsInjective
<1>3. f \in Surjection(1..n, 1..n)
  BY <1>1, <1>2, FS_Injection
<1> QED BY <1>3 DEF Surjection

-----------------------------------------------------------------------------
(* Sets of places as sequences *)

\* A set of places in order, and every one of them.
LEMMA AscendingIs ==
  ASSUME NEW n \in Nat, NEW S \in SUBSET (1..n)
  PROVE  /\ Cardinality(S) \in Nat
         /\ Ascending(S) \in [1..Cardinality(S) -> S]
         /\ \A i, j \in 1..Cardinality(S) : i < j => Ascending(S)[i] < Ascending(S)[j]
         /\ \A e \in S : \E i \in 1..Cardinality(S) : Ascending(S)[i] = e
<1> DEFINE m == Cardinality(S)
           Below(e) == {f \in S : f <= e}
           rank == [e \in S |-> Cardinality(Below(e))]
<1>1. IsFiniteSet(S) /\ m \in Nat
  <2>1. IsFiniteSet(1..n)
    BY FS_Interval
  <2> QED BY <2>1, FS_Subset, FS_CardinalityType
<1>2. \A e \in S : IsFiniteSet(Below(e)) /\ Below(e) \in SUBSET S /\ rank[e] \in 1..m
  <2> SUFFICES ASSUME NEW e \in S
               PROVE  IsFiniteSet(Below(e)) /\ Below(e) \in SUBSET S /\ rank[e] \in 1..m
    OBVIOUS
  <2>0. e \in Nat /\ e <= e
    BY S \subseteq Nat
  <2>1. Below(e) \in SUBSET S /\ e \in Below(e)
    BY <2>0
  <2>2. IsFiniteSet(Below(e)) /\ Cardinality(Below(e)) <= m
    BY <1>1, <2>1, FS_Subset
  <2>3. Cardinality(Below(e)) \in Nat /\ Cardinality(Below(e)) # 0
    BY <2>1, <2>2, FS_CardinalityType, FS_EmptySet
  <2> QED BY <1>1, <2>1, <2>2, <2>3
<1>3. \A d, e \in S : d < e => rank[d] < rank[e]
  <2> SUFFICES ASSUME NEW d \in S, NEW e \in S, d < e PROVE rank[d] < rank[e]
    OBVIOUS
  <2> d \in Nat /\ e \in Nat /\ S \subseteq Nat
    OBVIOUS
  <2>0. \A f \in S : f <= d => f <= e
    OBVIOUS
  <2>1. Below(d) \in SUBSET Below(e)
    BY <2>0
  <2>2. e \in Below(e) /\ ~(e <= d)
    OBVIOUS
  <2>5. e \notin Below(d)
    BY <2>2
  <2>3. IsFiniteSet(Below(e)) /\ rank[d] \in Nat /\ rank[e] \in Nat
    BY <1>2
  <2>4. Cardinality(Below(d)) <= Cardinality(Below(e))
        /\ (Cardinality(Below(e)) = Cardinality(Below(d)) => Below(e) = Below(d))
    BY <2>1, <2>3, FS_Subset
  <2> QED BY <2>2, <2>3, <2>4, <2>5
<1>4. \A d, e \in S : rank[d] = rank[e] => d = e
  BY <1>2, <1>3
<1>5. rank \in Injection(S, 1..m)
  <2>1. rank \in [S -> 1..m]
    BY <1>2
  <2> HIDE DEF rank, m
  <2> QED BY <1>4, <2>1 DEF Injection, IsInjective
<1>6. \A i \in 1..m : \E e \in S : rank[e] = i
  <2>1. IsFiniteSet(1..m) /\ Cardinality(1..m) = m
    BY <1>1, FS_Interval
  <2> HIDE DEF rank
  <2>2. rank \in Surjection(S, 1..m)
    BY <1>1, <1>5, <2>1, FS_Injection
  <2> QED BY <2>2 DEF Surjection
<1>7. \A i \in 1..m : Ascending(S)[i] \in S /\ rank[Ascending(S)[i]] = i
  BY <1>6 DEF Ascending
<1>8. Ascending(S) = [i \in 1..m |-> Ascending(S)[i]]
  BY DEF Ascending
<1> HIDE DEF rank, m, Below
<1>9. Ascending(S) \in [1..m -> S]
  BY <1>7, <1>8
<1>10. \A i, j \in 1..m : i < j => Ascending(S)[i] < Ascending(S)[j]
  <2> SUFFICES ASSUME NEW i \in 1..m, NEW j \in 1..m, i < j,
                      ~(Ascending(S)[i] < Ascending(S)[j])
               PROVE  FALSE
    OBVIOUS
  <2> DEFINE d == Ascending(S)[i]
             e == Ascending(S)[j]
  <2>1. d \in S /\ e \in S /\ rank[d] = i /\ rank[e] = j /\ ~(d < e)
    BY <1>7
  <2> HIDE DEF d, e
  <2>2. d \in Nat /\ e \in Nat
    BY <2>1
  <2>3. d = e \/ e < d
    BY <2>1, <2>2
  <2>4. i \in Nat /\ j \in Nat /\ m \in Nat
    BY <1>1 DEF m
  <2> QED BY <1>3, <2>1, <2>3, <2>4
<1>11. \A e \in S : \E i \in 1..m : Ascending(S)[i] = e
  BY <1>2, <1>4, <1>7
<1> QED BY <1>1, <1>9, <1>10, <1>11 DEF m

\* The elements of a sequence at some places: a subsequence.
LEMMA AtIs ==
  ASSUME NEW X, NEW seq \in Seq(X), NEW P \in SUBSET (1..Len(seq))
  PROVE  /\ At(seq, P) \in Seq(X)
         /\ DOMAIN At(seq, P) = 1..Len(At(seq, P))
         /\ \E p \in [DOMAIN At(seq, P) -> P] :
              /\ \A i \in DOMAIN At(seq, P) : At(seq, P)[i] = seq[p[i]]
              /\ \A i, j \in DOMAIN At(seq, P) : i < j => p[i] < p[j]
              /\ \A k \in P : \E i \in DOMAIN At(seq, P) : p[i] = k
<1>0. Len(seq) \in Nat
  OBVIOUS
<1>1. /\ Cardinality(P) \in Nat
      /\ Ascending(P) \in [1..Cardinality(P) -> P]
      /\ \A i, j \in 1..Cardinality(P) : i < j => Ascending(P)[i] < Ascending(P)[j]
      /\ \A e \in P : \E i \in 1..Cardinality(P) : Ascending(P)[i] = e
  BY <1>0, AscendingIs
<1>2. At(seq, P) = [i \in 1..Cardinality(P) |-> seq[Ascending(P)[i]]]
  BY DEF At
<1>3. At(seq, P) \in [1..Cardinality(P) -> X]
  <2>1. \A i \in 1..Cardinality(P) : Ascending(P)[i] \in 1..Len(seq)
    BY <1>1
  <2>2. \A k \in 1..Len(seq) : seq[k] \in X
    OBVIOUS
  <2> QED BY <1>2, <2>1, <2>2
<1>4. At(seq, P) \in Seq(X) /\ Len(At(seq, P)) = Cardinality(P)
  BY <1>1, <1>3
<1>5. DOMAIN At(seq, P) = 1..Cardinality(P)
  BY <1>2
<1> HIDE DEF At
<1>6. \A i \in 1..Cardinality(P) : At(seq, P)[i] = seq[Ascending(P)[i]]
  BY <1>2
<1>7. DOMAIN At(seq, P) = 1..Len(At(seq, P))
  BY <1>4, <1>5
<1> DEFINE D == DOMAIN At(seq, P)
<1>8. \E p \in [D -> P] :
        /\ \A i \in D : At(seq, P)[i] = seq[p[i]]
        /\ \A i, j \in D : i < j => p[i] < p[j]
        /\ \A k \in P : \E i \in D : p[i] = k
  <2>1. D = 1..Cardinality(P)
    BY <1>5
  <2> HIDE DEF D, At
  <2>2. Ascending(P) \in [D -> P]
    BY <1>1, <2>1
  <2> QED BY <1>1, <1>6, <2>1, <2>2
<1> QED BY <1>4, <1>7, <1>8

\* What is left of the optimistic map are entries of it, without the label.
LEMMA WithoutIs ==
  ASSUME NEW X, NEW opts \in Seq(X), NEW l
  PROVE  /\ Without(opts, l) \in Seq(X)
         /\ \A i \in DOMAIN Without(opts, l) :
              /\ \E j \in DOMAIN opts : Without(opts, l)[i] = opts[j]
              /\ Without(opts, l)[i].label # l
         /\ \A j \in DOMAIN opts :
              opts[j].label # l => \E i \in DOMAIN Without(opts, l) : Without(opts, l)[i] = opts[j]
<1> DEFINE P == {k \in DOMAIN opts : opts[k].label # l}
<1>1. P \in SUBSET (1..Len(opts)) /\ DOMAIN opts = 1..Len(opts)
  OBVIOUS
<1>2. Without(opts, l) = At(opts, P)
  BY DEF Without
<1>3. \A k \in P : k \in DOMAIN opts /\ opts[k].label # l
  OBVIOUS
<1>4. \A k \in DOMAIN opts : opts[k].label # l => k \in P
  OBVIOUS
<1> HIDE DEF P
<1>5. /\ At(opts, P) \in Seq(X)
      /\ \E p \in [DOMAIN At(opts, P) -> P] :
           /\ \A i \in DOMAIN At(opts, P) : At(opts, P)[i] = opts[p[i]]
           /\ \A k \in P : \E i \in DOMAIN At(opts, P) : p[i] = k
  BY <1>1, AtIs
<1> QED BY <1>2, <1>3, <1>4, <1>5

\* Sorting permutes the rows, and afterwards no time is before an earlier row's.
LEMMA SortedIs ==
  ASSUME NEW X, NEW rows \in Seq(X), \A k \in DOMAIN rows : rows[k].t \in Nat
  PROVE  /\ Sorted(rows) \in Seq(X) /\ DOMAIN Sorted(rows) = DOMAIN rows
         /\ \E p \in [DOMAIN rows -> DOMAIN rows] :
              /\ \A i \in DOMAIN rows : Sorted(rows)[i] = rows[p[i]]
              /\ \A i, j \in DOMAIN rows : p[i] = p[j] => i = j
              /\ \A k \in DOMAIN rows : \E i \in DOMAIN rows : p[i] = k
         /\ \A i, j \in DOMAIN rows : i < j => Sorted(rows)[i].t <= Sorted(rows)[j].t
<1> DEFINE n == Len(rows)
           Ahead(k) == {j \in 1..n : rows[j].t < rows[k].t \/ (rows[j].t = rows[k].t /\ j <= k)}
           place == [k \in 1..n |-> Place(rows, k)]
           p == [i \in 1..n |-> CHOOSE k \in DOMAIN rows : Place(rows, k) = i]
<1>1. n \in Nat /\ DOMAIN rows = 1..n /\ \A k \in 1..n : rows[k] \in X /\ rows[k].t \in Nat
  OBVIOUS
<1>2. \A k \in 1..n : place[k] = Cardinality(Ahead(k))
  BY <1>1 DEF Place
<1>3. IsFiniteSet(1..n) /\ Cardinality(1..n) = n
  BY <1>1, FS_Interval
<1> HIDE DEF n, place
<1>4. \A k \in 1..n : IsFiniteSet(Ahead(k)) /\ place[k] \in 1..n
  <2> SUFFICES ASSUME NEW k \in 1..n PROVE IsFiniteSet(Ahead(k)) /\ place[k] \in 1..n
    OBVIOUS
  <2>1. Ahead(k) \in SUBSET (1..n)
    OBVIOUS
  <2>2. k \in Ahead(k)
    BY <1>1
  <2>3. IsFiniteSet(Ahead(k)) /\ Cardinality(Ahead(k)) <= n
    BY <1>3, <2>1, FS_Subset
  <2> HIDE DEF Ahead
  <2>4. Cardinality(Ahead(k)) \in Nat /\ Cardinality(Ahead(k)) # 0
    BY <2>2, <2>3, FS_CardinalityType, FS_EmptySet
  <2> QED BY <1>1, <1>2, <2>3, <2>4
<1>5. ASSUME NEW j \in 1..n, NEW k \in 1..n,
             rows[j].t < rows[k].t \/ (rows[j].t = rows[k].t /\ j < k)
      PROVE  place[j] < place[k]
  <2>1. \A i \in 1..n : i \in Ahead(j) => i \in Ahead(k)
    BY <1>1, <1>5
  <2>2. k \in Ahead(k) /\ k \notin Ahead(j)
    BY <1>1, <1>5
  <2>3. Ahead(j) \in SUBSET Ahead(k)
    BY <2>1
  <2> HIDE DEF Ahead
  <2>4. Cardinality(Ahead(j)) <= Cardinality(Ahead(k))
        /\ (Cardinality(Ahead(k)) = Cardinality(Ahead(j)) => Ahead(k) = Ahead(j))
    BY <1>4, <2>3, FS_Subset
  <2>5. Cardinality(Ahead(j)) # Cardinality(Ahead(k))
    BY <2>2, <2>4
  <2>6. Cardinality(Ahead(j)) \in Nat /\ Cardinality(Ahead(k)) \in Nat
    BY <1>4, FS_CardinalityType
  <2> QED BY <1>2, <2>4, <2>5, <2>6
<1>6. \A j, k \in 1..n : place[j] = place[k] => j = k
  <2> SUFFICES ASSUME NEW j \in 1..n, NEW k \in 1..n, place[j] = place[k], j # k PROVE FALSE
    OBVIOUS
  <2>1. rows[j].t \in Nat /\ rows[k].t \in Nat /\ j \in Nat /\ k \in Nat
    BY <1>1
  <2>2. place[j] \in 1..n /\ place[k] \in 1..n
    BY <1>4
  <2>3. CASE rows[j].t < rows[k].t \/ (rows[j].t = rows[k].t /\ j < k)
    BY <1>1, <1>5, <2>2, <2>3
  <2>4. CASE rows[k].t < rows[j].t \/ (rows[k].t = rows[j].t /\ k < j)
    BY <1>1, <1>5, <2>2, <2>4
  <2> QED BY <2>1, <2>3, <2>4
<1>7. \A i \in 1..n : \E k \in 1..n : place[k] = i
  <2>1. place \in [1..n -> 1..n]
    BY <1>1, <1>4 DEF place
  <2> QED BY <1>1, <1>6, <2>1, InjectionIsOnto
<1>8. \A i \in 1..n : p[i] \in 1..n /\ place[p[i]] = i
  BY <1>1, <1>7 DEF place
<1>9. \A i \in 1..n : Sorted(rows)[i] = rows[p[i]]
  BY <1>1 DEF Sorted
<1>10. DOMAIN Sorted(rows) = 1..n
  BY <1>1 DEF Sorted
<1>11. Sorted(rows) \in Seq(X)
  <2>1. Sorted(rows) = [i \in 1..n |-> Sorted(rows)[i]]
    BY <1>1 DEF Sorted
  <2>2. \A i \in 1..n : Sorted(rows)[i] \in X
    BY <1>1, <1>8, <1>9
  <2>3. Sorted(rows) \in [1..n -> X]
    BY <2>1, <2>2
  <2> QED BY <1>1, <2>3
<1>12. p \in [1..n -> 1..n]
  BY <1>8
<1> HIDE DEF p
<1>13. \A i, j \in 1..n : p[i] = p[j] => i = j
  BY <1>8
<1>14. \A k \in 1..n : \E i \in 1..n : p[i] = k
  BY <1>4, <1>6, <1>8
<1>15. \A i, j \in 1..n : i < j => Sorted(rows)[i].t <= Sorted(rows)[j].t
  <2> SUFFICES ASSUME NEW i \in 1..n, NEW j \in 1..n, i < j,
                      ~(rows[p[i]].t <= rows[p[j]].t)
               PROVE  FALSE
    BY <1>9
  <2>1. p[i] \in 1..n /\ p[j] \in 1..n /\ place[p[i]] = i /\ place[p[j]] = j
    BY <1>8
  <2>2. rows[p[j]].t < rows[p[i]].t
    BY <1>1, <2>1
  <2>3. j < i
    BY <1>5, <2>1, <2>2
  <2> QED BY <1>1, <2>3
<1> DEFINE D == DOMAIN rows
<1>16. D = 1..n
  BY <1>1
<1> HIDE DEF D
<1>17. \E q \in [D -> D] :
         /\ \A i \in D : Sorted(rows)[i] = rows[q[i]]
         /\ \A i, j \in D : q[i] = q[j] => i = j
         /\ \A k \in D : \E i \in D : q[i] = k
  <2>1. p \in [D -> D]
    BY <1>12, <1>16
  <2>2. /\ \A i \in D : Sorted(rows)[i] = rows[p[i]]
        /\ \A i, j \in D : p[i] = p[j] => i = j
        /\ \A k \in D : \E i \in D : p[i] = k
    BY <1>9, <1>13, <1>14, <1>16, Zenon
  <2> QED BY <2>1, <2>2
<1>18. /\ DOMAIN Sorted(rows) = D
       /\ \A i, j \in D : i < j => Sorted(rows)[i].t <= Sorted(rows)[j].t
  BY <1>10, <1>15, <1>16
<1> QED BY <1>11, <1>17, <1>18 DEF D

-----------------------------------------------------------------------------
(* Loops *)

\* f is the run of the steps F[1], ..., F[N] from s0.
RunOf(f, N, s0, F) ==
  /\ f = [k \in 0..N |-> f[k]]
  /\ f[0] = s0
  /\ \A k \in 1..N : f[k] = F[k][f[k-1]]

\* A recursion over a number has a run.
LEMMA RunExists ==
  ASSUME NEW N \in Nat, NEW s0, NEW F
  PROVE  \E f : RunOf(f, N, s0, F)
<1> DEFINE S == {n \in Nat : \E f : RunOf(f, n, s0, F)}
<1>1. S \in SUBSET Nat
  OBVIOUS
<1>2. 0 \in S
  <2>1. RunOf([k \in 0..0 |-> s0], 0, s0, F)
    BY DEF RunOf
  <2> QED BY <2>1
<1>3. \A n \in S : n + 1 \in S
  <2> SUFFICES ASSUME NEW n \in S PROVE \E f : RunOf(f, n + 1, s0, F)
    OBVIOUS
  <2>1. n \in Nat
    OBVIOUS
  <2>2. PICK f : RunOf(f, n, s0, F)
    BY <2>1
  <2> DEFINE g == [k \in 0..n+1 |-> IF k = n + 1 THEN F[n+1][f[n]] ELSE f[k]]
  <2>3. g[0] = s0
    BY <2>1, <2>2 DEF RunOf
  <2>4. \A k \in 1..n+1 : g[k] = F[k][g[k-1]]
    <3> SUFFICES ASSUME NEW k \in 1..n+1 PROVE g[k] = F[k][g[k-1]]
      OBVIOUS
    <3>1. CASE k = n + 1
      <4>1. k - 1 = n /\ n \in 0..n+1 /\ n # n + 1
        BY <2>1, <3>1
      <4>2. g[k-1] = f[n]
        BY <4>1
      <4> QED BY <3>1, <4>2
    <3>2. CASE k # n + 1
      <4>1. k \in 1..n /\ k - 1 \in 0..n+1 /\ k - 1 # n + 1 /\ k \in 0..n+1
        BY <2>1, <3>2
      <4>2. g[k] = f[k] /\ g[k-1] = f[k-1]
        BY <3>2, <4>1
      <4> QED BY <2>2, <4>1, <4>2 DEF RunOf
    <3> QED BY <3>1, <3>2
  <2>5. g = [k \in 0..n+1 |-> g[k]]
    OBVIOUS
  <2> HIDE DEF g
  <2>6. RunOf(g, n + 1, s0, F)
    BY <2>3, <2>4, <2>5 DEF RunOf
  <2> QED BY <2>6
<1>4. S = Nat
  <2> HIDE DEF S
  <2> QED BY <1>1, <1>2, <1>3, SetInduction
<1> QED BY <1>4

\* What holds at first and is handed on holds at last.
LEMMA RunKeeps ==
  ASSUME NEW N \in Nat, NEW f, NEW G, f[0] \in G[0],
         \A n \in 1..N : f[n-1] \in G[n-1] => f[n] \in G[n]
  PROVE  \A n \in 0..N : f[n] \in G[n]
<1> DEFINE T == {n \in Nat : n <= N => f[n] \in G[n]}
<1>1. T \in SUBSET Nat /\ 0 \in T
  OBVIOUS
<1>2. \A n \in T : n + 1 \in T
  <2> SUFFICES ASSUME NEW n \in T, n + 1 <= N PROVE f[n+1] \in G[n+1]
    OBVIOUS
  <2>1. n \in Nat /\ n <= N /\ n + 1 \in 1..N /\ (n + 1) - 1 = n
    OBVIOUS
  <2>2. f[n] \in G[n]
    BY <2>1
  <2> QED BY <2>1, <2>2
<1>3. T = Nat
  <2> HIDE DEF T
  <2> QED BY <1>1, <1>2, SetInduction
<1> QED BY <1>3

\* What every message of the batch hands on, the loop of batchAppendMessages
\* ends with.
LEMMA AppendAllRuns ==
  ASSUME NEW s0, NEW rows, NEW G, Len(rows) \in Nat, s0 \in G[0],
         \A n \in 1..Len(rows) : \A s \in G[n-1] : AppendOne(s, rows[n]) \in G[n]
  PROVE  AppendAll(s0, rows) \in G[Len(rows)]
<1> DEFINE N == Len(rows)
           U == UNION {G[n] : n \in 0..N}
           F == [k \in 1..N |-> [s \in U |-> AppendOne(s, rows[k])]]
           after[n \in 0..N] == IF n = 0 THEN s0 ELSE AppendOne(after[n-1], rows[n])
<1>1. N \in Nat /\ \A n \in 1..N : n - 1 \in 0..N /\ n \in 0..N /\ n # 0
  OBVIOUS
<1>2. \A n \in 1..N : \A s \in G[n-1] : F[n][s] = AppendOne(s, rows[n])
  <2> SUFFICES ASSUME NEW n \in 1..N, NEW s \in G[n-1] PROVE F[n][s] = AppendOne(s, rows[n])
    OBVIOUS
  <2>1. s \in U
    BY <1>1
  <2> HIDE DEF U
  <2> QED BY <2>1
<1>3. AppendAll(s0, rows) = after[N]
  BY DEF AppendAll
<1>4. \A n \in 1..N : \A s \in G[n-1] : AppendOne(s, rows[n]) \in G[n]
  OBVIOUS
<1> HIDE DEF N, F, U
<1>5. PICK f : RunOf(f, N, s0, F)
  BY <1>1, RunExists, Zenon
<1>6. /\ f = [n \in 0..N |-> f[n]]
      /\ f[0] = s0 /\ \A n \in 1..N : f[n] = F[n][f[n-1]]
  BY <1>5 DEF RunOf
<1>7. \A n \in 0..N : f[n] \in G[n]
  <2>1. \A n \in 1..N : f[n-1] \in G[n-1] => f[n] \in G[n]
    BY <1>2, <1>4, <1>6
  <2> QED BY <1>1, <1>6, <2>1, RunKeeps
<1>8. \A n \in 1..N : f[n] = AppendOne(f[n-1], rows[n])
  BY <1>1, <1>2, <1>6, <1>7
<1>9. f = [n \in 0..N |-> IF n = 0 THEN s0 ELSE AppendOne(f[n-1], rows[n])]
  <2>1. \A k \in 0..N : k = 0 \/ k \in 1..N
    BY <1>1
  <2>2. \A k \in 0..N : f[k] = IF k = 0 THEN s0 ELSE AppendOne(f[k-1], rows[k])
    BY <1>6, <1>8, <2>1, Zenon
  <2> QED BY <1>6, <2>2
<1>10. after = [n \in 0..N |-> IF n = 0 THEN s0 ELSE AppendOne(after[n-1], rows[n])]
  BY <1>9
<1> HIDE DEF after
<1>11. after[0] = s0 /\ \A n \in 1..N : after[n] = AppendOne(after[n-1], rows[n])
  BY <1>1, <1>10
<1>12. \A n \in 0..N : after[n] \in G[n]
  <2>1. \A n \in 1..N : after[n-1] \in G[n-1] => after[n] \in G[n]
    BY <1>4, <1>11
  <2> QED BY <1>1, <1>11, <2>1, RunKeeps
<1>13. after[N] \in G[N]
  BY <1>1, <1>12
<1> QED BY <1>3, <1>13 DEF N

\* What every message of the page hands on, the loop of prependMessages
\* ends with.
LEMMA ReplaceAllRuns ==
  ASSUME NEW s0, NEW rows, NEW G, Len(rows) \in Nat, s0 \in G[0],
         \A n \in 1..Len(rows) : \A s \in G[n-1] : ReplacePending(s, rows[n]) \in G[n]
  PROVE  ReplaceAll(s0, rows) \in G[Len(rows)]
<1> DEFINE N == Len(rows)
           U == UNION {G[n] : n \in 0..N}
           F == [k \in 1..N |-> [s \in U |-> ReplacePending(s, rows[k])]]
           after[n \in 0..N] == IF n = 0 THEN s0 ELSE ReplacePending(after[n-1], rows[n])
<1>1. N \in Nat /\ \A n \in 1..N : n - 1 \in 0..N /\ n \in 0..N /\ n # 0
  OBVIOUS
<1>2. \A n \in 1..N : \A s \in G[n-1] : F[n][s] = ReplacePending(s, rows[n])
  <2> SUFFICES ASSUME NEW n \in 1..N, NEW s \in G[n-1] PROVE F[n][s] = ReplacePending(s, rows[n])
    OBVIOUS
  <2>1. s \in U
    BY <1>1
  <2> HIDE DEF U
  <2> QED BY <2>1
<1>3. ReplaceAll(s0, rows) = after[N]
  BY DEF ReplaceAll
<1>4. \A n \in 1..N : \A s \in G[n-1] : ReplacePending(s, rows[n]) \in G[n]
  OBVIOUS
<1> HIDE DEF N, F, U
<1>5. PICK f : RunOf(f, N, s0, F)
  BY <1>1, RunExists, Zenon
<1>6. /\ f = [n \in 0..N |-> f[n]]
      /\ f[0] = s0 /\ \A n \in 1..N : f[n] = F[n][f[n-1]]
  BY <1>5 DEF RunOf
<1>7. \A n \in 0..N : f[n] \in G[n]
  <2>1. \A n \in 1..N : f[n-1] \in G[n-1] => f[n] \in G[n]
    BY <1>2, <1>4, <1>6
  <2> QED BY <1>1, <1>6, <2>1, RunKeeps
<1>8. \A n \in 1..N : f[n] = ReplacePending(f[n-1], rows[n])
  BY <1>1, <1>2, <1>6, <1>7
<1>9. f = [n \in 0..N |-> IF n = 0 THEN s0 ELSE ReplacePending(f[n-1], rows[n])]
  <2>1. \A k \in 0..N : k = 0 \/ k \in 1..N
    BY <1>1
  <2>2. \A k \in 0..N : f[k] = IF k = 0 THEN s0 ELSE ReplacePending(f[k-1], rows[k])
    BY <1>6, <1>8, <2>1, Zenon
  <2> QED BY <1>6, <2>2
<1>10. after = [n \in 0..N |-> IF n = 0 THEN s0 ELSE ReplacePending(after[n-1], rows[n])]
  BY <1>9
<1> HIDE DEF after
<1>11. after[0] = s0 /\ \A n \in 1..N : after[n] = ReplacePending(after[n-1], rows[n])
  BY <1>1, <1>10
<1>12. \A n \in 0..N : after[n] \in G[n]
  <2>1. \A n \in 1..N : after[n-1] \in G[n-1] => after[n] \in G[n]
    BY <1>4, <1>11
  <2> QED BY <1>1, <1>11, <2>1, RunKeeps
<1>13. after[N] \in G[N]
  BY <1>1, <1>12
<1> QED BY <1>3, <1>13 DEF N

-----------------------------------------------------------------------------
(* The log, the wire and the requests *)

\* The types of events, of lines on the wire and of requests.
Nicks == {Other, "me", "me_"}
Event == [kind : Kinds \union {"msg", "nick"}, nick : Nicks, body : Nat, label : Nat,
          of : Nat, add : BOOLEAN]
Entry == [label : Nat, body : Nat]
Request == [state : {"none", "asked", "served", "done", "failed"}, rows : SUBSET Nat]

\* The type invariant of the variables that are not rows.
LogTypes ==
  /\ setting \in Settings
  /\ log \in Seq(Event) /\ handled \in Nat /\ Base <= handled /\ handled <= Len(log)
  /\ wire \in Seq(Entry) /\ sends \in Nat /\ sends <= MaxSends
  /\ nick \in OwnNicks
  /\ history \in Request /\ older \in Request

\* What an event of the buffer is: the first ones are other people's messages,
\* an item names an earlier message, a label comes with the user's own text.
EventsSound ==
  \A e \in DOMAIN log :
    /\ e <= Base => log[e].kind = "msg" /\ log[e].nick = Other
    /\ log[e].kind \in Kinds => log[e].of \in 1..(e - 1) /\ log[log[e].of].kind = "msg"
    /\ log[e].label # 0 =>
         /\ log[e].kind = "msg" /\ log[e].nick # Other
         /\ log[e].label <= sends /\ log[e].body = Body(log[e].label)
    /\ log[e].kind = "msg" /\ log[e].nick # Other /\ log[e].label = 0 =>
         log[e].body = Body(MaxSends + 1)
    /\ log[e].kind = "nick" => log[e].nick = "me_" /\ setting.renames

\* A label, and the text from another device, occur once.
EchoesOnce ==
  \A d, e \in DOMAIN log :
    /\ log[d].label = log[e].label => d = e \/ log[e].label = 0
    /\ ~setting.same /\ log[d].body = MaxSends + 1 /\ log[e].body = MaxSends + 1 => d = e

\* A line on its way to the server has not come back.
WireSound ==
  \A i \in DOMAIN wire :
    /\ wire[i].label \in 1..sends /\ wire[i].body = Body(wire[i].label)
    /\ \A e \in DOMAIN log : log[e].label # wire[i].label
    /\ \A j \in DOMAIN wire : wire[i].label = wire[j].label => i = j

\* Nobody has been seen to change the user's nick.
Unrenamed == \A e \in DOMAIN log : log[e].kind # "nick"

\* As long as nobody has, the tab and every message use the first nick.
NickKnown == Unrenamed => nick = "me" /\ \A e \in DOMAIN log : log[e].nick # "me_"

\* What the batcher and the requests hold are events of the log; what is queued
\* live is a message that processIrcEvent has seen.
FetchSound ==
  /\ queue \subseteq Messages(1..handled)
  /\ backfill \subseteq DOMAIN log
  /\ history.rows \subseteq DOMAIN log
  /\ older.rows \subseteq DOMAIN log

\* The inductive invariant of the log, the wire, the batcher and the requests.
LogInv ==
  LogTypes /\ EventsSound /\ EchoesOnce /\ WireSound /\ NickKnown /\ FetchSound

\* The log only grows at its end.
LEMMA LogGrows ==
  ASSUME NEW ev \in Event, log \in Seq(Event), log' = Append(log, ev)
  PROVE  /\ log' \in Seq(Event) /\ Len(log') = Len(log) + 1
         /\ DOMAIN log = 1..Len(log) /\ DOMAIN log' = 1..(Len(log) + 1)
         /\ \A e \in 1..Len(log) : log'[e] = log[e]
         /\ log'[Len(log) + 1] = ev
OBVIOUS

\* The log is a sequence of events.
LEMMA EventsTyped ==
  ASSUME LogInv
  PROVE  /\ DOMAIN log = 1..Len(log) /\ Len(log) \in Nat
         /\ \A e \in DOMAIN log : log[e] \in Event
BY DEF LogInv, LogTypes

\* The nick the server knows is the old one until the user is renamed.
LEMMA ServerNickIs ==
  ASSUME LogInv
  PROVE  ServerNick = (IF Unrenamed THEN "me" ELSE "me_")
<1> DEFINE changes == {e \in DOMAIN log : log[e].kind = "nick"}
<1>1. DOMAIN log = 1..Len(log) /\ Len(log) \in Nat
  BY EventsTyped
<1>2. CASE changes = {}
  BY <1>2 DEF ServerNick, Unrenamed
<1>3. CASE changes # {}
  <2>1. changes \in SUBSET (0..Len(log))
    BY <1>1
  <2> DEFINE m == CHOOSE e \in changes : \A f \in changes : f <= e
  <2>2. m \in changes
    <3> HIDE DEF changes
    <3>1. \E e \in changes : \A f \in changes : f <= e
      BY <1>1, <1>3, <2>1, GreatestElement
    <3> QED BY <3>1
  <2>3. ServerNick = log[m].nick
    BY <1>3 DEF ServerNick
  <2> HIDE DEF m
  <2>4. log[m].nick = "me_" /\ ~Unrenamed
    BY <2>2 DEF LogInv, EventsSound, Unrenamed
  <2> QED BY <2>3, <2>4
<1> QED BY <1>2, <1>3

\* It holds at the start ...
LEMMA LogInit == Init => LogInv
<1> SUFFICES ASSUME Init PROVE LogInv
  OBVIOUS
<1> USE DEF Init
<1>1. Base \in Nat /\ MaxSends \in Nat /\ Settings \subseteq Setting
  BY ConstantsAssumption DEF ConstantsAssumption
<1>2. Message(Other, 0, 0) \in Event
  BY DEF Message, Event, Nicks, Other
<1>3. log \in Seq(Event) /\ Len(log) = Base /\ DOMAIN log = 1..Base
  BY <1>1, <1>2
<1>4. \A e \in DOMAIN log : log[e] = Message(Other, 0, 0)
  BY <1>3
<1>5. LogTypes
  BY <1>1, <1>3 DEF LogTypes, OwnNicks, NoRequest, Request, Entry
<1>6. EventsSound
  BY <1>3, <1>4 DEF EventsSound, Message, Kinds, Other
<1>7. EchoesOnce
  <2>1. MaxSends + 1 # 0
    BY <1>1
  <2> QED BY <1>4, <2>1 DEF EchoesOnce, Message
<1>8. WireSound /\ NickKnown
  BY <1>4 DEF WireSound, NickKnown, Message, Other
<1>9. FetchSound
  BY DEF FetchSound, NoRequest
<1> QED BY <1>5, <1>6, <1>7, <1>8, <1>9 DEF LogInv

\* An event the log can grow by.
NewEvent(ev) ==
  /\ ev \in Event
  /\ ev.kind \in Kinds => ev.of \in DOMAIN log /\ log[ev.of].kind = "msg"
  /\ ev.label # 0 =>
       /\ ev.kind = "msg" /\ ev.nick # Other
       /\ ev.label <= sends /\ ev.body = Body(ev.label)
       /\ \A d \in DOMAIN log : log[d].label # ev.label
  /\ ev.kind = "msg" /\ ev.nick # Other /\ ev.label = 0 => ev.body = Body(MaxSends + 1)
  /\ ev.kind = "nick" => ev.nick = "me_" /\ setting.renames
  /\ ~setting.same /\ ev.body = MaxSends + 1 =>
       \A d \in DOMAIN log : log[d].body # MaxSends + 1
  /\ ev.kind # "nick" /\ Unrenamed => ev.nick # "me_"

\* ... when the log gets a new event ...
LEMMA LogAppends ==
  ASSUME LogInv, NEW ev, NewEvent(ev), log' = Append(log, ev), wire' \in Seq(Entry),
         UNCHANGED <<setting, handled, sends, nick, queue, backfill, history, older>>
  PROVE  LogTypes' /\ EventsSound' /\ EchoesOnce' /\ NickKnown' /\ FetchSound'
<1> DEFINE n == Len(log)
<1>1. /\ ev \in Event /\ log \in Seq(Event) /\ n \in Nat
      /\ LogTypes /\ EventsSound /\ EchoesOnce /\ NickKnown /\ FetchSound
  BY DEF LogInv, LogTypes, NewEvent
<1>2. /\ log' \in Seq(Event) /\ Len(log') = n + 1
      /\ DOMAIN log = 1..n /\ DOMAIN log' = 1..(n + 1)
      /\ \A e \in 1..n : log'[e] = log[e]
      /\ log'[n + 1] = ev
  BY <1>1, LogGrows
<1>3. Base \in Nat /\ Base <= n
  BY <1>1, ConstantsAssumption DEF ConstantsAssumption, LogTypes
<1> HIDE DEF n
<1>4. \A e \in 1..(n + 1) : e \in 1..n \/ e = n + 1
  BY <1>1
<1>5. LogTypes'
  BY <1>1, <1>2, <1>3 DEF LogTypes
<1>6. EventsSound'
  <2> SUFFICES ASSUME NEW e \in DOMAIN log'
               PROVE  /\ e <= Base => log'[e].kind = "msg" /\ log'[e].nick = Other
                      /\ log'[e].kind \in Kinds =>
                           log'[e].of \in 1..(e - 1) /\ log'[log'[e].of].kind = "msg"
                      /\ log'[e].label # 0 =>
                           /\ log'[e].kind = "msg" /\ log'[e].nick # Other
                           /\ log'[e].label <= sends /\ log'[e].body = Body(log'[e].label)
                      /\ log'[e].kind = "msg" /\ log'[e].nick # Other /\ log'[e].label = 0 =>
                           log'[e].body = Body(MaxSends + 1)
                      /\ log'[e].kind = "nick" => log'[e].nick = "me_" /\ setting.renames
    BY DEF EventsSound, Body
  <2>1. CASE e \in 1..n
    <3>1. log'[e] = log[e] /\ e \in DOMAIN log
      BY <1>2, <2>1
    <3>2. log[e].of \in 1..(e - 1) => log'[log[e].of] = log[log[e].of]
      BY <1>1, <1>2, <2>1
    <3> QED BY <1>1, <3>1, <3>2 DEF EventsSound
  <2>2. CASE e = n + 1
    <3>1. log'[e] = ev /\ ~(e <= Base) /\ e - 1 = n
      BY <1>1, <1>2, <1>3, <2>2
    <3>2. \A d \in 1..n : log'[d] = log[d]
      BY <1>2
    <3> QED BY <1>2, <3>1, <3>2 DEF NewEvent
  <2> QED BY <1>2, <1>4, <2>1, <2>2
<1>7. EchoesOnce'
  <2> SUFFICES ASSUME NEW d \in DOMAIN log', NEW e \in DOMAIN log'
               PROVE  /\ log'[d].label = log'[e].label => d = e \/ log'[e].label = 0
                      /\ ~setting.same /\ log'[d].body = MaxSends + 1 /\ log'[e].body = MaxSends + 1
                           => d = e
    BY DEF EchoesOnce
  <2>1. d \in 1..(n + 1) /\ e \in 1..(n + 1)
    BY <1>2
  <2>2. CASE d \in 1..n /\ e \in 1..n
    BY <1>1, <1>2, <2>2 DEF EchoesOnce
  <2>3. CASE d = n + 1 /\ e \in 1..n
    BY <1>2, <2>3 DEF NewEvent
  <2>4. CASE e = n + 1 /\ d \in 1..n
    BY <1>2, <2>4 DEF NewEvent
  <2> QED BY <1>4, <2>1, <2>2, <2>3, <2>4
<1>8. NickKnown'
  <2> SUFFICES ASSUME Unrenamed'
               PROVE  nick = "me" /\ \A e \in DOMAIN log' : log'[e].nick # "me_"
    BY DEF NickKnown
  <2>1. \A e \in 1..n : log[e].kind # "nick"
    BY <1>1, <1>2 DEF Unrenamed
  <2>2. ev.kind # "nick"
    BY <1>1, <1>2 DEF Unrenamed
  <2>3. Unrenamed
    BY <1>2, <2>1 DEF Unrenamed
  <2>4. \A e \in 1..n : log'[e].nick # "me_"
    BY <1>1, <1>2, <2>3 DEF NickKnown
  <2>5. log'[n + 1].nick # "me_"
    BY <1>2, <2>2, <2>3 DEF NewEvent
  <2> QED BY <1>1, <1>2, <1>4, <2>3, <2>4, <2>5 DEF NickKnown
<1>9. FetchSound'
  <2>1. DOMAIN log \subseteq DOMAIN log'
    BY <1>1, <1>2
  <2>2. \A e \in 1..handled : e \in 1..n
    BY <1>1, <1>2 DEF LogTypes, n
  <2>3. Messages(1..handled)' = Messages(1..handled)
    BY <1>2, <2>2 DEF Messages
  <2> QED BY <1>1, <2>1, <2>3 DEF FetchSound
<1> QED BY <1>5, <1>6, <1>7, <1>8, <1>9

\* The setting is one of those considered, and the bounds are numbers.
LEMMA SettingSound ==
  ASSUME LogInv
  PROVE  /\ setting \in Setting /\ setting.sends <= MaxSends /\ setting.sends \in Nat
         /\ Base \in Nat /\ MaxSends \in Nat /\ PageSize \in Nat /\ PageSize # 0
         /\ CacheGap \in Nat /\ CacheGap <= Base
BY ConstantsAssumption DEF ConstantsAssumption, LogInv, LogTypes, Setting

\* What the server appends is a new event: the echo of the oldest line ...
LEMMA EchoIsNew ==
  ASSUME LogInv, ServerEchoes
  PROVE  NewEvent(Message(ServerNick, Head(wire).body, Head(wire).label))
<1> DEFINE ev == Message(ServerNick, Head(wire).body, Head(wire).label)
<1>1. /\ wire # <<>> /\ log' = Append(log, ev) /\ wire' = Tail(wire)
      /\ UNCHANGED <<setting, handled, sends, nick, queue, backfill, history, older>>
  BY DEF ServerEchoes, rowVars, batchVars, fetchVars
<1>2. wire \in Seq(Entry) /\ WireSound /\ sends \in Nat /\ sends <= MaxSends /\ EventsSound
  BY DEF LogInv, LogTypes
<1>3. /\ Head(wire) = wire[1] /\ 1 \in DOMAIN wire /\ wire[1] \in Entry
      /\ wire' \in Seq(Entry)
      /\ \A i \in DOMAIN wire' : i + 1 \in DOMAIN wire /\ wire'[i] = wire[i + 1] /\ i + 1 # 1
  BY <1>1, <1>2
<1>4. wire[1].label \in 1..sends /\ wire[1].body = Body(wire[1].label)
      /\ \A e \in DOMAIN log : log[e].label # wire[1].label
  BY <1>2, <1>3 DEF WireSound
<1>5. ServerNick = IF Unrenamed THEN "me" ELSE "me_"
  BY ServerNickIs
<1>6. /\ ev.kind = "msg" /\ ev.nick = ServerNick /\ ev.body = wire[1].body
      /\ ev.label = wire[1].label
  BY <1>3 DEF Message
<1>7. ev \in Event
  <2>1. wire[1].body \in Nat /\ wire[1].label \in Nat
    BY <1>3 DEF Entry
  <2>2. ServerNick \in Nicks
    BY <1>5 DEF Nicks
  <2> QED BY <1>3, <2>1, <2>2 DEF Event, Message
<1>8. MaxSends \in Nat
  BY SettingSound
<1>9. ~setting.same => ev.body # MaxSends + 1
  BY <1>2, <1>4, <1>6, <1>8 DEF Body
<1>10. NewEvent(ev)
  <2> HIDE DEF ev
  <2>1. ev.label # 0 /\ ev.label <= sends /\ ev.body = Body(ev.label)
    BY <1>4, <1>6
  <2>2. ev.nick # Other /\ (Unrenamed => ev.nick # "me_")
    BY <1>5, <1>6 DEF Other
  <2>3. ev.kind \notin Kinds /\ ev.kind # "nick"
    BY <1>6 DEF Kinds
  <2>4. \A d \in DOMAIN log : log[d].label # ev.label
    BY <1>4, <1>6
  <2> QED BY <1>6, <1>7, <1>9, <2>1, <2>2, <2>3, <2>4 DEF NewEvent
<1> QED BY <1>10

\* ... or somebody's message, a mark, a change of the nick.
LEMMA WrittenIsNew ==
  ASSUME LogInv, SomebodyWrites \/ SomebodyMarks \/ ServerRenames
  PROVE  \E ev : NewEvent(ev) /\ log' = Append(log, ev) /\ ev.label = 0
<1>2. ServerNick = IF Unrenamed THEN "me" ELSE "me_"
  BY ServerNickIs
<1>3. setting \in Setting /\ MaxSends \in Nat /\ DOMAIN log = 1..Len(log) /\ Len(log) \in Nat
  BY SettingSound, EventsTyped
<1>5. \E ev : NewEvent(ev) /\ log' = Append(log, ev) /\ ev.label = 0
  <2>1. CASE log' = Append(log, Message(Other, 0, 0))
    <3>1. NewEvent(Message(Other, 0, 0))
      BY <1>3 DEF NewEvent, Message, Event, Nicks, Other, Kinds
    <3> QED BY <2>1, <3>1 DEF Message
  <2>2. CASE /\ log' = Append(log, Message(ServerNick, Body(MaxSends + 1), 0))
             /\ \A e \in DOMAIN log : log[e].body # MaxSends + 1
    <3>1. ServerNick \in {"me", "me_"} /\ Body(MaxSends + 1) \in Nat
      BY <1>2, <1>3 DEF Body
    <3>2. NewEvent(Message(ServerNick, Body(MaxSends + 1), 0))
      BY <1>2, <2>2, <3>1 DEF NewEvent, Message, Event, Nicks, Other, Kinds
    <3> QED BY <2>2, <3>2 DEF Message
  <2>3. CASE SomebodyMarks
    <3>1. PICK e \in Messages(DOMAIN log), kind \in setting.items, add \in BOOLEAN :
            log' = Append(log, Item(kind, e, add))
      BY <2>3 DEF SomebodyMarks
    <3>2. kind \in Kinds /\ e \in DOMAIN log /\ log[e].kind = "msg" /\ e \in Nat
      BY <1>3, <3>1 DEF Setting, Messages
    <3>3. NewEvent(Item(kind, e, add))
      BY <1>3, <3>2 DEF NewEvent, Item, Event, Nicks, Other, Kinds
    <3> QED BY <3>1, <3>3 DEF Item
  <2>4. CASE ServerRenames
    <3>1. log' = Append(log, NickChange("me_")) /\ setting.renames
      BY <2>4 DEF ServerRenames
    <3>2. NewEvent(NickChange("me_"))
      BY <1>3, <3>1 DEF NewEvent, NickChange, Event, Nicks, Other, Kinds
    <3> QED BY <3>1, <3>2 DEF NickChange
  <2> QED BY <2>1, <2>2, <2>3, <2>4 DEF SomebodyWrites
<1> QED BY <1>5

\* Each of the server's steps appends a new event.
LEMMA LogGrown ==
  ASSUME LogInv, ServerEchoes \/ SomebodyWrites \/ SomebodyMarks \/ ServerRenames
  PROVE  \E ev : NewEvent(ev) /\ log' = Append(log, ev)
<1>1. CASE ServerEchoes
  BY <1>1, EchoIsNew DEF ServerEchoes
<1>2. CASE SomebodyWrites \/ SomebodyMarks \/ ServerRenames
  BY <1>2, WrittenIsNew
<1> QED BY <1>1, <1>2

\* The server takes the oldest line.
LEMMA LogEchoed ==
  ASSUME LogInv, ServerEchoes
  PROVE  LogInv'
<1> DEFINE ev == Message(ServerNick, Head(wire).body, Head(wire).label)
<1>1. /\ wire # <<>> /\ log' = Append(log, ev) /\ wire' = Tail(wire)
      /\ UNCHANGED <<setting, handled, sends, nick, queue, backfill, history, older>>
  BY DEF ServerEchoes, rowVars, batchVars, fetchVars
<1>2. wire \in Seq(Entry) /\ WireSound /\ sends \in Nat /\ sends <= MaxSends /\ EventsSound
  BY DEF LogInv, LogTypes
<1>3. /\ Head(wire) = wire[1] /\ 1 \in DOMAIN wire /\ wire[1] \in Entry
      /\ wire' \in Seq(Entry)
      /\ \A i \in DOMAIN wire' : i + 1 \in DOMAIN wire /\ wire'[i] = wire[i + 1] /\ i + 1 # 1
  BY <1>1, <1>2
<1>6. ev.label = wire[1].label
  BY <1>3 DEF Message
<1>10. NewEvent(ev)
  BY EchoIsNew
<1>7. ev \in Event
  BY <1>10 DEF NewEvent
<1> HIDE DEF ev
<1>11. LogTypes' /\ EventsSound' /\ EchoesOnce' /\ NickKnown' /\ FetchSound'
  BY <1>1, <1>3, <1>10, LogAppends
<1>12. WireSound'
  <2>1. /\ DOMAIN log = 1..Len(log) /\ DOMAIN log' = 1..(Len(log) + 1) /\ Len(log) \in Nat
        /\ \A e \in 1..Len(log) : log'[e] = log[e]
        /\ log'[Len(log) + 1] = ev
    BY <1>1, <1>7, LogGrows DEF LogInv, LogTypes
  <2> SUFFICES ASSUME NEW i \in DOMAIN wire'
               PROVE  /\ wire'[i].label \in 1..sends /\ wire'[i].body = Body(wire'[i].label)
                      /\ \A e \in DOMAIN log' : log'[e].label # wire'[i].label
                      /\ \A j \in DOMAIN wire' : wire'[i].label = wire'[j].label => i = j
    BY <1>1 DEF WireSound, Body
  <2>2. wire'[i] = wire[i + 1] /\ i + 1 \in DOMAIN wire /\ i + 1 # 1
    BY <1>3
  <2>3. wire[i + 1].label # wire[1].label
    BY <1>2, <1>3, <2>2 DEF WireSound
  <2>4. \A e \in DOMAIN log' : log'[e].label # wire'[i].label
    <3> SUFFICES ASSUME NEW e \in DOMAIN log' PROVE log'[e].label # wire'[i].label
      OBVIOUS
    <3>1. CASE e \in 1..Len(log)
      BY <1>2, <2>1, <2>2, <3>1 DEF WireSound
    <3>2. CASE e = Len(log) + 1
      BY <1>6, <2>1, <2>2, <2>3, <3>2
    <3> QED BY <2>1, <3>1, <3>2
  <2>5. \A j \in DOMAIN wire' : wire'[i].label = wire'[j].label => i = j
    <3> SUFFICES ASSUME NEW j \in DOMAIN wire', wire'[i].label = wire'[j].label PROVE i = j
      OBVIOUS
    <3>1. wire'[j] = wire[j + 1] /\ j + 1 \in DOMAIN wire
      BY <1>3
    <3>2. i + 1 = j + 1
      BY <1>2, <2>2, <3>1 DEF WireSound
    <3>3. i \in Nat /\ j \in Nat
      BY <1>3
    <3> QED BY <3>2, <3>3
  <2> QED BY <1>2, <2>2, <2>4, <2>5 DEF WireSound
<1> QED BY <1>11, <1>12 DEF LogInv

\* The other three events.
LEMMA LogWritten ==
  ASSUME LogInv, SomebodyWrites \/ SomebodyMarks \/ ServerRenames
  PROVE  LogInv'
<1>1. UNCHANGED <<setting, handled, wire, sends, nick, queue, backfill, history, older>>
  BY DEF SomebodyWrites, SomebodyMarks, ServerRenames, rowVars, batchVars, fetchVars
<1>3. DOMAIN log = 1..Len(log) /\ Len(log) \in Nat
  BY EventsTyped
<1>4. wire \in Seq(Entry) /\ WireSound /\ sends \in Nat /\ sends <= MaxSends
  BY DEF LogInv, LogTypes
<1>6. PICK ev : NewEvent(ev) /\ log' = Append(log, ev) /\ ev.label = 0
  BY WrittenIsNew
<1>7. LogTypes' /\ EventsSound' /\ EchoesOnce' /\ NickKnown' /\ FetchSound'
  BY <1>1, <1>4, <1>6, LogAppends
<1>8. WireSound'
  <2>1. /\ DOMAIN log' = 1..(Len(log) + 1)
        /\ \A e \in 1..Len(log) : log'[e] = log[e]
        /\ log'[Len(log) + 1] = ev
    BY <1>6, LogGrows DEF LogInv, LogTypes, NewEvent
  <2>2. \A e \in DOMAIN log' : e \in 1..Len(log) \/ e = Len(log) + 1
    BY <1>3, <2>1
  <2>3. \A e \in DOMAIN log' : log'[e].label \in {0} \union {log[d].label : d \in DOMAIN log}
    BY <1>3, <1>6, <2>1, <2>2
  <2>4. \A i \in DOMAIN wire, e \in DOMAIN log' : log'[e].label # wire[i].label
    <3> SUFFICES ASSUME NEW i \in DOMAIN wire, NEW e \in DOMAIN log' PROVE log'[e].label # wire[i].label
      OBVIOUS
    <3>1. wire[i].label # 0 /\ \A d \in DOMAIN log : log[d].label # wire[i].label
      BY <1>4 DEF WireSound
    <3> QED BY <2>3, <3>1
  <2> QED BY <1>1, <1>4, <2>4 DEF WireSound, Body
<1> QED BY <1>7, <1>8 DEF LogInv

\* The user writes a line.
LEMMA LogSent ==
  ASSUME LogInv, SendPlainLine
  PROVE  LogInv'
<1> DEFINE entry == [label |-> sends + 1, body |-> Body(sends + 1)]
<1>1. /\ sends < setting.sends /\ sends' = sends + 1 /\ wire' = Append(wire, entry)
      /\ UNCHANGED <<setting, log, handled, nick, queue, backfill, history, older>>
  BY DEF SendPlainLine, batchVars, fetchVars
<1>2. setting.sends <= MaxSends /\ MaxSends \in Nat /\ setting.sends \in Nat
  BY SettingSound
<1>3. LogTypes /\ EventsSound /\ EchoesOnce /\ NickKnown /\ FetchSound /\ WireSound
      /\ sends \in Nat /\ wire \in Seq(Entry)
  BY DEF LogInv, LogTypes
<1>4. entry \in Entry /\ entry.label = sends + 1 /\ entry.body = Body(sends + 1)
  BY <1>3 DEF Entry, Body
<1> HIDE DEF entry
<1>5. /\ wire' \in Seq(Entry) /\ DOMAIN wire = 1..Len(wire) /\ DOMAIN wire' = 1..(Len(wire) + 1)
      /\ \A i \in 1..Len(wire) : wire'[i] = wire[i]
      /\ wire'[Len(wire) + 1] = entry /\ Len(wire) \in Nat
  BY <1>1, <1>3, <1>4
<1>6. LogTypes'
  BY <1>1, <1>2, <1>3, <1>5 DEF LogTypes
<1>7. EventsSound'
  <2>1. \A e \in DOMAIN log : log[e].label \in Nat
    BY EventsTyped DEF Event
  <2>2. \A e \in DOMAIN log : log[e].label <= sends => log[e].label <= sends'
    BY <1>1, <1>3, <2>1
  <2> QED BY <1>1, <1>3, <2>2 DEF EventsSound, Body
<1>8. EchoesOnce' /\ NickKnown' /\ FetchSound'
  BY <1>1, <1>3 DEF EchoesOnce, NickKnown, Unrenamed, FetchSound, Messages
<1>9. WireSound'
  <2>1. \A e \in DOMAIN log : log[e].label # sends + 1
    BY <1>3, EventsTyped DEF EventsSound, Event
  <2>2. \A i \in 1..Len(wire) : wire[i].label \in 1..sends /\ wire[i].label # sends + 1
    BY <1>3, <1>5 DEF WireSound
  <2> SUFFICES ASSUME NEW i \in DOMAIN wire'
               PROVE  /\ wire'[i].label \in 1..sends' /\ wire'[i].body = Body(wire'[i].label)
                      /\ \A e \in DOMAIN log : log[e].label # wire'[i].label
                      /\ \A j \in DOMAIN wire' : wire'[i].label = wire'[j].label => i = j
    BY <1>1 DEF WireSound, Body
  <2>3. \A j \in DOMAIN wire' : j \in 1..Len(wire) \/ j = Len(wire) + 1
    BY <1>5
  <2>4. CASE i \in 1..Len(wire)
    <3>1. wire'[i] = wire[i] /\ wire[i].label \in 1..sends' /\ i \in DOMAIN wire
      BY <1>1, <1>3, <1>5, <2>2, <2>4
    <3>2. \A j \in 1..Len(wire) : wire'[j] = wire[j] /\ j \in DOMAIN wire
      BY <1>5
    <3>3. wire[i].label # wire'[Len(wire) + 1].label
      BY <1>4, <1>5, <2>2, <2>4
    <3> QED BY <1>3, <2>3, <3>1, <3>2, <3>3 DEF WireSound
  <2>5. CASE i = Len(wire) + 1
    <3>1. \A j \in 1..Len(wire) : wire'[j].label # sends + 1
      BY <1>5, <2>2
    <3>2. wire'[i].label = sends + 1 /\ wire'[i].body = Body(sends + 1) /\ sends + 1 \in 1..sends'
      BY <1>1, <1>3, <1>4, <1>5, <2>5
    <3> QED BY <2>1, <2>3, <2>5, <3>1, <3>2
  <2> QED BY <2>3, <2>4, <2>5
<1> QED BY <1>6, <1>7, <1>8, <1>9 DEF LogInv

\* The tab only moves what it has been handed.
LEMMA LogHandled ==
  ASSUME LogInv, ProcessIrcEvent
  PROVE  LogInv'
<1>1. /\ handled < Len(log) /\ handled' = handled + 1
      /\ UNCHANGED <<setting, log, wire, sends, history, older>>
  BY DEF ProcessIrcEvent, serverVars, fetchVars
<1>2. LogTypes /\ EventsSound /\ EchoesOnce /\ NickKnown /\ FetchSound /\ WireSound
  BY DEF LogInv
<1>3. /\ DOMAIN log = 1..Len(log) /\ Len(log) \in Nat
      /\ handled \in Nat /\ handled' \in 1..Len(log)
  BY <1>1, <1>2, EventsTyped DEF LogTypes
<1>4. Base \in Nat
  BY SettingSound
<1>5. nick' = nick \/ (log[handled'].kind = "nick" /\ nick' = log[handled'].nick)
  BY <1>1 DEF ProcessIrcEvent
<1>6. log[handled'].kind = "nick" => log[handled'].nick = "me_"
  BY <1>2, <1>3 DEF EventsSound
<1>7. LogTypes'
  BY <1>1, <1>2, <1>3, <1>4, <1>5, <1>6 DEF LogTypes, OwnNicks
<1>8. EventsSound' /\ EchoesOnce' /\ WireSound'
  BY <1>1, <1>2 DEF EventsSound, EchoesOnce, WireSound, Body
<1>9. NickKnown'
  BY <1>1, <1>2, <1>3, <1>5 DEF NickKnown, Unrenamed
<1>10. FetchSound'
  <2>1. Messages(1..handled) \subseteq Messages(1..handled')
    BY <1>1, <1>3 DEF Messages
  <2>2. backfill' \in {backfill, {}}
    BY DEF ProcessIrcEvent, EnqueueMessage, FlushAll, batchVars
  <2>3. CASE log[handled'].kind = "msg" /\ queue' \in {{}, queue \union {handled'}}
    <3>1. handled' \in Messages(1..handled')
      BY <1>3, <2>3 DEF Messages
    <3> QED BY <1>1, <1>2, <2>1, <2>2, <2>3, <3>1 DEF FetchSound, Messages
  <2>4. CASE queue' = queue
    BY <1>1, <1>2, <2>1, <2>2, <2>4 DEF FetchSound, Messages
  <2> QED BY <1>1, <2>3, <2>4 DEF ProcessIrcEvent, EnqueueMessage, FlushAll, batchVars
<1> QED BY <1>7, <1>8, <1>9, <1>10 DEF LogInv

\* Requests come and go, queues are emptied or filled with a page.
LEMMA LogFetched ==
  ASSUME LogInv, UNCHANGED <<setting, log, handled, wire, sends, nick>>,
         history' \in Request, older' \in Request,
         queue' \subseteq queue, backfill' \subseteq DOMAIN log,
         history'.rows \subseteq DOMAIN log, older'.rows \subseteq DOMAIN log
  PROVE  LogInv'
BY DEF LogInv, LogTypes, EventsSound, EchoesOnce, WireSound, NickKnown, Unrenamed, FetchSound,
       Messages, Body

\* Flushing, requests and their answers.
LEMMA LogKept ==
  ASSUME LogInv,
         \/ TimerFires \/ LoadBufferHistory \/ HistoryServed \/ HistoryArrives
         \/ HistoryFails \/ HandleLoadMore \/ LoadMoreArrives
  PROVE  LogInv'
<1>1. UNCHANGED <<setting, log, handled, wire, sends, nick>>
  BY DEF TimerFires, LoadBufferHistory, HistoryServed, HistoryArrives, HistoryFails,
     HandleLoadMore, LoadMoreArrives, serverVars
<1>2. /\ queue \subseteq DOMAIN log /\ backfill \subseteq DOMAIN log
      /\ history.rows \subseteq DOMAIN log /\ older.rows \subseteq DOMAIN log
      /\ history \in Request /\ older \in Request
      /\ DOMAIN log \subseteq Nat
  BY EventsTyped DEF LogInv, LogTypes, FetchSound, Messages
<1>3. NoRequest \in Request /\ NoRequest.rows = {}
      /\ [NoRequest EXCEPT !.state = "done"] \in Request
      /\ [NoRequest EXCEPT !.state = "done"].rows = {}
      /\ [NoRequest EXCEPT !.state = "asked"] \in Request
      /\ [NoRequest EXCEPT !.state = "asked"].rows = {}
      /\ [NoRequest EXCEPT !.state = "failed"] \in Request
      /\ [NoRequest EXCEPT !.state = "failed"].rows = {}
  BY DEF NoRequest, Request
<1>4. \A cursor : Page(cursor) \subseteq DOMAIN log /\ Page(cursor) \in SUBSET Nat
  BY <1>2 DEF Page
<1>5. /\ history' \in Request /\ older' \in Request
      /\ queue' \subseteq queue /\ backfill' \subseteq DOMAIN log
      /\ history'.rows \subseteq DOMAIN log /\ older'.rows \subseteq DOMAIN log
  <2>1. CASE TimerFires
    BY <1>2, <2>1 DEF TimerFires, FlushAll, fetchVars
  <2>2. CASE LoadBufferHistory \/ HistoryFails
    BY <1>2, <1>3, <2>2 DEF LoadBufferHistory, HistoryFails, batchVars
  <2>3. CASE HistoryServed
    <3>1. history' = [state |-> "served", rows |-> Page(Len(log) + 1)]
          /\ UNCHANGED <<older, queue, backfill>>
      BY <2>3 DEF HistoryServed, batchVars
    <3> QED BY <1>2, <1>4, <3>1 DEF Request
  <2>4. CASE HistoryArrives
    BY <1>2, <1>3, <2>4 DEF HistoryArrives
  <2>5. CASE HandleLoadMore
    <3>1. PICK cursor : older' = [state |-> "asked", rows |-> Page(cursor)]
      BY <2>5 DEF HandleLoadMore
    <3>2. UNCHANGED <<history, queue, backfill>>
      BY <2>5 DEF HandleLoadMore, batchVars
    <3> QED BY <1>2, <1>4, <3>1, <3>2 DEF Request
  <2>6. CASE LoadMoreArrives
    BY <1>2, <1>3, <2>6 DEF LoadMoreArrives, batchVars
  <2> QED BY <2>1, <2>2, <2>3, <2>4, <2>5, <2>6
<1> QED BY <1>1, <1>5, LogFetched

\* Every step keeps the invariant of the log.
LEMMA LogStep == LogInv /\ [Next]_vars => LogInv'
<1> SUFFICES ASSUME LogInv, [Next]_vars PROVE LogInv'
  OBVIOUS
<1>1. CASE UNCHANGED vars
  BY <1>1 DEF vars, LogInv, LogTypes, EventsSound, EchoesOnce, WireSound, NickKnown, Unrenamed,
     FetchSound, Messages, Body
<1> QED BY <1>1, LogSent, LogEchoed, LogWritten, LogHandled, LogKept DEF Next

\* The log, the wire, the batcher's queues and the requests are always sound: an
\* item names an earlier message, a label is an earlier line of the user's and
\* occurs once, and what is queued has been processed by processIrcEvent.
THEOREM LogInvariant == Spec => []LogInv
BY LogInit, LogStep, PTL DEF Spec

-----------------------------------------------------------------------------
(* The rows *)

\* The types of rows and of entries of the optimistic map.
Row == [eid : Nat, t : Nat, label : Nat, nick : Nicks, body : Nat, edit : Nat,
        redacted : BOOLEAN, reacted : BOOLEAN]
Opt == [label : Nat, nick : OwnNicks, body : Nat]

\* A row of the user's own.
Own(r) == r.nick # Other

\* A row stands for a message of the log, or for a line whose echo is not known
\* to the row, and which is then older than the echo.
Genuine(r) ==
  /\ r.eid # 0 => /\ r.eid \in DOMAIN log /\ log[r.eid].kind = "msg" /\ r.t = 2 * r.eid
                  /\ r.nick = log[r.eid].nick /\ r.body = log[r.eid].body
  /\ r.eid = 0 => /\ r.label # 0 /\ r.body = Body(r.label) /\ r.edit = 0 /\ ~r.redacted
                  /\ 2 * Base < r.t /\ r.t <= 2 * Len(log) + 1
                  /\ \A e \in DOMAIN log : log[e].label = r.label => r.t < 2 * e
  /\ r.label # 0 => Own(r) /\ r.label <= sends

\* A message of somebody else has one row.
OthersOnce(rows) ==
  \A j, k \in DOMAIN rows : rows[j].eid = rows[k].eid /\ ~Own(rows[j]) => j = k

\* A label stands on one row.
LabelsOnce(rows) ==
  \A j, k \in DOMAIN rows : rows[j].label = rows[k].label => j = k \/ rows[j].label = 0

\* What the rows of the tab always are.
GoodRows(rows) ==
  /\ rows \in Seq(Row)
  /\ \A k \in DOMAIN rows : Genuine(rows[k])
  /\ OthersOnce(rows) /\ LabelsOnce(rows)

\* What the entries of the optimistic map always are.
GoodOpts(opts) ==
  /\ opts \in Seq(Opt)
  /\ \A o \in DOMAIN opts : opts[o].label \in 1..sends /\ opts[o].body = Body(opts[o].label)

\* Items leave what a row is, and never take a tombstone away.
Alike(new, old) ==
  /\ new.eid = old.eid /\ new.t = old.t /\ new.label = old.label
  /\ new.nick = old.nick /\ new.body = old.body
  /\ old.redacted => new.redacted
  /\ new.eid = 0 => new = old

\* Other people's rows are still there, tombstones as tombstones.
Keeps(new, old) ==
  \A k \in DOMAIN old : ~Own(old[k]) =>
    \E j \in DOMAIN new : new[j].eid = old[k].eid /\ (old[k].redacted => new[j].redacted)

\* The elements of a sequence of rows.
LEMMA RowsTyped ==
  ASSUME NEW rows \in Seq(Row)
  PROVE  /\ DOMAIN rows = 1..Len(rows) /\ Len(rows) \in Nat
         /\ \A k \in DOMAIN rows : rows[k] \in Row /\ rows[k].eid \in Nat /\ rows[k].t \in Nat
<1>1. DOMAIN rows = 1..Len(rows) /\ Len(rows) \in Nat /\ \A k \in DOMAIN rows : rows[k] \in Row
  OBVIOUS
<1>2. \A r \in Row : r.eid \in Nat /\ r.t \in Nat
  BY DEF Row
<1> QED BY <1>1, <1>2

\* A row of somebody else's is never optimistic.
LEMMA OtherHasEid ==
  ASSUME NEW r, Genuine(r), ~Own(r)
  PROVE  r.eid # 0 /\ r.label = 0
BY DEF Genuine

\* Rows of the same message have the same author.
LEMMA SameAuthor ==
  ASSUME NEW q, NEW r, Genuine(q), Genuine(r), q.eid = r.eid, ~Own(q)
  PROVE  ~Own(r)
<1>1. q.eid # 0
  BY OtherHasEid
<1> QED BY <1>1 DEF Genuine, Own

\* Rows picked from good rows, without repetition and with items on them, are good.
LEMMA Recast ==
  ASSUME NEW old, GoodRows(old), NEW new \in Seq(Row),
         NEW p \in [DOMAIN new -> DOMAIN old],
         \A i, j \in DOMAIN new : p[i] = p[j] => i = j,
         \A i \in DOMAIN new : Alike(new[i], old[p[i]])
  PROVE  GoodRows(new)
<1>1. \A i \in DOMAIN new : p[i] \in DOMAIN old /\ Genuine(old[p[i]]) /\ Alike(new[i], old[p[i]])
  BY DEF GoodRows
<1>2. \A i \in DOMAIN new : Genuine(new[i])
  BY <1>1 DEF Genuine, Alike, Own
<1>3. OthersOnce(new)
  <2> SUFFICES ASSUME NEW i \in DOMAIN new, NEW j \in DOMAIN new,
                      new[i].eid = new[j].eid, ~Own(new[i])
               PROVE  i = j
    BY DEF OthersOnce
  <2>1. old[p[i]].eid = old[p[j]].eid /\ ~Own(old[p[i]])
    BY <1>1 DEF Alike, Own
  <2>2. p[i] = p[j]
    BY <1>1, <2>1 DEF GoodRows, OthersOnce
  <2> QED BY <2>2
<1>4. LabelsOnce(new)
  <2> SUFFICES ASSUME NEW i \in DOMAIN new, NEW j \in DOMAIN new,
                      new[i].label = new[j].label, new[i].label # 0
               PROVE  i = j
    BY DEF LabelsOnce
  <2>1. old[p[i]].label = old[p[j]].label /\ old[p[i]].label # 0
    BY <1>1 DEF Alike
  <2>2. p[i] = p[j]
    BY <1>1, <2>1 DEF GoodRows, LabelsOnce
  <2> QED BY <2>2
<1> QED BY <1>2, <1>3, <1>4 DEF GoodRows

\* Keeps is reflexive ...
LEMMA KeepsSelf == \A rows : Keeps(rows, rows)
BY DEF Keeps

\* ... and transitive.
LEMMA KeepsOnwards ==
  ASSUME NEW a, NEW b, NEW c, GoodRows(a), GoodRows(b), Keeps(b, a), Keeps(c, b)
  PROVE  Keeps(c, a)
<1> SUFFICES ASSUME NEW k \in DOMAIN a, ~Own(a[k])
             PROVE  \E j \in DOMAIN c : c[j].eid = a[k].eid /\ (a[k].redacted => c[j].redacted)
  BY DEF Keeps
<1>1. PICK i \in DOMAIN b : b[i].eid = a[k].eid /\ (a[k].redacted => b[i].redacted)
  BY DEF Keeps
<1>2. ~Own(b[i])
  BY <1>1, SameAuthor DEF GoodRows
<1>3. PICK j \in DOMAIN c : c[j].eid = b[i].eid /\ (b[i].redacted => c[j].redacted)
  BY <1>2 DEF Keeps
<1> QED BY <1>1, <1>3

\* A row that keeps everything but its label.
Relabelled(new, old, l) ==
  /\ new \in Row /\ new.label = l
  /\ new.eid = old.eid /\ new.t = old.t /\ new.nick = old.nick /\ new.body = old.body
  /\ new.edit = old.edit /\ new.redacted = old.redacted /\ new.reacted = old.reacted

\* A row given another label is still that row.
LEMMA RelabelIs ==
  ASSUME NEW r \in Row, NEW l \in Nat
  PROVE  Relabelled([r EXCEPT !.label = l], r, l)
BY DEF Row, Relabelled

\* The rows of a batch and of a page.
LEMMA FreshRows ==
  ASSUME LogInv, NEW e \in Messages(DOMAIN log)
  PROVE  /\ LiveRow(e) \in Row /\ Genuine(LiveRow(e))
         /\ LiveRow(e).eid = e /\ LiveRow(e).t = 2 * e
         /\ LiveRow(e).label = (IF setting.labels THEN log[e].label ELSE 0)
         /\ LiveRow(e).nick = log[e].nick /\ LiveRow(e).body = log[e].body
         /\ LiveRow(e).edit = 0 /\ ~LiveRow(e).redacted
         /\ PageRow(e) \in Row /\ Genuine(PageRow(e))
         /\ PageRow(e).eid = e /\ PageRow(e).t = 2 * e /\ PageRow(e).label = 0
         /\ PageRow(e).nick = log[e].nick /\ PageRow(e).body = log[e].body
         /\ PageRow(e).edit = 0 /\ ~PageRow(e).redacted
<1>1. e \in DOMAIN log /\ log[e].kind = "msg" /\ e \in Nat /\ e # 0 /\ log[e] \in Event
  BY EventsTyped DEF Messages
<1>2. log[e].label # 0 => log[e].nick # Other /\ log[e].label <= sends
  BY <1>1 DEF LogInv, EventsSound
<1>3. LiveRow(e) = [eid |-> e, t |-> 2 * e, label |-> IF setting.labels THEN log[e].label ELSE 0,
                    nick |-> log[e].nick, body |-> log[e].body, edit |-> 0,
                    redacted |-> FALSE, reacted |-> FALSE]
  BY DEF LiveRow
<1>5. log[e].label \in Nat /\ log[e].nick \in Nicks /\ log[e].body \in Nat /\ 2 * e \in Nat
  <2>1. 2 * e \in Nat
    BY <1>1
  <2>2. log[e].label \in Nat /\ log[e].nick \in Nicks /\ log[e].body \in Nat
    BY <1>1 DEF Event
  <2> QED BY <2>1, <2>2
<1>6. LiveRow(e) \in Row
  BY <1>1, <1>3, <1>5 DEF Row
<1>7. PageRow(e) \in Row /\ Relabelled(PageRow(e), LiveRow(e), 0)
  <2>1. Relabelled([LiveRow(e) EXCEPT !.label = 0], LiveRow(e), 0)
    BY <1>6, RelabelIs
  <2> QED BY <2>1 DEF PageRow, Relabelled
<1>8. Genuine(LiveRow(e))
  BY <1>1, <1>2, <1>3 DEF Genuine, Own
<1>9. Genuine(PageRow(e))
  <2>1. PageRow(e).eid = e /\ PageRow(e).t = 2 * e /\ PageRow(e).label = 0
        /\ PageRow(e).nick = log[e].nick /\ PageRow(e).body = log[e].body
    <3>1. LiveRow(e).eid = e /\ LiveRow(e).t = 2 * e /\ LiveRow(e).nick = log[e].nick
          /\ LiveRow(e).body = log[e].body
      BY <1>3
    <3> QED BY <1>7, <3>1, Zenon DEF Relabelled
  <2> QED BY <1>1, <2>1 DEF Genuine
<1> QED BY <1>3, <1>6, <1>7, <1>8, <1>9 DEF Relabelled

-----------------------------------------------------------------------------
(* One message of a batch *)

\* What the loop of batchAppendMessages carries.
RunState == [list : Seq(Row), opt : Seq(Opt), seen : SUBSET Nat, pushed : Seq(Row)]

\* What AppendOne looks up on its way.
Mine(m) == m.nick # Other /\ (setting.tag \/ m.nick = nick)

\* The values that AppendOne computes on its way, by name.
Left(s, m) == Without(s.opt, m.label)
SameOpt(s, m) ==
  First({o \in DOMAIN Left(s, m) :
           Mine(m) /\ Left(s, m)[o].nick = m.nick /\ Left(s, m)[o].body = m.body})
OptRow(s, m) ==
  IF SameOpt(s, m) = 0 THEN 0 ELSE RowOfLabel(s.list, Left(s, m)[SameOpt(s, m)].label)
Left2(s, m) ==
  IF SameOpt(s, m) = 0 THEN Left(s, m) ELSE Without(Left(s, m), Left(s, m)[SameOpt(s, m)].label)
SameRow(s, m) == Last({k \in DOMAIN s.list : Mine(m) /\ SameLine(s.list[k], m)})
Inherited(s, m, k) == IF m.label = 0 THEN [m EXCEPT !.label = s.list[k].label] ELSE m
PutRow(s, k, row, opt) == [s EXCEPT !.list = [@ EXCEPT ![k] = row], !.opt = opt]

\* AppendOne in these names.
LEMMA AppendOneIs ==
  ASSUME NEW s, NEW m
  PROVE  AppendOne(s, m) =
           IF RowOfLabel(s.list, m.label) # 0
           THEN PutRow(s, RowOfLabel(s.list, m.label), m, Left(s, m))
           ELSE IF OptRow(s, m) # 0
           THEN PutRow(s, OptRow(s, m), Inherited(s, m, OptRow(s, m)), Left2(s, m))
           ELSE IF SameRow(s, m) # 0
           THEN PutRow(s, SameRow(s, m), Inherited(s, m, SameRow(s, m)),
                       Without(Left2(s, m), s.list[SameRow(s, m)].label))
           ELSE IF m.eid \in s.seen THEN [s EXCEPT !.opt = Left2(s, m)]
           ELSE IF PendingRow(s.list, m) # 0
           THEN [s EXCEPT !.opt = Without(Left2(s, m), s.list[PendingRow(s.list, m)].label),
                          !.seen = @ \union {m.eid}]
           ELSE [s EXCEPT !.opt = Left2(s, m), !.seen = @ \union {m.eid},
                          !.list = Append(@, m), !.pushed = Append(@, m)]
BY DEF AppendOne, PutRow, Inherited, SameRow, Left2, OptRow, SameOpt, Left, Mine

\* What the lookups find.
NoLabel(rows, l) == \A k \in DOMAIN rows : rows[k].label = l => l = 0

\* The row of a label, if there is one.
LEMMA LabelledIs ==
  ASSUME NEW rows \in Seq(Row), NEW l
  PROVE  /\ RowOfLabel(rows, l) = 0 => NoLabel(rows, l)
         /\ RowOfLabel(rows, l) # 0 =>
              /\ RowOfLabel(rows, l) \in DOMAIN rows
              /\ rows[RowOfLabel(rows, l)].label = l /\ l # 0
<1> DEFINE S == {k \in DOMAIN rows : l # 0 /\ rows[k].label = l}
<1>1. S \in SUBSET Nat /\ 0 \notin S
  BY RowsTyped
<1>2. RowOfLabel(rows, l) = First(S)
  BY DEF RowOfLabel
<1>3. (S = {} => First(S) = 0) /\ (S # {} => First(S) \in S)
  BY <1>1, FirstIs
<1> QED BY <1>1, <1>2, <1>3 DEF NoLabel

\* The first row of an eid, if there is one.
LEMMA EidRowIs ==
  ASSUME NEW rows \in Seq(Row), NEW e
  PROVE  /\ RowOfEid(rows, e) = 0 => \A k \in DOMAIN rows : rows[k].eid # e
         /\ RowOfEid(rows, e) # 0 =>
              /\ RowOfEid(rows, e) \in DOMAIN rows /\ rows[RowOfEid(rows, e)].eid = e
              /\ \A k \in DOMAIN rows : rows[k].eid = e => RowOfEid(rows, e) <= k
<1> DEFINE S == {k \in DOMAIN rows : rows[k].eid = e}
<1>1. S \in SUBSET Nat /\ 0 \notin S
  BY RowsTyped
<1>2. RowOfEid(rows, e) = First(S)
  BY DEF RowOfEid
<1>3. (S = {} => First(S) = 0) /\ (S # {} => First(S) \in S /\ \A j \in S : First(S) <= j)
  BY <1>1, FirstIs
<1> QED BY <1>1, <1>2, <1>3

\* The pending row that looks like a message, if there is one.
LEMMA PendingRowIs ==
  ASSUME NEW rows \in Seq(Row), NEW m
  PROVE  /\ PendingRow(rows, m) = 0 =>
              \A k \in DOMAIN rows : ~(PendingLike(rows[k]) /\ SameLine(rows[k], m))
         /\ PendingRow(rows, m) # 0 =>
              /\ PendingRow(rows, m) \in DOMAIN rows
              /\ PendingLike(rows[PendingRow(rows, m)])
              /\ SameLine(rows[PendingRow(rows, m)], m)
<1> DEFINE S == {k \in DOMAIN rows : PendingLike(rows[k]) /\ SameLine(rows[k], m)}
<1>1. S \in SUBSET (0..Len(rows)) /\ 0 \notin S /\ Len(rows) \in Nat
  BY RowsTyped
<1>2. PendingRow(rows, m) = Last(S)
  BY DEF PendingRow
<1>3. (S = {} => Last(S) = 0) /\ (S # {} => Last(S) \in S)
  BY <1>1, LastIs
<1> QED BY <1>1, <1>2, <1>3

\* The row of the user's own with the same text, if there is one.
LEMMA SameRowIs ==
  ASSUME NEW s, s.list \in Seq(Row), NEW m
  PROVE  /\ SameRow(s, m) = 0 =>
              \A k \in DOMAIN s.list : ~(Mine(m) /\ SameLine(s.list[k], m))
         /\ SameRow(s, m) # 0 =>
              SameRow(s, m) \in DOMAIN s.list /\ Mine(m) /\ SameLine(s.list[SameRow(s, m)], m)
<1> DEFINE S == {k \in DOMAIN s.list : Mine(m) /\ SameLine(s.list[k], m)}
<1>1. S \in SUBSET (0..Len(s.list)) /\ 0 \notin S /\ Len(s.list) \in Nat
  BY RowsTyped
<1>2. SameRow(s, m) = Last(S)
  BY DEF SameRow
<1>3. (S = {} => Last(S) = 0) /\ (S # {} => Last(S) \in S)
  BY <1>1, LastIs
<1> QED BY <1>1, <1>2, <1>3

\* Entries of `old`, without those of label `l`.
Fewer(new, old, l) ==
  /\ new \in Seq(Opt)
  /\ \A i \in DOMAIN new : new[i].label # l /\ \E j \in DOMAIN old : new[i] = old[j]

\* Without takes the entries of a label, and nothing else.
LEMMA FewerWithout ==
  ASSUME NEW opts \in Seq(Opt), NEW l
  PROVE  Fewer(Without(opts, l), opts, l)
BY WithoutIs DEF Fewer

\* Entries may be taken twice.
LEMMA FewerOnwards ==
  ASSUME NEW a, NEW b, NEW c, NEW k, NEW l, Fewer(b, a, k), Fewer(c, b, l)
  PROVE  Fewer(c, a, k)
<1>1. c \in Seq(Opt)
  BY DEF Fewer
<1> SUFFICES ASSUME NEW i \in DOMAIN c
             PROVE  c[i].label # k /\ \E j \in DOMAIN a : c[i] = a[j]
  BY <1>1 DEF Fewer
<1>2. PICK h \in DOMAIN b : c[i] = b[h]
  BY DEF Fewer
<1> QED BY <1>2 DEF Fewer

\* What a row passes on of the optimistic map: the entries but for those of the
\* message's label and, for some lookups, of another one.
LEMMA OptsLeft ==
  ASSUME NEW s \in RunState, NEW m
  PROVE  /\ Fewer(Left(s, m), s.opt, m.label) /\ Fewer(Left2(s, m), s.opt, m.label)
         /\ \A l : Fewer(Without(Left2(s, m), l), s.opt, m.label)
         /\ SameOpt(s, m) # 0 =>
              /\ SameOpt(s, m) \in DOMAIN Left(s, m) /\ Mine(m)
              /\ Left(s, m)[SameOpt(s, m)].nick = m.nick
              /\ Left(s, m)[SameOpt(s, m)].body = m.body
              /\ Fewer(Left2(s, m), Left(s, m), Left(s, m)[SameOpt(s, m)].label)
         /\ SameOpt(s, m) = 0 =>
              /\ Left2(s, m) = Left(s, m)
              /\ \A o \in DOMAIN Left(s, m) :
                   ~(Mine(m) /\ Left(s, m)[o].nick = m.nick /\ Left(s, m)[o].body = m.body)
<1> DEFINE L == Left(s, m)
           S == {o \in DOMAIN L : Mine(m) /\ L[o].nick = m.nick /\ L[o].body = m.body}
<1>1. s.opt \in Seq(Opt)
  BY DEF RunState
<1>2. Fewer(L, s.opt, m.label)
  BY <1>1, FewerWithout DEF Left
<1>3. L \in Seq(Opt)
  BY <1>2 DEF Fewer
<1>4. SameOpt(s, m) = First(S)
  BY DEF SameOpt
<1>5. S \in SUBSET Nat /\ 0 \notin S
  BY <1>3
<1>6. (S = {} => First(S) = 0) /\ (S # {} => First(S) \in S)
  BY <1>5, FirstIs
<1>7. SameOpt(s, m) # 0 => Left2(s, m) = Without(L, L[SameOpt(s, m)].label)
  BY DEF Left2
<1>8. SameOpt(s, m) = 0 => Left2(s, m) = L
  BY DEF Left2
<1> HIDE DEF L
<1>9. SameOpt(s, m) # 0 => Fewer(Left2(s, m), L, L[SameOpt(s, m)].label)
  BY <1>3, <1>7, FewerWithout
<1>10. Fewer(Left2(s, m), s.opt, m.label)
  BY <1>2, <1>8, <1>9, FewerOnwards
<1>11. Left2(s, m) \in Seq(Opt)
  BY <1>10 DEF Fewer
<1>12. \A l : Fewer(Without(Left2(s, m), l), s.opt, m.label)
  BY <1>10, <1>11, FewerWithout, FewerOnwards
<1> QED BY <1>2, <1>4, <1>5, <1>6, <1>8, <1>9, <1>10, <1>12 DEF L

-----------------------------------------------------------------------------
(* The four things that may become of a message *)

\* The message takes a row: the one of its label, the one of a pending send of
\* the same text, or one that looks the same.
Takes(s, m, k) ==
  \/ m.label # 0 /\ s.list[k].label = m.label
  \/ /\ Mine(m) /\ NoLabel(s.list, m.label)
     /\ \/ SameLine(s.list[k], m)
        \/ /\ s.list[k].label # 0
           /\ \E o \in DOMAIN s.opt : /\ s.opt[o].label = s.list[k].label
                                      /\ s.opt[o].nick = m.nick /\ s.opt[o].body = m.body

\* The message takes the place of a row ...
Took(s, s2, m, k) ==
  /\ k \in DOMAIN s.list /\ Takes(s, m, k)
  /\ \E row : /\ s2.list = [s.list EXCEPT ![k] = row]
              /\ Relabelled(row, m, IF m.label = 0 THEN s.list[k].label ELSE m.label)
  /\ s2.seen = s.seen /\ s2.pushed = s.pushed
  /\ \A o \in DOMAIN s2.opt : s2.opt[o].label # s.list[k].label

\* No row is the message's.
Unmatched(s, m) ==
  NoLabel(s.list, m.label) /\ \A k \in DOMAIN s.list : ~(Mine(m) /\ SameLine(s.list[k], m))

\* ... or is a repeat ...
Skipped(s, s2, m) ==
  /\ Unmatched(s, m) /\ m.eid \in s.seen
  /\ s2.list = s.list /\ s2.seen = s.seen /\ s2.pushed = s.pushed

\* ... or meets a pending row that the loop then leaves as it is ...
Dropped(s, s2, m) ==
  /\ Unmatched(s, m) /\ m.eid \notin s.seen
  /\ \E k \in DOMAIN s.list : PendingLike(s.list[k]) /\ SameLine(s.list[k], m)
  /\ s2.list = s.list /\ s2.seen = s.seen \union {m.eid} /\ s2.pushed = s.pushed

\* ... or goes to the end.
Added(s, s2, m) ==
  /\ Unmatched(s, m) /\ m.eid \notin s.seen
  /\ \A k \in DOMAIN s.list : ~(PendingLike(s.list[k]) /\ SameLine(s.list[k], m))
  /\ s2.list = Append(s.list, m) /\ s2.seen = s.seen \union {m.eid}
  /\ s2.pushed = Append(s.pushed, m)

\* One turn of the loop is one of these, and takes entries from the optimistic map.
Outcome(s, s2, m) ==
  /\ s2 \in RunState /\ Fewer(s2.opt, s.opt, m.label)
  /\ \/ \E k \in DOMAIN s.list : Took(s, s2, m, k)
     \/ Skipped(s, s2, m) \/ Dropped(s, s2, m) \/ Added(s, s2, m)

\* What replacing a row changes.
LEMMA PutRowIs ==
  ASSUME NEW s \in RunState, NEW k \in DOMAIN s.list, NEW row \in Row, NEW opt \in Seq(Opt)
  PROVE  /\ PutRow(s, k, row, opt) \in RunState
         /\ PutRow(s, k, row, opt).list = [s.list EXCEPT ![k] = row]
         /\ PutRow(s, k, row, opt).opt = opt
         /\ PutRow(s, k, row, opt).seen = s.seen /\ PutRow(s, k, row, opt).pushed = s.pushed
<1>1. s.list \in Seq(Row)
  BY DEF RunState
<1>2. [s.list EXCEPT ![k] = row] \in Seq(Row)
  BY <1>1
<1> QED BY <1>2 DEF PutRow, RunState

\* The row a message leaves when it takes one.
LEMMA InheritedIs ==
  ASSUME NEW s \in RunState, NEW m \in Row, NEW k \in DOMAIN s.list
  PROVE  /\ Inherited(s, m, k) \in Row
         /\ Relabelled(Inherited(s, m, k), m, IF m.label = 0 THEN s.list[k].label ELSE m.label)
<1>1. s.list[k] \in Row
  BY DEF RunState
<1>2. s.list[k].label \in Nat
  BY <1>1 DEF Row
<1>3. CASE m.label = 0
  BY <1>2, <1>3, RelabelIs DEF Inherited, Relabelled
<1>4. CASE m.label # 0
  BY <1>4 DEF Inherited, Relabelled
<1> QED BY <1>3, <1>4

\* batchAppendMessages does one of the four things with each message.
LEMMA AppendOneOutcome ==
  ASSUME NEW s \in RunState, NEW m \in Row
  PROVE  Outcome(s, AppendOne(s, m), m)
<1> DEFINE s2 == AppendOne(s, m)
           a == RowOfLabel(s.list, m.label)
           b == OptRow(s, m)
           c == SameRow(s, m)
           d == PendingRow(s.list, m)
           L == Left(s, m)
           L2 == Left2(s, m)
<1>0. /\ s.list \in Seq(Row) /\ s.opt \in Seq(Opt)
      /\ s.seen \in SUBSET Nat /\ s.pushed \in Seq(Row)
  BY DEF RunState
<1>1. /\ a = 0 => NoLabel(s.list, m.label)
      /\ a # 0 => a \in DOMAIN s.list /\ s.list[a].label = m.label /\ m.label # 0
  BY <1>0, LabelledIs
<1>2. /\ Fewer(L, s.opt, m.label) /\ Fewer(L2, s.opt, m.label)
      /\ \A l : Fewer(Without(L2, l), s.opt, m.label)
  BY OptsLeft
<1>3. /\ L \in Seq(Opt) /\ L2 \in Seq(Opt) /\ \A l : Without(L2, l) \in Seq(Opt)
  BY <1>2 DEF Fewer
<1>4. /\ c = 0 => \A k \in DOMAIN s.list : ~(Mine(m) /\ SameLine(s.list[k], m))
      /\ c # 0 => c \in DOMAIN s.list /\ Mine(m) /\ SameLine(s.list[c], m)
  BY <1>0, SameRowIs
<1>5. /\ d # 0 => d \in DOMAIN s.list /\ PendingLike(s.list[d]) /\ SameLine(s.list[d], m)
      /\ d = 0 => \A k \in DOMAIN s.list : ~(PendingLike(s.list[k]) /\ SameLine(s.list[k], m))
  BY <1>0, PendingRowIs
<1>6. m.eid \in Nat
  BY DEF Row
<1>7. CASE a # 0
  <2>1. s2 = PutRow(s, a, m, L)
    BY <1>7, AppendOneIs
  <2>2. s2 \in RunState /\ s2.list = [s.list EXCEPT ![a] = m] /\ s2.opt = L
        /\ s2.seen = s.seen /\ s2.pushed = s.pushed
    BY <1>1, <1>3, <1>7, <2>1, PutRowIs
  <2>3. Relabelled(m, m, IF m.label = 0 THEN s.list[a].label ELSE m.label)
    BY <1>1, <1>7 DEF Relabelled
  <2>4. Takes(s, m, a)
    BY <1>1, <1>7 DEF Takes
  <2>5. \A o \in DOMAIN L : L[o].label # s.list[a].label
    BY <1>1, <1>2, <1>7 DEF Fewer
  <2>6. Took(s, s2, m, a)
    BY <1>1, <1>7, <2>2, <2>3, <2>4, <2>5 DEF Took
  <2>20. Outcome(s, s2, m)
    <3> HIDE DEF s2, a, L
    <3> QED BY <1>1, <1>2, <1>7, <2>2, <2>6 DEF Outcome
  <2> QED BY <2>20, Zenon
<1>8. CASE a = 0 /\ b # 0
  <2> DEFINE p == SameOpt(s, m)
             row == Inherited(s, m, b)
  <2>1. p # 0 /\ b = RowOfLabel(s.list, L[p].label)
    BY <1>8 DEF OptRow
  <2>2. b \in DOMAIN s.list /\ s.list[b].label = L[p].label /\ L[p].label # 0
    BY <1>0, <1>8, <2>1, LabelledIs
  <2>3. p \in DOMAIN L /\ Mine(m) /\ L[p].nick = m.nick /\ L[p].body = m.body
        /\ Fewer(L2, L, L[p].label)
    BY <2>1, OptsLeft
  <2>4. PICK o \in DOMAIN s.opt : L[p] = s.opt[o]
    BY <1>2, <2>3 DEF Fewer
  <2>5. row \in Row /\ Relabelled(row, m, IF m.label = 0 THEN s.list[b].label ELSE m.label)
    BY <2>2, InheritedIs, Zenon
  <2>6. s2 = PutRow(s, b, row, L2)
    BY <1>8, AppendOneIs
  <2>7. s2 \in RunState /\ s2.list = [s.list EXCEPT ![b] = row] /\ s2.opt = L2
        /\ s2.seen = s.seen /\ s2.pushed = s.pushed
    BY <1>3, <2>2, <2>5, <2>6, PutRowIs
  <2>8. Takes(s, m, b)
    BY <1>1, <1>8, <2>2, <2>3, <2>4 DEF Takes
  <2>9. \A i \in DOMAIN L2 : L2[i].label # s.list[b].label
    BY <2>2, <2>3 DEF Fewer
  <2>10. Took(s, s2, m, b)
    <3> HIDE DEF s2, b, row, L2
    <3> QED BY <2>2, <2>5, <2>7, <2>8, <2>9 DEF Took
  <2>20. Outcome(s, s2, m)
    <3> HIDE DEF s2, a, L, b, L2
    <3> QED BY <1>2, <2>2, <2>7, <2>10 DEF Outcome
  <2> QED BY <2>20
<1>9. CASE a = 0 /\ b = 0 /\ c # 0
  <2> DEFINE row == Inherited(s, m, c)
             W == Without(L2, s.list[c].label)
  <2>1. row \in Row /\ Relabelled(row, m, IF m.label = 0 THEN s.list[c].label ELSE m.label)
    BY <1>4, <1>9, InheritedIs, Zenon
  <2>2. s2 = PutRow(s, c, row, W)
    BY <1>9, AppendOneIs
  <2>3. s2 \in RunState /\ s2.list = [s.list EXCEPT ![c] = row] /\ s2.opt = W
        /\ s2.seen = s.seen /\ s2.pushed = s.pushed
    BY <1>3, <1>4, <1>9, <2>1, <2>2, PutRowIs
  <2>4. Takes(s, m, c)
    BY <1>1, <1>4, <1>9 DEF Takes
  <2>5. Fewer(W, L2, s.list[c].label)
    BY <1>3, FewerWithout
  <2>6. \A i \in DOMAIN W : W[i].label # s.list[c].label
    BY <2>5 DEF Fewer
  <2>7. Took(s, s2, m, c)
    <3> HIDE DEF s2, c, row, W
    <3> QED BY <1>4, <1>9, <2>1, <2>3, <2>4, <2>6 DEF Took
  <2>8. Fewer(W, s.opt, m.label)
    BY <1>2
  <2>20. Outcome(s, s2, m)
    <3> HIDE DEF s2, c, W
    <3> QED BY <1>4, <1>9, <2>3, <2>7, <2>8 DEF Outcome
  <2> QED BY <2>20
<1>10. CASE a = 0 /\ b = 0 /\ c = 0
  <2>1. Unmatched(s, m)
    BY <1>1, <1>4, <1>10, Zenon DEF Unmatched
  <2>2. CASE m.eid \in s.seen
    <3>1. s2 = [s EXCEPT !.opt = L2]
      BY <1>10, <2>2, AppendOneIs
    <3>2. s2 \in RunState /\ s2.opt = L2 /\ s2.list = s.list /\ s2.seen = s.seen
          /\ s2.pushed = s.pushed
      <4> HIDE DEF s2, L2
      <4> QED BY <1>0, <1>3, <3>1 DEF RunState
    <3>4. Outcome(s, s2, m)
      <4> HIDE DEF s2, L2
      <4> QED BY <1>2, <2>1, <2>2, <3>2 DEF Outcome, Skipped
    <3> QED BY <3>4
  <2>3. CASE m.eid \notin s.seen /\ d # 0
    <3> DEFINE W == Without(L2, s.list[d].label)
    <3>1. s2 = [s EXCEPT !.opt = W, !.seen = @ \union {m.eid}]
      BY <1>10, <2>3, AppendOneIs
    <3>2. W \in Seq(Opt) /\ Fewer(W, s.opt, m.label)
      BY <1>2, <1>3
    <3>3. s2 \in RunState /\ s2.opt = W /\ s2.list = s.list /\ s2.seen = s.seen \union {m.eid}
          /\ s2.pushed = s.pushed
      <4> HIDE DEF s2, W, d
      <4> QED BY <1>0, <1>6, <3>1, <3>2 DEF RunState
    <3>4. Outcome(s, s2, m)
      <4> HIDE DEF s2, W, d
      <4> QED BY <1>5, <2>1, <2>3, <3>2, <3>3 DEF Outcome, Dropped
    <3> QED BY <3>4
  <2>4. CASE m.eid \notin s.seen /\ d = 0
    <3>1. s2 = [s EXCEPT !.opt = L2, !.seen = @ \union {m.eid},
                         !.list = Append(@, m), !.pushed = Append(@, m)]
      BY <1>10, <2>4, AppendOneIs
    <3>2. Append(s.list, m) \in Seq(Row) /\ Append(s.pushed, m) \in Seq(Row)
      BY <1>0
    <3>3. s2 \in RunState /\ s2.opt = L2 /\ s2.seen = s.seen \union {m.eid}
          /\ s2.list = Append(s.list, m) /\ s2.pushed = Append(s.pushed, m)
      <4> HIDE DEF s2, L2, d
      <4> QED BY <1>0, <1>3, <1>6, <3>1, <3>2 DEF RunState
    <3>4. Outcome(s, s2, m)
      <4> HIDE DEF s2, L2, d
      <4> QED BY <1>2, <1>5, <2>1, <2>4, <3>3 DEF Outcome, Added
    <3> QED BY <3>4
  <2> QED BY <2>2, <2>3, <2>4
<1> QED BY <1>7, <1>8, <1>9, <1>10

-----------------------------------------------------------------------------
(* The rows of a batch *)

\* A message as the tab unpacks it.
Unpacked(m) == m \in Row /\ Genuine(m) /\ m.eid # 0 /\ m.edit = 0 /\ ~m.redacted

\* The eids of somebody else's rows are among those seen.
OthersSeen(rows, seen) == \A k \in DOMAIN rows : ~Own(rows[k]) => rows[k].eid \in seen

\* What the loop of batchAppendMessages always has.
GoodRun(s) == s \in RunState /\ GoodRows(s.list) /\ GoodOpts(s.opt) /\ OthersSeen(s.list, s.seen)

\* An own row is replaced by another one.
LEMMA PlaceTaken ==
  ASSUME NEW rows, GoodRows(rows), NEW k \in DOMAIN rows, Own(rows[k]),
         NEW row \in Row, Genuine(row), Own(row),
         row.label = rows[k].label \/ NoLabel(rows, row.label)
  PROVE  /\ GoodRows([rows EXCEPT ![k] = row]) /\ Keeps([rows EXCEPT ![k] = row], rows)
         /\ \A seen : OthersSeen(rows, seen) => OthersSeen([rows EXCEPT ![k] = row], seen)
<1> DEFINE new == [rows EXCEPT ![k] = row]
<1>1. rows \in Seq(Row)
  BY DEF GoodRows
<1>2. /\ new \in Seq(Row) /\ DOMAIN new = DOMAIN rows /\ new[k] = row
      /\ \A j \in DOMAIN rows : j # k => new[j] = rows[j]
  BY <1>1
<1> HIDE DEF new
<1>3. \A j \in DOMAIN new : Genuine(new[j])
  BY <1>2 DEF GoodRows
<1>4. OthersOnce(new)
  <2> SUFFICES ASSUME NEW i \in DOMAIN new, NEW j \in DOMAIN new,
                      new[i].eid = new[j].eid, ~Own(new[i])
               PROVE  i = j
    BY DEF OthersOnce
  <2>1. ~Own(new[j])
    BY <1>3, SameAuthor
  <2>2. i # k /\ j # k
    BY <1>2, <2>1
  <2> QED BY <1>2, <2>2 DEF GoodRows, OthersOnce
<1>5. LabelsOnce(new)
  <2> SUFFICES ASSUME NEW i \in DOMAIN new, NEW j \in DOMAIN new,
                      new[i].label = new[j].label, new[i].label # 0
               PROVE  i = j
    BY DEF LabelsOnce
  <2>1. CASE i # k /\ j # k
    BY <1>2, <2>1 DEF GoodRows, LabelsOnce
  <2>2. CASE i = k \/ j = k
    BY <1>2, <2>2 DEF GoodRows, LabelsOnce, NoLabel
  <2> QED BY <2>1, <2>2
<1>6. GoodRows(new)
  BY <1>2, <1>3, <1>4, <1>5 DEF GoodRows
<1>7. Keeps(new, rows)
  BY <1>2 DEF Keeps
<1>8. \A seen : OthersSeen(rows, seen) => OthersSeen(new, seen)
  BY <1>2 DEF OthersSeen
<1> QED BY <1>6, <1>7, <1>8 DEF new

\* A row comes after the others.
LEMMA RowAdded ==
  ASSUME NEW rows, GoodRows(rows), NEW row \in Row, Genuine(row), NoLabel(rows, row.label),
         ~Own(row) => \A k \in DOMAIN rows : rows[k].eid # row.eid
  PROVE  GoodRows(Append(rows, row)) /\ Keeps(Append(rows, row), rows)
<1> DEFINE new == Append(rows, row)
           n == Len(rows)
<1>1. rows \in Seq(Row) /\ n \in Nat /\ DOMAIN rows = 1..n
  BY DEF GoodRows
<1>2. /\ new \in Seq(Row) /\ DOMAIN new = 1..(n + 1) /\ new[n + 1] = row
      /\ \A j \in 1..n : new[j] = rows[j]
  BY <1>1
<1> HIDE DEF new, n
<1>3. \A j \in DOMAIN new : j \in 1..n \/ j = n + 1
  BY <1>1, <1>2
<1>4. \A j \in DOMAIN new : Genuine(new[j])
  BY <1>1, <1>2, <1>3 DEF GoodRows
<1>5. OthersOnce(new)
  <2> SUFFICES ASSUME NEW i \in DOMAIN new, NEW j \in DOMAIN new,
                      new[i].eid = new[j].eid, ~Own(new[i])
               PROVE  i = j
    BY DEF OthersOnce
  <2>1. ~Own(new[j])
    BY <1>4, SameAuthor
  <2>2. CASE i \in 1..n /\ j \in 1..n
    BY <1>1, <1>2, <2>2 DEF GoodRows, OthersOnce
  <2>3. CASE ~(i \in 1..n /\ j \in 1..n)
    BY <1>1, <1>2, <1>3, <2>1, <2>3
  <2> QED BY <2>2, <2>3
<1>6. LabelsOnce(new)
  <2> SUFFICES ASSUME NEW i \in DOMAIN new, NEW j \in DOMAIN new,
                      new[i].label = new[j].label, new[i].label # 0
               PROVE  i = j
    BY DEF LabelsOnce
  <2>1. CASE i \in 1..n /\ j \in 1..n
    BY <1>1, <1>2, <2>1 DEF GoodRows, LabelsOnce
  <2>2. CASE ~(i \in 1..n /\ j \in 1..n)
    BY <1>1, <1>2, <1>3, <2>2 DEF NoLabel
  <2> QED BY <2>1, <2>2
<1>7. GoodRows(new)
  BY <1>2, <1>4, <1>5, <1>6 DEF GoodRows
<1>8. Keeps(new, rows)
  <2>1. \A j \in DOMAIN rows : j \in DOMAIN new /\ new[j] = rows[j]
    BY <1>1, <1>2
  <2> QED BY <2>1 DEF Keeps
<1> QED BY <1>7, <1>8 DEF new

\* Taking entries from the optimistic map leaves the others good.
LEMMA FewerGood ==
  ASSUME NEW a, GoodOpts(a), NEW b, NEW l, Fewer(b, a, l)
  PROVE  GoodOpts(b)
BY DEF GoodOpts, Fewer

\* A row that is taken is the user's own, and so is the message.
LEMMA TakenIsOwn ==
  ASSUME NEW s \in RunState, GoodRows(s.list), NEW m, Unpacked(m),
         NEW k \in DOMAIN s.list, Takes(s, m, k)
  PROVE  Own(s.list[k]) /\ Own(m)
<1>1. Genuine(s.list[k]) /\ Genuine(m)
  BY DEF GoodRows, Unpacked
<1>2. CASE m.label # 0 /\ s.list[k].label = m.label
  BY <1>1, <1>2 DEF Genuine
<1>3. CASE Mine(m) /\ (SameLine(s.list[k], m) \/ s.list[k].label # 0)
  BY <1>1, <1>3 DEF Genuine, Mine, SameLine, Own
<1> QED BY <1>2, <1>3 DEF Takes

\* A message that takes a row keeps the rows good ...
LEMMA TookGood ==
  ASSUME NEW s, GoodRun(s), NEW m, Unpacked(m), NEW s2 \in RunState, Fewer(s2.opt, s.opt, m.label),
         NEW k \in DOMAIN s.list, Took(s, s2, m, k)
  PROVE  GoodRun(s2) /\ Keeps(s2.list, s.list)
<1>1. s \in RunState /\ GoodRows(s.list) /\ GoodOpts(s.opt) /\ OthersSeen(s.list, s.seen)
  BY DEF GoodRun
<1>2. Takes(s, m, k) /\ s2.seen = s.seen
  BY DEF Took
<1>3. Own(s.list[k]) /\ Own(m)
  BY <1>1, <1>2, TakenIsOwn
<1>4. PICK row : /\ s2.list = [s.list EXCEPT ![k] = row]
                 /\ Relabelled(row, m, IF m.label = 0 THEN s.list[k].label ELSE m.label)
  BY DEF Took
<1>5. row \in Row /\ Own(row)
  BY <1>3, <1>4 DEF Relabelled, Own
<1>6. Genuine(s.list[k]) /\ Genuine(m) /\ m.eid # 0
  BY <1>1 DEF GoodRows, Unpacked
<1>7. row.label # 0 => row.label <= sends
  BY <1>4, <1>6 DEF Relabelled, Genuine
<1>8. Genuine(row)
  BY <1>4, <1>5, <1>6, <1>7 DEF Relabelled, Genuine
<1>9. row.label = s.list[k].label \/ NoLabel(s.list, row.label)
  BY <1>2, <1>4 DEF Relabelled, Takes
<1>10. GoodRows(s2.list) /\ Keeps(s2.list, s.list) /\ OthersSeen(s2.list, s.seen)
  BY <1>1, <1>3, <1>4, <1>5, <1>8, <1>9, PlaceTaken
<1>11. GoodOpts(s2.opt)
  BY <1>1, FewerGood
<1> QED BY <1>2, <1>10, <1>11 DEF GoodRun

\* ... and so does one that is skipped, dropped or added.
LEMMA AddedGood ==
  ASSUME NEW s, GoodRun(s), NEW m, Unpacked(m), NEW s2 \in RunState, Fewer(s2.opt, s.opt, m.label),
         Skipped(s, s2, m) \/ Dropped(s, s2, m) \/ Added(s, s2, m)
  PROVE  GoodRun(s2) /\ Keeps(s2.list, s.list)
<1>1. s \in RunState /\ GoodRows(s.list) /\ GoodOpts(s.opt) /\ OthersSeen(s.list, s.seen)
  BY DEF GoodRun
<1>2. GoodOpts(s2.opt)
  BY <1>1, FewerGood
<1>3. CASE s2.list = s.list /\ (s2.seen = s.seen \/ s2.seen = s.seen \union {m.eid})
  BY <1>1, <1>2, <1>3, KeepsSelf DEF GoodRun, OthersSeen
<1>4. CASE Added(s, s2, m)
  <2>1. /\ s2.list = Append(s.list, m) /\ s2.seen = s.seen \union {m.eid}
        /\ NoLabel(s.list, m.label) /\ m.eid \notin s.seen
    BY <1>4 DEF Added, Unmatched
  <2>2. m \in Row /\ Genuine(m)
    BY DEF Unpacked
  <2>3. \A k \in DOMAIN s.list : Genuine(s.list[k])
    BY <1>1 DEF GoodRows
  <2>4. ~Own(m) => \A k \in DOMAIN s.list : s.list[k].eid # m.eid
    <3> SUFFICES ASSUME ~Own(m), NEW k \in DOMAIN s.list, s.list[k].eid = m.eid PROVE FALSE
      OBVIOUS
    <3>1. ~Own(s.list[k])
      BY <2>2, <2>3, SameAuthor
    <3> QED BY <1>1, <2>1, <3>1 DEF OthersSeen
  <2>5. GoodRows(s2.list) /\ Keeps(s2.list, s.list)
    BY <1>1, <2>1, <2>2, <2>4, RowAdded
  <2>6. OthersSeen(s2.list, s2.seen)
    <3> SUFFICES ASSUME NEW k \in DOMAIN s2.list, ~Own(s2.list[k])
                 PROVE  s2.list[k].eid \in s2.seen
      BY DEF OthersSeen
    <3>1. s.list \in Seq(Row)
      BY <1>1 DEF GoodRows
    <3>2. s2.list[k] = m \/ (k \in DOMAIN s.list /\ s2.list[k] = s.list[k])
      BY <2>1, <3>1
    <3> QED BY <1>1, <2>1, <3>2 DEF OthersSeen
  <2> QED BY <1>2, <2>5, <2>6 DEF GoodRun
<1> QED BY <1>3, <1>4 DEF Skipped, Dropped

\* Every turn of the loop keeps the rows good and every tombstone in place.
LEMMA AppendOneGood ==
  ASSUME NEW s, GoodRun(s), NEW m, Unpacked(m)
  PROVE  GoodRun(AppendOne(s, m)) /\ Keeps(AppendOne(s, m).list, s.list)
<1>1. Outcome(s, AppendOne(s, m), m)
  BY AppendOneOutcome DEF GoodRun, Unpacked
<1> QED BY <1>1, TookGood, AddedGood DEF Outcome

\* The messages of a batch, oldest first.
LEMMA LiveRowsAre ==
  ASSUME LogInv, NEW eids \in SUBSET Messages(DOMAIN log)
  PROVE  /\ Len(LiveRows(eids)) = Cardinality(eids) /\ Cardinality(eids) \in Nat
         /\ Ascending(eids) \in [1..Cardinality(eids) -> eids]
         /\ \A n \in 1..Cardinality(eids) :
              LiveRows(eids)[n] = LiveRow(Ascending(eids)[n]) /\ Unpacked(LiveRows(eids)[n])
<1>1. DOMAIN log = 1..Len(log) /\ Len(log) \in Nat
  BY EventsTyped
<1>2. eids \in SUBSET (1..Len(log)) /\ eids \in SUBSET Messages(DOMAIN log)
  BY <1>1 DEF Messages
<1>3. Cardinality(eids) \in Nat /\ Ascending(eids) \in [1..Cardinality(eids) -> eids]
  BY <1>1, <1>2, AscendingIs
<1> DEFINE N == Cardinality(eids)
           A == Ascending(eids)
           R == LiveRows(eids)
<1>4. R = [k \in 1..N |-> LiveRow(A[k])]
  BY DEF LiveRows
<1> HIDE DEF N, A, R
<1>5. DOMAIN R = 1..N /\ \A n \in 1..N : R[n] = LiveRow(A[n])
  BY <1>4
<1>6. Len(R) = N
  <2>1. \A n \in 1..N : LiveRow(A[n]) \in {LiveRow(A[k]) : k \in 1..N}
    OBVIOUS
  <2>2. R \in Seq({LiveRow(A[k]) : k \in 1..N})
    BY <1>3, <1>4, <2>1 DEF N
  <2> QED BY <1>3, <1>5, <2>2 DEF N
<1>7. \A n \in 1..N : A[n] \in Messages(DOMAIN log) /\ A[n] \in Nat /\ A[n] # 0
  <2>1. \A n \in 1..N : A[n] \in eids
    BY <1>3 DEF N, A
  <2>2. \A e \in eids : e \in Messages(DOMAIN log) /\ e \in Nat /\ e # 0
    BY <1>1, <1>2
  <2> QED BY <2>1, <2>2
<1>8. \A n \in 1..N : Unpacked(R[n])
  <2> SUFFICES ASSUME NEW n \in 1..N PROVE Unpacked(LiveRow(A[n]))
    BY <1>5
  <2>1. LiveRow(A[n]) \in Row /\ Genuine(LiveRow(A[n])) /\ LiveRow(A[n]).eid = A[n]
        /\ LiveRow(A[n]).edit = 0 /\ ~LiveRow(A[n]).redacted
    BY <1>7, FreshRows
  <2> QED BY <1>7, <2>1 DEF Unpacked
<1> QED BY <1>3, <1>5, <1>6, <1>8 DEF N, A, R

\* Every message of the log becomes a row.
LEMMA PageRowsAre ==
  ASSUME LogInv, NEW eids \in SUBSET DOMAIN log
  PROVE  /\ Len(PageRows(eids)) = Cardinality(Messages(eids)) /\ Cardinality(Messages(eids)) \in Nat
         /\ Ascending(Messages(eids)) \in [1..Cardinality(Messages(eids)) -> Messages(eids)]
         /\ PageRows(eids) \in Seq(Row)
         /\ DOMAIN PageRows(eids) = 1..Cardinality(Messages(eids))
         /\ \A n \in 1..Cardinality(Messages(eids)) :
              /\ PageRows(eids)[n] = PageRow(Ascending(Messages(eids))[n])
              /\ Unpacked(PageRows(eids)[n])
<1>1. DOMAIN log = 1..Len(log) /\ Len(log) \in Nat
  BY EventsTyped
<1> DEFINE M == Messages(eids)
           N == Cardinality(M)
           A == Ascending(M)
           R == PageRows(eids)
<1>2. M \in SUBSET (1..Len(log)) /\ M \in SUBSET Messages(DOMAIN log)
  BY <1>1 DEF Messages
<1>3. R = [k \in 1..N |-> PageRow(A[k])]
  BY DEF PageRows
<1> HIDE DEF M
<1>4. N \in Nat /\ A \in [1..N -> M]
  BY <1>1, <1>2, AscendingIs
<1> HIDE DEF N, A, R
<1>5. DOMAIN R = 1..N /\ \A n \in 1..N : R[n] = PageRow(A[n])
  BY <1>3
<1>6. \A n \in 1..N : A[n] \in Messages(DOMAIN log) /\ A[n] \in Nat /\ A[n] # 0
  <2>1. \A n \in 1..N : A[n] \in M
    BY <1>4
  <2>2. \A e \in M : e \in Messages(DOMAIN log) /\ e \in Nat /\ e # 0
    BY <1>1, <1>2
  <2> QED BY <2>1, <2>2
<1>7. \A n \in 1..N : R[n] \in Row /\ Unpacked(R[n])
  <2> SUFFICES ASSUME NEW n \in 1..N PROVE PageRow(A[n]) \in Row /\ Unpacked(PageRow(A[n]))
    BY <1>5
  <2>1. PageRow(A[n]) \in Row /\ Genuine(PageRow(A[n])) /\ PageRow(A[n]).eid = A[n]
        /\ PageRow(A[n]).edit = 0 /\ ~PageRow(A[n]).redacted
    BY <1>6, FreshRows
  <2> QED BY <1>6, <2>1 DEF Unpacked
<1>8. R \in Seq(Row) /\ Len(R) = N
  BY <1>3, <1>4, <1>5, <1>7
<1> QED BY <1>4, <1>5, <1>7, <1>8 DEF M, N, A, R

-----------------------------------------------------------------------------
(* Sorting and dropping *)

\* Rows moved about: all that is asked of the new rows is that they are the old ones.
LEMMA SortedGood ==
  ASSUME NEW rows, GoodRows(rows)
  PROVE  GoodRows(Sorted(rows)) /\ Keeps(Sorted(rows), rows)
<1>1. rows \in Seq(Row) /\ \A k \in DOMAIN rows : rows[k].t \in Nat
  BY RowsTyped DEF GoodRows
<1> DEFINE new == Sorted(rows)
<1>2. new \in Seq(Row) /\ DOMAIN new = DOMAIN rows
  BY <1>1, SortedIs
<1>3. PICK p \in [DOMAIN rows -> DOMAIN rows] :
        /\ \A i \in DOMAIN rows : new[i] = rows[p[i]]
        /\ \A i, j \in DOMAIN rows : p[i] = p[j] => i = j
        /\ \A k \in DOMAIN rows : \E i \in DOMAIN rows : p[i] = k
  BY <1>1, SortedIs
<1> HIDE DEF new
<1>4. \A i \in DOMAIN new : Alike(new[i], rows[p[i]])
  BY <1>2, <1>3 DEF Alike
<1>5. GoodRows(new)
  BY <1>2, <1>3, <1>4, Recast
<1>6. Keeps(new, rows)
  <2> SUFFICES ASSUME NEW k \in DOMAIN rows
               PROVE  \E j \in DOMAIN new : new[j].eid = rows[k].eid
                                            /\ (rows[k].redacted => new[j].redacted)
    BY DEF Keeps
  <2>1. PICK i \in DOMAIN rows : p[i] = k
    BY <1>3
  <2> QED BY <1>2, <1>3, <2>1
<1> QED BY <1>5, <1>6 DEF new

\* The rows left when repeats are dropped.
Once(rows) == {k \in DOMAIN rows : rows[k].eid = 0 \/ RowOfEid(rows, rows[k].eid) = k}

\* Dropping repeats keeps the rows good.
LEMMA OnceGood ==
  ASSUME NEW rows, GoodRows(rows)
  PROVE  GoodRows(At(rows, Once(rows))) /\ Keeps(At(rows, Once(rows)), rows)
<1> DEFINE P == Once(rows)
           new == At(rows, P)
<1>1. rows \in Seq(Row) /\ DOMAIN rows = 1..Len(rows)
  BY DEF GoodRows
<1>2. P \in SUBSET (1..Len(rows))
  BY <1>1 DEF Once
<1> HIDE DEF P
<1>3. new \in Seq(Row)
  BY <1>1, <1>2, AtIs
<1>4. PICK p \in [DOMAIN new -> P] :
        /\ \A i \in DOMAIN new : new[i] = rows[p[i]]
        /\ \A i, j \in DOMAIN new : i < j => p[i] < p[j]
        /\ \A k \in P : \E i \in DOMAIN new : p[i] = k
  BY <1>1, <1>2, AtIs, SMTT(40)
<1> HIDE DEF new
<1>5. DOMAIN new \subseteq Nat
  BY <1>3
<1>6. p \in [DOMAIN new -> DOMAIN rows]
  BY <1>1, <1>2
<1>7. \A i, j \in DOMAIN new : p[i] = p[j] => i = j
  <2> SUFFICES ASSUME NEW i \in DOMAIN new, NEW j \in DOMAIN new, p[i] = p[j], i # j PROVE FALSE
    OBVIOUS
  <2>1. i < j \/ j < i
    BY <1>5
  <2>2. p[i] \in Nat /\ p[j] \in Nat
    <3>1. p[i] \in P /\ p[j] \in P
      OBVIOUS
    <3>2. \A k \in P : k \in Nat
      BY <1>1, <1>2
    <3> QED BY <3>1, <3>2
  <2>3. p[i] < p[j] \/ p[j] < p[i]
    BY <1>4, <2>1
  <2> QED BY <2>2, <2>3
<1>8. \A i \in DOMAIN new : Alike(new[i], rows[p[i]])
  BY <1>4 DEF Alike
<1>9. GoodRows(new)
  BY <1>3, <1>6, <1>7, <1>8, Recast
<1>10. Keeps(new, rows)
  <2> SUFFICES ASSUME NEW k \in DOMAIN rows, ~Own(rows[k])
               PROVE  \E j \in DOMAIN new : new[j].eid = rows[k].eid
                                            /\ (rows[k].redacted => new[j].redacted)
    BY DEF Keeps
  <2> DEFINE a == RowOfEid(rows, rows[k].eid)
  <2>1. a \in DOMAIN rows /\ rows[a].eid = rows[k].eid
    BY <1>1, EidRowIs
  <2>2. a = k
    BY <2>1 DEF GoodRows, OthersOnce
  <2>3. k \in P
    BY <2>2 DEF P, Once
  <2>4. PICK i \in DOMAIN new : p[i] = k
    BY <1>4, <2>3
  <2> QED BY <1>4, <2>4
<1> QED BY <1>9, <1>10 DEF new, P

\* So does the sort of the whole window.
LEMMA ResortedGood ==
  ASSUME NEW s \in RunState, GoodRows(s.list)
  PROVE  GoodRows(Resorted(s)) /\ Keeps(Resorted(s), s.list)
<1> DEFINE all == Sorted(s.list)
<1>1. Resorted(s) = At(all, Once(all)) \/ Resorted(s) = s.list
  BY DEF Resorted, Once
<1>2. GoodRows(all) /\ Keeps(all, s.list)
  BY SortedGood
<1> HIDE DEF all
<1>3. GoodRows(At(all, Once(all))) /\ Keeps(At(all, Once(all)), all)
  BY <1>2, OnceGood
<1>4. Keeps(At(all, Once(all)), s.list)
  BY <1>2, <1>3, KeepsOnwards
<1> QED BY <1>1, <1>3, <1>4, KeepsSelf

\* What the store holds of the rows: the list, the optimistic map, the stash.
LEMMA BatchAppendGood ==
  ASSUME LogInv, NEW s0, GoodRows(s0.list), GoodOpts(s0.opt),
         NEW eids \in SUBSET Messages(DOMAIN log)
  PROVE  /\ GoodRows(BatchAppend(s0, eids).list) /\ Keeps(BatchAppend(s0, eids).list, s0.list)
         /\ GoodOpts(BatchAppend(s0, eids).opt)
         /\ BatchAppend(s0, eids).stash = s0.stash
<1> DEFINE first == [list |-> s0.list, opt |-> s0.opt, seen |-> Eids(s0.list), pushed |-> <<>>]
           R == LiveRows(eids)
           A == {x \in RunState : GoodRun(x) /\ Keeps(x.list, s0.list)}
           G == [n \in 0..Len(R) |-> A]
           s == AppendAll(first, R)
<1>1. Len(R) \in Nat /\ \A n \in 1..Len(R) : Unpacked(R[n])
  BY LiveRowsAre
<1>2. s0.list \in Seq(Row) /\ s0.opt \in Seq(Opt)
  BY DEF GoodRows, GoodOpts
<1>3. Eids(s0.list) \in SUBSET Nat
  <2>1. \A k \in DOMAIN s0.list : s0.list[k].eid \in Nat
    BY <1>2, RowsTyped
  <2> QED BY <2>1 DEF Eids
<1>4. first \in RunState
  BY <1>2, <1>3 DEF RunState
<1>5. OthersSeen(s0.list, Eids(s0.list))
  BY OtherHasEid DEF OthersSeen, Eids, GoodRows
<1>6. GoodRun(first)
  BY <1>4, <1>5 DEF GoodRun
<1> HIDE DEF R
<1>7. G[0] = A /\ G[Len(R)] = A /\ \A n \in 1..Len(R) : G[n-1] = A /\ G[n] = A
  BY <1>1
<1>8. first \in A
  BY <1>4, <1>6, KeepsSelf
<1>9. \A n \in 1..Len(R) : \A x \in A : AppendOne(x, R[n]) \in A
  <2> SUFFICES ASSUME NEW n \in 1..Len(R), NEW x \in A PROVE AppendOne(x, R[n]) \in A
    OBVIOUS
  <2>1. GoodRun(x) /\ Keeps(x.list, s0.list) /\ Unpacked(R[n])
    BY <1>1
  <2>2. GoodRun(AppendOne(x, R[n])) /\ Keeps(AppendOne(x, R[n]).list, x.list)
    BY <2>1, AppendOneGood
  <2>3. Keeps(AppendOne(x, R[n]).list, s0.list)
    BY <2>1, <2>2, KeepsOnwards DEF GoodRun
  <2> QED BY <2>2, <2>3 DEF GoodRun
<1> HIDE DEF G, A, first
<1>10. s \in G[Len(R)]
  BY <1>1, <1>7, <1>8, <1>9, AppendAllRuns
<1>11. s \in RunState /\ GoodRun(s) /\ Keeps(s.list, s0.list)
  BY <1>7, <1>10 DEF A
<1>12. BatchAppend(s0, eids) = [list |-> Resorted(s), opt |-> s.opt, stash |-> s0.stash]
  BY DEF BatchAppend, first, R
<1> HIDE DEF s
<1>13. GoodRows(s.list) /\ GoodOpts(s.opt)
  BY <1>11 DEF GoodRun
<1>14. GoodRows(Resorted(s)) /\ Keeps(Resorted(s), s.list)
  BY <1>11, <1>13, ResortedGood
<1>15. Keeps(Resorted(s), s0.list)
  BY <1>11, <1>13, <1>14, KeepsOnwards
<1> QED BY <1>12, <1>13, <1>14, <1>15

-----------------------------------------------------------------------------
(* Items on rows *)

\* foldReactions, foldRedactions and foldEdits leave what a row is.
LEMMA MarkedIs ==
  ASSUME LogInv, NEW r \in Row, r.eid # 0, NEW eids \in SUBSET DOMAIN log
  PROVE  /\ Marked(r, eids) \in Row /\ Alike(Marked(r, eids), r)
         /\ \A e \in eids : log[e].kind = "redact" /\ log[e].of = r.eid => Marked(r, eids).redacted
<1> DEFINE Of(kind) == {e \in eids : log[e].kind = kind /\ log[e].of = r.eid}
           redacted == r.redacted \/ Of("redact") # {}
           edit == IF Of("edit") = {} \/ redacted THEN r.edit ELSE Last(Of("edit"))
           reacted == IF Of("react") = {} THEN r.reacted ELSE log[Last(Of("react"))].add
<1>1. Marked(r, eids) = [r EXCEPT !.redacted = redacted, !.edit = edit, !.reacted = reacted]
  BY DEF Marked, Row
<1>2. DOMAIN log = 1..Len(log) /\ Len(log) \in Nat /\ \A e \in DOMAIN log : log[e] \in Event
  BY EventsTyped
<1>3. \A kind : Of(kind) \in SUBSET (0..Len(log)) /\ Of(kind) \subseteq DOMAIN log
  BY <1>2
<1>4. \A kind : Of(kind) # {} => Last(Of(kind)) \in DOMAIN log
  <2> SUFFICES ASSUME NEW kind, Of(kind) # {} PROVE Last(Of(kind)) \in DOMAIN log
    OBVIOUS
  <2> HIDE DEF Of
  <2> QED BY <1>2, <1>3, LastIs
<1>5. r.redacted \in BOOLEAN /\ r.edit \in Nat /\ r.reacted \in BOOLEAN
  BY DEF Row
<1>6. redacted \in BOOLEAN
  BY <1>5
<1>7. edit \in Nat
  <2> HIDE DEF Of, redacted
  <2>1. \A e \in DOMAIN log : e \in Nat
    BY <1>2
  <2> QED BY <1>4, <1>5, <2>1
<1>8. reacted \in BOOLEAN
  <2>1. \A e \in DOMAIN log : log[e].add \in BOOLEAN
    BY <1>2 DEF Event
  <2> HIDE DEF Of
  <2> QED BY <1>4, <1>5, <2>1
<1>9. \A e \in eids : log[e].kind = "redact" /\ log[e].of = r.eid => redacted
  OBVIOUS
<1>10. r.redacted => redacted
  OBVIOUS
<1> HIDE DEF redacted, edit, reacted, Of
<1> QED BY <1>1, <1>6, <1>7, <1>8, <1>9, <1>10 DEF Row, Alike

\* An item applied to a row leaves it that row; a redaction makes it a tombstone.
LEMMA AppliedIs ==
  ASSUME LogInv, NEW r \in Row, r.eid # 0, NEW e \in Items(DOMAIN log)
  PROVE  /\ Applied(r, e) \in Row /\ Alike(Applied(r, e), r)
         /\ log[e].kind = "redact" => Applied(r, e).redacted
<1>1. log[e] \in Event /\ e \in Nat /\ log[e].kind \in Kinds
  BY EventsTyped DEF Items
<1>2. log[e].add \in BOOLEAN
  BY <1>1 DEF Event
<1>3. CASE log[e].kind = "redact"
  <2>1. Applied(r, e) = [r EXCEPT !.redacted = TRUE]
    BY <1>3 DEF Applied
  <2> QED BY <2>1 DEF Row, Alike
<1>4. CASE log[e].kind = "edit"
  <2>1. Applied(r, e) = IF r.redacted THEN r ELSE [r EXCEPT !.edit = e]
    BY <1>4 DEF Applied
  <2> QED BY <1>1, <1>4, <2>1 DEF Row, Alike
<1>5. CASE log[e].kind = "react"
  <2>1. Applied(r, e) = [r EXCEPT !.reacted = log[e].add]
    BY <1>5 DEF Applied
  <2> QED BY <1>2, <1>5, <2>1 DEF Row, Alike
<1> QED BY <1>1, <1>3, <1>4, <1>5 DEF Kinds

\* What an item names is an earlier message.
LEMMA ItemsTyped ==
  ASSUME LogInv, NEW i \in Items(DOMAIN log)
  PROVE  i \in Nat /\ log[i].of \in DOMAIN log /\ log[i].of # 0 /\ log[log[i].of].kind = "msg"
<1>1. DOMAIN log = 1..Len(log) /\ Len(log) \in Nat
  BY EventsTyped
<1>2. i \in DOMAIN log /\ log[i].kind \in Kinds
  BY DEF Items
<1>3. log[i].of \in 1..(i - 1) /\ log[log[i].of].kind = "msg"
  BY <1>2 DEF LogInv, EventsSound
<1> QED BY <1>1, <1>2, <1>3

\* The rows of a fold are the rows folded into, and every item is on its row or
\* in the stash.
FoldSound(f, rows, items, waiting) ==
  /\ f.stash \subseteq items \union waiting
  /\ f.list \in Seq(Row) /\ DOMAIN f.list = DOMAIN rows
  /\ \A k \in DOMAIN rows : Alike(f.list[k], rows[k])
  /\ \A i \in items \union waiting :
       \/ i \in f.stash
       \/ \E k \in DOMAIN rows : /\ rows[k].eid = log[i].of
                                 /\ log[i].kind = "redact" => f.list[k].redacted

\* Folding marks rows, and puts the items that find none into the stash.
LEMMA FoldAllIs ==
  ASSUME LogInv, NEW rows, GoodRows(rows), NEW items \in SUBSET Items(DOMAIN log),
         NEW waiting \in SUBSET Items(DOMAIN log)
  PROVE  FoldSound(FoldAll(rows, items, waiting), rows, items, waiting)
<1> DEFINE due  == items \union waiting
           hits == {e \in due : log[e].of \in Eids(rows)}
           new  == Folded(rows, hits)
           f    == FoldAll(rows, items, waiting)
<1>1. f.list = new /\ f.stash = due \ hits
  BY DEF FoldAll
<1>2. rows \in Seq(Row) /\ DOMAIN rows = 1..Len(rows) /\ Len(rows) \in Nat
      /\ \A k \in DOMAIN rows : rows[k] \in Row
  BY RowsTyped DEF GoodRows
<1>3. hits \in SUBSET DOMAIN log
  BY DEF Items
<1>4. \A k \in DOMAIN rows :
        new[k] = IF rows[k].eid # 0 /\ RowOfEid(rows, rows[k].eid) = k
                 THEN Marked(rows[k], hits) ELSE rows[k]
  BY DEF Folded
<1>5. DOMAIN new = DOMAIN rows
  BY DEF Folded
<1>6. new = [k \in 1..Len(rows) |-> new[k]]
  BY <1>2 DEF Folded
<1> HIDE DEF new, hits
<1>7. \A k \in DOMAIN rows : new[k] \in Row /\ Alike(new[k], rows[k])
  <2> SUFFICES ASSUME NEW k \in DOMAIN rows PROVE new[k] \in Row /\ Alike(new[k], rows[k])
    OBVIOUS
  <2>1. CASE rows[k].eid # 0
    BY <1>2, <1>3, <1>4, <2>1, MarkedIs DEF Alike
  <2>2. CASE rows[k].eid = 0
    BY <1>2, <1>4, <2>2 DEF Alike
  <2> QED BY <2>1, <2>2
<1>8. new \in Seq(Row)
  BY <1>2, <1>6, <1>7
<1>9. ASSUME NEW i \in due
      PROVE  \/ i \in due \ hits
             \/ \E k \in DOMAIN rows : /\ rows[k].eid = log[i].of
                                       /\ log[i].kind = "redact" => new[k].redacted
  <2> SUFFICES ASSUME i \in hits
               PROVE  \E k \in DOMAIN rows : /\ rows[k].eid = log[i].of
                                             /\ log[i].kind = "redact" => new[k].redacted
    OBVIOUS
  <2>1. log[i].of \in Eids(rows)
    BY DEF hits
  <2>2. log[i].of # 0 /\ \E k \in DOMAIN rows : rows[k].eid = log[i].of
    BY <2>1 DEF Eids
  <2> DEFINE a == RowOfEid(rows, log[i].of)
  <2>3. a \in DOMAIN rows /\ rows[a].eid = log[i].of
    BY <1>2, <2>2, EidRowIs
  <2>4. new[a] = Marked(rows[a], hits)
    BY <1>4, <2>2, <2>3
  <2>5. log[i].kind = "redact" => Marked(rows[a], hits).redacted
    BY <1>2, <1>3, <2>2, <2>3, MarkedIs
  <2> QED BY <2>3, <2>4, <2>5
<1> HIDE DEF f
<1>10. FoldSound(f, rows, items, waiting)
  BY <1>1, <1>5, <1>7, <1>8, <1>9 DEF FoldSound
<1> QED BY <1>10 DEF f

\* The redactions that have been processed have their tombstone, or wait.
Tombstones(rows, waiting) ==
  \A i \in Items(1..handled) :
    log[i].kind = "redact" /\ log[log[i].of].nick = Other =>
      \/ i \in waiting
      \/ \E k \in DOMAIN rows : rows[k].eid = log[i].of /\ rows[k].redacted

\* Rows that keep their tombstones keep every deletion.
LEMMA TombstonesKept ==
  ASSUME LogInv, NEW old, GoodRows(old), NEW new, Keeps(new, old),
         NEW waiting, Tombstones(old, waiting)
  PROVE  Tombstones(new, waiting)
<1> SUFFICES ASSUME NEW i \in Items(1..handled), log[i].kind = "redact",
                    log[log[i].of].nick = Other, i \notin waiting
             PROVE  \E k \in DOMAIN new : new[k].eid = log[i].of /\ new[k].redacted
  BY DEF Tombstones
<1>1. i \in Items(DOMAIN log)
  <2>1. DOMAIN log = 1..Len(log) /\ Len(log) \in Nat /\ handled \in Nat /\ handled <= Len(log)
    BY EventsTyped DEF LogInv, LogTypes
  <2>2. i \in 1..handled /\ log[i].kind \in Kinds
    BY DEF Items
  <2> QED BY <2>1, <2>2 DEF Items
<1>2. log[i].of # 0
  BY <1>1, ItemsTyped
<1>3. PICK k \in DOMAIN old : old[k].eid = log[i].of /\ old[k].redacted
  BY DEF Tombstones
<1>4. ~Own(old[k])
  <2>1. Genuine(old[k]) /\ old[k].eid # 0
    BY <1>2, <1>3 DEF GoodRows
  <2>2. old[k].nick = log[old[k].eid].nick
    BY <2>1 DEF Genuine
  <2> QED BY <1>3, <2>2 DEF Own
<1> QED BY <1>3, <1>4 DEF Keeps

\* Folding keeps the rows good, and every deletion.
LEMMA FoldAllGood ==
  ASSUME LogInv, NEW rows, GoodRows(rows), NEW items \in SUBSET Items(DOMAIN log),
         NEW waiting \in SUBSET Items(DOMAIN log), NEW f, FoldSound(f, rows, items, waiting)
  PROVE  /\ GoodRows(f.list) /\ f.stash \subseteq Items(DOMAIN log)
         /\ Tombstones(rows, waiting) => Tombstones(f.list, f.stash)
<1>1. /\ f.stash \subseteq items \union waiting
      /\ f.list \in Seq(Row) /\ DOMAIN f.list = DOMAIN rows
      /\ \A k \in DOMAIN rows : Alike(f.list[k], rows[k])
      /\ \A i \in items \union waiting :
           \/ i \in f.stash
           \/ \E k \in DOMAIN rows : /\ rows[k].eid = log[i].of
                                     /\ log[i].kind = "redact" => f.list[k].redacted
  BY DEF FoldSound
<1>2. GoodRows(f.list)
  <2> DEFINE p == [k \in DOMAIN f.list |-> k]
  <2>1. p \in [DOMAIN f.list -> DOMAIN rows] /\ \A k \in DOMAIN f.list : p[k] = k
    BY <1>1
  <2> HIDE DEF p
  <2>2. \A k \in DOMAIN f.list : Alike(f.list[k], rows[p[k]])
    BY <1>1, <2>1
  <2>3. \A j, k \in DOMAIN f.list : p[j] = p[k] => j = k
    BY <2>1
  <2> QED BY <1>1, <2>1, <2>2, <2>3, Recast
<1>3. f.stash \subseteq Items(DOMAIN log)
  BY <1>1
<1>4. ASSUME Tombstones(rows, waiting) PROVE Tombstones(f.list, f.stash)
  <2> SUFFICES ASSUME NEW i \in Items(1..handled), log[i].kind = "redact",
                      log[log[i].of].nick = Other, i \notin f.stash
               PROVE  \E k \in DOMAIN f.list : f.list[k].eid = log[i].of /\ f.list[k].redacted
    BY DEF Tombstones
  <2>1. CASE i \in waiting
    BY <1>1, <2>1 DEF Alike
  <2>2. CASE i \notin waiting
    <3>1. PICK k \in DOMAIN rows : rows[k].eid = log[i].of /\ rows[k].redacted
      BY <1>4, <2>2 DEF Tombstones
    <3> QED BY <1>1, <3>1 DEF Alike
  <2> QED BY <2>1, <2>2
<1> QED BY <1>2, <1>3, <1>4

-----------------------------------------------------------------------------
(* A page of history *)

\* What the loop of prependMessages carries.
PageState == [list : Seq(Row), opt : Seq(Opt), seen : SUBSET Nat]

\* What that loop always has.
GoodPage(s) == s \in PageState /\ GoodRows(s.list) /\ GoodOpts(s.opt) /\ OthersSeen(s.list, s.seen)

\* A message of a page takes a pending row of its text, or leaves everything.
Replaced(s, s2, m, k) ==
  /\ k \in DOMAIN s.list /\ PendingLike(s.list[k]) /\ SameLine(s.list[k], m)
  /\ \E row : /\ s2.list = [s.list EXCEPT ![k] = row] /\ Relabelled(row, m, s.list[k].label)
  /\ s2.seen = s.seen \union {m.eid}
  /\ Fewer(s2.opt, s.opt, s.list[k].label)

\* One turn of it: a pending row is replaced, or nothing happens.
ReplaceOutcome(s, s2, m) ==
  /\ s2 \in PageState
  /\ \/ \E k \in DOMAIN s.list : Replaced(s, s2, m, k)
     \/ s2 = s /\ \A k \in DOMAIN s.list : ~(PendingLike(s.list[k]) /\ SameLine(s.list[k], m))

\* ReplacePending, its row named.
LEMMA ReplacePendingIs ==
  ASSUME NEW s, NEW m
  PROVE  ReplacePending(s, m) =
           IF PendingRow(s.list, m) = 0 THEN s
           ELSE [s EXCEPT !.list = [@ EXCEPT ![PendingRow(s.list, m)] =
                                      [m EXCEPT !.label = s.list[PendingRow(s.list, m)].label]],
                          !.opt = Without(@, s.list[PendingRow(s.list, m)].label),
                          !.seen = @ \union {m.eid}]
BY DEF ReplacePending

\* Each turn is one of the two.
LEMMA ReplacePendingOutcome ==
  ASSUME NEW s \in PageState, NEW m \in Row
  PROVE  ReplaceOutcome(s, ReplacePending(s, m), m)
<1> DEFINE s2 == ReplacePending(s, m)
           a == PendingRow(s.list, m)
           row == [m EXCEPT !.label = s.list[a].label]
           W == Without(s.opt, s.list[a].label)
<1>0. /\ s.list \in Seq(Row) /\ s.opt \in Seq(Opt) /\ s.seen \in SUBSET Nat
  BY DEF PageState
<1>1. /\ a = 0 => \A k \in DOMAIN s.list : ~(PendingLike(s.list[k]) /\ SameLine(s.list[k], m))
      /\ a # 0 => a \in DOMAIN s.list /\ PendingLike(s.list[a]) /\ SameLine(s.list[a], m)
  BY <1>0, PendingRowIs
<1>2. CASE a = 0
  <2>1. s2 = s
    BY <1>2, ReplacePendingIs
  <2>2. ReplaceOutcome(s, s2, m)
    <3> HIDE DEF s2
    <3> QED BY <1>1, <1>2, <2>1 DEF ReplaceOutcome
  <2> QED BY <2>2
<1>3. CASE a # 0
  <2>1. s2 = [s EXCEPT !.list = [@ EXCEPT ![a] = row], !.opt = W, !.seen = @ \union {m.eid}]
    BY <1>3, ReplacePendingIs
  <2>2. s.list[a] \in Row
    BY <1>0, <1>1, <1>3
  <2>3. s.list[a].label \in Nat /\ m.eid \in Nat
    BY <2>2 DEF Row
  <2>4. Relabelled(row, m, s.list[a].label)
    BY <2>3, RelabelIs
  <2>5. row \in Row
    BY <2>4 DEF Relabelled
  <2>6. Fewer(W, s.opt, s.list[a].label)
    BY <1>0, FewerWithout
  <2>7. W \in Seq(Opt)
    BY <2>6 DEF Fewer
  <2>8. [s.list EXCEPT ![a] = row] \in Seq(Row)
    <3> HIDE DEF row, a
    <3> QED BY <1>0, <1>1, <1>3, <2>5
  <2>9. s2 \in PageState /\ s2.list = [s.list EXCEPT ![a] = row] /\ s2.opt = W
        /\ s2.seen = s.seen \union {m.eid}
    <3> HIDE DEF s2, row, W, a
    <3> QED BY <1>0, <2>1, <2>3, <2>7, <2>8 DEF PageState
  <2>10. ReplaceOutcome(s, s2, m)
    <3> HIDE DEF s2, row, W, a
    <3> QED BY <1>1, <1>3, <2>4, <2>6, <2>9 DEF ReplaceOutcome, Replaced
  <2> QED BY <2>10
<1> QED BY <1>2, <1>3

\* Every turn keeps the rows good and every tombstone in place.
LEMMA ReplacePendingGood ==
  ASSUME NEW s, GoodPage(s), NEW m, Unpacked(m)
  PROVE  GoodPage(ReplacePending(s, m)) /\ Keeps(ReplacePending(s, m).list, s.list)
<1> DEFINE s2 == ReplacePending(s, m)
<1>1. ReplaceOutcome(s, s2, m)
  BY ReplacePendingOutcome DEF GoodPage, Unpacked
<1> HIDE DEF s2
<1>2. s \in PageState /\ GoodRows(s.list) /\ GoodOpts(s.opt) /\ OthersSeen(s.list, s.seen)
  BY DEF GoodPage
<1>3. ASSUME s2 = s PROVE GoodPage(s2) /\ Keeps(s2.list, s.list)
  BY <1>3, KeepsSelf
<1>4. ASSUME NEW k \in DOMAIN s.list, Replaced(s, s2, m, k)
      PROVE  GoodPage(s2) /\ Keeps(s2.list, s.list)
  <2>1. PICK row : /\ s2.list = [s.list EXCEPT ![k] = row]
                   /\ Relabelled(row, m, s.list[k].label)
    BY <1>4 DEF Replaced
  <2>2. PendingLike(s.list[k]) /\ SameLine(s.list[k], m) /\ s2.seen = s.seen \union {m.eid}
        /\ Fewer(s2.opt, s.opt, s.list[k].label)
    BY <1>4 DEF Replaced
  <2>3. Genuine(s.list[k]) /\ Genuine(m) /\ m.eid # 0
    BY <1>2 DEF GoodRows, Unpacked
  <2>4. Own(s.list[k]) /\ Own(m) /\ s.list[k].label <= sends
    BY <2>2, <2>3 DEF Genuine, PendingLike, SameLine, Own
  <2>5. row \in Row /\ Own(row) /\ row.label = s.list[k].label
    BY <2>1, <2>4 DEF Relabelled, Own
  <2>6. Genuine(row)
    BY <2>1, <2>3, <2>4, <2>5 DEF Relabelled, Genuine
  <2>7. GoodRows(s2.list) /\ Keeps(s2.list, s.list) /\ OthersSeen(s2.list, s.seen)
    BY <1>2, <2>1, <2>4, <2>5, <2>6, PlaceTaken
  <2>8. OthersSeen(s2.list, s2.seen)
    BY <2>2, <2>7 DEF OthersSeen
  <2>9. GoodOpts(s2.opt)
    BY <1>2, <2>2, FewerGood
  <2>10. s2 \in PageState
    BY <1>1 DEF ReplaceOutcome
  <2> QED BY <2>7, <2>8, <2>9, <2>10 DEF GoodPage
<1>5. GoodPage(s2) /\ Keeps(s2.list, s.list)
  BY <1>1, <1>3, <1>4 DEF ReplaceOutcome
<1> QED BY <1>5 DEF s2

\* The loop over a page's messages.
LEMMA ReplaceAllGood ==
  ASSUME LogInv, NEW rows, GoodRows(rows), NEW opts, GoodOpts(opts),
         NEW eids \in SUBSET DOMAIN log, NEW s,
         s = ReplaceAll([list |-> rows, opt |-> opts, seen |-> Eids(rows)], PageRows(eids))
  PROVE  GoodPage(s) /\ Keeps(s.list, rows)
<1> DEFINE first == [list |-> rows, opt |-> opts, seen |-> Eids(rows)]
           R == PageRows(eids)
           A == {x \in PageState : GoodPage(x) /\ Keeps(x.list, rows)}
           G == [n \in 0..Len(R) |-> A]
<1>1. Len(R) \in Nat /\ \A n \in 1..Len(R) : Unpacked(R[n])
  BY PageRowsAre
<1>2. rows \in Seq(Row) /\ opts \in Seq(Opt)
  BY DEF GoodRows, GoodOpts
<1>3. Eids(rows) \in SUBSET Nat
  <2>1. \A k \in DOMAIN rows : rows[k].eid \in Nat
    BY <1>2, RowsTyped
  <2> QED BY <2>1 DEF Eids
<1>4. first \in PageState
  BY <1>2, <1>3 DEF PageState
<1>5. OthersSeen(rows, Eids(rows))
  BY OtherHasEid DEF OthersSeen, Eids, GoodRows
<1>6. GoodPage(first)
  BY <1>4, <1>5 DEF GoodPage
<1>7. s = ReplaceAll(first, R)
  OBVIOUS
<1> HIDE DEF R
<1>8. G[0] = A /\ G[Len(R)] = A /\ \A n \in 1..Len(R) : G[n-1] = A /\ G[n] = A
  BY <1>1
<1>9. first \in A
  BY <1>4, <1>6, KeepsSelf
<1>10. \A n \in 1..Len(R) : \A x \in A : ReplacePending(x, R[n]) \in A
  <2> SUFFICES ASSUME NEW n \in 1..Len(R), NEW x \in A PROVE ReplacePending(x, R[n]) \in A
    OBVIOUS
  <2>1. GoodPage(x) /\ Keeps(x.list, rows) /\ Unpacked(R[n])
    BY <1>1
  <2>2. GoodPage(ReplacePending(x, R[n])) /\ Keeps(ReplacePending(x, R[n]).list, x.list)
    BY <2>1, ReplacePendingGood
  <2>3. Keeps(ReplacePending(x, R[n]).list, rows)
    BY <2>1, <2>2, KeepsOnwards DEF GoodPage
  <2> QED BY <2>2, <2>3 DEF GoodPage
<1> HIDE DEF G, A, first
<1>11. ReplaceAll(first, R) \in G[Len(R)]
  BY <1>1, <1>8, <1>9, <1>10, ReplaceAllRuns
<1> QED BY <1>7, <1>8, <1>11 DEF A

\* Rows in front of others, none of which they repeat.
LEMMA RowsJoined ==
  ASSUME NEW a, GoodRows(a), NEW b, GoodRows(b),
         \A j \in DOMAIN a : a[j].label = 0 /\ \A k \in DOMAIN b : ~Own(b[k]) => a[j].eid # b[k].eid
  PROVE  GoodRows(a \o b) /\ Keeps(a \o b, b)
<1> DEFINE c == a \o b
           p == Len(a)
           q == Len(b)
<1>1. a \in Seq(Row) /\ b \in Seq(Row) /\ p \in Nat /\ q \in Nat
      /\ DOMAIN a = 1..p /\ DOMAIN b = 1..q
  BY DEF GoodRows
<1>2. /\ c \in Seq(Row) /\ DOMAIN c = 1..(p + q)
      /\ \A j \in 1..(p + q) : c[j] = IF j <= p THEN a[j] ELSE b[j - p]
  BY <1>1
<1> HIDE DEF c, p, q
<1>3. \A j \in DOMAIN c : \/ j \in 1..p /\ j \in DOMAIN a /\ c[j] = a[j]
                          \/ j > p /\ j - p \in DOMAIN b /\ c[j] = b[j - p]
  BY <1>1, <1>2
<1>4. DOMAIN c \subseteq Nat
  BY <1>1, <1>2
<1>5. \A j \in DOMAIN c : Genuine(c[j])
  BY <1>3 DEF GoodRows
<1>6. OthersOnce(c)
  <2> SUFFICES ASSUME NEW i \in DOMAIN c, NEW j \in DOMAIN c, c[i].eid = c[j].eid, ~Own(c[i])
               PROVE  i = j
    BY DEF OthersOnce
  <2>1. ~Own(c[j])
    BY <1>5, SameAuthor
  <2>2. CASE i \in 1..p /\ j \in 1..p
    <3>1. i \in DOMAIN a /\ j \in DOMAIN a /\ c[i] = a[i] /\ c[j] = a[j]
      BY <1>1, <1>3, <1>4, <2>2
    <3> QED BY <3>1 DEF GoodRows, OthersOnce
  <2>3. CASE i > p /\ j > p
    <3>1. i - p \in DOMAIN b /\ j - p \in DOMAIN b /\ c[i] = b[i - p] /\ c[j] = b[j - p]
      BY <1>1, <1>3, <1>4, <2>3
    <3>2. i - p = j - p
      BY <3>1 DEF GoodRows, OthersOnce
    <3> QED BY <1>1, <1>4, <3>2
  <2>4. CASE ~(i \in 1..p /\ j \in 1..p) /\ ~(i > p /\ j > p)
    BY <1>3, <2>1, <2>4
  <2> QED BY <2>2, <2>3, <2>4
<1>7. LabelsOnce(c)
  <2> SUFFICES ASSUME NEW i \in DOMAIN c, NEW j \in DOMAIN c, c[i].label = c[j].label, c[i].label # 0
               PROVE  i = j
    BY DEF LabelsOnce
  <2>1. i > p /\ j > p /\ i - p \in DOMAIN b /\ j - p \in DOMAIN b /\ c[i] = b[i - p] /\ c[j] = b[j - p]
    BY <1>3
  <2>2. i - p = j - p
    BY <2>1 DEF GoodRows, LabelsOnce
  <2> QED BY <1>1, <1>4, <2>2
<1>8. GoodRows(c)
  BY <1>2, <1>5, <1>6, <1>7 DEF GoodRows
<1>9. Keeps(c, b)
  <2>1. \A k \in DOMAIN b : k + p \in DOMAIN c /\ c[k + p] = b[k]
    BY <1>1, <1>2
  <2> QED BY <2>1 DEF Keeps
<1> QED BY <1>8, <1>9 DEF c

\* The rows of a page are good, and have no labels.
LEMMA PageRowsGood ==
  ASSUME LogInv, NEW eids \in SUBSET DOMAIN log
  PROVE  /\ GoodRows(PageRows(eids))
         /\ \A j \in DOMAIN PageRows(eids) :
              /\ PageRows(eids)[j].label = 0 /\ PageRows(eids)[j].eid \in Messages(eids)
<1> DEFINE M == Messages(eids)
           N == Cardinality(M)
           A == Ascending(M)
           R == PageRows(eids)
<1>1. /\ N \in Nat /\ A \in [1..N -> M] /\ R \in Seq(Row) /\ DOMAIN R = 1..N
      /\ \A n \in 1..N : R[n] = PageRow(A[n]) /\ Unpacked(R[n])
  BY PageRowsAre
<1>2. DOMAIN log = 1..Len(log) /\ Len(log) \in Nat
  BY EventsTyped
<1>3. M \in SUBSET (1..Len(log)) /\ M \in SUBSET Messages(DOMAIN log)
  BY <1>2 DEF Messages
<1>4. \A i, j \in 1..N : i < j => A[i] < A[j]
  <2> HIDE DEF M
  <2> QED BY <1>2, <1>3, AscendingIs
<1> HIDE DEF M, N, A, R
<1>5. \A n \in 1..N : A[n] \in M /\ A[n] \in Messages(DOMAIN log) /\ A[n] \in Nat
  <2>1. \A n \in 1..N : A[n] \in M
    BY <1>1
  <2>2. \A e \in M : e \in Messages(DOMAIN log) /\ e \in Nat
    BY <1>2, <1>3
  <2> QED BY <2>1, <2>2
<1>6. \A n \in 1..N : R[n].eid = A[n] /\ R[n].label = 0
  BY <1>1, <1>5, FreshRows
<1>7. \A i, j \in DOMAIN R : R[i].eid = R[j].eid => i = j
  <2> SUFFICES ASSUME NEW i \in 1..N, NEW j \in 1..N, A[i] = A[j], i # j PROVE FALSE
    BY <1>1, <1>6
  <2>1. i < j \/ j < i
    BY <1>1
  <2>2. A[i] < A[j] \/ A[j] < A[i]
    BY <1>4, <2>1
  <2> QED BY <1>5, <2>2
<1>8. GoodRows(R)
  BY <1>1, <1>6, <1>7 DEF GoodRows, OthersOnce, LabelsOnce, Unpacked
<1>9. \A j \in DOMAIN R : R[j].label = 0 /\ R[j].eid \in M
  BY <1>1, <1>5, <1>6
<1> QED BY <1>8, <1>9 DEF M, R

-----------------------------------------------------------------------------
(* The store's rows: the list, the optimistic map and the stash *)

\* Good rows, good entries, and items in the stash.
GoodStore(s) ==
  GoodRows(s.list) /\ GoodOpts(s.opt) /\ s.stash \subseteq Items(DOMAIN log)

\* One store follows another: what was deleted stays so.
Follows(new, old) ==
  /\ GoodStore(new)
  /\ Tombstones(old.list, old.stash) => Tombstones(new.list, new.stash)

\* The items and the messages of a page are items and messages of the log.
LEMMA ItemsAre ==
  ASSUME NEW eids \in SUBSET DOMAIN log
  PROVE  Items(eids) \in SUBSET Items(DOMAIN log) /\ Messages(eids) \in SUBSET Messages(DOMAIN log)
BY DEF Items, Messages

\* prependMessages keeps the store good, and every deletion ...
LEMMA PrependGood ==
  ASSUME LogInv, NEW s0, GoodStore(s0), NEW eids \in SUBSET DOMAIN log
  PROVE  Follows(Prepend(s0, eids), s0)
<1> DEFINE s == ReplaceAll([list |-> s0.list, opt |-> s0.opt, seen |-> Eids(s0.list)],
                           PageRows(eids))
           fresh == Messages(eids) \ s.seen
           P == PageRows(fresh)
           merged == P \o s.list
           rows == Sorted(merged)
           items == Items(eids)
           f == FoldAll(rows, items, s0.stash)
<1>1. Prepend(s0, eids) = [list |-> f.list, opt |-> s.opt, stash |-> f.stash]
  BY DEF Prepend
<1>2. GoodRows(s0.list) /\ GoodOpts(s0.opt) /\ s0.stash \in SUBSET Items(DOMAIN log)
  BY DEF GoodStore
<1>3. GoodPage(s) /\ Keeps(s.list, s0.list)
  BY <1>2, ReplaceAllGood
<1> HIDE DEF s
<1>4. fresh \in SUBSET DOMAIN log /\ Messages(fresh) \subseteq fresh
  BY DEF Messages
<1>5. items \in SUBSET Items(DOMAIN log)
  BY ItemsAre
<1> HIDE DEF fresh
<1>6. GoodRows(P) /\ \A j \in DOMAIN P : P[j].label = 0 /\ P[j].eid \in fresh
  BY <1>4, PageRowsGood
<1> HIDE DEF P
<1>7. \A j \in DOMAIN P : P[j].label = 0
                          /\ \A k \in DOMAIN s.list : ~Own(s.list[k]) => P[j].eid # s.list[k].eid
  BY <1>3, <1>6 DEF GoodPage, OthersSeen, fresh
<1>8. GoodRows(merged) /\ Keeps(merged, s.list)
  BY <1>3, <1>6, <1>7, RowsJoined DEF GoodPage
<1> HIDE DEF merged
<1>9. GoodRows(rows) /\ Keeps(rows, merged)
  BY <1>8, SortedGood
<1>10. Keeps(rows, s0.list)
  <2>1. Keeps(merged, s0.list)
    BY <1>2, <1>3, <1>8, KeepsOnwards DEF GoodPage
  <2> QED BY <1>2, <1>8, <1>9, <2>1, KeepsOnwards
<1> HIDE DEF rows, items
<1>11. FoldSound(f, rows, items, s0.stash)
  BY <1>2, <1>5, <1>9, FoldAllIs
<1> HIDE DEF f
<1>12. /\ GoodRows(f.list) /\ f.stash \subseteq Items(DOMAIN log)
       /\ Tombstones(rows, s0.stash) => Tombstones(f.list, f.stash)
  BY <1>2, <1>5, <1>9, <1>11, FoldAllGood
<1>13. Tombstones(s0.list, s0.stash) => Tombstones(rows, s0.stash)
  BY <1>2, <1>10, TombstonesKept
<1>14. GoodOpts(s.opt)
  BY <1>3 DEF GoodPage
<1> QED BY <1>1, <1>12, <1>13, <1>14 DEF Follows, GoodStore

\* ... so does batchAppendMessages ...
LEMMA BatchAppendFollows ==
  ASSUME LogInv, NEW s0, GoodStore(s0), NEW eids \in SUBSET Messages(DOMAIN log)
  PROVE  Follows(BatchAppend(s0, eids), s0)
<1> DEFINE b == BatchAppend(s0, eids)
<1>1. GoodRows(s0.list) /\ GoodOpts(s0.opt)
  BY DEF GoodStore
<1>2. /\ GoodRows(b.list) /\ Keeps(b.list, s0.list) /\ GoodOpts(b.opt) /\ b.stash = s0.stash
  BY <1>1, BatchAppendGood
<1> HIDE DEF b
<1>3. Tombstones(s0.list, s0.stash) => Tombstones(b.list, b.stash)
  BY <1>1, <1>2, TombstonesKept
<1>4. Follows(b, s0)
  BY <1>2, <1>3 DEF Follows, GoodStore
<1> QED BY <1>4 DEF b

\* The three variables of the rows as one record.
Store == [list |-> list, opt |-> optimistic, stash |-> stash]

\* ... so does a flush of both queues ...
LEMMA FlushedFollows ==
  ASSUME LogInv, GoodStore(Store), NEW live \in SUBSET Messages(DOMAIN log),
         NEW back \in SUBSET DOMAIN log
  PROVE  Follows(Flushed(live, back), Store)
<1> DEFINE s1 == IF live = {} THEN Store ELSE BatchAppend(Store, live)
           s2 == IF back = {} THEN s1 ELSE Prepend(s1, back)
<1>1. Flushed(live, back) = s2
  BY DEF Flushed, Store
<1>2. Follows(Store, Store)
  BY DEF Follows
<1>3. Follows(s1, Store)
  BY <1>2, BatchAppendFollows
<1> HIDE DEF s1
<1>4. Follows(Prepend(s1, back), s1)
  BY <1>3, PrependGood DEF Follows
<1> HIDE DEF Store
<1>5. Follows(s2, Store)
  BY <1>3, <1>4 DEF Follows
<1> QED BY <1>1, <1>5

\* ... and so does setMessages in an empty buffer.
LEMMA SetMessagesFollows ==
  ASSUME LogInv, GoodStore(Store), list = <<>>, NEW eids \in SUBSET DOMAIN log
  PROVE  /\ GoodRows(SetMessages(eids).list) /\ SetMessages(eids).stash \subseteq Items(DOMAIN log)
         /\ Tombstones(list, stash) => Tombstones(SetMessages(eids).list, SetMessages(eids).stash)
<1> DEFINE P == PageRows(eids)
           items == Items(eids)
           f == FoldAll(P, items, stash)
<1>1. SetMessages(eids) = f
  BY DEF SetMessages
<1>2. GoodRows(P)
  BY PageRowsGood
<1>3. items \in SUBSET Items(DOMAIN log) /\ stash \in SUBSET Items(DOMAIN log)
  BY ItemsAre DEF GoodStore, Store
<1> HIDE DEF P, items
<1>4. FoldSound(f, P, items, stash)
  BY <1>2, <1>3, FoldAllIs
<1> HIDE DEF f
<1>5. /\ GoodRows(f.list) /\ f.stash \subseteq Items(DOMAIN log)
      /\ Tombstones(P, stash) => Tombstones(f.list, f.stash)
  BY <1>2, <1>3, <1>4, FoldAllGood
<1>6. Tombstones(list, stash) => Tombstones(P, stash)
  BY DEF Tombstones
<1> QED BY <1>1, <1>5, <1>6

-----------------------------------------------------------------------------
(* Steps of the rows *)

\* The inductive invariant of the rows.
RowsInv == GoodStore(Store) /\ DeletionKept

\* A good store stays good when the server and the user are idle.
LEMMA StoreStays ==
  ASSUME UNCHANGED <<setting, log, sends>>, NEW s, GoodStore(s),
         list' = s.list, optimistic' = s.opt, stash' = s.stash
  PROVE  GoodStore(Store)'
<1>1. GoodRows(s.list) /\ GoodOpts(s.opt) /\ s.stash \subseteq Items(DOMAIN log)
  BY DEF GoodStore
<1>2. \A r : Genuine(r) => Genuine(r)'
  BY DEF Genuine, Body, Own
<1>3. GoodRows(list)'
  BY <1>1, <1>2 DEF GoodRows, OthersOnce, LabelsOnce, Own
<1>4. GoodOpts(optimistic)'
  BY <1>1 DEF GoodOpts, Body
<1>5. (stash \subseteq Items(DOMAIN log))'
  BY <1>1 DEF Items
<1> QED BY <1>3, <1>4, <1>5 DEF GoodStore, Store

\* Deletions are kept when what was processed is no redaction.
LEMMA TombstonesStay ==
  ASSUME UNCHANGED log, handled \in Nat, NEW rows, NEW waiting, Tombstones(rows, waiting),
         list' = rows, stash' = waiting,
         handled' = handled \/ (handled' = handled + 1 /\ log[handled + 1].kind # "redact")
  PROVE  DeletionKept'
<1> SUFFICES ASSUME NEW i \in Items(1..handled)', log[i].kind = "redact",
                    log[log[i].of].nick = Other
             PROVE  \/ i \in waiting
                    \/ \E k \in DOMAIN rows : rows[k].eid = log[i].of /\ rows[k].redacted
  BY DEF DeletionKept
<1>1. i \in 1..handled' /\ log[i].kind \in Kinds
  BY DEF Items
<1>2. i \in 1..handled
  BY <1>1
<1>3. i \in Items(1..handled)
  BY <1>1, <1>2 DEF Items
<1> QED BY <1>3 DEF Tombstones

\* The log grows; the rows stay.
LEMMA RowsLogged ==
  ASSUME LogInv, RowsInv, NEW ev \in Event, log' = Append(log, ev),
         UNCHANGED <<setting, handled, sends, list, optimistic, stash>>
  PROVE  RowsInv'
<1>1. /\ Len(log) \in Nat /\ DOMAIN log = 1..Len(log) /\ DOMAIN log' = 1..(Len(log) + 1)
      /\ Len(log') = Len(log) + 1
      /\ \A e \in 1..Len(log) : log'[e] = log[e]
  BY LogGrows DEF LogInv, LogTypes
<1>2. handled \in Nat /\ handled <= Len(log)
  BY DEF LogInv, LogTypes
<1>3. \A r \in Row : Genuine(r) => Genuine(r)'
  <2> SUFFICES ASSUME NEW r \in Row, Genuine(r) PROVE Genuine(r)'
    OBVIOUS
  <2>1. r.eid \in Nat /\ r.t \in Nat
    BY DEF Row
  <2>2. CASE r.eid # 0
    <3>1. r.eid \in 1..Len(log)
      BY <1>1, <2>2 DEF Genuine
    <3> QED BY <1>1, <2>2, <3>1 DEF Genuine, Own
  <2>3. CASE r.eid = 0
    <3>1. \A e \in DOMAIN log' : log'[e].label = r.label => r.t < 2 * e
      <4> SUFFICES ASSUME NEW e \in DOMAIN log', log'[e].label = r.label PROVE r.t < 2 * e
        OBVIOUS
      <4>1. CASE e \in 1..Len(log)
        BY <1>1, <2>3, <4>1 DEF Genuine
      <4>2. CASE e = Len(log) + 1
        BY <1>1, <2>1, <2>3, <4>2 DEF Genuine
      <4> QED BY <1>1, <4>1, <4>2
    <3>2. r.t <= 2 * Len(log') + 1
      BY <1>1, <2>1, <2>3 DEF Genuine
    <3> QED BY <2>3, <3>1, <3>2 DEF Genuine, Body, Own
  <2> QED BY <2>2, <2>3
<1>4. GoodRows(list)'
  <2>1. GoodRows(list)
    BY DEF RowsInv, GoodStore, Store
  <2>2. \A k \in DOMAIN list : list[k] \in Row /\ Genuine(list[k])
    BY <2>1, RowsTyped DEF GoodRows
  <2>3. \A k \in DOMAIN list : Genuine(list[k])'
    BY <1>3, <2>2
  <2> QED BY <2>1, <2>3 DEF GoodRows, OthersOnce, LabelsOnce, Own
<1>5. GoodOpts(optimistic)'
  BY DEF RowsInv, GoodStore, Store, GoodOpts, Body
<1>6. (stash \subseteq Items(DOMAIN log))'
  BY <1>1 DEF RowsInv, GoodStore, Store, Items
<1>7. DeletionKept'
  <2> SUFFICES ASSUME NEW i \in Items(1..handled)', log'[i].kind = "redact",
                      log'[log'[i].of].nick = Other
               PROVE  \/ i \in stash
                      \/ \E k \in DOMAIN list : list[k].eid = log'[i].of /\ list[k].redacted
    BY DEF DeletionKept
  <2>1. i \in 1..handled /\ log'[i].kind \in Kinds
    BY DEF Items
  <2>2. log'[i] = log[i]
    BY <1>1, <1>2, <2>1
  <2>3. i \in Items(DOMAIN log) /\ i \in Items(1..handled)
    BY <1>1, <1>2, <2>1, <2>2 DEF Items
  <2>4. log'[log[i].of] = log[log[i].of]
    BY <1>1, <2>3, ItemsTyped
  <2> QED BY <2>2, <2>3, <2>4 DEF RowsInv, DeletionKept
<1> QED BY <1>4, <1>5, <1>6, <1>7 DEF RowsInv, GoodStore, Store

\* A line is sent: its optimistic row goes up.
LEMMA RowsSent ==
  ASSUME LogInv, RowsInv, SendPlainLine
  PROVE  RowsInv'
<1>0. PICK l : l = sends + 1
  OBVIOUS
<1> DEFINE row == OptimisticRow(l)
           n == Len(list)
           m == Len(optimistic)
           opt == [label |-> l, nick |-> nick, body |-> Body(l)]
<1>1. /\ sends' = l /\ list' = Append(list, row) /\ optimistic' = Append(optimistic, opt)
      /\ UNCHANGED <<setting, log, handled, stash>> /\ l <= setting.sends
  BY <1>0, SettingSound DEF SendPlainLine, LogInv, LogTypes
<1>2. Len(log) \in Nat /\ DOMAIN log = 1..Len(log) /\ \A e \in DOMAIN log : e \in Nat
      /\ log[e] \in Event
  BY EventsTyped
<1>3. l = sends + 1 /\ sends \in Nat /\ nick \in OwnNicks /\ Base \in Nat /\ MaxSends \in Nat /\ Base <= Len(log)
  BY <1>0, SettingSound DEF LogInv, LogTypes
<1>4. Body(l) \in Nat
  BY <1>3 DEF Body
<1>5. \A e \in DOMAIN log : log[e].label # l
  <2>1. \A e \in DOMAIN log : log[e].label \in Nat /\ (log[e].label # 0 => log[e].label <= sends)
    BY <1>2 DEF LogInv, EventsSound, Event
  <2> QED BY <1>3, <2>1
<1>6. 2 * Len(log) + 1 \in Nat /\ nick \in Nicks /\ l \in Nat /\ nick # Other
  BY <1>2, <1>3 DEF Nicks, OwnNicks, Other
<1>7. PICK r \in Row : /\ list' = Append(list, r)
                       /\ r.eid = 0 /\ r.t = 2 * Len(log) + 1 /\ r.label = l /\ r.nick = nick
                       /\ r.body = Body(l) /\ r.edit = 0 /\ ~r.redacted
  <2>1. row = [eid |-> 0, t |-> 2 * Len(log) + 1, label |-> l, nick |-> nick,
               body |-> Body(l), edit |-> 0, redacted |-> FALSE, reacted |-> FALSE]
    BY DEF OptimisticRow
  <2> HIDE DEF row
  <2>2. row \in Row
    BY <1>4, <1>6, <2>1 DEF Row
  <2>3. /\ row.eid = 0 /\ row.t = 2 * Len(log) + 1 /\ row.label = l /\ row.nick = nick
        /\ row.body = Body(l) /\ row.edit = 0 /\ ~row.redacted
    BY <2>1
  <2> QED BY <1>1, <2>2, <2>3
<1>8. GoodRows(list) /\ GoodOpts(optimistic) /\ stash \subseteq Items(DOMAIN log)
  BY DEF RowsInv, GoodStore, Store
<1>9. list \in Seq(Row) /\ n \in Nat /\ DOMAIN list = 1..n
      /\ \A k \in DOMAIN list : Genuine(list[k]) /\ list[k] \in Row
  BY <1>8, RowsTyped DEF GoodRows
<1>10. /\ list' \in Seq(Row) /\ DOMAIN list' = 1..(n + 1) /\ list'[n + 1] = r
       /\ \A k \in 1..n : list'[k] = list[k]
       /\ \A k \in DOMAIN list' : k \in 1..n \/ k = n + 1
  BY <1>7, <1>9
<1> HIDE DEF n
<1>11. Genuine(r)'
  <2>1. l # 0 /\ 2 * Base < 2 * Len(log) + 1 /\ r.t <= 2 * Len(log) + 1
    BY <1>2, <1>3, <1>7
  <2>2. l <= sends' /\ Body(l)' = Body(l)
    BY <1>1, <1>3 DEF Body
  <2> QED BY <1>1, <1>5, <1>6, <1>7, <2>1, <2>2 DEF Genuine, Own, Body
<1>12. \A q \in Row : Genuine(q) => Genuine(q)'
  <2> SUFFICES ASSUME NEW q \in Row, Genuine(q) PROVE Genuine(q)'
    OBVIOUS
  <2>1. q.label \in Nat
    BY DEF Row
  <2>2. q.label # 0 => q.label <= sends'
    BY <1>1, <1>3, <2>1 DEF Genuine
  <2> QED BY <1>1, <2>2 DEF Genuine, Own, Body
<1>13. \A k \in DOMAIN list' : Genuine(list[k])'
  BY <1>9, <1>10, <1>11, <1>12
<1>14. NoLabel(list, l)
  <2>1. \A k \in DOMAIN list : list[k].label \in Nat /\ (list[k].label # 0 => list[k].label <= sends)
    BY <1>9 DEF Row, Genuine
  <2> QED BY <1>3, <2>1 DEF NoLabel
<1>15. (OthersOnce(list))'
  <2> SUFFICES ASSUME NEW i \in DOMAIN list', NEW j \in DOMAIN list',
                      list'[i].eid = list'[j].eid, ~Own(list'[i])
               PROVE  i = j
    BY DEF OthersOnce, Own
  <2>1. i \in 1..n
    BY <1>6, <1>7, <1>10 DEF Own
  <2>2. list[i].eid # 0
    BY <1>9, <1>10, <2>1, OtherHasEid
  <2>3. j \in 1..n
    BY <1>7, <1>10, <2>1, <2>2
  <2> QED BY <1>8, <1>9, <1>10, <2>1, <2>3 DEF GoodRows, OthersOnce
<1>16. (LabelsOnce(list))'
  <2> SUFFICES ASSUME NEW i \in DOMAIN list', NEW j \in DOMAIN list',
                      list'[i].label = list'[j].label, list'[i].label # 0
               PROVE  i = j
    BY DEF LabelsOnce
  <2>1. CASE i \in 1..n /\ j \in 1..n
    BY <1>8, <1>9, <1>10, <2>1 DEF GoodRows, LabelsOnce
  <2>2. CASE ~(i \in 1..n /\ j \in 1..n)
    <3>1. \A k \in 1..n : list'[k].label = l => l = 0
      BY <1>9, <1>10, <1>14 DEF NoLabel
    <3>2. i = n + 1 \/ j = n + 1
      BY <1>9, <1>10, <2>2
    <3> QED BY <1>7, <1>9, <1>10, <2>2, <3>1, <3>2
  <2> QED BY <2>1, <2>2
<1>17. GoodRows(list)'
  BY <1>10, <1>13, <1>15, <1>16 DEF GoodRows
<1>18. GoodOpts(optimistic)'
  <2>1. opt \in Opt /\ opt.label = l /\ opt.body = Body(l)
    BY <1>3, <1>4, <1>6 DEF Opt
  <2>2. optimistic \in Seq(Opt) /\ m \in Nat /\ DOMAIN optimistic = 1..m
    BY <1>8 DEF GoodOpts
  <2> HIDE DEF opt, m
  <2>3. /\ optimistic' \in Seq(Opt) /\ DOMAIN optimistic' = 1..(m + 1) /\ optimistic'[m + 1] = opt
        /\ \A o \in 1..m : optimistic'[o] = optimistic[o]
    BY <1>1, <2>1, <2>2 DEF m
  <2>4. \A o \in DOMAIN optimistic' : optimistic'[o].label \in 1..l
                                       /\ optimistic'[o].body = Body(optimistic'[o].label)
    BY <1>3, <1>8, <2>1, <2>2, <2>3 DEF GoodOpts
  <2> QED BY <1>1, <2>3, <2>4 DEF GoodOpts, Body
<1>19. (stash \subseteq Items(DOMAIN log))'
  BY <1>1, <1>8 DEF Items
<1>20. DeletionKept'
  <2> SUFFICES ASSUME NEW i \in Items(1..handled)', log[i].kind = "redact",
                      log[log[i].of].nick = Other, i \notin stash
               PROVE  \E k \in DOMAIN list' : list'[k].eid = log[i].of /\ list'[k].redacted
    BY <1>1 DEF DeletionKept
  <2>1. i \in Items(1..handled)
    BY <1>1 DEF Items
  <2>2. PICK k \in DOMAIN list : list[k].eid = log[i].of /\ list[k].redacted
    BY <2>1 DEF RowsInv, DeletionKept
  <2> QED BY <1>9, <1>10, <2>2
<1> QED BY <1>17, <1>18, <1>19, <1>20 DEF RowsInv, GoodStore, Store

\* Rows that come out of a flush, a page or the cache.
LEMMA RowsFollow ==
  ASSUME LogInv, RowsInv, UNCHANGED <<setting, log, sends>>,
         NEW s, Follows(s, Store), list' = s.list, optimistic' = s.opt, stash' = s.stash,
         handled' = handled \/ (handled' = handled + 1 /\ log[handled + 1].kind # "redact")
  PROVE  RowsInv'
<1>1. GoodStore(Store)'
  BY StoreStays DEF Follows
<1>2. Tombstones(s.list, s.stash)
  BY DEF Follows, RowsInv, DeletionKept, Tombstones, Store
<1>3. DeletionKept'
  BY <1>2, TombstonesStay DEF LogInv, LogTypes
<1> QED BY <1>1, <1>3 DEF RowsInv

\* The batcher is flushed.
LEMMA RowsFlushed ==
  ASSUME LogInv, RowsInv, UNCHANGED <<setting, log, sends>>,
         NEW live \in SUBSET Messages(DOMAIN log), NEW back \in SUBSET DOMAIN log,
         FlushAll(live, back),
         handled' = handled \/ (handled' = handled + 1 /\ log[handled + 1].kind # "redact")
  PROVE  RowsInv'
<1>1. PICK s : s = Flushed(live, back)
  OBVIOUS
<1>2. list' = s.list /\ optimistic' = s.opt /\ stash' = s.stash
  BY <1>1 DEF FlushAll
<1>3. Follows(s, Store)
  BY <1>1, FlushedFollows DEF RowsInv
<1> QED BY <1>2, <1>3, RowsFollow

\* The rows stay as they are.
LEMMA RowsUntouched ==
  ASSUME LogInv, RowsInv, UNCHANGED <<setting, log, sends, list, optimistic, stash>>,
         handled' = handled \/ (handled' = handled + 1 /\ log[handled + 1].kind # "redact")
  PROVE  RowsInv'
<1>1. PICK s : s = Store
  OBVIOUS
<1>2. list' = s.list /\ optimistic' = s.opt /\ stash' = s.stash
  BY <1>1 DEF Store
<1>3. Follows(s, Store)
  BY <1>1 DEF Follows, RowsInv
<1> QED BY <1>2, <1>3, RowsFollow

\* The place of the batch and of the page in the log.
LEMMA BatchSound ==
  ASSUME LogInv
  PROVE  /\ queue \in SUBSET Messages(DOMAIN log) /\ backfill \in SUBSET DOMAIN log
         /\ older.rows \in SUBSET DOMAIN log /\ handled \in Nat /\ handled <= Len(log)
         /\ DOMAIN log = 1..Len(log) /\ Len(log) \in Nat /\ Base \in Nat /\ Base <= handled
         /\ 1..handled \subseteq DOMAIN log
<1>1. /\ handled \in Nat /\ handled <= Len(log) /\ DOMAIN log = 1..Len(log) /\ Len(log) \in Nat
      /\ Base \in Nat /\ Base <= handled
  BY EventsTyped, SettingSound DEF LogInv, LogTypes
<1>2. 1..handled \subseteq DOMAIN log
  BY <1>1
<1>3. queue \subseteq Messages(DOMAIN log)
  BY <1>2 DEF LogInv, FetchSound, Messages
<1> QED BY <1>1, <1>2, <1>3 DEF LogInv, FetchSound

\* An item is applied on the spot.
LEMMA RowsApplied ==
  ASSUME LogInv, RowsInv, UNCHANGED <<setting, log, sends, optimistic>>,
         NEW e, e = handled + 1, e <= Len(log), log[e].kind \in Kinds, handled' = e, ApplyLive(e)
  PROVE  RowsInv'
<1> DEFINE of == log[e].of
           at == RowOfEid(list, of)
<1>1. GoodRows(list) /\ GoodOpts(optimistic) /\ stash \subseteq Items(DOMAIN log)
      /\ Tombstones(list, stash)
  BY DEF RowsInv, GoodStore, Store, DeletionKept, Tombstones
<1>2. e \in Nat /\ e \in DOMAIN log /\ e \in Items(DOMAIN log)
  BY BatchSound DEF Items
<1>3. of # 0
  BY <1>2, ItemsTyped
<1>4. list \in Seq(Row) /\ DOMAIN list = 1..Len(list) /\ \A k \in DOMAIN list : list[k] \in Row
  BY <1>1, RowsTyped DEF GoodRows
<1>5. PICK rows, waiting :
        /\ list' = rows /\ stash' = waiting
        /\ GoodRows(rows) /\ waiting \subseteq Items(DOMAIN log)
        /\ Tombstones(rows, waiting)
        /\ log[e].kind = "redact" =>
             e \in waiting \/ \E k \in DOMAIN rows : rows[k].eid = of /\ rows[k].redacted
  <2>1. CASE at = 0
    <3>1. stash' = stash \union {e} /\ list' = list
      BY <2>1 DEF ApplyLive
    <3>2. Tombstones(list, stash \union {e})
      BY <1>1 DEF Tombstones
    <3> QED BY <1>1, <1>2, <3>1, <3>2
  <2>2. CASE at # 0
    <3> DEFINE new == [list EXCEPT ![at] = Applied(list[at], e)]
               p == [k \in DOMAIN list |-> k]
    <3>1. list' = new /\ stash' = stash
      BY <2>2 DEF ApplyLive
    <3>2. at \in DOMAIN list /\ list[at].eid = of
      BY <1>4, <2>2, EidRowIs
    <3> HIDE DEF at
    <3>3. /\ Applied(list[at], e) \in Row /\ Alike(Applied(list[at], e), list[at])
          /\ log[e].kind = "redact" => Applied(list[at], e).redacted
      BY <1>2, <1>3, <1>4, <3>2, AppliedIs
    <3>4. /\ new \in Seq(Row) /\ DOMAIN new = DOMAIN list /\ new[at] = Applied(list[at], e)
          /\ \A k \in DOMAIN list : k # at => new[k] = list[k]
      BY <1>4, <3>2, <3>3
    <3> HIDE DEF new
    <3>5. \A k \in DOMAIN list : Alike(new[k], list[k])
      BY <3>3, <3>4 DEF Alike
    <3>6. GoodRows(new)
      <4>1. p \in [DOMAIN new -> DOMAIN list] /\ \A k \in DOMAIN new : p[k] = k
        BY <3>4
      <4> HIDE DEF p
      <4>2. \A k \in DOMAIN new : Alike(new[k], list[p[k]])
        BY <3>4, <3>5, <4>1
      <4>3. \A j, k \in DOMAIN new : p[j] = p[k] => j = k
        BY <4>1
      <4> QED BY <1>1, <3>4, <4>1, <4>2, <4>3, Recast
    <3>7. Keeps(new, list)
      BY <3>4, <3>5 DEF Keeps, Alike
    <3>8. Tombstones(new, stash)
      BY <1>1, <3>7, TombstonesKept
    <3>9. log[e].kind = "redact" => \E k \in DOMAIN new : new[k].eid = of /\ new[k].redacted
      BY <3>2, <3>3, <3>4, <3>5 DEF Alike
    <3> QED BY <1>1, <3>1, <3>6, <3>8, <3>9
  <2> QED BY <2>1, <2>2
<1> HIDE DEF at, of
<1>6. GoodStore(Store)'
  <2>1. PICK s : s = [list |-> rows, opt |-> optimistic, stash |-> waiting]
    OBVIOUS
  <2>2. GoodStore(s) /\ list' = s.list /\ optimistic' = s.opt /\ stash' = s.stash
    BY <1>1, <1>5, <2>1 DEF GoodStore
  <2> QED BY <2>2, StoreStays
<1>7. DeletionKept'
  <2> SUFFICES ASSUME NEW i \in Items(1..handled)', log[i].kind = "redact",
                      log[log[i].of].nick = Other
               PROVE  \/ i \in waiting
                      \/ \E k \in DOMAIN rows : rows[k].eid = log[i].of /\ rows[k].redacted
    BY <1>5 DEF DeletionKept
  <2>1. i \in 1..e /\ log[i].kind \in Kinds
    BY DEF Items
  <2>2. CASE i = e
    BY <1>5, <2>2 DEF of
  <2>3. CASE i # e
    <3>1. i \in 1..handled
      BY <2>1, <2>3, BatchSound
    <3>2. i \in Items(1..handled)
      BY <2>1, <3>1 DEF Items
    <3> QED BY <1>5, <3>2 DEF Tombstones
  <2> QED BY <2>2, <2>3
<1> QED BY <1>6, <1>7 DEF RowsInv

\* processIrcEvent takes the next event.
LEMMA RowsHandled ==
  ASSUME LogInv, RowsInv, ProcessIrcEvent
  PROVE  RowsInv'
<1>1. PICK e : e = handled + 1
  OBVIOUS
<1>2. /\ e <= Len(log) /\ handled' = e /\ UNCHANGED <<setting, log, wire, sends>>
      /\ \/ log[e].kind = "msg" /\ EnqueueMessage(e)
         \/ log[e].kind \in Kinds /\ ApplyLive(e) /\ UNCHANGED optimistic
         \/ log[e].kind = "nick" /\ UNCHANGED <<list, optimistic, stash>>
  BY <1>1, BatchSound DEF ProcessIrcEvent, serverVars, rowVars
<1>3. CASE log[e].kind = "msg" /\ EnqueueMessage(e)
  <2>1. queue \union {e} \in SUBSET Messages(DOMAIN log) /\ backfill \in SUBSET DOMAIN log
    <3>1. e \in DOMAIN log
      BY <1>1, <1>2, BatchSound
    <3> QED BY <1>3, <3>1, BatchSound DEF Messages
  <2>2. log[handled + 1].kind # "redact"
    BY <1>1, <1>3
  <2>3. CASE FlushAll(queue \union {e}, backfill)
    BY <1>1, <1>2, <2>1, <2>2, <2>3, RowsFlushed
  <2>4. CASE UNCHANGED rowVars
    BY <1>1, <1>2, <2>2, <2>4, RowsUntouched DEF rowVars
  <2> QED BY <1>3, <2>3, <2>4 DEF EnqueueMessage
<1>4. CASE log[e].kind \in Kinds /\ ApplyLive(e) /\ UNCHANGED optimistic
  BY <1>1, <1>2, <1>4, RowsApplied
<1>5. CASE log[e].kind = "nick" /\ UNCHANGED <<list, optimistic, stash>>
  BY <1>1, <1>2, <1>5, RowsUntouched
<1> QED BY <1>2, <1>3, <1>4, <1>5

\* The buffer is opened, or a page of older rows arrives.
LEMMA RowsFetched ==
  ASSUME LogInv, RowsInv, LoadBufferHistory \/ LoadMoreArrives
  PROVE  RowsInv'
<1>1. UNCHANGED <<setting, log, sends, handled>>
  BY DEF LoadBufferHistory, LoadMoreArrives, serverVars
<1>2. CASE UNCHANGED <<list, optimistic, stash>>
  BY <1>1, <1>2, RowsUntouched
<1>3. CASE LoadBufferHistory
  <2>1. UNCHANGED optimistic
    BY <1>3 DEF LoadBufferHistory
  <2>2. ASSUME list = <<>>, NEW c \in {0} \union (Base - CacheGap)..Base,
               list' = SetMessages(1..c).list, stash' = SetMessages(1..c).stash
        PROVE  RowsInv'
    <3>1. 1..c \in SUBSET DOMAIN log
      BY BatchSound, SettingSound
    <3>2. PICK f : f = SetMessages(1..c)
      OBVIOUS
    <3>3. PICK s : s = [list |-> f.list, opt |-> optimistic, stash |-> f.stash]
      OBVIOUS
    <3>4. /\ GoodRows(f.list) /\ f.stash \subseteq Items(DOMAIN log)
          /\ Tombstones(list, stash) => Tombstones(f.list, f.stash)
      BY <2>2, <3>1, <3>2, SetMessagesFollows DEF RowsInv
    <3>5. s.list = f.list /\ s.opt = optimistic /\ s.stash = f.stash
      BY <3>3
    <3>6. Follows(s, Store)
      BY <3>4, <3>5 DEF Follows, GoodStore, RowsInv, Store
    <3> QED BY <1>1, <2>1, <2>2, <3>2, <3>5, <3>6, RowsFollow
  <2> QED BY <1>2, <1>3, <2>1, <2>2 DEF LoadBufferHistory
<1>4. CASE LoadMoreArrives
  <2>1. CASE older.rows = {}
    BY <1>2, <1>4, <2>1 DEF LoadMoreArrives, rowVars
  <2>2. CASE older.rows # {}
    <3>1. PICK s : s = Prepend(Store, older.rows)
      OBVIOUS
    <3>2. list' = s.list /\ optimistic' = s.opt /\ stash' = s.stash
      BY <1>4, <2>2, <3>1 DEF LoadMoreArrives, Store
    <3>3. Follows(s, Store)
      BY <3>1, BatchSound, PrependGood DEF RowsInv
    <3> QED BY <1>1, <3>2, <3>3, RowsFollow
  <2> QED BY <2>1, <2>2
<1> QED BY <1>3, <1>4

\* Every step keeps the invariant of the rows.
LEMMA RowsStep == LogInv /\ RowsInv /\ [Next]_vars => RowsInv'
<1> SUFFICES ASSUME LogInv, RowsInv, [Next]_vars PROVE RowsInv'
  OBVIOUS
<1>1. CASE SendPlainLine
  BY <1>1, RowsSent
<1>2. CASE ServerEchoes \/ SomebodyWrites \/ SomebodyMarks \/ ServerRenames
  <2>1. PICK ev : NewEvent(ev) /\ log' = Append(log, ev)
    BY <1>2, LogGrown
  <2>2. UNCHANGED <<setting, handled, sends, list, optimistic, stash>>
    BY <1>2 DEF ServerEchoes, SomebodyWrites, SomebodyMarks, ServerRenames, rowVars
  <2> QED BY <2>1, <2>2, RowsLogged DEF NewEvent
<1>3. CASE ProcessIrcEvent
  BY <1>3, RowsHandled
<1>4. CASE TimerFires
  <2>1. FlushAll(queue, backfill) /\ UNCHANGED <<setting, log, sends, handled>>
    BY <1>4 DEF TimerFires, serverVars
  <2> QED BY <2>1, BatchSound, RowsFlushed
<1>5. CASE LoadBufferHistory \/ LoadMoreArrives
  BY <1>5, RowsFetched
<1>6. CASE HistoryServed \/ HistoryArrives \/ HistoryFails \/ HandleLoadMore \/ UNCHANGED vars
  <2>1. UNCHANGED <<setting, log, sends, handled, list, optimistic, stash>>
    BY <1>6 DEF HistoryServed, HistoryArrives, HistoryFails, HandleLoadMore, vars,
       serverVars, rowVars
  <2> QED BY <2>1, RowsUntouched
<1> QED BY <1>1, <1>2, <1>3, <1>4, <1>5, <1>6 DEF Next

\* It holds at the start.
LEMMA RowsInit == Init => RowsInv
<1> SUFFICES ASSUME Init PROVE RowsInv
  OBVIOUS
<1>1. list = <<>> /\ optimistic = <<>> /\ stash = {} /\ handled = Base
      /\ log = [e \in 1..Base |-> Message(Other, 0, 0)]
  BY DEF Init
<1>2. GoodRows(list) /\ GoodOpts(optimistic)
  BY <1>1 DEF GoodRows, GoodOpts, OthersOnce, LabelsOnce
<1>3. DeletionKept
  BY <1>1 DEF DeletionKept, Items, Message, Kinds
<1> QED BY <1>1, <1>2, <1>3 DEF RowsInv, GoodStore, Store

\* Whatever batches, pages and caches bring, the rows are always genuine copies of
\* messages of the log or lines of the user's, a message of somebody else has one
\* row, a label stands on one row, and no deletion is lost.
THEOREM RowsInvariant == Spec => [](LogInv /\ RowsInv)
<1>1. Init => LogInv /\ RowsInv
  BY LogInit, RowsInit
<1>2. LogInv /\ RowsInv /\ [Next]_vars => (LogInv /\ RowsInv)'
  BY LogStep, RowsStep
<1> QED BY <1>1, <1>2, PTL DEF Spec

\* A redaction of somebody else's message, once processIrcEvent has seen it, is
\* never forgotten by a flush, a sort, a page, the cache or a later edit: its row is
\* a tombstone or it waits in pendingRedactions.
THEOREM DeletionsKept == Spec => []DeletionKept
<1>1. LogInv /\ RowsInv => DeletionKept
  BY DEF RowsInv
<1> QED BY <1>1, RowsInvariant, PTL

-----------------------------------------------------------------------------
(* Texts that are all different *)

\* The user never writes one text twice: a text is then as good as a label.
Distinct == \A s \in Settings : ~s.same

\* When texts are all different, a line's text is its label.
LEMMA DistinctIs ==
  ASSUME Distinct, LogInv
  PROVE  /\ ~setting.same /\ (\A n : Body(n) = n)
         /\ sends \in Nat /\ MaxSends \in Nat /\ sends <= MaxSends
BY SettingSound DEF Distinct, LogInv, LogTypes, Body

\* The user's messages in the log are told apart by their texts.
LEMMA OwnBodies ==
  ASSUME Distinct, LogInv
  PROVE  /\ \A e \in DOMAIN log : log[e].kind = "msg" /\ log[e].nick # Other =>
              /\ log[e].label # 0 => log[e].body = log[e].label /\ log[e].label <= sends
              /\ log[e].label = 0 => log[e].body = MaxSends + 1
         /\ \A d, e \in DOMAIN log :
              /\ log[d].kind = "msg" /\ log[d].nick # Other
              /\ log[e].kind = "msg" /\ log[e].nick # Other
              /\ log[d].body = log[e].body
              => d = e
<1>1. ~setting.same /\ (\A n : Body(n) = n) /\ sends \in Nat /\ MaxSends \in Nat /\ sends <= MaxSends
  BY DistinctIs
<1>2. \A e \in DOMAIN log : log[e].kind = "msg" /\ log[e].nick # Other =>
        /\ log[e].label # 0 => log[e].body = log[e].label /\ log[e].label <= sends
        /\ log[e].label = 0 => log[e].body = MaxSends + 1
  BY <1>1 DEF LogInv, EventsSound
<1>3. \A e \in DOMAIN log : log[e].label \in Nat
  BY EventsTyped DEF Event
<1>4. ASSUME NEW d \in DOMAIN log, NEW e \in DOMAIN log,
             log[d].kind = "msg", log[d].nick # Other,
             log[e].kind = "msg", log[e].nick # Other,
             log[d].body = log[e].body
      PROVE  d = e
  <2>1. CASE log[d].label # 0
    <3>1. log[e].label # 0
      BY <1>1, <1>2, <1>3, <1>4, <2>1
    <3>2. log[d].label = log[e].label
      BY <1>2, <1>4, <2>1, <3>1
    <3> QED BY <2>1, <3>2 DEF LogInv, EchoesOnce
  <2>2. CASE log[d].label = 0
    <3>1. log[d].body = MaxSends + 1 /\ log[e].body = MaxSends + 1
      BY <1>2, <1>4, <2>2
    <3> QED BY <1>1, <3>1 DEF LogInv, EchoesOnce
  <2> QED BY <2>1, <2>2
<1> QED BY <1>2, <1>4

\* A label on a row is its text.
Titled(rows) == \A k \in DOMAIN rows : rows[k].label # 0 => rows[k].body = rows[k].label

\* The user's lines and messages have one row each.
OwnOnce(rows) ==
  \A j, k \in DOMAIN rows : Own(rows[j]) /\ Own(rows[k]) /\ rows[j].body = rows[k].body => j = k

\* Pending sends are under the user's first nick.
MyRows(rows) == \A k \in DOMAIN rows : rows[k].eid = 0 => rows[k].nick = "me"

\* Entries of the optimistic map under the first nick.
MyOpts(opts) == \A o \in DOMAIN opts : opts[o].nick = "me"

\* What is told of the rows when texts are all different.
Tidy(rows) == Titled(rows) /\ (Unrenamed => OwnOnce(rows) /\ MyRows(rows))

\* Nothing of the old rows is lost: neither the user's lines nor the messages.
Covers(new, old) ==
  /\ \A k \in DOMAIN old : Own(old[k]) =>
       \E j \in DOMAIN new : Own(new[j]) /\ new[j].body = old[k].body
  /\ \A k \in DOMAIN old : old[k].eid # 0 =>
       \E j \in DOMAIN new : new[j].eid = old[k].eid

\* Covers is reflexive ...
LEMMA CoversSelf == \A rows : Covers(rows, rows)
BY DEF Covers

\* ... and transitive.
LEMMA CoversOnwards ==
  ASSUME NEW a, NEW b, NEW c, Covers(b, a), Covers(c, b)
  PROVE  Covers(c, a)
BY DEF Covers

\* A send with its label is settled: no pending row, no entry of the map.
NonePending(l, rows) == \A k \in DOMAIN rows : rows[k].label = l => rows[k].eid # 0

\* Nothing is left of an optimistic row.
Settled(l, rows, opts) ==
  /\ NonePending(l, rows)
  /\ \A o \in DOMAIN opts : opts[o].label # l

\* Message m takes the place of the user's row k, which is the same line.
Replaces(new, old, m, k) ==
  /\ new \in Seq(Row) /\ DOMAIN new = DOMAIN old /\ k \in DOMAIN old
  /\ \A j \in DOMAIN old : j # k => new[j] = old[j]
  /\ Own(old[k]) /\ Own(new[k]) /\ Own(m)
  /\ old[k].body = m.body /\ new[k].body = m.body
  /\ new[k].eid = m.eid /\ new[k].t = m.t
  /\ new[k].label # 0 => new[k].body = new[k].label
  /\ old[k].eid = 0 \/ old[k].eid = m.eid
  /\ old[k].t <= new[k].t

\* The user's row of a message's text is the message's, or pending and older.
LEMMA SameText ==
  ASSUME Distinct, LogInv, NEW r \in Row, Genuine(r), Own(r), NEW m, Unpacked(m), Own(m),
         r.body = m.body
  PROVE  /\ r.eid = 0 \/ r.eid = m.eid
         /\ r.t <= m.t
         /\ r.eid = 0 => log[m.eid].label = r.label
<1>1. m \in Row /\ Genuine(m) /\ m.eid # 0 /\ m.t \in Nat /\ r.t \in Nat /\ r.label \in Nat
  BY DEF Unpacked, Row
<1>2. m.eid \in DOMAIN log /\ log[m.eid].kind = "msg" /\ log[m.eid].nick # Other
      /\ log[m.eid].body = m.body /\ m.t = 2 * m.eid
  BY <1>1 DEF Genuine, Own
<1>3. CASE r.eid # 0
  <2>1. r.eid \in DOMAIN log /\ log[r.eid].kind = "msg" /\ log[r.eid].nick # Other
        /\ log[r.eid].body = m.body /\ r.t = 2 * r.eid
    BY <1>3 DEF Genuine, Own
  <2>2. r.eid = m.eid
    BY <1>2, <2>1, OwnBodies
  <2> QED BY <1>1, <1>2, <1>3, <2>1, <2>2
<1>4. CASE r.eid = 0
  <2>1. r.label # 0 /\ r.label <= sends /\ r.body = r.label
    BY <1>4, DistinctIs DEF Genuine
  <2>2. log[m.eid].label = r.label
    <3>1. log[m.eid].label # 0 => log[m.eid].body = log[m.eid].label
      BY <1>2, OwnBodies
    <3>2. log[m.eid].label = 0 => log[m.eid].body = MaxSends + 1
      BY <1>2, OwnBodies
    <3>3. r.label # MaxSends + 1
      BY <1>1, <2>1, DistinctIs
    <3> QED BY <1>2, <2>1, <3>1, <3>2, <3>3
  <2>3. r.t < 2 * m.eid
    BY <1>2, <1>4, <2>2 DEF Genuine
  <2>4. r.t <= m.t
    <3>1. m.eid \in Nat
      BY <1>1 DEF Row
    <3> QED BY <1>1, <1>2, <2>3, <3>1
  <2> QED BY <1>4, <2>2, <2>4
<1> QED BY <1>3, <1>4

\* In a batch, a message that takes a row takes the row of its line ...
LEMMA TookReplaces ==
  ASSUME Distinct, LogInv, NEW s, GoodRun(s), Titled(s.list),
         NEW m, Unpacked(m), m.label # 0 => m.body = m.label,
         NEW s2 \in RunState, NEW k \in DOMAIN s.list, Took(s, s2, m, k)
  PROVE  Replaces(s2.list, s.list, m, k)
<1>1. s \in RunState /\ GoodRows(s.list) /\ GoodOpts(s.opt) /\ s.list \in Seq(Row)
  BY DEF GoodRun, GoodRows
<1>2. Takes(s, m, k)
  BY DEF Took
<1>3. Own(s.list[k]) /\ Own(m)
  BY <1>1, <1>2, TakenIsOwn
<1>4. s.list[k].body = m.body
  <2>1. CASE m.label # 0 /\ s.list[k].label = m.label
    BY <2>1 DEF Titled
  <2>2. CASE SameLine(s.list[k], m)
    BY <2>2 DEF SameLine
  <2>3. ASSUME s.list[k].label # 0, NEW o \in DOMAIN s.opt,
               s.opt[o].label = s.list[k].label, s.opt[o].body = m.body
        PROVE  s.list[k].body = m.body
    <3>1. s.opt[o].body = s.opt[o].label
      BY <1>1, DistinctIs DEF GoodOpts
    <3> QED BY <2>3, <3>1 DEF Titled
  <2> QED BY <1>2, <2>1, <2>2, <2>3 DEF Takes
<1>5. PICK row : /\ s2.list = [s.list EXCEPT ![k] = row]
                 /\ Relabelled(row, m, IF m.label = 0 THEN s.list[k].label ELSE m.label)
  BY DEF Took
<1>6. row.eid = m.eid /\ row.t = m.t /\ row.body = m.body /\ Own(row)
  BY <1>3, <1>5 DEF Relabelled, Own
<1>7. row.label # 0 => row.body = row.label
  BY <1>4, <1>5, <1>6 DEF Relabelled, Titled
<1>8. s.list[k] \in Row /\ Genuine(s.list[k])
  BY <1>1 DEF GoodRows
<1>9. (s.list[k].eid = 0 \/ s.list[k].eid = m.eid) /\ s.list[k].t <= m.t
  BY <1>3, <1>4, <1>8, SameText
<1>10. DOMAIN s2.list = DOMAIN s.list /\ s2.list[k] = row
       /\ \A j \in DOMAIN s.list : j # k => s2.list[j] = s.list[j]
  BY <1>1, <1>5
<1>11. s2.list \in Seq(Row)
  BY DEF RunState
<1> QED BY <1>3, <1>4, <1>6, <1>7, <1>9, <1>10, <1>11 DEF Replaces

\* ... and so it does in a page.
LEMMA PageReplaces ==
  ASSUME Distinct, LogInv, NEW s, GoodPage(s), Titled(s.list), NEW m, Unpacked(m),
         NEW s2 \in PageState, NEW k \in DOMAIN s.list, Replaced(s, s2, m, k)
  PROVE  Replaces(s2.list, s.list, m, k)
<1>1. s \in PageState /\ GoodRows(s.list) /\ s.list \in Seq(Row)
  BY DEF GoodPage, GoodRows
<1>2. s.list[k] \in Row /\ Genuine(s.list[k]) /\ m \in Row
  BY <1>1 DEF GoodRows, Unpacked
<1>3. s.list[k].label # 0 /\ s.list[k].eid = 0 /\ SameLine(s.list[k], m)
  BY DEF Replaced, PendingLike
<1>4. Own(s.list[k]) /\ Own(m) /\ s.list[k].body = m.body
  BY <1>2, <1>3 DEF Genuine, SameLine, Own
<1>5. PICK row : s2.list = [s.list EXCEPT ![k] = row] /\ Relabelled(row, m, s.list[k].label)
  BY DEF Replaced
<1>6. row.eid = m.eid /\ row.t = m.t /\ row.body = m.body /\ Own(row)
  BY <1>4, <1>5 DEF Relabelled, Own
<1>7. row.label # 0 => row.body = row.label
  BY <1>4, <1>5, <1>6 DEF Relabelled, Titled
<1>8. s.list[k].t <= m.t
  BY <1>2, <1>4, SameText
<1>9. DOMAIN s2.list = DOMAIN s.list /\ s2.list[k] = row
      /\ \A j \in DOMAIN s.list : j # k => s2.list[j] = s.list[j]
  BY <1>1, <1>5
<1>10. s2.list \in Seq(Row)
  BY DEF PageState
<1> QED BY <1>3, <1>4, <1>6, <1>7, <1>8, <1>9, <1>10 DEF Replaces

\* The entries of one map are among those of another.
Among(new, old) == \A i \in DOMAIN new : \E j \in DOMAIN old : new[i] = old[j]

\* What a replacement keeps, and the eid it adds.
LEMMA ReplacesKeeps ==
  ASSUME NEW old, NEW new, NEW m, Unpacked(m), NEW k, Replaces(new, old, m, k)
  PROVE  /\ Titled(old) => Titled(new)
         /\ Tidy(old) => Tidy(new)
         /\ Covers(new, old)
         /\ Eids(new) = Eids(old) \union {m.eid}
         /\ \A l : NonePending(l, old) => NonePending(l, new)
<1>1. /\ new \in Seq(Row) /\ DOMAIN new = DOMAIN old /\ k \in DOMAIN old
      /\ \A j \in DOMAIN old : j # k => new[j] = old[j]
      /\ Own(old[k]) /\ Own(new[k]) /\ Own(m)
      /\ old[k].body = m.body /\ new[k].body = m.body
      /\ new[k].eid = m.eid /\ m.eid # 0
      /\ new[k].label # 0 => new[k].body = new[k].label
      /\ old[k].eid = 0 \/ old[k].eid = m.eid
  BY DEF Replaces, Unpacked
<1>2. Titled(old) => Titled(new)
  BY <1>1 DEF Titled
<1>3. OwnOnce(old) => OwnOnce(new)
  BY <1>1 DEF OwnOnce
<1>4. MyRows(old) => MyRows(new)
  BY <1>1 DEF MyRows
<1>5. Covers(new, old)
  <2>1. \A j \in DOMAIN old : Own(old[j]) => Own(new[j]) /\ new[j].body = old[j].body
    BY <1>1
  <2>2. \A j \in DOMAIN old : old[j].eid # 0 => new[j].eid = old[j].eid
    BY <1>1
  <2> QED BY <1>1, <2>1, <2>2 DEF Covers
<1>6. Eids(new) = Eids(old) \union {m.eid}
  <2>1. ASSUME NEW e PROVE e \in Eids(new) <=> e \in Eids(old) \/ e = m.eid
    <3>1. e \in Eids(new) => e \in Eids(old) \/ e = m.eid
      BY <1>1 DEF Eids
    <3>2. e \in Eids(old) => e \in Eids(new)
      BY <1>1 DEF Eids
    <3>3. m.eid \in Eids(new)
      BY <1>1 DEF Eids
    <3> QED BY <3>1, <3>2, <3>3
  <2> QED BY <2>1
<1>7. \A l : NonePending(l, old) => NonePending(l, new)
  BY <1>1 DEF NonePending
<1> QED BY <1>2, <1>3, <1>4, <1>5, <1>6, <1>7 DEF Tidy

\* No row is the user's with the text of m.
Unwritten(rows, m) == Own(m) => \A j \in DOMAIN rows : Own(rows[j]) => rows[j].body # m.body

\* What a row at the end keeps.
Extends(new, old, m) ==
  /\ Titled(old) => Titled(new)
  /\ OwnOnce(old) /\ Unwritten(old, m) => OwnOnce(new)
  /\ MyRows(old) => MyRows(new)
  /\ Covers(new, old)
  /\ Eids(new) = Eids(old) \union {m.eid}
  /\ \A l : NonePending(l, old) => NonePending(l, new)

\* The rows with one more at the end.
LEMMA AddedIs ==
  ASSUME NEW old \in Seq(Row), NEW m \in Row
  PROVE  /\ Append(old, m) \in Seq(Row) /\ Len(Append(old, m)) = Len(old) + 1
         /\ DOMAIN Append(old, m) = 1..(Len(old) + 1)
         /\ Len(old) \in Nat /\ DOMAIN old = 1..Len(old) /\ Append(old, m)[Len(old) + 1] = m
         /\ \A j \in 1..Len(old) : Append(old, m)[j] = old[j]
         /\ \A j \in DOMAIN Append(old, m) : j \in 1..Len(old) \/ j = Len(old) + 1
OBVIOUS

\* They extend the rows.
LEMMA AddedKeeps ==
  ASSUME NEW old \in Seq(Row), NEW m \in Row, m.eid # 0, m.label # 0 => m.body = m.label
  PROVE  Extends(Append(old, m), old, m)
<1> DEFINE n == Len(old)
           new == Append(old, m)
<1>1. /\ new \in Seq(Row) /\ Len(new) = n + 1 /\ DOMAIN new = 1..(n + 1)
      /\ n \in Nat /\ DOMAIN old = 1..n /\ new[n + 1] = m
      /\ \A j \in 1..n : new[j] = old[j]
      /\ \A j \in DOMAIN new : j \in DOMAIN old \/ j = n + 1
  BY AddedIs
<1>2. n + 1 \in DOMAIN new /\ n + 1 \notin DOMAIN old
      /\ \A j \in DOMAIN old : j \in DOMAIN new /\ new[j] = old[j]
  BY <1>1
<1> HIDE DEF n, new
<1>3. Titled(old) => Titled(new)
  BY <1>1, <1>2 DEF Titled
<1>4. OwnOnce(old) /\ Unwritten(old, m)
      => OwnOnce(new)
  <2> SUFFICES ASSUME OwnOnce(old), Unwritten(old, m),
                      NEW i \in DOMAIN new, NEW j \in DOMAIN new,
                      Own(new[i]), Own(new[j]), new[i].body = new[j].body
               PROVE  i = j
    BY DEF OwnOnce
  <2>1. CASE i \in DOMAIN old /\ j \in DOMAIN old
    BY <1>2, <2>1 DEF OwnOnce
  <2>2. CASE ~(i \in DOMAIN old /\ j \in DOMAIN old)
    BY <1>1, <1>2, <2>2 DEF Unwritten
  <2> QED BY <2>1, <2>2
<1>5. MyRows(old) => MyRows(new)
  BY <1>1, <1>2 DEF MyRows
<1>6. Covers(new, old)
  BY <1>2 DEF Covers
<1>7. Eids(new) = Eids(old) \union {m.eid}
  <2>1. ASSUME NEW e PROVE e \in Eids(new) <=> e \in Eids(old) \/ e = m.eid
    <3>1. e \in Eids(new) => e \in Eids(old) \/ e = m.eid
      BY <1>1, <1>2 DEF Eids
    <3>2. e \in Eids(old) => e \in Eids(new)
      BY <1>2 DEF Eids
    <3>3. m.eid \in Eids(new)
      BY <1>1, <1>2 DEF Eids
    <3> QED BY <3>1, <3>2, <3>3
  <2> QED BY <2>1
<1>8. \A l : NonePending(l, old) => NonePending(l, new)
  BY <1>1, <1>2 DEF NonePending
<1>9. Extends(new, old, m)
  BY <1>3, <1>4, <1>5, <1>6, <1>7, <1>8 DEF Extends
<1> QED BY <1>9 DEF new

-----------------------------------------------------------------------------
(* One message of a batch, when texts are all different *)

\* When the echo of a line is recognised: by its label, or under the nick it was
\* sent with; and when it is at least known to be the user's.
EchoKnown == setting.labels \/ ~setting.renames

\* Echoes are recognised by their label, or (SelfKnown) the user's messages by their
\* mark or the user's nick.
SelfKnown == setting.labels \/ setting.tag \/ ~setting.renames

\* A message as the live stream brings it.
Live(m) == Unpacked(m) /\ m.label = (IF setting.labels THEN log[m.eid].label ELSE 0)

\* A labelled message from the live stream has the text of its line.
LEMMA LiveTitled ==
  ASSUME Distinct, LogInv, NEW m, Live(m)
  PROVE  m.label # 0 => m.body = m.label
<1>1. Genuine(m) /\ m.eid # 0
  BY DEF Live, Unpacked
<1>2. m.eid \in DOMAIN log /\ log[m.eid].kind = "msg" /\ log[m.eid].body = m.body
      /\ log[m.eid].nick = m.nick
  BY <1>1 DEF Genuine
<1>3. m.label # 0 => Own(m) /\ log[m.eid].label = m.label
  BY <1>1 DEF Genuine, Live
<1> QED BY <1>2, <1>3, OwnBodies DEF Own

\* As long as the user is not renamed there is one nick.
LEMMA OneNick ==
  ASSUME LogInv, Unrenamed, NEW m, Unpacked(m), Own(m)
  PROVE  m.nick = "me" /\ nick = "me"
<1>1. m \in Row /\ Genuine(m) /\ m.eid # 0
  BY DEF Unpacked
<1>2. m.eid \in DOMAIN log /\ m.nick = log[m.eid].nick /\ m.nick \in Nicks
  BY <1>1 DEF Genuine, Row
<1>3. nick = "me" /\ log[m.eid].nick # "me_"
  BY <1>2 DEF LogInv, NickKnown
<1> QED BY <1>2, <1>3 DEF Own, Nicks

\* A pending row of the user's, of a message's text, looks like it.
LEMMA PendingLooksSame ==
  ASSUME LogInv, Unrenamed, NEW m, Unpacked(m), Own(m),
         NEW r \in Row, Genuine(r), r.eid = 0, r.nick = "me", r.body = m.body
  PROVE  PendingLike(r) /\ SameLine(r, m)
<1>1. m.nick = "me"
  BY OneNick
<1>2. r.label # 0 /\ r.edit = 0 /\ ~r.redacted /\ r.redacted \in BOOLEAN
  BY DEF Genuine, Row
<1>3. m.edit = 0 /\ ~m.redacted /\ m.redacted \in BOOLEAN
  BY DEF Unpacked, Row
<1> QED BY <1>1, <1>2, <1>3 DEF PendingLike, SameLine

\* One turn of the loop of batchAppendMessages keeps the rows tidy.
LEMMA StepTidy ==
  ASSUME Distinct, LogInv, NEW s, GoodRun(s), Tidy(s.list), NEW m, Live(m),
         m.eid \in Eids(s.list) => m.eid \in s.seen,
         NEW s2, Outcome(s, s2, m)
  PROVE  /\ Tidy(s2.list) /\ Covers(s2.list, s.list)
         /\ Eids(s2.list) \subseteq Eids(s.list) \union {m.eid}
         /\ MyOpts(s.opt) => MyOpts(s2.opt)
         /\ \A l : NonePending(l, s.list) => NonePending(l, s2.list)
<1>1. /\ s \in RunState /\ GoodRows(s.list) /\ s.list \in Seq(Row)
      /\ s2 \in RunState /\ Fewer(s2.opt, s.opt, m.label) /\ Unpacked(m) /\ m \in Row /\ m.eid # 0
      /\ m.label # 0 => m.body = m.label
  BY LiveTitled DEF GoodRun, GoodRows, Outcome, Live, Unpacked
<1>2. MyOpts(s.opt) => MyOpts(s2.opt)
  BY <1>1 DEF MyOpts, Fewer
<1>3. ASSUME NEW k \in DOMAIN s.list, Took(s, s2, m, k)
      PROVE  /\ Tidy(s2.list) /\ Covers(s2.list, s.list)
             /\ Eids(s2.list) \subseteq Eids(s.list) \union {m.eid}
             /\ \A l : NonePending(l, s.list) => NonePending(l, s2.list)
  <2>1. Replaces(s2.list, s.list, m, k)
    BY <1>1, <1>3, TookReplaces DEF Tidy
  <2>2. /\ Tidy(s.list) => Tidy(s2.list)
        /\ Covers(s2.list, s.list)
        /\ Eids(s2.list) = Eids(s.list) \union {m.eid}
        /\ \A l : NonePending(l, s.list) => NonePending(l, s2.list)
    BY <1>1, <2>1, ReplacesKeeps
  <2> QED BY <2>2
<1>4. CASE s2.list = s.list
  BY <1>2, <1>4, CoversSelf
<1>5. CASE Added(s, s2, m)
  <2>1. s2.list = Append(s.list, m) /\ m.eid \notin s.seen
        /\ \A k \in DOMAIN s.list : ~(PendingLike(s.list[k]) /\ SameLine(s.list[k], m))
    BY <1>5 DEF Added
  <2>2. ASSUME Unrenamed, Own(m), NEW j \in DOMAIN s.list, Own(s.list[j]), s.list[j].body = m.body
        PROVE  FALSE
    <3>1. s.list[j] \in Row /\ Genuine(s.list[j])
      BY <1>1 DEF GoodRows
    <3>2. CASE s.list[j].eid = 0
      <4>1. s.list[j].nick = "me"
        BY <2>2, <3>2 DEF Tidy, MyRows
      <4> QED BY <1>1, <2>1, <2>2, <3>1, <3>2, <4>1, PendingLooksSame
    <3>3. CASE s.list[j].eid # 0
      <4>1. s.list[j].eid = m.eid
        BY <1>1, <2>2, <3>1, <3>3, SameText
      <4>2. m.eid \in Eids(s.list)
        BY <3>3, <4>1 DEF Eids
      <4> QED BY <2>1, <4>2
    <3> QED BY <3>2, <3>3
  <2>3. /\ Titled(s.list) => Titled(s2.list)
        /\ OwnOnce(s.list) /\ Unwritten(s.list, m)
           => OwnOnce(s2.list)
        /\ MyRows(s.list) => MyRows(s2.list)
        /\ Covers(s2.list, s.list)
        /\ Eids(s2.list) = Eids(s.list) \union {m.eid}
        /\ \A l : NonePending(l, s.list) => NonePending(l, s2.list)
    <3>1. Extends(s2.list, s.list, m)
      BY <1>1, <2>1, AddedKeeps
    <3> QED BY <3>1 DEF Extends
  <2>4. Tidy(s2.list)
    BY <2>2, <2>3 DEF Tidy, Unwritten
  <2> QED BY <1>2, <2>3, <2>4
<1>6. (\E k \in DOMAIN s.list : Took(s, s2, m, k)) \/ s2.list = s.list \/ Added(s, s2, m)
  BY DEF Outcome, Skipped, Dropped
<1> QED BY <1>2, <1>3, <1>4, <1>5, <1>6

\* Without labels, the entry of a line is found by its text.
LEMMA EntryFound ==
  ASSUME Distinct, LogInv, NEW s \in RunState, GoodOpts(s.opt), MyOpts(s.opt),
         NEW m, m.label = 0, m.nick = "me", Mine(m)
  PROVE  \A o \in DOMAIN AppendOne(s, m).opt : AppendOne(s, m).opt[o].label # m.body
<1> DEFINE L == Left(s, m)
           L2 == Left2(s, m)
           p == SameOpt(s, m)
           opt == AppendOne(s, m).opt
<1>1. s.list \in Seq(Row) /\ s.opt \in Seq(Opt)
  BY DEF RunState
<1>2. RowOfLabel(s.list, m.label) = 0
  BY <1>1, LabelledIs
<1>3. opt = L2 \/ \E l : opt = Without(L2, l)
  <2>1. \A k, row, o : PutRow(s, k, row, o).opt = o
    BY DEF PutRow, RunState
  <2>2. \A o : [s EXCEPT !.opt = o].opt = o
    BY DEF RunState
  <2>3. \A o, e : [s EXCEPT !.opt = o, !.seen = @ \union {e}].opt = o
    BY DEF RunState
  <2>4. \A o, e : [s EXCEPT !.opt = o, !.seen = @ \union {e},
                            !.list = Append(@, m), !.pushed = Append(@, m)].opt = o
    BY DEF RunState
  <2>5. CASE OptRow(s, m) # 0
    <3>1. AppendOne(s, m) = PutRow(s, OptRow(s, m), Inherited(s, m, OptRow(s, m)), L2)
      BY <1>2, <2>5, AppendOneIs
    <3>2. PICK k, row : AppendOne(s, m) = PutRow(s, k, row, L2)
      BY <3>1, Zenon
    <3> HIDE DEF L2
    <3> QED BY <2>1, <3>2
  <2>6. CASE OptRow(s, m) = 0 /\ SameRow(s, m) # 0
    <3>1. AppendOne(s, m) = PutRow(s, SameRow(s, m), Inherited(s, m, SameRow(s, m)),
                                   Without(L2, s.list[SameRow(s, m)].label))
      BY <1>2, <2>6, AppendOneIs
    <3>2. PICK k, row, l : AppendOne(s, m) = PutRow(s, k, row, Without(L2, l))
      BY <3>1, Zenon
    <3> HIDE DEF L2
    <3> QED BY <2>1, <3>2
  <2>7. CASE OptRow(s, m) = 0 /\ SameRow(s, m) = 0 /\ m.eid \in s.seen
    <3>1. AppendOne(s, m) = [s EXCEPT !.opt = L2]
      BY <1>2, <2>7, AppendOneIs
    <3> QED BY <2>2, <3>1, Zenon
  <2>8. CASE OptRow(s, m) = 0 /\ SameRow(s, m) = 0 /\ m.eid \notin s.seen
             /\ PendingRow(s.list, m) # 0
    <3>1. AppendOne(s, m) = [s EXCEPT !.opt = Without(L2, s.list[PendingRow(s.list, m)].label),
                                      !.seen = @ \union {m.eid}]
      BY <1>2, <2>8, AppendOneIs
    <3>2. PICK l : AppendOne(s, m) = [s EXCEPT !.opt = Without(L2, l), !.seen = @ \union {m.eid}]
      BY <3>1, Zenon
    <3> HIDE DEF L2
    <3> QED BY <2>3, <3>2
  <2>9. CASE OptRow(s, m) = 0 /\ SameRow(s, m) = 0 /\ m.eid \notin s.seen
             /\ PendingRow(s.list, m) = 0
    <3>1. AppendOne(s, m) = [s EXCEPT !.opt = L2, !.seen = @ \union {m.eid},
                                      !.list = Append(@, m), !.pushed = Append(@, m)]
      BY <1>2, <2>9, AppendOneIs
    <3> QED BY <2>4, <3>1, Zenon
  <2> QED BY <2>5, <2>6, <2>7, <2>8, <2>9
<1>4. /\ Fewer(L, s.opt, m.label) /\ L2 \in Seq(Opt)
      /\ p # 0 => /\ p \in DOMAIN L /\ L[p].nick = m.nick /\ L[p].body = m.body
                  /\ Fewer(L2, L, L[p].label)
      /\ p = 0 => /\ L2 = L
                  /\ \A o \in DOMAIN L : ~(Mine(m) /\ L[o].nick = m.nick /\ L[o].body = m.body)
  BY OptsLeft DEF Fewer
<1> HIDE DEF L, L2, p, opt
<1>5. \A o \in DOMAIN L : L[o].nick = "me" /\ L[o].label = L[o].body
  <2> SUFFICES ASSUME NEW o \in DOMAIN L PROVE L[o].nick = "me" /\ L[o].label = L[o].body
    OBVIOUS
  <2>1. PICK j \in DOMAIN s.opt : L[o] = s.opt[j]
    BY <1>4 DEF Fewer
  <2> QED BY <2>1, DistinctIs DEF GoodOpts, MyOpts
<1>6. \A o \in DOMAIN L2 : L2[o].label # m.body
  <2>1. CASE p # 0
    BY <1>4, <1>5, <2>1 DEF Fewer
  <2>2. CASE p = 0
    BY <1>4, <1>5, <2>2
  <2> QED BY <2>1, <2>2
<1>7. \A o \in DOMAIN opt : opt[o].label # m.body
  <2>1. ASSUME NEW l PROVE \A o \in DOMAIN Without(L2, l) : Without(L2, l)[o].label # m.body
    BY <1>4, <1>6, WithoutIs
  <2> QED BY <1>3, <1>6, <2>1
<1> QED BY <1>7 DEF opt

\* The echo of a send settles it.
LEMMA StepEcho ==
  ASSUME Distinct, LogInv, EchoKnown, NEW s, GoodRun(s), Tidy(s.list),
         Unrenamed => MyOpts(s.opt), NEW m, Live(m), log[m.eid].label # 0,
         NEW s2, s2 = AppendOne(s, m), Outcome(s, s2, m), Tidy(s2.list)
  PROVE  Settled(log[m.eid].label, s2.list, s2.opt)
<1> DEFINE l == log[m.eid].label
<1>1. /\ s \in RunState /\ GoodRows(s.list) /\ GoodOpts(s.opt) /\ s.list \in Seq(Row)
      /\ s2 \in RunState /\ Fewer(s2.opt, s.opt, m.label) /\ Unpacked(m) /\ m \in Row /\ m.eid # 0
      /\ Genuine(m)
  BY DEF GoodRun, GoodRows, Outcome, Live, Unpacked
<1>2. m.eid \in DOMAIN log /\ log[m.eid].kind = "msg" /\ m.nick = log[m.eid].nick
      /\ m.body = log[m.eid].body
  BY <1>1 DEF Genuine
<1>3. Own(m) /\ m.body = l /\ log[m.eid].nick # Other
  BY <1>2, OwnBodies DEF LogInv, EventsSound, Own
<1>4. m.label = (IF setting.labels THEN l ELSE 0)
  BY DEF Live
<1> HIDE DEF l
<1>5. l # 0
  BY DEF l
<1>6. ASSUME NEW k \in DOMAIN s.list, Took(s, s2, m, k) PROVE Replaces(s2.list, s.list, m, k)
  BY <1>1, <1>6, LiveTitled, TookReplaces DEF Tidy
<1>7. (\E k \in DOMAIN s.list : Took(s, s2, m, k)) \/ s2.list = s.list \/ Added(s, s2, m)
  BY DEF Outcome, Skipped, Dropped
<1>8. CASE setting.labels
  <2>1. m.label = l
    BY <1>4, <1>8
  <2>2. \A o \in DOMAIN s2.opt : s2.opt[o].label # l
    BY <1>1, <2>1 DEF Fewer
  <2>3. ASSUME NEW k \in DOMAIN s.list, Took(s, s2, m, k) PROVE NonePending(l, s2.list)
    <3> SUFFICES ASSUME NEW j \in DOMAIN s2.list, s2.list[j].label = l, s2.list[j].eid = 0
                 PROVE  FALSE
      BY DEF NonePending
    <3>1. Replaces(s2.list, s.list, m, k)
      BY <1>6, <2>3
    <3>2. j # k /\ j \in DOMAIN s.list /\ s2.list[j] = s.list[j]
      BY <1>1, <3>1 DEF Replaces
    <3>3. Takes(s, m, k)
      BY <2>3 DEF Took
    <3>4. CASE s.list[k].label = m.label
      BY <1>1, <1>5, <2>1, <3>2, <3>4 DEF GoodRows, LabelsOnce
    <3>5. CASE NoLabel(s.list, m.label)
      BY <1>5, <2>1, <3>2, <3>5 DEF NoLabel
    <3> QED BY <3>3, <3>4, <3>5 DEF Takes
  <2>4. ASSUME NoLabel(s.list, m.label), s2.list = s.list \/ s2.list = Append(s.list, m)
        PROVE  NonePending(l, s2.list)
    <3> SUFFICES ASSUME NEW j \in DOMAIN s2.list, s2.list[j].label = l, s2.list[j].eid = 0
                 PROVE  FALSE
      BY DEF NonePending
    <3>1. j \in DOMAIN s.list /\ s2.list[j] = s.list[j]
      BY <1>1, <2>4, AddedIs
    <3> QED BY <1>5, <2>1, <2>4, <3>1 DEF NoLabel
  <2>5. NonePending(l, s2.list)
    BY <2>3, <2>4 DEF Outcome, Skipped, Dropped, Added, Unmatched
  <2> QED BY <2>2, <2>5 DEF Settled, l
<1>9. CASE ~setting.labels
  <2>1. Unrenamed
    BY <1>9 DEF EchoKnown, LogInv, EventsSound, Unrenamed
  <2>2. m.label = 0 /\ m.nick = "me" /\ nick = "me" /\ Mine(m)
    BY <1>1, <1>3, <1>4, <1>9, <2>1, OneNick DEF Mine, Own
  <2>3. \A o \in DOMAIN s2.opt : s2.opt[o].label # l
    BY <1>1, <1>3, <2>1, <2>2, EntryFound
  <2>4. NonePending(l, s2.list)
    <3> SUFFICES ASSUME NEW j \in DOMAIN s2.list, s2.list[j].label = l, s2.list[j].eid = 0
                 PROVE  FALSE
      BY DEF NonePending
    <3>1. ASSUME NEW k \in DOMAIN s.list, Took(s, s2, m, k) PROVE FALSE
      <4>1. Replaces(s2.list, s.list, m, k)
        BY <1>6, <3>1
      <4>2. j # k /\ j \in DOMAIN s.list /\ s2.list[j] = s.list[j] /\ k \in DOMAIN s2.list
            /\ Own(s2.list[k]) /\ s2.list[k].body = m.body
        BY <1>1, <4>1 DEF Replaces
      <4>3. Own(s2.list[j]) /\ s2.list[j].body = l
        BY <1>1, <1>5, <4>2 DEF GoodRows, Genuine, Tidy, Titled
      <4> QED BY <1>3, <2>1, <4>2, <4>3 DEF Tidy, OwnOnce
    <3>2. ASSUME Unmatched(s, m), s2.list = s.list \/ s2.list = Append(s.list, m) PROVE FALSE
      <4>1. j \in DOMAIN s.list /\ s2.list[j] = s.list[j]
        BY <1>1, <3>2, AddedIs
      <4>2. s.list[j] \in Row /\ Genuine(s.list[j]) /\ s.list[j].eid = 0 /\ s.list[j].nick = "me"
            /\ s.list[j].body = m.body
        BY <1>1, <1>3, <1>5, <2>1, <4>1 DEF GoodRows, Tidy, Titled, MyRows
      <4>3. SameLine(s.list[j], m)
        BY <1>1, <1>3, <2>1, <4>2, PendingLooksSame
      <4> QED BY <2>2, <3>2, <4>1, <4>3 DEF Unmatched
    <3> QED BY <3>1, <3>2 DEF Outcome, Skipped, Dropped, Added
  <2> QED BY <2>3, <2>4 DEF Settled, l
<1> QED BY <1>8, <1>9

\* A message that is known to be the user's is never dropped.
LEMMA StepHole ==
  ASSUME Distinct, LogInv, SelfKnown, NEW s, GoodRun(s), Tidy(s.list), s.seen \subseteq Eids(s.list),
         NEW m, Live(m), NEW s2, Outcome(s, s2, m)
  PROVE  s2.seen \union {m.eid} \subseteq Eids(s2.list)
<1>1. /\ s \in RunState /\ GoodRows(s.list) /\ s.list \in Seq(Row)
      /\ Unpacked(m) /\ m \in Row /\ m.eid # 0 /\ Genuine(m)
      /\ m.label # 0 => m.body = m.label
  BY LiveTitled DEF GoodRun, GoodRows, Live, Unpacked
<1>2. m.eid \in DOMAIN log /\ log[m.eid].kind = "msg" /\ m.nick = log[m.eid].nick
      /\ m.body = log[m.eid].body
  BY <1>1 DEF Genuine
<1>3. ASSUME NEW k \in DOMAIN s.list, Took(s, s2, m, k)
      PROVE  s2.seen \union {m.eid} \subseteq Eids(s2.list)
  <2>1. Replaces(s2.list, s.list, m, k)
    BY <1>1, <1>3, TookReplaces DEF Tidy, Outcome
  <2>2. Eids(s2.list) = Eids(s.list) \union {m.eid}
    BY <1>1, <2>1, ReplacesKeeps
  <2> QED BY <1>3, <2>2 DEF Took
<1>4. CASE Skipped(s, s2, m)
  BY <1>4 DEF Skipped
<1>5. CASE Added(s, s2, m)
  <2>1. Extends(s2.list, s.list, m)
    BY <1>1, <1>5, AddedKeeps DEF Added
  <2> QED BY <1>5, <2>1 DEF Added, Extends
<1>6. ~Dropped(s, s2, m)
  <2> SUFFICES ASSUME Dropped(s, s2, m) PROVE FALSE
    OBVIOUS
  <2>1. PICK k \in DOMAIN s.list : PendingLike(s.list[k]) /\ SameLine(s.list[k], m)
    BY DEF Dropped
  <2>2. Genuine(s.list[k]) /\ s.list[k] \in Row /\ s.list[k].eid = 0 /\ s.list[k].label # 0
        /\ s.list[k].nick = m.nick /\ s.list[k].body = m.body
    BY <1>1, <2>1 DEF GoodRows, PendingLike, SameLine
  <2>3. Own(s.list[k]) /\ Own(m)
    BY <2>2 DEF Genuine, Own
  <2>4. log[m.eid].label = s.list[k].label
    BY <1>1, <2>2, <2>3, SameText
  <2>5. NoLabel(s.list, m.label) /\ ~Mine(m)
    BY <2>1 DEF Dropped, Unmatched
  <2>6. CASE setting.labels
    <3>1. m.label = s.list[k].label
      BY <2>4, <2>6 DEF Live
    <3> QED BY <2>2, <2>5, <3>1 DEF NoLabel
  <2>7. CASE setting.tag
    BY <2>3, <2>5, <2>7 DEF Mine, Own
  <2>8. CASE ~setting.renames
    <3>1. Unrenamed
      BY <2>8 DEF LogInv, EventsSound, Unrenamed
    <3> QED BY <1>1, <2>3, <2>5, <3>1, OneNick DEF Mine, Own
  <2> QED BY <2>6, <2>7, <2>8 DEF SelfKnown
<1> QED BY <1>3, <1>4, <1>5, <1>6 DEF Outcome

-----------------------------------------------------------------------------
(* Rows moved about and marked *)

\* Everything but the own rows, which keep the tab's clock, is in order of time,
\* and no row is before somebody else's that is earlier in the list.
Trailing(rows) ==
  \A j, k \in DOMAIN rows : j < k /\ ~Own(rows[j]) => rows[j].t <= rows[k].t

\* Nothing is lost from the rows or added to them.
Kept(new, old) ==
  /\ Tidy(old) => Tidy(new)
  /\ Covers(new, old) /\ Eids(new) \subseteq Eids(old)
  /\ \A l : NonePending(l, old) => NonePending(l, new)

\* Rows picked from others, without repetition, and perhaps marked.
LEMMA PickedKeeps ==
  ASSUME NEW old, NEW new, NEW p \in [DOMAIN new -> DOMAIN old],
         \A i, j \in DOMAIN new : p[i] = p[j] => i = j,
         \A i \in DOMAIN new : Alike(new[i], old[p[i]]),
         \A k \in DOMAIN old : \E i \in DOMAIN new :
           p[i] = k \/ (old[k].eid # 0 /\ Genuine(old[k]) /\ Genuine(new[i]) /\ new[i].eid = old[k].eid)
  PROVE  Kept(new, old)
<1>1. \A i \in DOMAIN new : /\ p[i] \in DOMAIN old
                            /\ new[i].eid = old[p[i]].eid /\ new[i].label = old[p[i]].label
                            /\ new[i].nick = old[p[i]].nick /\ new[i].body = old[p[i]].body
  BY DEF Alike
<1>2. Tidy(old) => Tidy(new)
  <2>1. Titled(old) => Titled(new)
    BY <1>1 DEF Titled
  <2>2. OwnOnce(old) => OwnOnce(new)
    BY <1>1 DEF OwnOnce, Own
  <2>3. MyRows(old) => MyRows(new)
    BY <1>1 DEF MyRows
  <2> QED BY <2>1, <2>2, <2>3 DEF Tidy
<1>3. ASSUME NEW k \in DOMAIN old
      PROVE  \E i \in DOMAIN new : /\ new[i].eid = old[k].eid
                                   /\ new[i].nick = old[k].nick /\ new[i].body = old[k].body
  <2>1. PICK i \in DOMAIN new :
          p[i] = k \/ (old[k].eid # 0 /\ Genuine(old[k]) /\ Genuine(new[i]) /\ new[i].eid = old[k].eid)
    OBVIOUS
  <2>2. CASE p[i] = k
    BY <1>1, <2>2
  <2>3. CASE old[k].eid # 0 /\ Genuine(old[k]) /\ Genuine(new[i]) /\ new[i].eid = old[k].eid
    BY <2>3 DEF Genuine
  <2> QED BY <2>1, <2>2, <2>3
<1>4. Covers(new, old)
  BY <1>3 DEF Covers, Own
<1>5. Eids(new) \subseteq Eids(old)
  BY <1>1 DEF Eids
<1>6. \A l : NonePending(l, old) => NonePending(l, new)
  BY <1>1 DEF NonePending
<1> QED BY <1>2, <1>4, <1>5, <1>6 DEF Kept

\* Kept is reflexive ...
LEMMA KeptSelf == \A rows : Kept(rows, rows)
BY CoversSelf DEF Kept

\* ... and transitive.
LEMMA KeptOnwards ==
  ASSUME NEW a, NEW b, NEW c, Kept(b, a), Kept(c, b)
  PROVE  Kept(c, a)
<1>1. Covers(c, a)
  BY CoversOnwards DEF Kept
<1> QED BY <1>1 DEF Kept

\* A row is like itself.
LEMMA AlikeSelf == \A r : Alike(r, r)
BY DEF Alike

\* Sorting keeps the rows, and puts them in order.
LEMMA SortedKeeps ==
  ASSUME NEW rows, GoodRows(rows)
  PROVE  Kept(Sorted(rows), rows) /\ Trailing(Sorted(rows))
<1> DEFINE new == Sorted(rows)
<1>1. rows \in Seq(Row) /\ \A k \in DOMAIN rows : rows[k].t \in Nat
  BY RowsTyped DEF GoodRows
<1>2. /\ DOMAIN new = DOMAIN rows
      /\ \A i, j \in DOMAIN rows : i < j => new[i].t <= new[j].t
  BY <1>1, SortedIs
<1>3. PICK p \in [DOMAIN rows -> DOMAIN rows] :
        /\ \A i \in DOMAIN rows : new[i] = rows[p[i]]
        /\ \A i, j \in DOMAIN rows : p[i] = p[j] => i = j
        /\ \A k \in DOMAIN rows : \E i \in DOMAIN rows : p[i] = k
  BY <1>1, SortedIs
<1> HIDE DEF new
<1>4. \A i \in DOMAIN new : Alike(new[i], rows[p[i]])
  BY <1>2, <1>3, AlikeSelf
<1>5. Kept(new, rows)
  BY <1>2, <1>3, <1>4, PickedKeeps
<1>6. Trailing(new)
  BY <1>2 DEF Trailing
<1> QED BY <1>5, <1>6 DEF new

\* Dropping repeats keeps the rows, and their order.
LEMMA OnceKeeps ==
  ASSUME NEW rows, GoodRows(rows), Trailing(rows)
  PROVE  Kept(At(rows, Once(rows)), rows) /\ Trailing(At(rows, Once(rows)))
<1> DEFINE P == Once(rows)
           new == At(rows, P)
<1>1. rows \in Seq(Row) /\ DOMAIN rows = 1..Len(rows)
  BY RowsTyped DEF GoodRows
<1>a. P \in SUBSET (1..Len(rows))
  BY <1>1 DEF Once
<1> HIDE DEF P
<1>2. new \in Seq(Row)
  BY <1>1, <1>a, AtIs
<1>3. PICK p \in [DOMAIN new -> P] :
        /\ \A i \in DOMAIN new : new[i] = rows[p[i]]
        /\ \A i, j \in DOMAIN new : i < j => p[i] < p[j]
        /\ \A k \in P : \E i \in DOMAIN new : p[i] = k
  BY <1>1, <1>a, AtIs, SMTT(40)
<1>4. GoodRows(new)
  BY OnceGood DEF P
<1> HIDE DEF new
<1>5. DOMAIN new = 1..Len(new) /\ Len(new) \in Nat
  BY <1>2, RowsTyped
<1>6. \A i \in DOMAIN new : p[i] \in P /\ p[i] \in DOMAIN rows /\ p[i] \in Nat
  BY <1>1, <1>a, <1>3
<1>7. \A i, j \in DOMAIN new : p[i] = p[j] => i = j
  <2> SUFFICES ASSUME NEW i \in DOMAIN new, NEW j \in DOMAIN new, p[i] = p[j], i # j PROVE FALSE
    OBVIOUS
  <2>1. i < j \/ j < i
    BY <1>5
  <2> QED BY <1>3, <1>6, <2>1
<1>8. ASSUME NEW k \in DOMAIN rows
      PROVE  \E i \in DOMAIN new :
               p[i] = k \/ (rows[k].eid # 0 /\ Genuine(rows[k]) /\ Genuine(new[i])
                            /\ new[i].eid = rows[k].eid)
  <2>1. CASE k \in P
    BY <1>3, <2>1
  <2>2. CASE k \notin P
    <3> DEFINE f == RowOfEid(rows, rows[k].eid)
    <3>1. rows[k].eid # 0
      BY <2>2 DEF Once, P
    <3>2. f # 0
      BY <1>1, EidRowIs
    <3>3. f \in DOMAIN rows /\ rows[f].eid = rows[k].eid
      BY <1>1, <3>2, EidRowIs
    <3>4. f \in P
      BY <3>3 DEF Once, P
    <3>5. PICK i \in DOMAIN new : p[i] = f
      BY <1>3, <3>4
    <3>6. new[i].eid = rows[k].eid /\ Genuine(new[i]) /\ Genuine(rows[k])
      BY <1>3, <1>4, <3>3, <3>5 DEF GoodRows
    <3> QED BY <3>1, <3>6
  <2> QED BY <2>1, <2>2
<1>9. \A i \in DOMAIN new : Alike(new[i], rows[p[i]])
  BY <1>3, AlikeSelf
<1>10. p \in [DOMAIN new -> DOMAIN rows]
  BY <1>1, <1>a, <1>3
<1>11. Kept(new, rows)
  BY <1>7, <1>8, <1>9, <1>10, PickedKeeps
<1>12. Trailing(new)
  BY <1>3, <1>6 DEF Trailing
<1> QED BY <1>11, <1>12 DEF new, P

\* Folding keeps the rows, and their order.
LEMMA FoldKeeps ==
  ASSUME LogInv, NEW rows, GoodRows(rows), NEW f, NEW items, NEW waiting,
         FoldSound(f, rows, items, waiting)
  PROVE  Kept(f.list, rows) /\ (Trailing(rows) => Trailing(f.list))
<1>1. DOMAIN f.list = DOMAIN rows /\ \A k \in DOMAIN rows : Alike(f.list[k], rows[k])
  BY DEF FoldSound
<1> DEFINE p == [k \in DOMAIN f.list |-> k]
<1>2. p \in [DOMAIN f.list -> DOMAIN rows]
  BY <1>1
<1>3. \A i \in DOMAIN f.list : p[i] = i
  OBVIOUS
<1> HIDE DEF p
<1>4. Kept(f.list, rows)
  BY <1>1, <1>2, <1>3, PickedKeeps
<1>5. Trailing(rows) => Trailing(f.list)
  BY <1>1 DEF Trailing, Alike, Own
<1> QED BY <1>4, <1>5

-----------------------------------------------------------------------------
(* The run of a batch, when texts are all different *)

\* The echoes of a set of events are settled.
EchoesIn(eids, rows, opts) ==
  \A e \in eids : log[e].label # 0 => Settled(log[e].label, rows, opts)

\* The loop over a batch, after the messages `done` and before those of `due`.
TidyRun(s, rows, eids, done) ==
  /\ GoodRun(s) /\ Tidy(s.list) /\ (Unrenamed => MyOpts(s.opt))
  /\ Covers(s.list, rows) /\ Eids(s.list) \subseteq s.seen \union done
  /\ Eids(s.list) \subseteq Eids(rows) \union done
  /\ SelfKnown => s.seen \union done \subseteq Eids(s.list)
  /\ EchoKnown => EchoesIn(eids \union done, s.list, s.opt)

\* One turn adds its eid to those done.
LEMMA StepRun ==
  ASSUME Distinct, LogInv, NEW s, NEW rows, NEW eids, NEW done, TidyRun(s, rows, eids, done),
         NEW m, Live(m), m.eid \notin done
  PROVE  TidyRun(AppendOne(s, m), rows, eids, done \union {m.eid})
<1> DEFINE t == AppendOne(s, m)
<1>1. /\ GoodRun(s) /\ Tidy(s.list) /\ (Unrenamed => MyOpts(s.opt))
      /\ Covers(s.list, rows) /\ Eids(s.list) \subseteq s.seen \union done
      /\ Eids(s.list) \subseteq Eids(rows) \union done
      /\ SelfKnown => s.seen \union done \subseteq Eids(s.list)
      /\ EchoKnown => EchoesIn(eids \union done, s.list, s.opt)
  BY DEF TidyRun
<1>2. Unpacked(m) /\ m \in Row /\ s \in RunState
  BY <1>1 DEF Live, Unpacked, GoodRun
<1>3. GoodRun(t) /\ Outcome(s, t, m)
  BY <1>1, <1>2, AppendOneGood, AppendOneOutcome
<1>4. PICK s2 : s2 = t
  OBVIOUS
<1>5. s2 = AppendOne(s, m) /\ GoodRun(s2) /\ Outcome(s, s2, m)
  BY <1>3, <1>4
<1> HIDE DEF t
<1>6. /\ Tidy(s2.list) /\ Covers(s2.list, s.list)
      /\ Eids(s2.list) \subseteq Eids(s.list) \union {m.eid}
      /\ MyOpts(s.opt) => MyOpts(s2.opt)
      /\ \A l : NonePending(l, s.list) => NonePending(l, s2.list)
  BY <1>1, <1>5, StepTidy
<1>7. Covers(s2.list, rows)
  BY <1>1, <1>6, CoversOnwards
<1>8. s.seen \subseteq s2.seen
  BY <1>5 DEF Outcome, Took, Skipped, Dropped, Added
<1>9. /\ Eids(s2.list) \subseteq s2.seen \union (done \union {m.eid})
      /\ Eids(s2.list) \subseteq Eids(rows) \union (done \union {m.eid})
  BY <1>1, <1>6, <1>8
<1>10. ASSUME SelfKnown PROVE s2.seen \union (done \union {m.eid}) \subseteq Eids(s2.list)
  <2>1. s.seen \subseteq Eids(s.list) /\ done \subseteq Eids(s.list)
    BY <1>1, <1>10
  <2>2. s2.seen \union {m.eid} \subseteq Eids(s2.list)
    BY <1>1, <1>5, <1>10, <2>1, StepHole
  <2>3. Eids(s.list) \subseteq Eids(s2.list)
    BY <1>6 DEF Covers, Eids
  <2> QED BY <2>1, <2>2, <2>3
<1>11. ASSUME EchoKnown PROVE EchoesIn(eids \union (done \union {m.eid}), s2.list, s2.opt)
  <2>1. ASSUME NEW e \in eids \union done, log[e].label # 0
        PROVE  Settled(log[e].label, s2.list, s2.opt)
    <3>1. NonePending(log[e].label, s.list)
          /\ \A o \in DOMAIN s.opt : s.opt[o].label # log[e].label
      BY <1>1, <1>11, <2>1 DEF EchoesIn, Settled
    <3>2. \A o \in DOMAIN s2.opt : s2.opt[o].label # log[e].label
      BY <1>5, <3>1 DEF Outcome, Fewer
    <3> QED BY <1>6, <3>1, <3>2 DEF Settled
  <2>2. log[m.eid].label # 0 => Settled(log[m.eid].label, s2.list, s2.opt)
    BY <1>1, <1>5, <1>6, <1>11, StepEcho
  <2> QED BY <2>1, <2>2 DEF EchoesIn
<1>12. TidyRun(s2, rows, eids, done \union {m.eid})
  BY <1>1, <1>5, <1>6, <1>7, <1>9, <1>10, <1>11 DEF TidyRun
<1> QED BY <1>4, <1>12 DEF t

\* The order of the rows in the loop: `old` of them were there before, and every
\* message of `due` is still to come.
OrderRun(s, old, due) ==
  /\ Len(s.list) = old + Len(s.pushed)
  /\ \A j, k \in DOMAIN s.list :
       j < k /\ j <= old /\ k <= old /\ ~Own(s.list[j]) => s.list[j].t <= s.list[k].t
  /\ \A j, k \in DOMAIN s.list : j < k /\ j > old /\ ~Own(s.list[j]) => s.list[j].t <= s.list[k].t
  /\ s.pushed # <<>> => \A k \in DOMAIN s.list : k > old => s.pushed[1].t <= s.list[k].t
  /\ \A k \in DOMAIN s.list : k > old /\ ~Own(s.list[k]) => \A e \in due : s.list[k].t <= 2 * e
  /\ s.pushed # <<>> => \A e \in due : s.pushed[1].t <= 2 * e

\* Ascending batches go behind one another: what is pushed is in order.
LEMMA StepOrder ==
  ASSUME Distinct, LogInv, NEW s, GoodRun(s), Titled(s.list),
         NEW m, Live(m), NEW s2, Outcome(s, s2, m),
         NEW old \in Nat, NEW due \in SUBSET Nat, m.eid \in due, \A e \in due : m.eid <= e,
         OrderRun(s, old, due)
  PROVE  OrderRun(s2, old, due \ {m.eid})
<1>1. /\ s \in RunState /\ s2 \in RunState /\ s.list \in Seq(Row) /\ s.pushed \in Seq(Row)
      /\ Unpacked(m) /\ m \in Row /\ m.eid # 0 /\ m.t = 2 * m.eid /\ m.eid \in Nat
      /\ m.label # 0 => m.body = m.label
  BY LiveTitled DEF GoodRun, Outcome, RunState, Live, Unpacked, Genuine, Row
<1>2. /\ Len(s.list) = old + Len(s.pushed)
      /\ \A j, k \in DOMAIN s.list :
           j < k /\ j <= old /\ k <= old /\ ~Own(s.list[j]) => s.list[j].t <= s.list[k].t
      /\ \A j, k \in DOMAIN s.list :
           j < k /\ j > old /\ ~Own(s.list[j]) => s.list[j].t <= s.list[k].t
  BY DEF OrderRun
<1>a. s.pushed # <<>> => /\ \A k \in DOMAIN s.list : k > old => s.pushed[1].t <= s.list[k].t
                        /\ \A e \in due : s.pushed[1].t <= 2 * e
  BY DEF OrderRun
<1>b. \A k \in DOMAIN s.list : k > old /\ ~Own(s.list[k]) => \A e \in due : s.list[k].t <= 2 * e
  BY DEF OrderRun
<1>3. ASSUME s2.list = s.list, s2.pushed = s.pushed PROVE OrderRun(s2, old, due \ {m.eid})
  BY <1>2, <1>3, <1>a, <1>b DEF OrderRun
<1>4. ASSUME NEW k \in DOMAIN s.list, Took(s, s2, m, k) PROVE OrderRun(s2, old, due \ {m.eid})
  <2>1. Replaces(s2.list, s.list, m, k)
    BY <1>1, <1>4, TookReplaces
  <2>2. s2.pushed = s.pushed
    BY <1>4 DEF Took
  <2>3. /\ s2.list \in Seq(Row) /\ DOMAIN s2.list = DOMAIN s.list
        /\ \A j \in DOMAIN s.list : s.list[j].t <= s2.list[j].t
                                    /\ s.list[j].t \in Nat /\ s2.list[j].t \in Nat
        /\ \A j \in DOMAIN s.list : ~Own(s2.list[j]) => s2.list[j] = s.list[j]
    <3>1. /\ s2.list \in Seq(Row) /\ DOMAIN s2.list = DOMAIN s.list
          /\ \A j \in DOMAIN s.list : j # k => s2.list[j] = s.list[j]
          /\ Own(s2.list[k]) /\ s.list[k].t <= s2.list[k].t
      BY <2>1 DEF Replaces
    <3>2. \A j \in DOMAIN s.list : s.list[j].t \in Nat /\ s2.list[j].t \in Nat
      BY <1>1, <3>1, RowsTyped
    <3>3. \A j \in DOMAIN s.list : s.list[j].t <= s2.list[j].t
      BY <3>1, <3>2
    <3> QED BY <3>1, <3>2, <3>3
  <2>4. Len(s2.list) = Len(s.list)
    BY <1>1, <2>3
  <2>5. ASSUME NEW j \in DOMAIN s.list, NEW i \in DOMAIN s.list, ~Own(s2.list[j]),
               s.list[j].t <= s.list[i].t
        PROVE  s2.list[j].t <= s2.list[i].t
    BY <2>3, <2>5
  <2>6. s.pushed # <<>> => s.pushed[1].t \in Nat
    BY <1>1, RowsTyped
  <2>7. \A j, i \in DOMAIN s2.list :
          j < i /\ j <= old /\ i <= old /\ ~Own(s2.list[j]) => s2.list[j].t <= s2.list[i].t
    BY <1>2, <2>3, <2>5
  <2>8. \A j, i \in DOMAIN s2.list :
          j < i /\ j > old /\ ~Own(s2.list[j]) => s2.list[j].t <= s2.list[i].t
    BY <1>2, <2>3, <2>5
  <2>9. s.pushed # <<>> => \A i \in DOMAIN s2.list : i > old => s.pushed[1].t <= s2.list[i].t
    BY <1>a, <2>3, <2>6
  <2>10. \A i \in DOMAIN s2.list :
           i > old /\ ~Own(s2.list[i]) => \A e \in due \ {m.eid} : s2.list[i].t <= 2 * e
    BY <1>b, <2>3
  <2> QED BY <1>2, <1>a, <2>2, <2>4, <2>7, <2>8, <2>9, <2>10 DEF OrderRun
<1>5. ASSUME Added(s, s2, m) PROVE OrderRun(s2, old, due \ {m.eid})
  <2> DEFINE n == Len(s.list)
  <2>1. s2.list = Append(s.list, m) /\ s2.pushed = Append(s.pushed, m)
    BY <1>5 DEF Added
  <2>2. /\ n \in Nat /\ Len(s2.list) = n + 1 /\ DOMAIN s2.list = 1..(n + 1) /\ DOMAIN s.list = 1..n
        /\ s2.list[n + 1] = m /\ \A j \in 1..n : s2.list[j] = s.list[j]
        /\ \A j \in DOMAIN s2.list : j \in 1..n \/ j = n + 1
        /\ \A j \in 1..n : s.list[j].t \in Nat
    BY <1>1, <2>1, AddedIs, RowsTyped, SMTT(40)
  <2>a. Len(s.list) = old + Len(s.pushed)
    BY <1>2
  <2>3. /\ Len(s2.pushed) = Len(s.pushed) + 1 /\ Len(s.pushed) \in Nat /\ s2.pushed # <<>>
        /\ s.pushed # <<>> => s2.pushed[1] = s.pushed[1] /\ s.pushed[1].t \in Nat
        /\ s.pushed = <<>> => s2.pushed[1] = m /\ n = old
    <3>1. /\ Len(s2.pushed) = Len(s.pushed) + 1 /\ Len(s.pushed) \in Nat
          /\ \A j \in 1..Len(s.pushed) : s2.pushed[j] = s.pushed[j]
          /\ s2.pushed[Len(s.pushed) + 1] = m
      BY <1>1, <2>1, AddedIs
    <3>2. s2.pushed # <<>>
      BY <3>1
    <3>3. CASE s.pushed = <<>>
      BY <2>a, <3>1, <3>2, <3>3
    <3>4. CASE s.pushed # <<>>
      <4>1. 1 \in 1..Len(s.pushed) /\ 1 \in DOMAIN s.pushed
        BY <1>1, <3>1, <3>4
      <4>2. s.pushed[1].t \in Nat
        BY <1>1, <4>1, RowsTyped
      <4> QED BY <3>1, <3>2, <3>4, <4>1, <4>2
    <3> QED BY <3>3, <3>4
  <2>4. n >= old /\ m.t \in Nat
    BY <1>1, <2>a, <2>3 DEF Row
  <2> HIDE DEF n
  <2>5. ASSUME NEW j \in DOMAIN s2.list, NEW i \in DOMAIN s2.list,
               j < i, j <= old, i <= old, ~Own(s2.list[j])
        PROVE  s2.list[j].t <= s2.list[i].t
    <3>1. j \in 1..n /\ i \in 1..n
      BY <2>2, <2>4, <2>5
    <3> QED BY <1>2, <2>2, <2>5, <3>1
  <2>6. ASSUME NEW j \in DOMAIN s2.list, NEW i \in DOMAIN s2.list,
               j < i, j > old, ~Own(s2.list[j])
        PROVE  s2.list[j].t <= s2.list[i].t
    <3>1. j \in 1..n
      BY <2>2, <2>6
    <3>2. CASE i \in 1..n
      BY <1>2, <2>2, <2>6, <3>1, <3>2
    <3>3. CASE i = n + 1
      <4>1. s.list[j].t <= 2 * m.eid
        BY <1>b, <2>2, <2>6, <3>1
      <4> QED BY <1>1, <2>2, <3>1, <3>3, <4>1
    <3> QED BY <2>2, <3>2, <3>3
  <2>7. ASSUME NEW i \in DOMAIN s2.list, i > old PROVE s2.pushed[1].t <= s2.list[i].t
    <3>1. CASE s.pushed = <<>>
      BY <2>2, <2>3, <2>4, <2>7, <3>1
    <3>2. CASE s.pushed # <<>>
      <4>1. i \in 1..n \/ i = n + 1
        BY <2>2
      <4>2. i \in 1..n => s2.pushed[1].t <= s2.list[i].t
        BY <1>a, <2>2, <2>3, <2>7, <3>2
      <4>3. s2.pushed[1].t <= m.t
        BY <1>1, <1>a, <2>3, <3>2
      <4> QED BY <2>2, <4>1, <4>2, <4>3
    <3> QED BY <3>1, <3>2
  <2>8. ASSUME NEW i \in DOMAIN s2.list, i > old, ~Own(s2.list[i]), NEW e \in due \ {m.eid}
        PROVE  s2.list[i].t <= 2 * e
    <3>1. m.eid <= e /\ e \in Nat
      OBVIOUS
    <3>2. CASE i \in 1..n
      BY <1>b, <2>2, <2>8, <3>2
    <3>3. CASE i = n + 1
      BY <1>1, <2>2, <3>1, <3>3
    <3> QED BY <2>2, <3>2, <3>3
  <2>9. ASSUME NEW e \in due \ {m.eid} PROVE s2.pushed[1].t <= 2 * e
    <3>1. m.eid <= e /\ e \in Nat
      OBVIOUS
    <3>2. CASE s.pushed = <<>>
      BY <1>1, <2>3, <3>1, <3>2
    <3>3. CASE s.pushed # <<>>
      BY <1>a, <2>3, <3>3
    <3> QED BY <3>2, <3>3
  <2>10. Len(s2.list) = old + Len(s2.pushed)
    BY <2>a, <2>2, <2>3 DEF n
  <2> QED BY <2>5, <2>6, <2>7, <2>8, <2>9, <2>10 DEF OrderRun
<1> QED BY <1>3, <1>4, <1>5 DEF Outcome, Skipped, Dropped

\* The rows are in order of time, whether or not the window is sorted again.
LEMMA ResortedKeeps ==
  ASSUME NEW s \in RunState, GoodRows(s.list), NEW old \in Nat, NEW due, OrderRun(s, old, due)
  PROVE  Kept(Resorted(s), s.list) /\ Trailing(Resorted(s))
<1> DEFINE n == Len(s.list) - Len(s.pushed)
           all == Sorted(s.list)
           back == s.pushed # <<>> /\ n > 0 /\ s.pushed[1].t < s.list[n].t
<1>1. s.list \in Seq(Row) /\ s.pushed \in Seq(Row)
  BY DEF RunState
<1>2. Resorted(s) = IF back THEN At(all, Once(all)) ELSE s.list
  BY DEF Resorted, Once
<1>3. CASE back
  <2>1. GoodRows(all) /\ Kept(all, s.list) /\ Trailing(all)
    BY SortedGood, SortedKeeps
  <2>2. Kept(At(all, Once(all)), all) /\ Trailing(At(all, Once(all)))
    BY <2>1, OnceKeeps
  <2> QED BY <1>2, <1>3, <2>1, <2>2, KeptOnwards
<1>4. CASE ~back
  <2>1. /\ Len(s.list) = old + Len(s.pushed) /\ Len(s.list) \in Nat /\ Len(s.pushed) \in Nat
        /\ DOMAIN s.list = 1..Len(s.list) /\ \A k \in DOMAIN s.list : s.list[k].t \in Nat
    BY <1>1, RowsTyped DEF OrderRun
  <2>2. n = old
    BY <2>1
  <2>3. s.pushed # <<>> => s.pushed[1].t \in Nat
    BY <1>1, RowsTyped
  <2>4. s.pushed = <<>> => Len(s.list) = old
    BY <2>1
  <2>5. ~(s.pushed # <<>> /\ old > 0 /\ s.pushed[1].t < s.list[old].t)
    BY <1>4, <2>2
  <2> HIDE DEF n, all, back
  <2>6. ASSUME NEW j \in DOMAIN s.list, NEW k \in DOMAIN s.list, j < k, ~Own(s.list[j])
        PROVE  s.list[j].t <= s.list[k].t
    <3>1. j \in Nat /\ k \in Nat /\ j >= 1 /\ s.list[j].t \in Nat /\ s.list[k].t \in Nat
      BY <2>1
    <3>2. CASE k <= old
      BY <2>6, <3>1, <3>2 DEF OrderRun
    <3>3. CASE j > old
      BY <2>6, <3>3 DEF OrderRun
    <3>4. CASE j <= old /\ k > old
      <4>1. s.pushed # <<>> /\ old \in DOMAIN s.list /\ s.list[old].t \in Nat
        BY <2>1, <2>4, <3>1, <3>4
      <4>2. s.list[j].t <= s.list[old].t
        <5>1. CASE j = old
          BY <3>1, <5>1
        <5>2. CASE j < old
          BY <2>6, <4>1, <5>2 DEF OrderRun
        <5> QED BY <3>1, <3>4, <5>1, <5>2
      <4>3. s.list[old].t <= s.pushed[1].t
        BY <2>3, <2>5, <3>1, <3>4, <4>1
      <4>4. s.pushed[1].t <= s.list[k].t
        BY <3>4, <4>1 DEF OrderRun
      <4> QED BY <2>3, <3>1, <4>1, <4>2, <4>3, <4>4
    <3> QED BY <3>1, <3>2, <3>3, <3>4
  <2>7. Trailing(s.list)
    BY <2>6 DEF Trailing
  <2>8. Resorted(s) = s.list
    BY <1>2, <1>4
  <2> QED BY <2>7, <2>8, KeptSelf
<1> QED BY <1>3, <1>4

\* What is told of the rows of the store when texts are all different.
TidyStore(s) == Tidy(s.list) /\ (Unrenamed => MyOpts(s.opt)) /\ Trailing(s.list)

\* What a batch adds to the rows.
BatchKept(s, s0, eids, settled) ==
  /\ TidyStore(s) /\ Covers(s.list, s0.list) /\ Eids(s.list) \subseteq Eids(s0.list) \union eids
  /\ SelfKnown => eids \subseteq Eids(s.list)
  /\ EchoKnown => EchoesIn(settled \union eids, s.list, s.opt)

\* batchAppendMessages shows what it is given, and leaves the rows tidy.
LEMMA BatchAppendKeeps ==
  ASSUME Distinct, LogInv, NEW s0, GoodRows(s0.list), GoodOpts(s0.opt), TidyStore(s0),
         NEW eids \in SUBSET Messages(DOMAIN log),
         NEW settled, EchoKnown => EchoesIn(settled, s0.list, s0.opt)
  PROVE  BatchKept(BatchAppend(s0, eids), s0, eids, settled)
<1> DEFINE R == LiveRows(eids)
           N == Cardinality(eids)
           A == Ascending(eids)
           Done(n) == {A[i] : i \in 1..n}
           Due(n) == {A[i] : i \in (n+1)..N}
           first == [list |-> s0.list, opt |-> s0.opt, seen |-> Eids(s0.list), pushed |-> <<>>]
           G == [n \in 0..N |-> {x \in RunState : /\ TidyRun(x, s0.list, settled, Done(n))
                                                  /\ OrderRun(x, Len(s0.list), Due(n))}]
           s == AppendAll(first, R)
<1>1. /\ Len(R) = N /\ N \in Nat /\ A \in [1..N -> eids]
      /\ \A n \in 1..N : R[n] = LiveRow(A[n]) /\ Unpacked(R[n])
  BY LiveRowsAre
<1>2. eids \in SUBSET (1..Len(log)) /\ Len(log) \in Nat
  BY EventsTyped DEF Messages
<1>3. /\ \A i, j \in 1..N : i < j => A[i] < A[j]
      /\ \A e \in eids : \E i \in 1..N : A[i] = e
  BY <1>2, AscendingIs
<1> HIDE DEF R, N, A
<1>4. \A n \in 1..N : A[n] \in eids /\ A[n] \in Nat
  <2>1. \A n \in 1..N : A[n] \in eids
    BY <1>1
  <2>2. \A e \in eids : e \in Nat
    BY <1>2
  <2> QED BY <2>1, <2>2
<1>5. \A n \in 1..N : R[n].eid = A[n] /\ Live(R[n])
  <2> SUFFICES ASSUME NEW n \in 1..N PROVE R[n].eid = A[n] /\ Live(R[n])
    OBVIOUS
  <2>1. A[n] \in Messages(DOMAIN log)
    BY <1>4
  <2>2. R[n] = LiveRow(A[n]) /\ Unpacked(R[n])
    BY <1>1
  <2> QED BY <2>1, <2>2, FreshRows DEF Live
<1>6. s0.list \in Seq(Row) /\ s0.opt \in Seq(Opt) /\ Len(s0.list) \in Nat
      /\ DOMAIN s0.list = 1..Len(s0.list) /\ Eids(s0.list) \in SUBSET Nat
  <2>1. s0.list \in Seq(Row) /\ s0.opt \in Seq(Opt)
    BY DEF GoodRows, GoodOpts
  <2> QED BY <2>1, RowsTyped DEF Eids
<1>7. first \in G[0]
  <2>1. first \in RunState /\ first.list = s0.list /\ first.opt = s0.opt
        /\ first.seen = Eids(s0.list) /\ first.pushed = <<>>
    BY <1>6 DEF RunState
  <2> HIDE DEF first
  <2>2. Done(0) = {}
    OBVIOUS
  <2>3. OthersSeen(s0.list, Eids(s0.list))
    BY OtherHasEid DEF OthersSeen, Eids, GoodRows
  <2>4. GoodRun(first)
    BY <2>1, <2>3 DEF GoodRun
  <2>5. TidyRun(first, s0.list, settled, {})
    <3>1. settled \union {} = settled
      OBVIOUS
    <3> QED BY <2>1, <2>4, <3>1, CoversSelf DEF TidyRun, TidyStore
  <2>6. OrderRun(first, Len(s0.list), Due(0))
    <3>1. Len(first.pushed) = 0
      BY <2>1
    <3>2. \A k \in DOMAIN first.list : k \in Nat /\ k <= Len(s0.list)
      BY <1>6, <2>1
    <3> HIDE DEF Due
    <3> QED BY <1>6, <2>1, <3>1, <3>2 DEF OrderRun, TidyStore, Trailing
  <2>7. 0 \in 0..N
    BY <1>1
  <2> HIDE DEF Done, Due
  <2> QED BY <2>1, <2>2, <2>5, <2>6, <2>7
<1>8. ASSUME NEW n \in 1..N, NEW x \in G[n-1] PROVE AppendOne(x, R[n]) \in G[n]
  <2>1. n \in 0..N /\ n - 1 \in 0..N /\ n \in Nat
    BY <1>1
  <2>2. x \in RunState /\ TidyRun(x, s0.list, settled, Done(n-1)) /\ OrderRun(x, Len(s0.list), Due(n-1))
    BY <1>8, <2>1
  <2>3. Done(n) = Done(n-1) \union {A[n]}
    <3>1. \A i \in 1..n : i \in 1..(n-1) \/ i = n
      BY <2>1
    <3>2. \A i \in 1..(n-1) : i \in 1..n
      BY <2>1
    <3>3. n \in 1..n
      BY <2>1
    <3> QED BY <3>1, <3>2, <3>3
  <2>4. A[n] \notin Done(n-1)
    <3> SUFFICES ASSUME NEW i \in 1..(n-1), A[i] = A[n] PROVE FALSE
      OBVIOUS
    <3>1. i \in 1..N /\ i < n
      BY <1>1, <2>1
    <3> QED BY <1>3, <1>4, <3>1
  <2>5. /\ A[n] \in Due(n-1) /\ \A e \in Due(n-1) : A[n] <= e /\ e \in Nat
        /\ Due(n) = Due(n-1) \ {A[n]}
    <3>1. \A i \in ((n-1)+1)..N : i = n \/ i \in (n+1)..N
      BY <1>1, <2>1
    <3>2. \A i \in (n+1)..N : i \in ((n-1)+1)..N /\ i \in 1..N /\ n < i
      BY <1>1, <2>1
    <3>3. n \in ((n-1)+1)..N
      BY <1>1, <2>1
    <3>4. \A i \in (n+1)..N : A[n] < A[i] /\ A[n] # A[i] /\ A[i] \in Nat
      BY <1>3, <1>4, <3>2
    <3> QED BY <1>4, <3>1, <3>2, <3>3, <3>4
  <2>6. Live(R[n]) /\ R[n].eid = A[n]
    BY <1>5
  <2> HIDE DEF Done, Due
  <2>7. PICK y : y = AppendOne(x, R[n])
    OBVIOUS
  <2>8. TidyRun(y, s0.list, settled, Done(n))
    BY <2>2, <2>3, <2>4, <2>6, <2>7, StepRun
  <2>9. Outcome(x, y, R[n])
    <3>1. R[n] \in Row
      BY <1>1 DEF Unpacked
    <3> QED BY <2>2, <2>7, <3>1, AppendOneOutcome
  <2>10. OrderRun(y, Len(s0.list), Due(n))
    <3>1. GoodRun(x) /\ Titled(x.list)
      BY <2>2 DEF TidyRun, Tidy
    <3>2. Due(n-1) \in SUBSET Nat
      BY <2>5
    <3> QED BY <1>6, <2>2, <2>5, <2>6, <2>9, <3>1, <3>2, StepOrder
  <2>11. y \in RunState
    BY <2>9 DEF Outcome
  <2>12. y \in G[n]
    BY <2>1, <2>8, <2>10, <2>11
  <2> QED BY <2>7, <2>12
<1>9. s \in G[N]
  <2> HIDE DEF G, first
  <2>1. \A n \in 1..Len(R) : \A x \in G[n-1] : AppendOne(x, R[n]) \in G[n]
    BY <1>1, <1>8
  <2>2. AppendAll(first, R) \in G[Len(R)]
    BY <1>1, <1>7, <2>1, AppendAllRuns
  <2> QED BY <1>1, <2>2
<1>10. Done(N) = eids
  BY <1>3, <1>4
<1>11. s \in RunState /\ TidyRun(s, s0.list, settled, eids) /\ OrderRun(s, Len(s0.list), Due(N))
  <2>1. N \in 0..N
    BY <1>1
  <2> HIDE DEF s, Done, Due
  <2> QED BY <1>9, <1>10, <2>1
<1>12. /\ BatchAppend(s0, eids).list = Resorted(s) /\ BatchAppend(s0, eids).opt = s.opt
  BY DEF BatchAppend, R
<1>13. PICK u : u = s
  OBVIOUS
<1>14. u \in RunState /\ TidyRun(u, s0.list, settled, eids) /\ OrderRun(u, Len(s0.list), Due(N))
       /\ BatchAppend(s0, eids).list = Resorted(u) /\ BatchAppend(s0, eids).opt = u.opt
  BY <1>11, <1>12, <1>13
<1> HIDE DEF s, G, first, Done, Due
<1>15. GoodRows(u.list)
  BY <1>14 DEF TidyRun, GoodRun
<1>16. Kept(Resorted(u), u.list) /\ Trailing(Resorted(u))
  BY <1>6, <1>14, <1>15, ResortedKeeps
<1>17. TidyStore(BatchAppend(s0, eids))
  BY <1>14, <1>16 DEF TidyStore, Kept, TidyRun
<1>18. Covers(BatchAppend(s0, eids).list, s0.list)
  BY <1>14, <1>16, CoversOnwards DEF Kept, TidyRun
<1>19. Eids(BatchAppend(s0, eids).list) \subseteq Eids(s0.list) \union eids
  BY <1>14, <1>16 DEF Kept, TidyRun
<1>20. SelfKnown => eids \subseteq Eids(BatchAppend(s0, eids).list)
  <2>1. Eids(u.list) \subseteq Eids(Resorted(u))
    BY <1>16 DEF Kept, Covers, Eids
  <2> QED BY <1>14, <2>1 DEF TidyRun
<1>21. EchoKnown => EchoesIn(settled \union eids, Resorted(u), u.opt)
  BY <1>14, <1>16 DEF TidyRun, Kept, EchoesIn, Settled
<1> QED BY <1>14, <1>17, <1>18, <1>19, <1>20, <1>21 DEF BatchKept

-----------------------------------------------------------------------------
(* The run of a page, when texts are all different *)

\* No pending row has the text of one of the user's messages among `eids`.
NoneLeft(eids, rows) ==
  \A d \in eids : log[d].nick # Other =>
    \A k \in DOMAIN rows : rows[k].eid = 0 => rows[k].body # log[d].body

\* The loop over a page, after the messages `done`.
PageRun(s, rows, settled, done) ==
  /\ GoodPage(s) /\ Tidy(s.list) /\ (Unrenamed => MyOpts(s.opt))
  /\ Covers(s.list, rows) /\ s.seen = Eids(s.list)
  /\ Eids(s.list) \subseteq Eids(rows) \union done
  /\ Unrenamed => NoneLeft(done, s.list)
  /\ EchoKnown => EchoesIn(settled, s.list, s.opt)

\* One turn of the loop of prependMessages.
LEMMA PageStep ==
  ASSUME Distinct, LogInv, NEW s, NEW rows, NEW settled, NEW done, PageRun(s, rows, settled, done),
         NEW m, Unpacked(m)
  PROVE  PageRun(ReplacePending(s, m), rows, settled, done \union {m.eid})
<1>1. /\ GoodPage(s) /\ Tidy(s.list) /\ (Unrenamed => MyOpts(s.opt))
      /\ Covers(s.list, rows) /\ s.seen = Eids(s.list)
      /\ Eids(s.list) \subseteq Eids(rows) \union done
      /\ Unrenamed => NoneLeft(done, s.list)
      /\ EchoKnown => EchoesIn(settled, s.list, s.opt)
  BY DEF PageRun
<1>2. m \in Row /\ Genuine(m) /\ m.eid # 0 /\ s \in PageState
      /\ s.list \in Seq(Row) /\ GoodRows(s.list)
  BY <1>1 DEF Unpacked, GoodPage, GoodRows
<1>3. m.nick = log[m.eid].nick /\ m.body = log[m.eid].body
  BY <1>2 DEF Genuine
<1>4. PICK s2 : s2 = ReplacePending(s, m)
  OBVIOUS
<1>5. GoodPage(s2) /\ ReplaceOutcome(s, s2, m)
  BY <1>1, <1>2, <1>4, ReplacePendingGood, ReplacePendingOutcome
<1>6. ASSUME NEW k \in DOMAIN s.list, Replaced(s, s2, m, k)
      PROVE  PageRun(s2, rows, settled, done \union {m.eid})
  <2>1. Replaces(s2.list, s.list, m, k)
    BY <1>1, <1>5, <1>6, PageReplaces DEF Tidy, ReplaceOutcome
  <2>2. /\ Tidy(s2.list) /\ Covers(s2.list, s.list)
        /\ Eids(s2.list) = Eids(s.list) \union {m.eid}
        /\ \A l : NonePending(l, s.list) => NonePending(l, s2.list)
    BY <1>1, <2>1, ReplacesKeeps
  <2>3. Fewer(s2.opt, s.opt, s.list[k].label) /\ s2.seen = s.seen \union {m.eid}
    BY <1>6 DEF Replaced
  <2>4. Covers(s2.list, rows)
    BY <1>1, <2>2, CoversOnwards
  <2>5. Unrenamed => MyOpts(s2.opt)
    BY <1>1, <2>3 DEF MyOpts, Fewer
  <2>6. ASSUME Unrenamed PROVE NoneLeft(done \union {m.eid}, s2.list)
    <3> SUFFICES ASSUME NEW d \in done \union {m.eid}, log[d].nick # Other,
                        NEW j \in DOMAIN s2.list, s2.list[j].eid = 0, s2.list[j].body = log[d].body
                 PROVE  FALSE
      BY DEF NoneLeft
    <3>1. /\ j # k /\ j \in DOMAIN s.list /\ s2.list[j] = s.list[j]
          /\ Own(s.list[k]) /\ s.list[k].body = m.body
      BY <1>2, <2>1 DEF Replaces
    <3>2. CASE d \in done
      BY <1>1, <2>6, <3>1, <3>2 DEF NoneLeft
    <3>3. CASE d = m.eid
      <4>1. Own(s.list[j])
        BY <1>2, <3>1 DEF GoodRows, Genuine
      <4> QED BY <1>1, <1>3, <2>6, <3>1, <3>3, <4>1 DEF Tidy, OwnOnce
    <3> QED BY <3>2, <3>3
  <2>7. EchoKnown => EchoesIn(settled, s2.list, s2.opt)
    BY <1>1, <2>2, <2>3 DEF EchoesIn, Settled, Fewer
  <2>8. s2.seen = Eids(s2.list) /\ Eids(s2.list) \subseteq Eids(rows) \union (done \union {m.eid})
    BY <1>1, <2>2, <2>3
  <2> QED BY <1>5, <2>2, <2>4, <2>5, <2>6, <2>7, <2>8 DEF PageRun
<1>7. ASSUME s2 = s, \A k \in DOMAIN s.list : ~(PendingLike(s.list[k]) /\ SameLine(s.list[k], m))
      PROVE  PageRun(s2, rows, settled, done \union {m.eid})
  <2>1. ASSUME Unrenamed PROVE NoneLeft(done \union {m.eid}, s.list)
    <3> SUFFICES ASSUME NEW d \in done \union {m.eid}, log[d].nick # Other,
                        NEW j \in DOMAIN s.list, s.list[j].eid = 0, s.list[j].body = log[d].body
                 PROVE  FALSE
      BY DEF NoneLeft
    <3>1. CASE d \in done
      BY <1>1, <2>1, <3>1 DEF NoneLeft
    <3>2. CASE d = m.eid
      <4>1. Own(m) /\ s.list[j].body = m.body /\ s.list[j] \in Row /\ Genuine(s.list[j])
        BY <1>2, <1>3, <3>2 DEF Own, GoodRows
      <4>2. s.list[j].nick = "me"
        BY <1>1, <2>1 DEF Tidy, MyRows
      <4> QED BY <1>7, <2>1, <4>1, <4>2, PendingLooksSame
    <3> QED BY <3>1, <3>2
  <2>2. Eids(s.list) \subseteq Eids(rows) \union (done \union {m.eid})
    BY <1>1
  <2> QED BY <1>1, <1>7, <2>1, <2>2 DEF PageRun
<1> QED BY <1>4, <1>5, <1>6, <1>7 DEF ReplaceOutcome

\* A page's rows, one for each message.
LEMMA PageRowsOnce ==
  ASSUME LogInv, NEW eids \in SUBSET DOMAIN log
  PROVE  /\ Eids(PageRows(eids)) = Messages(eids)
         /\ \A i, j \in DOMAIN PageRows(eids) : PageRows(eids)[i].eid = PageRows(eids)[j].eid => i = j
         /\ \A j \in DOMAIN PageRows(eids) :
              Unpacked(PageRows(eids)[j]) /\ PageRows(eids)[j].label = 0
         /\ Trailing(PageRows(eids))
<1> DEFINE M == Messages(eids)
           N == Cardinality(M)
           A == Ascending(M)
           R == PageRows(eids)
<1>1. /\ N \in Nat /\ A \in [1..N -> M] /\ DOMAIN R = 1..N
      /\ \A n \in 1..N : R[n] = PageRow(A[n]) /\ Unpacked(R[n])
  BY PageRowsAre
<1>2. M \in SUBSET (1..Len(log)) /\ Len(log) \in Nat /\ M \in SUBSET Messages(DOMAIN log)
  BY EventsTyped DEF Messages
<1> HIDE DEF M
<1>3. /\ \A i, j \in 1..N : i < j => A[i] < A[j]
      /\ \A e \in M : \E i \in 1..N : A[i] = e
  BY <1>2, AscendingIs
<1> HIDE DEF N, A, R
<1>4. \A n \in 1..N : A[n] \in M
  BY <1>1
<1>5. \A n \in 1..N : A[n] \in Nat /\ A[n] # 0 /\ A[n] \in Messages(DOMAIN log)
  <2>1. \A e \in M : e \in Nat /\ e # 0 /\ e \in Messages(DOMAIN log)
    BY <1>2
  <2> QED BY <1>4, <2>1
<1>6. \A n \in 1..N : R[n].eid = A[n] /\ R[n].t = 2 * A[n] /\ R[n].label = 0
  BY <1>1, <1>5, FreshRows
<1>7. Eids(R) = M
  <2>1. ASSUME NEW e PROVE e \in Eids(R) <=> e \in M
    <3>1. e \in Eids(R) => \E n \in 1..N : A[n] = e
      BY <1>1, <1>6 DEF Eids
    <3>2. e \in M => \E n \in 1..N : R[n].eid = e
      BY <1>3, <1>6
    <3>3. e \in M => e # 0
      BY <1>2
    <3> QED BY <1>1, <1>4, <3>1, <3>2, <3>3 DEF Eids
  <2> QED BY <2>1
<1>8. ASSUME NEW i \in 1..N, NEW j \in 1..N, R[i].eid = R[j].eid PROVE i = j
  <2>1. A[i] = A[j] /\ A[i] \in Nat /\ i \in Nat /\ j \in Nat
    BY <1>5, <1>6, <1>8
  <2>2. ~(i < j) /\ ~(j < i)
    BY <1>3, <2>1
  <2> QED BY <2>1, <2>2
<1>9. Trailing(R)
  <2> SUFFICES ASSUME NEW j \in 1..N, NEW k \in 1..N, j < k PROVE R[j].t <= R[k].t
    BY <1>1 DEF Trailing
  <2>1. A[j] < A[k] /\ A[j] \in Nat /\ A[k] \in Nat
    BY <1>3, <1>5
  <2> QED BY <1>6, <2>1
<1> QED BY <1>1, <1>6, <1>7, <1>8, <1>9 DEF M, R

\* The rows of a page alone.
LEMMA PageRowsTidy ==
  ASSUME Distinct, LogInv, NEW eids \in SUBSET DOMAIN log
  PROVE  Tidy(PageRows(eids)) /\ \A l : NonePending(l, PageRows(eids))
<1> DEFINE R == PageRows(eids)
<1>1. /\ \A i, j \in DOMAIN R : R[i].eid = R[j].eid => i = j
      /\ \A j \in DOMAIN R : Unpacked(R[j]) /\ R[j].label = 0
  BY PageRowsOnce
<1> HIDE DEF R
<1>2. \A j \in DOMAIN R : /\ R[j].label = 0 /\ R[j].eid # 0 /\ R[j].eid \in DOMAIN log
                          /\ log[R[j].eid].kind = "msg" /\ R[j].nick = log[R[j].eid].nick
                          /\ R[j].body = log[R[j].eid].body
  BY <1>1 DEF Unpacked, Genuine
<1>3. OwnOnce(R)
  <2> SUFFICES ASSUME NEW i \in DOMAIN R, NEW j \in DOMAIN R, Own(R[i]), Own(R[j]),
                      R[i].body = R[j].body
               PROVE  i = j
    BY DEF OwnOnce
  <2>1. R[i].eid = R[j].eid
    BY <1>2, OwnBodies DEF Own
  <2> QED BY <1>1, <2>1
<1>4. Titled(R) /\ MyRows(R) /\ \A l : NonePending(l, R)
  BY <1>2 DEF Titled, MyRows, NonePending
<1> QED BY <1>3, <1>4 DEF Tidy, R

\* The rows of a page in front of the others.
LEMMA JoinedKeeps ==
  ASSUME Distinct, LogInv, NEW b \in Seq(Row), GoodRows(b), Tidy(b), NEW eids \in SUBSET Messages(DOMAIN log),
         eids \intersect Eids(b) = {}, Unrenamed => NoneLeft(eids, b)
  PROVE  /\ Tidy(PageRows(eids) \o b) /\ Covers(PageRows(eids) \o b, b)
         /\ Eids(PageRows(eids) \o b) = Eids(b) \union eids
         /\ \A l : NonePending(l, b) => NonePending(l, PageRows(eids) \o b)
<1> DEFINE a == PageRows(eids)
           c == a \o b
           p == Len(a)
           q == Len(b)
<1>1. eids \in SUBSET DOMAIN log /\ Messages(eids) = eids
  BY DEF Messages
<1>2. a \in Seq(Row) /\ Eids(a) = eids /\ Tidy(a) /\ (\A l : NonePending(l, a))
      /\ \A j \in DOMAIN a : Unpacked(a[j]) /\ a[j].label = 0
  BY <1>1, PageRowsAre, PageRowsOnce, PageRowsTidy
<1> HIDE DEF a
<1>3. /\ c \in Seq(Row) /\ p \in Nat /\ q \in Nat /\ Len(c) = p + q /\ DOMAIN c = 1..(p + q)
      /\ DOMAIN a = 1..p /\ DOMAIN b = 1..q
      /\ \A j \in 1..(p + q) : c[j] = IF j <= p THEN a[j] ELSE b[j - p]
  BY <1>2
<1> HIDE DEF c, p, q
<1>4. /\ \A j \in DOMAIN c : \/ j \in DOMAIN a /\ c[j] = a[j]
                             \/ j > p /\ j - p \in DOMAIN b /\ c[j] = b[j - p]
      /\ \A j \in DOMAIN a : j \in DOMAIN c /\ c[j] = a[j]
      /\ \A k \in DOMAIN b : k + p \in DOMAIN c /\ c[k + p] = b[k]
  BY <1>3
<1>5. Titled(c)
  BY <1>2, <1>4 DEF Titled, Tidy
<1>6. ASSUME Unrenamed, NEW i \in DOMAIN a, NEW k \in DOMAIN b, Own(a[i]), Own(b[k]),
             a[i].body = b[k].body
      PROVE  FALSE
  <2>1. a[i].eid # 0 /\ a[i].eid \in eids /\ a[i].nick = log[a[i].eid].nick
        /\ a[i].body = log[a[i].eid].body
    BY <1>2 DEF Unpacked, Genuine, Eids
  <2>2. CASE b[k].eid = 0
    BY <1>6, <2>1, <2>2 DEF NoneLeft, Own
  <2>3. CASE b[k].eid # 0
    <3>1. b[k] \in Row /\ Genuine(b[k])
      BY DEF GoodRows
    <3>2. b[k].eid = a[i].eid
      BY <1>2, <1>6, <2>3, <3>1, SameText
    <3>3. b[k].eid \in Eids(b)
      BY <2>3 DEF Eids
    <3> QED BY <2>1, <3>2, <3>3
  <2> QED BY <2>2, <2>3
<1>7. ASSUME Unrenamed PROVE OwnOnce(c)
  <2> SUFFICES ASSUME NEW i \in DOMAIN c, NEW j \in DOMAIN c, Own(c[i]), Own(c[j]),
                      c[i].body = c[j].body
               PROVE  i = j
    BY DEF OwnOnce
  <2>1. CASE i \in DOMAIN a /\ c[i] = a[i] /\ j \in DOMAIN a /\ c[j] = a[j]
    BY <1>2, <1>7, <2>1 DEF Tidy, OwnOnce
  <2>2. CASE i > p /\ i - p \in DOMAIN b /\ c[i] = b[i - p] /\ j > p /\ j - p \in DOMAIN b
             /\ c[j] = b[j - p]
    <3>1. i - p = j - p
      BY <1>7, <2>2 DEF Tidy, OwnOnce
    <3> QED BY <1>3, <3>1
  <2>3. CASE i \in DOMAIN a /\ c[i] = a[i] /\ j > p /\ j - p \in DOMAIN b /\ c[j] = b[j - p]
    BY <1>6, <1>7, <2>3
  <2>4. CASE j \in DOMAIN a /\ c[j] = a[j] /\ i > p /\ i - p \in DOMAIN b /\ c[i] = b[i - p]
    BY <1>6, <1>7, <2>4
  <2> QED BY <1>4, <2>1, <2>2, <2>3, <2>4
<1>8. Unrenamed => MyRows(c)
  BY <1>2, <1>4 DEF MyRows, Tidy, Unpacked
<1>9. Covers(c, b)
  BY <1>4 DEF Covers
<1>10. Eids(c) = Eids(b) \union eids
  <2>1. ASSUME NEW e PROVE e \in Eids(c) <=> e \in Eids(b) \/ e \in Eids(a)
    <3>1. e \in Eids(c) => e \in Eids(b) \/ e \in Eids(a)
      BY <1>4 DEF Eids
    <3>2. e \in Eids(b) => e \in Eids(c)
      BY <1>4 DEF Eids
    <3>3. e \in Eids(a) => e \in Eids(c)
      BY <1>4 DEF Eids
    <3> QED BY <3>1, <3>2, <3>3
  <2> QED BY <1>2, <2>1
<1>11. ASSUME NEW l, NonePending(l, b) PROVE NonePending(l, c)
  BY <1>2, <1>4, <1>11 DEF NonePending
<1> QED BY <1>5, <1>7, <1>8, <1>9, <1>10, <1>11 DEF Tidy, a, c

\* What a batch and a page make of the store.
StoreKept(s, s0, live, back, settled) ==
  /\ TidyStore(s) /\ Covers(s.list, s0.list)
  /\ Eids(s.list) \subseteq Eids(s0.list) \union (live \union Messages(back))
  /\ Messages(back) \subseteq Eids(s.list)
  /\ SelfKnown => live \subseteq Eids(s.list)
  /\ EchoKnown => EchoesIn(settled \union live, s.list, s.opt)

\* The whole loop.
LEMMA ReplaceAllKeeps ==
  ASSUME Distinct, LogInv, NEW rows, GoodRows(rows), Tidy(rows),
         NEW opts, GoodOpts(opts), Unrenamed => MyOpts(opts),
         NEW eids \in SUBSET DOMAIN log, NEW settled, EchoKnown => EchoesIn(settled, rows, opts),
         NEW s, s = ReplaceAll([list |-> rows, opt |-> opts, seen |-> Eids(rows)], PageRows(eids))
  PROVE  PageRun(s, rows, settled, Messages(eids))
<1> DEFINE M == Messages(eids)
           N == Cardinality(M)
           A == Ascending(M)
           R == PageRows(eids)
           Done(n) == {R[i].eid : i \in 1..n}
           first == [list |-> rows, opt |-> opts, seen |-> Eids(rows)]
           G == [n \in 0..N |-> {x \in PageState : PageRun(x, rows, settled, Done(n))}]
<1>1. N \in Nat /\ Len(R) = N /\ DOMAIN R = 1..N /\ \A n \in 1..N : Unpacked(R[n])
  BY PageRowsAre
<1>2. Eids(R) = M
  BY PageRowsOnce
<1> HIDE DEF M, N, R
<1>3. first \in G[0]
  <2>1. rows \in Seq(Row) /\ opts \in Seq(Opt) /\ Eids(rows) \in SUBSET Nat
    <3>1. rows \in Seq(Row) /\ opts \in Seq(Opt)
      BY DEF GoodRows, GoodOpts
    <3> QED BY <3>1, RowsTyped DEF Eids
  <2>2. first \in PageState /\ first.list = rows /\ first.opt = opts /\ first.seen = Eids(rows)
    BY <2>1 DEF PageState
  <2> HIDE DEF first
  <2>3. OthersSeen(rows, Eids(rows))
    BY OtherHasEid DEF OthersSeen, Eids, GoodRows
  <2>4. GoodPage(first)
    BY <2>2, <2>3 DEF GoodPage
  <2>5. Done(0) = {}
    OBVIOUS
  <2>6. PageRun(first, rows, settled, {})
    BY <2>2, <2>4, CoversSelf DEF PageRun, NoneLeft
  <2>7. 0 \in 0..N
    BY <1>1
  <2> HIDE DEF Done
  <2> QED BY <2>2, <2>5, <2>6, <2>7
<1>4. ASSUME NEW n \in 1..N, NEW x \in G[n-1] PROVE ReplacePending(x, R[n]) \in G[n]
  <2>1. n \in 0..N /\ n - 1 \in 0..N /\ n \in Nat
    BY <1>1
  <2>2. x \in PageState /\ PageRun(x, rows, settled, Done(n-1))
    BY <1>4, <2>1
  <2>3. Done(n) = Done(n-1) \union {R[n].eid}
    <3>1. \A i \in 1..n : i \in 1..(n-1) \/ i = n
      BY <2>1
    <3>2. \A i \in 1..(n-1) : i \in 1..n
      BY <2>1
    <3>3. n \in 1..n
      BY <2>1
    <3> QED BY <3>1, <3>2, <3>3
  <2> HIDE DEF Done
  <2>4. PICK y : y = ReplacePending(x, R[n])
    OBVIOUS
  <2>5. PageRun(y, rows, settled, Done(n))
    BY <1>1, <2>2, <2>3, <2>4, PageStep
  <2>6. y \in PageState
    BY <2>5 DEF PageRun, GoodPage
  <2>7. y \in G[n]
    BY <2>1, <2>5, <2>6
  <2> QED BY <2>4, <2>7
<1>5. s \in G[N]
  <2> HIDE DEF G
  <2>1. s = ReplaceAll(first, R)
    BY DEF R
  <2> HIDE DEF first
  <2>2. \A n \in 1..Len(R) : \A x \in G[n-1] : ReplacePending(x, R[n]) \in G[n]
    BY <1>1, <1>4
  <2>3. ReplaceAll(first, R) \in G[Len(R)]
    BY <1>1, <1>3, <2>2, ReplaceAllRuns
  <2> QED BY <1>1, <2>1, <2>3
<1>6. Done(N) = M
  BY <1>1, <1>2 DEF Eids, Unpacked
<1>7. N \in 0..N
  BY <1>1
<1> HIDE DEF Done
<1> QED BY <1>5, <1>6, <1>7 DEF M

\* prependMessages shows the page it is given, and leaves the rows tidy.
LEMMA PrependKeeps ==
  ASSUME Distinct, LogInv, NEW s0, GoodStore(s0), TidyStore(s0),
         NEW eids \in SUBSET DOMAIN log,
         NEW settled, EchoKnown => EchoesIn(settled, s0.list, s0.opt)
  PROVE  StoreKept(Prepend(s0, eids), s0, {}, eids, settled)
<1>1. PICK s : s = ReplaceAll([list |-> s0.list, opt |-> s0.opt, seen |-> Eids(s0.list)],
                              PageRows(eids))
  OBVIOUS
<1> DEFINE fresh == Messages(eids) \ s.seen
           merged == PageRows(fresh) \o s.list
           rows == Sorted(merged)
           items == Items(eids)
           f == FoldAll(rows, items, s0.stash)
<1>2. GoodPage(s) /\ PageRun(s, s0.list, settled, Messages(eids))
  BY <1>1, ReplaceAllGood, ReplaceAllKeeps DEF GoodStore, TidyStore
<1>3. /\ fresh \in SUBSET Messages(DOMAIN log) /\ fresh \in SUBSET DOMAIN log
      /\ Messages(fresh) = fresh
      /\ items \in SUBSET Items(DOMAIN log) /\ s0.stash \in SUBSET Items(DOMAIN log)
  BY ItemsAre DEF Messages, GoodStore
<1>4. s.list \in Seq(Row) /\ GoodRows(s.list)
  BY <1>2 DEF GoodPage, GoodRows
<1>5. GoodRows(merged)
  <2>1. /\ GoodRows(PageRows(fresh))
        /\ \A j \in DOMAIN PageRows(fresh) :
             PageRows(fresh)[j].label = 0 /\ PageRows(fresh)[j].eid \in Messages(fresh)
    BY <1>3, PageRowsGood
  <2>2. \A k \in DOMAIN s.list : ~Own(s.list[k]) => s.list[k].eid \in s.seen
    BY <1>2 DEF GoodPage, OthersSeen
  <2> QED BY <1>3, <1>4, <2>1, <2>2, RowsJoined
<1>6. /\ Tidy(merged) /\ Covers(merged, s.list) /\ Eids(merged) = Eids(s.list) \union fresh
      /\ \A l : NonePending(l, s.list) => NonePending(l, merged)
  <2>1. Tidy(s.list) /\ s.seen = Eids(s.list) /\ (Unrenamed => NoneLeft(Messages(eids), s.list))
    BY <1>2 DEF PageRun
  <2>2. fresh \intersect Eids(s.list) = {} /\ (Unrenamed => NoneLeft(fresh, s.list))
    BY <2>1 DEF NoneLeft
  <2> HIDE DEF fresh
  <2> QED BY <1>3, <1>4, <2>1, <2>2, JoinedKeeps
<1>7. Eids(merged) = Eids(s.list) \union Messages(eids)
  BY <1>2, <1>6 DEF PageRun
<1> HIDE DEF fresh, merged
<1>8. GoodRows(rows) /\ Kept(rows, merged) /\ Trailing(rows)
  BY <1>5, SortedGood, SortedKeeps
<1> HIDE DEF rows, items
<1>9. FoldSound(f, rows, items, s0.stash)
  BY <1>3, <1>8, FoldAllIs
<1>10. Prepend(s0, eids).list = f.list /\ Prepend(s0, eids).opt = s.opt
  BY <1>1 DEF Prepend, fresh, merged, rows, items
<1> HIDE DEF f
<1>11. Kept(f.list, rows) /\ Trailing(f.list)
  BY <1>8, <1>9, FoldKeeps
<1>12. Kept(f.list, merged)
  BY <1>8, <1>11, KeptOnwards
<1>13. TidyStore(Prepend(s0, eids))
  BY <1>2, <1>6, <1>10, <1>11, <1>12 DEF TidyStore, PageRun, Kept
<1>14. Covers(f.list, s0.list)
  BY <1>2, <1>6, <1>12, CoversOnwards DEF Kept, PageRun
<1>15. Eids(f.list) \subseteq Eids(s0.list) \union Messages(eids)
  BY <1>2, <1>7, <1>12 DEF Kept, PageRun
<1>16. Messages(eids) \subseteq Eids(f.list)
  <2>1. Eids(merged) \subseteq Eids(f.list)
    BY <1>12 DEF Kept, Covers, Eids
  <2> QED BY <1>7, <2>1
<1>17. EchoKnown => EchoesIn(settled, f.list, s.opt)
  BY <1>2, <1>6, <1>12 DEF PageRun, Kept, EchoesIn, Settled
<1>18. settled \union {} = settled /\ {} \union Messages(eids) = Messages(eids)
  OBVIOUS
<1> QED BY <1>10, <1>13, <1>14, <1>15, <1>16, <1>17, <1>18 DEF StoreKept

\* A flush: the live queue, then the page.
LEMMA FlushedKeeps ==
  ASSUME Distinct, LogInv, GoodStore(Store), TidyStore(Store),
         NEW live \in SUBSET Messages(DOMAIN log), NEW back \in SUBSET DOMAIN log,
         NEW settled, EchoKnown => EchoesIn(settled, list, optimistic)
  PROVE  StoreKept(Flushed(live, back), Store, live, back, settled)
<1>1. Store.list = list /\ Store.opt = optimistic
  BY DEF Store
<1>2. PICK s1 : s1 = IF live = {} THEN Store ELSE BatchAppend(Store, live)
  OBVIOUS
<1>3. GoodStore(s1)
  BY <1>2, BatchAppendFollows DEF Follows
<1>4. Messages({}) = {}
  BY DEF Messages
<1>5. StoreKept(s1, Store, live, {}, settled)
  <2>1. CASE live = {}
    <3>1. live \union Messages({}) = {} /\ settled \union live = settled
      BY <1>4, <2>1
    <3> QED BY <1>1, <1>2, <1>4, <2>1, <3>1, CoversSelf DEF StoreKept
  <2>2. CASE live # {}
    <3>1. BatchKept(s1, Store, live, settled)
      BY <1>1, <1>2, <2>2, BatchAppendKeeps DEF GoodStore
    <3>2. live \union Messages({}) = live
      BY <1>4
    <3> QED BY <1>4, <3>1, <3>2 DEF StoreKept, BatchKept
  <2> QED BY <2>1, <2>2
<1>6. PICK s2 : s2 = IF back = {} THEN s1 ELSE Prepend(s1, back)
  OBVIOUS
<1>7. Flushed(live, back) = s2
  BY <1>2, <1>6 DEF Flushed, Store
<1>8. StoreKept(s2, Store, live, back, settled)
  <2>1. CASE back = {}
    BY <1>5, <1>6, <2>1
  <2>2. CASE back # {}
    <3>1. TidyStore(s1) /\ (EchoKnown => EchoesIn(settled \union live, s1.list, s1.opt))
      BY <1>5 DEF StoreKept
    <3>2. StoreKept(s2, s1, {}, back, settled \union live)
      BY <1>3, <1>6, <2>2, <3>1, PrependKeeps
    <3>3. (settled \union live) \union {} = settled \union live
      OBVIOUS
    <3>4. Covers(s2.list, Store.list)
      BY <1>5, <3>2, CoversOnwards DEF StoreKept
    <3>5. Eids(s2.list) \subseteq Eids(Store.list) \union (live \union Messages(back))
      BY <1>4, <1>5, <3>2 DEF StoreKept
    <3>6. SelfKnown => live \subseteq Eids(s2.list)
      <4>1. Eids(s1.list) \subseteq Eids(s2.list)
        BY <3>2 DEF StoreKept, Covers, Eids
      <4> QED BY <1>5, <4>1 DEF StoreKept
    <3> QED BY <3>2, <3>3, <3>4, <3>5, <3>6 DEF StoreKept
  <2> QED BY <2>1, <2>2
<1> QED BY <1>7, <1>8

-----------------------------------------------------------------------------
(* Every step keeps the user's lines in sight, and the rows in order *)

\* A line is on the screen, as its pending row or as its echo.
Shown(l, rows) == \E k \in DOMAIN rows : Own(rows[k]) /\ rows[k].body = l

\* The inductive invariant of what is on the screen, when texts are all different.
TidyInv ==
  /\ Tidy(list) /\ (Unrenamed => MyOpts(optimistic)) /\ Trailing(list)
  /\ \A l \in 1..sends : Shown(l, list)
  /\ EchoKnown => EchoesIn(Messages(1..handled) \ queue, list, optimistic)

\* The rows that a flush, a page, the cache or an item makes of the rows.
LEMMA TidyStays ==
  ASSUME TidyInv, UNCHANGED <<setting, log, sends>>,
         NEW s, TidyStore(s), Covers(s.list, list), list' = s.list, optimistic' = s.opt,
         NEW settled, EchoKnown => EchoesIn(settled, s.list, s.opt),
         Messages(1..handled') \ queue' \subseteq settled
  PROVE  TidyInv'
<1>1. (Messages(1..handled) \ queue)' \subseteq settled
  BY DEF Messages
<1>2. \A l \in 1..sends : Shown(l, s.list)
  <2>1. \A l : Shown(l, list) => Shown(l, s.list)
    BY DEF Shown, Covers
  <2> QED BY <2>1 DEF TidyInv
<1>3. (\A l \in 1..sends : Shown(l, list))'
  BY <1>2 DEF Shown, Own
<1>4. Tidy(list)' /\ (Unrenamed => MyOpts(optimistic))' /\ Trailing(list)'
  BY DEF TidyStore, Tidy, Titled, OwnOnce, MyRows, MyOpts, Trailing, Own, Unrenamed
<1>5. (EchoKnown => EchoesIn(Messages(1..handled) \ queue, list, optimistic))'
  BY <1>1 DEF EchoKnown, EchoesIn, Settled, NonePending
<1> QED BY <1>3, <1>4, <1>5 DEF TidyInv

\* The rows stay as they are.
LEMMA TidyUntouched ==
  ASSUME TidyInv, UNCHANGED <<setting, log, sends, list, optimistic>>,
         Messages(1..handled') \ queue' \subseteq Messages(1..handled) \ queue
  PROVE  TidyInv'
<1>1. PICK s : s = Store
  OBVIOUS
<1>2. list = s.list /\ optimistic = s.opt
  BY <1>1 DEF Store
<1>3. TidyStore(s) /\ Covers(s.list, list)
  BY <1>2, CoversSelf DEF TidyInv, TidyStore
<1>4. EchoKnown => EchoesIn(Messages(1..handled) \ queue, s.list, s.opt)
  BY <1>2 DEF TidyInv
<1> QED BY <1>2, <1>3, <1>4, TidyStays

\* The batcher is flushed.
LEMMA TidyFlushed ==
  ASSUME Distinct, LogInv, RowsInv, TidyInv, UNCHANGED <<setting, log, sends>>,
         NEW live \in SUBSET Messages(DOMAIN log), NEW back \in SUBSET DOMAIN log,
         FlushAll(live, back), queue \subseteq live,
         Messages(1..handled') \subseteq Messages(1..handled) \union live
  PROVE  TidyInv'
<1> DEFINE X == Messages(1..handled) \ queue
<1>1. PICK s : s = Flushed(live, back)
  OBVIOUS
<1>2. list' = s.list /\ optimistic' = s.opt /\ queue' = {}
  BY <1>1 DEF FlushAll
<1>3. GoodStore(Store) /\ TidyStore(Store) /\ (EchoKnown => EchoesIn(X, list, optimistic))
      /\ Store.list = list
  BY DEF RowsInv, TidyInv, TidyStore, Store
<1>4. Messages(1..handled') \ queue' \subseteq X \union live
  BY <1>2
<1> HIDE DEF X
<1>5. StoreKept(s, Store, live, back, X)
  BY <1>1, <1>3, FlushedKeeps
<1> QED BY <1>2, <1>3, <1>4, <1>5, TidyStays DEF StoreKept

\* The log grows; the rows stay.
LEMMA TidyLogged ==
  ASSUME LogInv, TidyInv, NEW ev \in Event, log' = Append(log, ev),
         UNCHANGED <<setting, handled, sends, list, optimistic, queue>>
  PROVE  TidyInv'
<1>1. /\ DOMAIN log = 1..Len(log) /\ DOMAIN log' = 1..(Len(log) + 1) /\ Len(log) \in Nat
      /\ \A e \in 1..Len(log) : log'[e] = log[e]
  BY EventsTyped, LogGrows DEF LogInv, LogTypes
<1>2. handled \in Nat /\ handled <= Len(log)
  BY DEF LogInv, LogTypes
<1>3. \A e \in 1..handled : e \in DOMAIN log /\ log'[e] = log[e]
  BY <1>1, <1>2
<1>4. Unrenamed' => Unrenamed
  BY <1>1 DEF Unrenamed
<1>5. Tidy(list)' /\ (Unrenamed => MyOpts(optimistic))' /\ Trailing(list)'
  BY <1>4 DEF TidyInv, Tidy, Titled, OwnOnce, MyRows, MyOpts, Trailing, Own
<1>6. (\A l \in 1..sends : Shown(l, list))'
  BY DEF TidyInv, Shown, Own
<1>7. (EchoKnown => EchoesIn(Messages(1..handled) \ queue, list, optimistic))'
  <2>1. EchoKnown' = EchoKnown
    BY DEF EchoKnown
  <2>2. \A e \in (Messages(1..handled) \ queue)' :
          e \in Messages(1..handled) \ queue /\ log'[e] = log[e]
    BY <1>3 DEF Messages
  <2> SUFFICES ASSUME EchoKnown, NEW e \in (Messages(1..handled) \ queue)', log'[e].label # 0
               PROVE  Settled(log'[e].label, list, optimistic)
    BY <2>1 DEF EchoesIn, Settled, NonePending
  <2>3. e \in Messages(1..handled) \ queue /\ log'[e] = log[e]
    BY <2>2
  <2> QED BY <2>3 DEF TidyInv, EchoesIn
<1> QED BY <1>5, <1>6, <1>7 DEF TidyInv

\* No row has the text of the line that is written next.
LEMMA NextLineIsNew ==
  ASSUME Distinct, LogInv, NEW rows, GoodRows(rows), sends < MaxSends
  PROVE  \A k \in DOMAIN rows : Own(rows[k]) => rows[k].body # sends + 1
<1> SUFFICES ASSUME NEW k \in DOMAIN rows, Own(rows[k]), rows[k].body = sends + 1 PROVE FALSE
  OBVIOUS
<1>1. Genuine(rows[k]) /\ rows[k] \in Row /\ rows[k].label \in Nat
  BY RowsTyped DEF GoodRows, Row
<1>2. sends \in Nat /\ MaxSends \in Nat /\ \A n : Body(n) = n
  BY DistinctIs
<1>3. CASE rows[k].eid = 0
  <2>1. rows[k].body = rows[k].label /\ rows[k].label <= sends
    BY <1>1, <1>2, <1>3 DEF Genuine
  <2> QED BY <1>1, <1>2, <2>1
<1>4. CASE rows[k].eid # 0
  <2> DEFINE e == rows[k].eid
  <2>1. e \in DOMAIN log /\ log[e].kind = "msg" /\ log[e].nick # Other /\ log[e].body = sends + 1
    BY <1>1, <1>4 DEF Genuine, Own
  <2>2. log[e].label \in Nat
    BY <2>1, EventsTyped DEF Event
  <2> HIDE DEF e
  <2>3. log[e].label # 0 => log[e].body = log[e].label /\ log[e].label <= sends
    BY <2>1, OwnBodies
  <2>4. log[e].label = 0 => log[e].body = MaxSends + 1
    BY <2>1, OwnBodies
  <2> QED BY <1>2, <2>1, <2>2, <2>3, <2>4
<1> QED BY <1>3, <1>4

\* The user writes a line.
LEMMA TidySent ==
  ASSUME Distinct, LogInv, RowsInv, TidyInv, SendPlainLine
  PROVE  TidyInv'
<1>0. PICK l : l = sends + 1
  OBVIOUS
<1> DEFINE row == OptimisticRow(l)
           n == Len(list)
           m == Len(optimistic)
           opt == [label |-> l, nick |-> nick, body |-> Body(l)]
<1>1. /\ sends' = l /\ list' = Append(list, row) /\ optimistic' = Append(optimistic, opt)
      /\ UNCHANGED <<setting, log, handled, queue>> /\ l <= setting.sends
  BY <1>0, SettingSound DEF SendPlainLine, LogInv, LogTypes, batchVars
<1>2. l \in Nat /\ sends \in Nat /\ l = sends + 1 /\ l # 0 /\ Body(l) = l /\ sends < MaxSends
      /\ nick \in OwnNicks /\ Len(log) \in Nat
  BY <1>0, <1>1, DistinctIs, SettingSound, EventsTyped DEF LogInv, LogTypes
<1>3. /\ row.eid = 0 /\ row.t = 2 * Len(log) + 1 /\ row.label = l /\ row.nick = nick
      /\ row.body = l /\ Own(row) /\ opt.label = l /\ opt.nick = nick
  BY <1>2 DEF OptimisticRow, Own, OwnNicks, Other
<1>4. GoodRows(list) /\ GoodOpts(optimistic) /\ list \in Seq(Row) /\ optimistic \in Seq(Opt)
  BY DEF RowsInv, GoodStore, Store, GoodRows, GoodOpts
<1> HIDE DEF row, opt
<1>5. /\ n \in Nat /\ DOMAIN list = 1..n /\ DOMAIN list' = 1..(n + 1) /\ list'[n + 1] = row
      /\ \A k \in 1..n : list'[k] = list[k]
      /\ \A k \in DOMAIN list' : k \in 1..n \/ k = n + 1
  BY <1>1, <1>4
<1>6. /\ m \in Nat /\ DOMAIN optimistic = 1..m /\ DOMAIN optimistic' = 1..(m + 1)
      /\ optimistic'[m + 1] = opt
      /\ \A o \in 1..m : optimistic'[o] = optimistic[o]
      /\ \A o \in DOMAIN optimistic' : o \in 1..m \/ o = m + 1
  BY <1>1, <1>4
<1> HIDE DEF n, m
<1>7. /\ Titled(list) /\ (Unrenamed => OwnOnce(list) /\ MyRows(list) /\ MyOpts(optimistic))
      /\ Trailing(list) /\ \A d \in 1..sends : Shown(d, list)
      /\ EchoKnown => EchoesIn(Messages(1..handled) \ queue, list, optimistic)
  BY DEF TidyInv, Tidy
<1>8. Titled(list)'
  BY <1>3, <1>5, <1>7 DEF Titled
<1>9. ASSUME Unrenamed PROVE OwnOnce(list)'
  <2>1. \A k \in 1..n : Own(list[k]) => list[k].body # l
    BY <1>2, <1>4, <1>5, NextLineIsNew
  <2> SUFFICES ASSUME NEW i \in DOMAIN list', NEW j \in DOMAIN list', Own(list'[i]), Own(list'[j]),
                      list'[i].body = list'[j].body
               PROVE  i = j
    BY DEF OwnOnce, Own
  <2>2. CASE i \in 1..n /\ j \in 1..n
    BY <1>5, <1>7, <1>9, <2>2 DEF OwnOnce
  <2>3. CASE ~(i \in 1..n /\ j \in 1..n)
    BY <1>3, <1>5, <2>1, <2>3
  <2> QED BY <2>2, <2>3
<1>10. Unrenamed => nick = "me"
  BY DEF LogInv, NickKnown
<1>11. (Unrenamed => OwnOnce(list) /\ MyRows(list) /\ MyOpts(optimistic))'
  <2>1. Unrenamed' = Unrenamed
    BY <1>1 DEF Unrenamed
  <2>2. Unrenamed => MyRows(list)'
    BY <1>3, <1>5, <1>7, <1>10 DEF MyRows
  <2>3. Unrenamed => MyOpts(optimistic)'
    BY <1>3, <1>6, <1>7, <1>10 DEF MyOpts
  <2> QED BY <1>9, <2>1, <2>2, <2>3
<1>12. Trailing(list)'
  <2>1. \A k \in 1..n : list[k].t \in Nat /\ list[k].t <= 2 * Len(log) + 1
    <3> SUFFICES ASSUME NEW k \in 1..n
                 PROVE  list[k].t \in Nat /\ list[k].t <= 2 * Len(log) + 1
      OBVIOUS
    <3>1. list[k] \in Row /\ list[k].t \in Nat /\ Genuine(list[k])
      BY <1>4, <1>5, RowsTyped DEF GoodRows
    <3>2. CASE list[k].eid = 0
      BY <3>1, <3>2 DEF Genuine
    <3>3. CASE list[k].eid # 0
      <4>1. list[k].eid \in 1..Len(log) /\ list[k].t = 2 * list[k].eid
        BY <3>1, <3>3, EventsTyped DEF Genuine
      <4> QED BY <1>2, <3>1, <4>1
    <3> QED BY <3>1, <3>2, <3>3
  <2> SUFFICES ASSUME NEW j \in DOMAIN list', NEW k \in DOMAIN list', j < k, ~Own(list'[j])
               PROVE  list'[j].t <= list'[k].t
    BY DEF Trailing, Own
  <2>2. j \in 1..n
    BY <1>5
  <2>3. CASE k \in 1..n
    BY <1>5, <1>7, <2>2, <2>3 DEF Trailing
  <2>4. CASE k = n + 1
    BY <1>3, <1>5, <2>1, <2>2, <2>4
  <2> QED BY <1>5, <2>3, <2>4
<1>13. (\A d \in 1..sends : Shown(d, list))'
  <2> SUFFICES ASSUME NEW d \in 1..l PROVE Shown(d, list')
    BY <1>1 DEF Shown, Own
  <2>1. CASE d = l
    BY <1>3, <1>5, <2>1 DEF Shown
  <2>2. CASE d \in 1..sends
    BY <1>5, <1>7, <2>2 DEF Shown
  <2> QED BY <1>2, <2>1, <2>2
<1>14. (EchoKnown => EchoesIn(Messages(1..handled) \ queue, list, optimistic))'
  <2> SUFFICES ASSUME EchoKnown, NEW e \in Messages(1..handled) \ queue, log[e].label # 0
               PROVE  Settled(log[e].label, list', optimistic')
    BY <1>1 DEF EchoKnown, EchoesIn, Settled, NonePending, Messages
  <2>1. Settled(log[e].label, list, optimistic)
    BY <1>7 DEF EchoesIn
  <2>2. log[e].label # l
    <3>1. e \in DOMAIN log
      BY BatchSound DEF Messages
    <3>2. log[e].label \in Nat /\ log[e].label <= sends
      BY <3>1, EventsTyped DEF LogInv, EventsSound, Event
    <3> QED BY <1>2, <3>2
  <2> QED BY <1>3, <1>5, <1>6, <2>1, <2>2 DEF Settled, NonePending
<1> QED BY <1>8, <1>11, <1>12, <1>13, <1>14 DEF TidyInv, Tidy

\* An item is applied in place.
LEMMA AppliedKeeps ==
  ASSUME LogInv, GoodRows(list), NEW e \in Items(DOMAIN log), ApplyLive(e)
  PROVE  Kept(list', list) /\ (Trailing(list) => Trailing(list'))
<1> DEFINE at == RowOfEid(list, log[e].of)
<1>1. list \in Seq(Row) /\ log[e].of # 0
  BY ItemsTyped DEF GoodRows
<1>2. CASE at = 0
  <2>1. list' = list
    BY <1>2 DEF ApplyLive
  <2> QED BY <2>1, KeptSelf
<1>3. CASE at # 0
  <2>1. at \in DOMAIN list /\ list[at].eid = log[e].of /\ list[at] \in Row
    BY <1>1, <1>3, EidRowIs
  <2>2. list' = [list EXCEPT ![at] = Applied(list[at], e)]
    BY <1>3 DEF ApplyLive
  <2>3. Alike(Applied(list[at], e), list[at])
    BY <1>1, <2>1, AppliedIs
  <2> HIDE DEF at
  <2>4. DOMAIN list' = DOMAIN list /\ \A k \in DOMAIN list : Alike(list'[k], list[k])
    BY <2>1, <2>2, <2>3, AlikeSelf
  <2> DEFINE p == [k \in DOMAIN list' |-> k]
  <2>5. p \in [DOMAIN list' -> DOMAIN list]
    BY <2>4
  <2>6. \A i \in DOMAIN list' : p[i] = i
    OBVIOUS
  <2> HIDE DEF p
  <2>7. PICK new : new = list'
    OBVIOUS
  <2>8. Kept(new, list)
    BY <2>4, <2>5, <2>6, <2>7, PickedKeeps
  <2>9. Trailing(list) => Trailing(new)
    BY <2>4, <2>7 DEF Trailing, Alike, Own
  <2> QED BY <2>7, <2>8, <2>9
<1> QED BY <1>2, <1>3

\* processIrcEvent takes the next event.
LEMMA TidyHandled ==
  ASSUME Distinct, LogInv, RowsInv, TidyInv, ProcessIrcEvent
  PROVE  TidyInv'
<1>1. PICK e : e = handled + 1
  OBVIOUS
<1>2. /\ e <= Len(log) /\ handled' = e /\ UNCHANGED <<setting, log, wire, sends>>
      /\ \/ log[e].kind = "msg" /\ EnqueueMessage(e)
         \/ log[e].kind \in Kinds /\ ApplyLive(e) /\ UNCHANGED <<optimistic, queue>>
         \/ log[e].kind = "nick" /\ UNCHANGED <<list, optimistic, queue>>
  BY <1>1, BatchSound DEF ProcessIrcEvent, serverVars, rowVars, batchVars
<1>3. e \in DOMAIN log /\ handled \in Nat /\ \A d \in 1..e : d \in 1..handled \/ d = e
  BY <1>1, <1>2, BatchSound
<1>4. Messages(1..e) \subseteq Messages(1..handled) \union {e}
  BY <1>3 DEF Messages
<1>5. log[e].kind # "msg" => Messages(1..e) \subseteq Messages(1..handled)
  BY <1>3 DEF Messages
<1>6. CASE log[e].kind = "msg" /\ EnqueueMessage(e)
  <2>1. queue \union {e} \in SUBSET Messages(DOMAIN log) /\ backfill \in SUBSET DOMAIN log
    BY <1>3, <1>6, BatchSound DEF Messages
  <2>2. CASE FlushAll(queue \union {e}, backfill)
    <3>1. Messages(1..handled') \subseteq Messages(1..handled) \union (queue \union {e})
      BY <1>2, <1>4
    <3> QED BY <1>2, <2>1, <2>2, <3>1, TidyFlushed
  <2>3. CASE queue' = queue \union {e} /\ UNCHANGED rowVars
    <3>1. Messages(1..handled') \ queue' \subseteq Messages(1..handled) \ queue
      BY <1>2, <1>4, <2>3
    <3> QED BY <1>2, <2>3, <3>1, TidyUntouched DEF rowVars
  <2> QED BY <1>6, <2>2, <2>3 DEF EnqueueMessage
<1>7. CASE log[e].kind \in Kinds /\ ApplyLive(e) /\ UNCHANGED <<optimistic, queue>>
  <2>1. PICK s : s = [list |-> list', opt |-> optimistic]
    OBVIOUS
  <2>2. s.list = list' /\ s.opt = optimistic
    BY <2>1
  <2>3. e \in Items(DOMAIN log) /\ GoodRows(list) /\ log[e].kind # "msg"
    BY <1>3, <1>7 DEF Items, Kinds, RowsInv, GoodStore, Store
  <2>4. Kept(s.list, list) /\ (Trailing(list) => Trailing(s.list))
    BY <1>7, <2>2, <2>3, AppliedKeeps
  <2>5. TidyStore(s) /\ Covers(s.list, list)
    BY <2>2, <2>4 DEF TidyStore, TidyInv, Kept
  <2>6. EchoKnown => EchoesIn(Messages(1..handled) \ queue, s.list, s.opt)
    BY <2>2, <2>4 DEF TidyInv, Kept, EchoesIn, Settled
  <2>7. Messages(1..handled') \ queue' \subseteq Messages(1..handled) \ queue
    BY <1>2, <1>5, <1>7, <2>3
  <2> QED BY <1>2, <1>7, <2>2, <2>5, <2>6, <2>7, TidyStays
<1>8. CASE log[e].kind = "nick" /\ UNCHANGED <<list, optimistic, queue>>
  <2>1. Messages(1..handled') \ queue' \subseteq Messages(1..handled) \ queue
    BY <1>2, <1>5, <1>8
  <2> QED BY <1>2, <1>8, <2>1, TidyUntouched
<1> QED BY <1>2, <1>6, <1>7, <1>8

\* The cached rows go up only in a buffer in which nothing has been written.
LEMMA SetMessagesKeeps ==
  ASSUME Distinct, LogInv, RowsInv, TidyInv, list = <<>>, NEW eids \in SUBSET DOMAIN log
  PROVE  /\ Tidy(SetMessages(eids).list) /\ Trailing(SetMessages(eids).list)
         /\ Eids(SetMessages(eids).list) = Messages(eids)
         /\ EchoesIn(Messages(1..handled) \ queue, SetMessages(eids).list, optimistic)
<1> DEFINE R == PageRows(eids)
           items == Items(eids)
           f == FoldAll(R, items, stash)
           X == Messages(1..handled) \ queue
<1>1. /\ Eids(R) = Messages(eids) /\ Trailing(R) /\ Tidy(R) /\ GoodRows(R)
      /\ \A l : NonePending(l, R)
  BY PageRowsOnce, PageRowsTidy, PageRowsGood
<1>2. items \in SUBSET Items(DOMAIN log) /\ stash \in SUBSET Items(DOMAIN log)
      /\ GoodOpts(optimistic)
  BY ItemsAre DEF RowsInv, GoodStore, Store
<1> HIDE DEF R, items
<1>3. FoldSound(f, R, items, stash)
  BY <1>1, <1>2, FoldAllIs
<1>4. SetMessages(eids) = f
  BY DEF SetMessages, R, items
<1> HIDE DEF f
<1>5. Kept(f.list, R) /\ Trailing(f.list)
  BY <1>1, <1>3, FoldKeeps
<1>6. Eids(f.list) = Messages(eids)
  BY <1>1, <1>5 DEF Kept, Covers, Eids
<1>7. sends = 0
  <2>1. sends \in Nat
    BY DistinctIs
  <2>2. sends # 0 => 1 \in 1..sends
    BY <2>1
  <2> QED BY <2>2 DEF TidyInv, Shown
<1>8. EchoesIn(X, f.list, optimistic)
  <2>1. \A o \in DOMAIN optimistic : FALSE
    BY <1>2, <1>7 DEF GoodOpts
  <2> HIDE DEF X
  <2> QED BY <1>1, <1>5, <2>1 DEF EchoesIn, Settled, Kept
<1> QED BY <1>1, <1>4, <1>5, <1>6, <1>8 DEF Kept

\* The buffer is opened, or a page of older rows arrives.
LEMMA TidyFetched ==
  ASSUME Distinct, LogInv, RowsInv, TidyInv, LoadBufferHistory \/ LoadMoreArrives
  PROVE  TidyInv'
<1>1. UNCHANGED <<setting, log, sends, handled, queue>>
  BY DEF LoadBufferHistory, LoadMoreArrives, serverVars, batchVars
<1>2. Messages(1..handled') \ queue' = Messages(1..handled) \ queue
  BY <1>1
<1>3. CASE UNCHANGED <<list, optimistic>>
  BY <1>1, <1>2, <1>3, TidyUntouched
<1>4. CASE LoadBufferHistory
  <2>1. UNCHANGED optimistic
    BY <1>4 DEF LoadBufferHistory
  <2>2. ASSUME list = <<>>, NEW c \in {0} \union (Base - CacheGap)..Base,
               list' = SetMessages(1..c).list
        PROVE  TidyInv'
    <3>1. 1..c \in SUBSET DOMAIN log
      BY BatchSound, SettingSound
    <3>2. PICK f : f = SetMessages(1..c)
      OBVIOUS
    <3>3. PICK s : s = [list |-> f.list, opt |-> optimistic]
      OBVIOUS
    <3>4. s.list = f.list /\ s.opt = optimistic
      BY <3>3
    <3>5. /\ Tidy(f.list) /\ Trailing(f.list)
          /\ EchoesIn(Messages(1..handled) \ queue, f.list, optimistic)
      BY <2>2, <3>1, <3>2, SetMessagesKeeps
    <3>6. TidyStore(s) /\ Covers(s.list, list)
      BY <2>2, <3>4, <3>5 DEF TidyStore, TidyInv, Covers
    <3> QED BY <1>1, <1>2, <2>1, <2>2, <3>2, <3>4, <3>5, <3>6, TidyStays
  <2> QED BY <1>3, <1>4, <2>1, <2>2 DEF LoadBufferHistory
<1>5. CASE LoadMoreArrives
  <2>1. CASE older.rows = {}
    BY <1>3, <1>5, <2>1 DEF LoadMoreArrives, rowVars
  <2>2. CASE older.rows # {}
    <3> DEFINE X == Messages(1..handled) \ queue
    <3>1. PICK s : s = Prepend(Store, older.rows)
      OBVIOUS
    <3>2. list' = s.list /\ optimistic' = s.opt
      BY <1>5, <2>2, <3>1 DEF LoadMoreArrives, Store
    <3>3. GoodStore(Store) /\ TidyStore(Store) /\ Store.list = list
          /\ (EchoKnown => EchoesIn(X, Store.list, Store.opt))
      BY DEF RowsInv, TidyInv, TidyStore, Store
    <3> HIDE DEF X
    <3>4. StoreKept(s, Store, {}, older.rows, X)
      BY <3>1, <3>3, BatchSound, PrependKeeps
    <3>5. X \union {} = X
      OBVIOUS
    <3>6. TidyStore(s) /\ Covers(s.list, list) /\ (EchoKnown => EchoesIn(X, s.list, s.opt))
      BY <3>3, <3>4, <3>5 DEF StoreKept
    <3> USE DEF X
    <3> QED BY <1>1, <1>2, <3>2, <3>6, TidyStays
  <2> QED BY <2>1, <2>2
<1> QED BY <1>4, <1>5

\* Every step keeps the rows tidy.
LEMMA TidyStep == Distinct /\ LogInv /\ RowsInv /\ TidyInv /\ [Next]_vars => TidyInv'
<1> SUFFICES ASSUME Distinct, LogInv, RowsInv, TidyInv, [Next]_vars PROVE TidyInv'
  OBVIOUS
<1>1. CASE SendPlainLine
  BY <1>1, TidySent
<1>2. CASE ServerEchoes \/ SomebodyWrites \/ SomebodyMarks \/ ServerRenames
  <2>1. PICK ev : NewEvent(ev) /\ log' = Append(log, ev)
    BY <1>2, LogGrown
  <2>2. UNCHANGED <<setting, handled, sends, list, optimistic, queue>>
    BY <1>2 DEF ServerEchoes, SomebodyWrites, SomebodyMarks, ServerRenames, rowVars, batchVars
  <2> QED BY <2>1, <2>2, TidyLogged DEF NewEvent
<1>3. CASE ProcessIrcEvent
  BY <1>3, TidyHandled
<1>4. CASE TimerFires
  <2>1. FlushAll(queue, backfill) /\ UNCHANGED <<setting, log, sends, handled>>
    BY <1>4 DEF TimerFires, serverVars
  <2>2. Messages(1..handled') \subseteq Messages(1..handled) \union queue
    BY <2>1
  <2> QED BY <2>1, <2>2, BatchSound, TidyFlushed
<1>5. CASE LoadBufferHistory \/ LoadMoreArrives
  BY <1>5, TidyFetched
<1>6. CASE HistoryServed \/ HistoryArrives \/ HistoryFails \/ HandleLoadMore \/ UNCHANGED vars
  <2>1. UNCHANGED <<setting, log, sends, handled, list, optimistic, queue>>
    BY <1>6 DEF HistoryServed, HistoryArrives, HistoryFails, HandleLoadMore, vars,
       serverVars, rowVars, batchVars
  <2>2. Messages(1..handled') \ queue' \subseteq Messages(1..handled) \ queue
    BY <2>1
  <2> QED BY <2>1, <2>2, TidyUntouched
<1> QED BY <1>1, <1>2, <1>3, <1>4, <1>5, <1>6 DEF Next

\* They are tidy at the start.
LEMMA TidyInit == Init => TidyInv
<1> SUFFICES ASSUME Init PROVE TidyInv
  OBVIOUS
<1>1. /\ list = <<>> /\ optimistic = <<>> /\ sends = 0 /\ handled = Base
      /\ log = [e \in 1..Base |-> Message(Other, 0, 0)]
  BY DEF Init
<1>2. Tidy(list) /\ MyOpts(optimistic) /\ Trailing(list)
  BY <1>1 DEF Tidy, Titled, OwnOnce, MyRows, MyOpts, Trailing
<1>3. EchoesIn(Messages(1..handled) \ queue, list, optimistic)
  BY <1>1 DEF EchoesIn, Settled, NonePending
<1> QED BY <1>1, <1>2, <1>3 DEF TidyInv

\* If the user does not write one text twice within thirty seconds, the rows are
\* tidy at all times: the user's messages have one row each while the nick stays,
\* other people's rows trail in order, every line is shown, every echo settled.
THEOREM TidyInvariant ==
  ASSUME Distinct PROVE Spec => [](LogInv /\ RowsInv /\ TidyInv)
<1>1. Init => LogInv /\ RowsInv /\ TidyInv
  BY LogInit, RowsInit, TidyInit
<1>2. LogInv /\ RowsInv /\ TidyInv /\ [Next]_vars => (LogInv /\ RowsInv /\ TidyInv)'
  BY LogStep, RowsStep, TidyStep
<1> QED BY <1>1, <1>2, PTL DEF Spec

\* Then every line the user has written is on the screen at all times, as the
\* optimistic row of sendPlainLine or as the echo that took its place, through
\* batches, pages, sorts and changes of nick.
THEOREM SentShown ==
  ASSUME Distinct PROVE Spec => []SentStaysVisible
<1>1. LogInv /\ RowsInv /\ TidyInv => SentStaysVisible
  <2> SUFFICES ASSUME LogInv, RowsInv, TidyInv, NEW l \in 1..sends
               PROVE  \E k \in DOMAIN list :
                        \/ list[k].label = l
                        \/ list[k].eid # 0 /\ log[list[k].eid].label = l
    BY DEF SentStaysVisible
  <2>1. PICK k \in DOMAIN list : Own(list[k]) /\ list[k].body = l
    BY DEF TidyInv, Shown
  <2>2. Genuine(list[k])
    BY DEF RowsInv, GoodStore, GoodRows, Store
  <2>3. sends \in Nat /\ MaxSends \in Nat /\ sends <= MaxSends /\ \A n : Body(n) = n
    BY DistinctIs
  <2>4. CASE list[k].eid = 0
    BY <2>1, <2>2, <2>3, <2>4 DEF Genuine
  <2>5. CASE list[k].eid # 0
    <3> DEFINE e == list[k].eid
    <3>1. e \in DOMAIN log /\ log[e].kind = "msg" /\ log[e].nick # Other /\ log[e].body = l
      BY <2>1, <2>2, <2>5 DEF Genuine, Own
    <3> HIDE DEF e
    <3>2. log[e].label = 0 => log[e].body = MaxSends + 1
      BY <3>1, OwnBodies
    <3>3. log[e].label # 0 => log[e].body = log[e].label
      BY <3>1, OwnBodies
    <3>4. log[e].label = l
      BY <2>3, <3>1, <3>2, <3>3
    <3> QED BY <2>5, <3>4 DEF e
  <2> QED BY <2>4, <2>5
<1> QED BY <1>1, TidyInvariant, PTL

\* Then other people's messages stand in the order of the log, although batches,
\* pages and sorts of batchAppendMessages and prependMessages insert them.
THEOREM OthersStandInOrder ==
  ASSUME Distinct PROVE Spec => []OthersInOrder
<1>1. LogInv /\ RowsInv /\ TidyInv => OthersInOrder
  <2> SUFFICES ASSUME LogInv, RowsInv, TidyInv, NEW j \in DOMAIN list, NEW k \in DOMAIN list,
                      j < k, list[j].nick = Other, list[k].nick = Other
               PROVE  list[j].eid < list[k].eid
    BY DEF OthersInOrder
  <2>1. GoodRows(list)
    BY DEF RowsInv, GoodStore, Store
  <2>2. /\ list[j].eid \in Nat /\ list[k].eid \in Nat /\ j \in Nat /\ k \in Nat
        /\ ~Own(list[j]) /\ ~Own(list[k]) /\ Genuine(list[j]) /\ Genuine(list[k])
    BY <2>1, RowsTyped DEF GoodRows, Own
  <2>3. list[j].t = 2 * list[j].eid /\ list[k].t = 2 * list[k].eid
    BY <2>2, OtherHasEid DEF Genuine
  <2>4. list[j].t <= list[k].t
    BY <2>2 DEF TidyInv, Trailing
  <2>5. list[j].eid # list[k].eid
    BY <2>1, <2>2 DEF GoodRows, OthersOnce
  <2> QED BY <2>2, <2>3, <2>4, <2>5
<1> QED BY <1>1, TidyInvariant, PTL

\* Then no message has two rows, however its live echo, a page of history and its
\* optimistic row cross, as long as the user's nick has not changed.
THEOREM NoRowTwice ==
  ASSUME Distinct PROVE Spec => []NoDuplicateRow
<1>1. LogInv /\ RowsInv /\ TidyInv => NoDuplicateRow
  <2> SUFFICES ASSUME LogInv, RowsInv, TidyInv, ServerNick = "me",
                      NEW j \in DOMAIN list, NEW k \in DOMAIN list,
                      list[j].eid = list[k].eid, list[j].eid # 0
               PROVE  j = k
    BY DEF NoDuplicateRow
  <2>1. GoodRows(list)
    BY DEF RowsInv, GoodStore, Store
  <2>2. Genuine(list[j]) /\ Genuine(list[k])
    BY <2>1 DEF GoodRows
  <2>3. list[j].nick = list[k].nick /\ list[j].body = list[k].body
    BY <2>2 DEF Genuine
  <2>4. CASE ~Own(list[j])
    BY <2>1, <2>4 DEF GoodRows, OthersOnce
  <2>5. CASE Own(list[j])
    <3>1. Unrenamed
      BY ServerNickIs
    <3> QED BY <2>3, <2>5, <3>1 DEF TidyInv, Tidy, OwnOnce, Own
  <2> QED BY <2>4, <2>5
<1> QED BY <1>1, TidyInvariant, PTL

\* If moreover the server labels echoes wherever nicks can change, an echo that has
\* been processed and flushed leaves neither a pending row nor an entry of the
\* optimistic map behind.
THEOREM EchoesSettle ==
  ASSUME Distinct, \A s \in Settings : s.labels \/ ~s.renames PROVE Spec => []EchoSettles
<1>1. LogInv /\ RowsInv /\ TidyInv => EchoSettles
  <2> SUFFICES ASSUME LogInv, RowsInv, TidyInv,
                      NEW e \in Messages(1..handled) \ queue, log[e].label # 0
               PROVE  /\ \A k \in DOMAIN list : list[k].label = log[e].label => list[k].eid # 0
                      /\ \A o \in DOMAIN optimistic : optimistic[o].label # log[e].label
    BY DEF EchoSettles
  <2>1. EchoKnown
    BY DEF LogInv, LogTypes, EchoKnown
  <2> QED BY <2>1 DEF TidyInv, EchoesIn, Settled, NonePending
<1> QED BY <1>1, TidyInvariant, PTL

-----------------------------------------------------------------------------
(* A window without holes *)

\* No setting leaves the user's own messages unrecognisable.
SelfKnownAlways == \A s \in Settings : s.labels \/ s.tag \/ ~s.renames

\* f is missing because the newest page is on its way, has failed, or came when the
\* cache was too old for it to reach f.
Excused(f) ==
  history.state \in {"asked", "failed"} \/ f \in history.rows \union backfill \union gap

\* Of the stored events, those that follow one of the set are in it.
UpClosed(eids) == \A e \in eids, f \in 1..Base : e < f => f \in eids

\* The inductive invariant of the window: a stored event that follows a row is
\* there or excused; one that follows a row of an older page on its way is in the
\* page or after a row; what came live is on the screen or queued.
HoleInv ==
  /\ \A e \in queue : e > Base
  /\ Messages((Base + 1)..handled) \ queue \subseteq Eids(list)
  /\ UpClosed(history.rows) /\ UpClosed(backfill)
  /\ history.state # "served" => history.rows = {}
  /\ \A e \in Eids(list), f \in 1..Base : e < f => f \in Eids(list) \/ Excused(f)
  /\ \A e \in older.rows, f \in 1..Base :
       e < f => f \in Eids(list) \union older.rows \/ \E d \in Eids(list) : d < f

\* The bounds, and the stored events.
LEMMA BaseIs ==
  ASSUME LogInv
  PROVE  /\ Base \in Nat /\ PageSize \in Nat /\ PageSize # 0 /\ MaxLog \in Nat /\ CacheGap \in Nat
         /\ Len(log) \in Nat /\ DOMAIN log = 1..Len(log) /\ Base <= Len(log)
         /\ handled \in Nat /\ Base <= handled /\ handled <= Len(log)
         /\ \A f \in 1..Base : f \in DOMAIN log /\ f \in Nat /\ log[f].kind = "msg"
<1>1. Base \in Nat /\ PageSize \in Nat /\ PageSize # 0 /\ MaxLog \in Nat /\ CacheGap \in Nat
  BY ConstantsAssumption
<1>2. /\ Len(log) \in Nat /\ DOMAIN log = 1..Len(log)
      /\ handled \in Nat /\ Base <= handled /\ handled <= Len(log)
  BY EventsTyped DEF LogInv, LogTypes
<1>3. Base <= Len(log) /\ \A f \in 1..Base : f \in DOMAIN log /\ f <= Base /\ f \in Nat
  BY <1>1, <1>2
<1> QED BY <1>1, <1>2, <1>3 DEF LogInv, EventsSound

\* A page that ends above the stored events has all of them from its first one on.
LEMMA PageUpClosed ==
  ASSUME LogInv, NEW cursor \in Nat, Base < cursor
  PROVE  UpClosed(Page(cursor))
<1> SUFFICES ASSUME NEW e \in Page(cursor), NEW f \in 1..Base, e < f PROVE f \in Page(cursor)
  BY DEF UpClosed
<1>1. e \in Nat /\ e + PageSize >= cursor /\ f \in DOMAIN log /\ f \in Nat /\ f <= Base
      /\ Base \in Nat /\ PageSize \in Nat
  BY BaseIs DEF Page
<1>2. f < cursor /\ f + PageSize >= cursor
  BY <1>1
<1> QED BY <1>1, <1>2 DEF Page

\* Rows come and nothing else changes of the requests.
LEMMA HolesStay ==
  ASSUME LogInv, HoleInv, UNCHANGED <<log, history, older, gap>>,
         Eids(list) \subseteq Eids(list'),
         NEW live \in SUBSET Nat, NEW back, UpClosed(back), \A e \in live : e > Base,
         Eids(list') \subseteq Eids(list) \union (live \union back),
         \A f \in back : f \in 1..Base => f \in Eids(list'),
         backfill' = backfill \/ (backfill' = {} /\ backfill \subseteq back),
         queue' = {} \/ queue' = queue \/ queue' = queue \union {handled + 1},
         Messages((Base + 1)..handled') \ queue' \subseteq Eids(list')
  PROVE  HoleInv'
<1>1. Base \in Nat /\ handled \in Nat /\ Base <= handled
      /\ \A f \in 1..Base : f \in Nat /\ f <= Base
  BY BaseIs
<1>2. \A e \in queue' : e > Base
  BY <1>1 DEF HoleInv
<1>3. ASSUME NEW f \in 1..Base, Excused(f) PROVE f \in Eids(list') \/ Excused(f)'
  BY <1>3 DEF Excused
<1>4. ASSUME NEW e \in Eids(list'), NEW f \in 1..Base, e < f
      PROVE  f \in Eids(list') \/ Excused(f)'
  <2>1. CASE e \in Eids(list)
    <3>1. f \in Eids(list) \/ Excused(f)
      BY <1>4, <2>1 DEF HoleInv
    <3> QED BY <1>3, <3>1
  <2>2. CASE e \in live
    <3>1. e \in Nat /\ e > Base
      BY <2>2
    <3> QED BY <1>1, <1>4, <3>1
  <2>3. CASE e \in back
    <3>1. f \in back
      BY <1>4, <2>3 DEF UpClosed
    <3> QED BY <3>1
  <2> QED BY <2>1, <2>2, <2>3
<1>5. ASSUME NEW e \in older.rows, NEW f \in 1..Base, e < f
      PROVE  f \in Eids(list') \union older.rows \/ \E d \in Eids(list') : d < f
  <2>1. f \in Eids(list) \union older.rows \/ \E d \in Eids(list) : d < f
    BY <1>5 DEF HoleInv
  <2> QED BY <2>1
<1>6. UpClosed(backfill)'
  BY DEF HoleInv, UpClosed
<1>7. /\ (\A e \in Eids(list), f \in 1..Base : e < f => f \in Eids(list) \/ Excused(f))'
      /\ (\A e \in older.rows, f \in 1..Base :
            e < f => f \in Eids(list) \union older.rows \/ \E d \in Eids(list) : d < f)'
  BY <1>4, <1>5 DEF Eids
<1>8. (Messages((Base + 1)..handled) \ queue \subseteq Eids(list))'
  BY DEF Messages, Eids
<1>9. UpClosed(history.rows)' /\ (history.state # "served" => history.rows = {})'
  BY DEF HoleInv, UpClosed
<1> QED BY <1>2, <1>6, <1>7, <1>8, <1>9 DEF HoleInv

\* Rows that cover others have their eids.
LEMMA EidsCovered ==
  ASSUME NEW new, NEW old, Covers(new, old)
  PROVE  Eids(old) \subseteq Eids(new)
BY DEF Covers, Eids

\* The batcher is flushed.
LEMMA HolesFlushed ==
  ASSUME Distinct, LogInv, RowsInv, TidyInv, HoleInv, SelfKnown,
         UNCHANGED <<setting, log, history, older, gap>>,
         NEW live \in SUBSET Messages(DOMAIN log), \A e \in live : e > Base,
         FlushAll(live, backfill), queue \subseteq live,
         Messages((Base + 1)..handled') \subseteq Messages((Base + 1)..handled) \union live
  PROVE  HoleInv'
<1> DEFINE X == Messages(1..handled) \ queue
<1>1. PICK s : s = Flushed(live, backfill)
  OBVIOUS
<1>2. list' = s.list /\ queue' = {} /\ backfill' = {}
  BY <1>1 DEF FlushAll
<1>3. GoodStore(Store) /\ TidyStore(Store) /\ (EchoKnown => EchoesIn(X, list, optimistic))
      /\ Store.list = list
  BY DEF RowsInv, TidyInv, TidyStore, Store
<1> HIDE DEF X
<1>4. StoreKept(s, Store, live, backfill, X)
  BY <1>1, <1>3, BatchSound, FlushedKeeps
<1>5. Eids(list) \subseteq Eids(s.list)
  BY <1>3, <1>4, EidsCovered DEF StoreKept
<1>6. live \in SUBSET Nat
  BY BaseIs DEF Messages
<1>7. Eids(s.list) \subseteq Eids(list) \union (live \union backfill)
  BY <1>3, <1>4 DEF StoreKept, Messages
<1>8. \A f \in backfill : f \in 1..Base => f \in Eids(s.list)
  <2> SUFFICES ASSUME NEW f \in backfill, f \in 1..Base PROVE f \in Eids(s.list)
    OBVIOUS
  <2>1. f \in Messages(backfill)
    BY BaseIs DEF Messages
  <2> QED BY <1>4, <2>1 DEF StoreKept
<1>9. Messages((Base + 1)..handled') \ queue' \subseteq Eids(s.list)
  <2>1. live \subseteq Eids(s.list)
    BY <1>4 DEF StoreKept
  <2>2. Messages((Base + 1)..handled) \ queue \subseteq Eids(list)
    BY DEF HoleInv
  <2> QED BY <1>2, <1>5, <2>1, <2>2
<1>10. UpClosed(backfill)
  BY DEF HoleInv
<1>11. /\ Eids(list) \subseteq Eids(list') /\ Eids(list') \subseteq Eids(list) \union (live \union backfill)
       /\ \A f \in backfill : f \in 1..Base => f \in Eids(list')
       /\ Messages((Base + 1)..handled') \ queue' \subseteq Eids(list')
  BY <1>2, <1>5, <1>7, <1>8, <1>9
<1> QED BY <1>2, <1>6, <1>10, <1>11, HolesStay

\* The rows stay, or an item is applied to them.
LEMMA HolesUntouched ==
  ASSUME LogInv, HoleInv, UNCHANGED <<log, history, older, gap, backfill>>,
         Eids(list') = Eids(list),
         queue' = queue \/ queue' = queue \union {handled + 1},
         Messages((Base + 1)..handled') \ queue' \subseteq Messages((Base + 1)..handled) \ queue
  PROVE  HoleInv'
<1>1. Messages((Base + 1)..handled) \ queue \subseteq Eids(list)
  BY DEF HoleInv
<1>2. Messages((Base + 1)..handled') \ queue' \subseteq Eids(list')
  BY <1>1
<1>3. UpClosed({}) /\ {} \in SUBSET Nat /\ \A e \in {} : e > Base
  BY DEF UpClosed
<1>4. /\ Eids(list) \subseteq Eids(list') /\ Eids(list') \subseteq Eids(list) \union ({} \union {})
      /\ \A f \in {} : f \in 1..Base => f \in Eids(list')
  OBVIOUS
<1> QED BY <1>2, <1>3, <1>4, HolesStay

\* processIrcEvent takes the next event.
LEMMA HolesHandled ==
  ASSUME Distinct, LogInv, RowsInv, TidyInv, HoleInv, SelfKnown, ProcessIrcEvent
  PROVE  HoleInv'
<1>1. PICK e : e = handled + 1
  OBVIOUS
<1>2. /\ e <= Len(log) /\ handled' = e /\ UNCHANGED <<setting, log, history, older, gap>>
      /\ \/ log[e].kind = "msg" /\ EnqueueMessage(e)
         \/ log[e].kind \in Kinds /\ ApplyLive(e) /\ UNCHANGED <<queue, backfill>>
         \/ log[e].kind = "nick" /\ UNCHANGED <<list, queue, backfill>>
  BY <1>1, BatchSound DEF ProcessIrcEvent, serverVars, rowVars, batchVars, fetchVars
<1>3. /\ e \in DOMAIN log /\ handled \in Nat /\ Base \in Nat /\ e > Base
      /\ \A d \in (Base + 1)..e : d \in (Base + 1)..handled \/ d = e
  BY <1>1, <1>2, BaseIs
<1>4. Messages((Base + 1)..e) \subseteq Messages((Base + 1)..handled) \union {e}
  BY <1>3 DEF Messages
<1>5. log[e].kind # "msg" => Messages((Base + 1)..e) \subseteq Messages((Base + 1)..handled)
  BY <1>3 DEF Messages
<1>6. CASE log[e].kind = "msg" /\ EnqueueMessage(e)
  <2>1. queue \union {e} \in SUBSET Messages(DOMAIN log) /\ \A d \in queue \union {e} : d > Base
    BY <1>3, <1>6, BatchSound DEF Messages, HoleInv
  <2>2. CASE FlushAll(queue \union {e}, backfill)
    <3>1. Messages((Base + 1)..handled') \subseteq Messages((Base + 1)..handled) \union (queue \union {e})
      BY <1>2, <1>4
    <3> QED BY <1>2, <2>1, <2>2, <3>1, HolesFlushed
  <2>3. CASE queue' = queue \union {e} /\ UNCHANGED <<backfill, list>>
    <3>1. Messages((Base + 1)..handled') \ queue' \subseteq Messages((Base + 1)..handled) \ queue
      BY <1>2, <1>4, <2>3
    <3> QED BY <1>1, <1>2, <2>3, <3>1, HolesUntouched
  <2> QED BY <1>6, <2>2, <2>3 DEF EnqueueMessage, rowVars
<1>7. CASE log[e].kind \in Kinds /\ ApplyLive(e) /\ UNCHANGED <<queue, backfill>>
  <2>1. e \in Items(DOMAIN log) /\ GoodRows(list) /\ log[e].kind # "msg"
    BY <1>3, <1>7 DEF Items, Kinds, RowsInv, GoodStore, Store
  <2>2. PICK new : new = list'
    OBVIOUS
  <2>3. Kept(new, list)
    BY <1>7, <2>1, <2>2, AppliedKeeps
  <2>4. Eids(new) = Eids(list)
    BY <2>3, EidsCovered DEF Kept
  <2>5. Messages((Base + 1)..handled') \ queue' \subseteq Messages((Base + 1)..handled) \ queue
    BY <1>2, <1>5, <1>7, <2>1
  <2> QED BY <1>2, <1>7, <2>2, <2>4, <2>5, HolesUntouched
<1>8. CASE log[e].kind = "nick" /\ UNCHANGED <<list, queue, backfill>>
  <2>1. Messages((Base + 1)..handled') \ queue' \subseteq Messages((Base + 1)..handled) \ queue
    BY <1>2, <1>5, <1>8
  <2>2. Eids(list') = Eids(list)
    BY <1>8
  <2> QED BY <1>2, <1>8, <2>1, <2>2, HolesUntouched
<1> QED BY <1>2, <1>6, <1>7, <1>8

\* The log grows.
LEMMA HolesLogged ==
  ASSUME LogInv, HoleInv, NEW ev \in Event, log' = Append(log, ev),
         UNCHANGED <<handled, list, queue, backfill, history, older, gap>>
  PROVE  HoleInv'
<1>1. /\ DOMAIN log = 1..Len(log) /\ Len(log') = Len(log) + 1 /\ Len(log) \in Nat
      /\ \A e \in 1..Len(log) : log'[e] = log[e]
  BY EventsTyped, LogGrows DEF LogInv, LogTypes
<1>2. \A e \in (Base + 1)..handled : log'[e] = log[e]
  BY <1>1, BaseIs
<1>3. (Messages((Base + 1)..handled) \ queue)' = Messages((Base + 1)..handled) \ queue
  BY <1>2 DEF Messages
<1>4. Eids(list)' = Eids(list) /\ \A f : Excused(f)' = Excused(f)
  BY DEF Eids, Excused
<1>5. UpClosed(history.rows)' /\ UpClosed(backfill)'
  BY DEF HoleInv, UpClosed
<1> QED BY <1>3, <1>4, <1>5 DEF HoleInv

\* The request for the newest page, and its answer.
LEMMA HolesServed ==
  ASSUME LogInv, HoleInv, HistoryServed \/ HistoryArrives \/ HistoryFails
  PROVE  HoleInv'
<1>1. UNCHANGED <<log, handled, list, queue, older>>
  BY DEF HistoryServed, HistoryArrives, HistoryFails, serverVars, rowVars, batchVars
<1>2. (Messages((Base + 1)..handled) \ queue)' = Messages((Base + 1)..handled) \ queue
      /\ Eids(list)' = Eids(list)
  BY <1>1 DEF Messages, Eids
<1>3. /\ history'.state # "served" => history'.rows = {}
      /\ UpClosed(history'.rows) /\ UpClosed(backfill')
      /\ \A e \in Eids(list), f \in 1..Base : e < f => f \in Eids(list) \/ Excused(f)'
  <2>1. CASE HistoryServed
    <3>1. /\ history'.state = "served" /\ history'.rows = Page(Len(log) + 1) /\ gap' = Unreached
          /\ UNCHANGED backfill
      BY <2>1 DEF HistoryServed, batchVars
    <3>2. UpClosed(history'.rows)
      <4>1. Len(log) + 1 \in Nat /\ Base < Len(log) + 1
        BY BaseIs
      <4> QED BY <3>1, <4>1, PageUpClosed
    <3>3. ASSUME NEW e \in Eids(list), NEW f \in 1..Base, e < f
          PROVE  f \in Eids(list) \union history'.rows \union gap'
      BY <3>1, <3>3 DEF Unreached
    <3> QED BY <3>1, <3>2, <3>3 DEF HoleInv, Excused
  <2>2. CASE HistoryArrives
    <3>1. history.state = "served" /\ history'.state = "done" /\ history'.rows = {}
          /\ backfill' = backfill \union history.rows /\ gap' = gap
      BY <2>2 DEF HistoryArrives, NoRequest
    <3>2. UpClosed(history'.rows) /\ UpClosed(backfill')
      BY <3>1 DEF HoleInv, UpClosed
    <3>3. \A f : Excused(f) => Excused(f)'
      BY <3>1 DEF Excused
    <3> QED BY <3>1, <3>2, <3>3 DEF HoleInv
  <2>3. CASE HistoryFails
    <3>1. history'.state = "failed" /\ history'.rows = {} /\ UNCHANGED backfill
      BY <2>3 DEF HistoryFails, NoRequest, batchVars
    <3>2. UpClosed(history'.rows) /\ UpClosed(backfill')
      BY <3>1 DEF HoleInv, UpClosed
    <3> QED BY <3>1, <3>2 DEF Excused
  <2> QED BY <2>1, <2>2, <2>3
<1>4. UpClosed(history.rows)' /\ UpClosed(backfill)'
  BY <1>3 DEF UpClosed
<1>5. (\A e \in Eids(list), f \in 1..Base : e < f => f \in Eids(list) \/ Excused(f))'
  BY <1>2, <1>3
<1> QED BY <1>1, <1>2, <1>3, <1>4, <1>5 DEF HoleInv

\* The cached rows go up.
LEMMA HolesCached ==
  ASSUME Distinct, LogInv, RowsInv, TidyInv, HoleInv, LoadBufferHistory
  PROVE  HoleInv'
<1>1. UNCHANGED <<log, handled, queue, backfill, older>> /\ history.state = "none"
  BY DEF LoadBufferHistory, serverVars, batchVars
<1>2. history'.state \in {"done", "asked"} /\ history'.rows = {} /\ gap' = gap
  BY DEF LoadBufferHistory, NoRequest
<1>3. history.rows = {}
  BY <1>1 DEF HoleInv
<1>4. \A f : Excused(f) => Excused(f)'
  BY <1>1, <1>2, <1>3 DEF Excused
<1>5. /\ UpClosed(history.rows)' /\ UpClosed(backfill)'
      /\ (history.state # "served" => history.rows = {})'
      /\ (\A e \in queue : e > Base)'
  BY <1>1, <1>2 DEF HoleInv, UpClosed
<1>6. (Messages((Base + 1)..handled) \ queue)' = Messages((Base + 1)..handled) \ queue
  BY <1>1 DEF Messages
<1>7. CASE UNCHANGED list
  <2>1. Eids(list)' = Eids(list)
    BY <1>7 DEF Eids
  <2> QED BY <1>1, <1>4, <1>5, <1>6, <2>1 DEF HoleInv
<1>8. ASSUME list = <<>>, NEW c \in {0} \union (Base - CacheGap)..Base, c # 0,
             list' = SetMessages(1..c).list, history'.state = "asked"
      PROVE  HoleInv'
  <2>1. 1..c \in SUBSET DOMAIN log /\ 1..c \subseteq 1..Base
    BY <1>8, SettingSound, BaseIs
  <2>2. Eids(list)' = Messages(1..c)
    <3>1. PICK new : new = list'
      OBVIOUS
    <3>2. Eids(new) = Messages(1..c)
      BY <1>8, <2>1, <3>1, SetMessagesKeeps
    <3> QED BY <3>1, <3>2 DEF Eids
  <2>3. Eids(list) = {}
    BY <1>8 DEF Eids
  <2>4. (Messages((Base + 1)..handled) \ queue \subseteq Eids(list))'
    BY <1>6, <2>3 DEF HoleInv
  <2>5. \A f : Excused(f)'
    BY <1>8 DEF Excused
  <2>6. \A e \in older.rows, f \in 1..Base : e < f => f \in older.rows
    BY <2>3 DEF HoleInv
  <2> QED BY <1>1, <1>5, <2>4, <2>5, <2>6 DEF HoleInv
<1>9. \/ UNCHANGED list
      \/ list = <<>> /\ \E c \in {0} \union (Base - CacheGap)..Base :
           c # 0 /\ list' = SetMessages(1..c).list /\ history'.state = "asked"
  BY DEF LoadBufferHistory, NoRequest
<1> QED BY <1>7, <1>8, <1>9

\* The cursor of a request for older rows is the oldest row's place in the log.
LEMMA CursorIs ==
  ASSUME LogInv, RowsInv, HandleLoadMore
  PROVE  \E k \in DOMAIN list, cursor \in Nat :
           /\ older' = [state |-> "asked", rows |-> Page(cursor)]
           /\ list[k].eid # 0 => cursor = list[k].eid
           /\ list[k].eid = 0 => Base < cursor
<1>1. list \in Seq(Row) /\ \A k \in DOMAIN list : Genuine(list[k])
  BY DEF RowsInv, GoodStore, GoodRows, Store
<1>2. \A k \in DOMAIN list : list[k].t \in Nat /\ list[k].eid \in Nat
  BY <1>1, RowsTyped DEF Row
<1> DEFINE T == {list[k].t : k \in DOMAIN list}
           first == CHOOSE k \in DOMAIN list : \A j \in DOMAIN list : list[k].t <= list[j].t
           cursor == (list[first].t + 1) \div 2
<1>3. T \in SUBSET Nat
  BY <1>2
<1>4. T # {}
  BY DEF HandleLoadMore, Eids
<1>5. \E k \in DOMAIN list : \A j \in DOMAIN list : list[k].t <= list[j].t
  <2>1. PICK t \in T : \A u \in T : t <= u
    BY <1>3, <1>4, LeastElement
  <2> QED BY <2>1
<1>6. first \in DOMAIN list
  BY <1>5
<1>7. older' = [state |-> "asked", rows |-> Page(cursor)]
  BY DEF HandleLoadMore
<1> HIDE DEF first
<1>8. list[first].t \in Nat /\ cursor \in Nat /\ Base \in Nat
  BY <1>2, <1>6, BaseIs
<1>9. ASSUME list[first].eid # 0 PROVE cursor = list[first].eid
  <2>1. list[first].t = 2 * list[first].eid /\ list[first].eid \in Nat
    BY <1>1, <1>2, <1>6, <1>9 DEF Genuine
  <2> QED BY <2>1
<1>10. ASSUME list[first].eid = 0 PROVE Base < cursor
  <2>1. 2 * Base < list[first].t
    BY <1>1, <1>6, <1>10 DEF Genuine
  <2> QED BY <1>8, <2>1
<1> QED BY <1>6, <1>7, <1>8, <1>9, <1>10

\* handleLoadMore asks for what is below the oldest row.
LEMMA HolesOlder ==
  ASSUME LogInv, RowsInv, HoleInv, HandleLoadMore
  PROVE  HoleInv'
<1>1. UNCHANGED <<log, handled, list, queue, backfill, history, gap>>
  BY DEF HandleLoadMore, serverVars, rowVars, batchVars
<1>2. (Messages((Base + 1)..handled) \ queue)' = Messages((Base + 1)..handled) \ queue
      /\ Eids(list)' = Eids(list) /\ \A f : Excused(f)' = Excused(f)
  BY <1>1 DEF Messages, Eids, Excused
<1>3. UpClosed(history.rows)' /\ UpClosed(backfill)'
  BY <1>1 DEF HoleInv, UpClosed
<1>4. PICK k \in DOMAIN list, cursor \in Nat :
        /\ older' = [state |-> "asked", rows |-> Page(cursor)]
        /\ list[k].eid # 0 => cursor = list[k].eid
        /\ list[k].eid = 0 => Base < cursor
  BY CursorIs
<1>5. ASSUME NEW e \in Page(cursor), NEW f \in 1..Base, e < f
      PROVE  f \in Eids(list) \union Page(cursor) \/ \E d \in Eids(list) : d < f
  <2>1. /\ e \in Nat /\ e + PageSize >= cursor /\ f \in DOMAIN log /\ f \in Nat /\ f <= Base
        /\ Base \in Nat /\ PageSize \in Nat
    BY BaseIs DEF Page
  <2>2. CASE f < cursor
    <3>1. f + PageSize >= cursor
      BY <1>5, <2>1
    <3> QED BY <2>1, <2>2, <3>1 DEF Page
  <2>3. CASE f >= cursor
    <3>1. list[k].eid # 0 /\ cursor = list[k].eid
      BY <1>4, <2>1, <2>3
    <3>2. cursor \in Eids(list)
      BY <3>1 DEF Eids
    <3>3. f = cursor \/ cursor < f
      BY <2>1, <2>3
    <3> QED BY <3>2, <3>3
  <2> QED BY <2>1, <2>2, <2>3
<1>6. older'.rows = Page(cursor)
  BY <1>4
<1>7. (\A e \in older.rows, f \in 1..Base :
         e < f => f \in Eids(list) \union older.rows \/ \E d \in Eids(list) : d < f)'
  BY <1>2, <1>5, <1>6
<1> QED BY <1>1, <1>2, <1>3, <1>7 DEF HoleInv

\* A page of older rows arrives.
LEMMA HolesPaged ==
  ASSUME Distinct, LogInv, RowsInv, TidyInv, HoleInv, LoadMoreArrives
  PROVE  HoleInv'
<1> DEFINE X == Messages(1..handled) \ queue
<1>1. UNCHANGED <<log, handled, queue, backfill, history, gap>> /\ older' = NoRequest
  BY DEF LoadMoreArrives, serverVars, batchVars
<1>2. (Messages((Base + 1)..handled) \ queue)' = Messages((Base + 1)..handled) \ queue
      /\ \A f : Excused(f)' = Excused(f)
  BY <1>1 DEF Messages, Excused
<1>3. UpClosed(history.rows)' /\ UpClosed(backfill)' /\ older'.rows = {}
  BY <1>1 DEF HoleInv, UpClosed, NoRequest
<1>4. PICK new : new = list'
  OBVIOUS
<1>5. Eids(list)' = Eids(new)
  BY <1>4 DEF Eids
<1>6. Eids(list) \subseteq Eids(new)
      /\ Eids(new) \subseteq Eids(list) \union older.rows
      /\ \A f \in 1..Base : f \in older.rows => f \in Eids(new)
  <2>1. CASE older.rows = {}
    <3>1. new = list
      BY <1>4, <2>1 DEF LoadMoreArrives, rowVars
    <3> QED BY <2>1, <3>1
  <2>2. CASE older.rows # {}
    <3>1. PICK s : s = Prepend(Store, older.rows)
      OBVIOUS
    <3>2. new = s.list
      BY <1>4, <2>2, <3>1 DEF LoadMoreArrives, Store
    <3>3. GoodStore(Store) /\ TidyStore(Store) /\ Store.list = list
          /\ (EchoKnown => EchoesIn(X, Store.list, Store.opt))
      BY DEF RowsInv, TidyInv, TidyStore, Store
    <3> HIDE DEF X
    <3>4. StoreKept(s, Store, {}, older.rows, X)
      BY <3>1, <3>3, BatchSound, PrependKeeps
    <3>5. Eids(list) \subseteq Eids(new)
      BY <3>2, <3>3, <3>4, EidsCovered DEF StoreKept
    <3>6. Eids(new) \subseteq Eids(list) \union older.rows
      BY <3>2, <3>3, <3>4 DEF StoreKept, Messages
    <3>7. ASSUME NEW f \in 1..Base, f \in older.rows PROVE f \in Eids(new)
      <4>1. f \in Messages(older.rows)
        BY <3>7, BaseIs DEF Messages
      <4> QED BY <3>2, <3>4, <4>1 DEF StoreKept
    <3> QED BY <3>5, <3>6, <3>7
  <2> QED BY <2>1, <2>2
<1>7. ASSUME NEW e \in Eids(new), NEW f \in 1..Base, e < f
      PROVE  f \in Eids(new) \/ Excused(f)
  <2>1. CASE e \in Eids(list)
    BY <1>6, <1>7, <2>1 DEF HoleInv
  <2>2. CASE e \in older.rows
    <3>1. f \in Eids(list) \union older.rows \/ \E d \in Eids(list) : d < f
      BY <1>7, <2>2 DEF HoleInv
    <3>2. (\E d \in Eids(list) : d < f) => f \in Eids(list) \/ Excused(f)
      BY DEF HoleInv
    <3> QED BY <1>6, <3>1, <3>2
  <2> QED BY <1>6, <2>1, <2>2
<1>8. (\A e \in Eids(list), f \in 1..Base : e < f => f \in Eids(list) \/ Excused(f))'
  BY <1>2, <1>5, <1>7
<1>9. (Messages((Base + 1)..handled) \ queue \subseteq Eids(list))'
  BY <1>2, <1>5, <1>6 DEF HoleInv
<1> QED BY <1>1, <1>2, <1>3, <1>8, <1>9 DEF HoleInv

\* Every step keeps the window whole.
LEMMA HoleStep ==
  Distinct /\ SelfKnownAlways /\ LogInv /\ RowsInv /\ TidyInv /\ HoleInv /\ [Next]_vars
    => HoleInv'
<1> SUFFICES ASSUME Distinct, SelfKnownAlways, LogInv, RowsInv, TidyInv, HoleInv,
                    [Next]_vars
             PROVE  HoleInv'
  OBVIOUS
<1>1. SelfKnown
  BY DEF LogInv, LogTypes, SelfKnown, SelfKnownAlways
<1>2. CASE SendPlainLine
  <2>1. /\ UNCHANGED <<log, handled, history, older, gap, queue, backfill>>
        /\ list' = Append(list, OptimisticRow(sends + 1))
    BY <1>2 DEF SendPlainLine, batchVars, fetchVars
  <2>2. list \in Seq(Row)
    BY DEF RowsInv, GoodStore, GoodRows, Store
  <2>3. Eids(list') = Eids(list)
    <3>1. OptimisticRow(sends + 1).eid = 0
      BY DEF OptimisticRow
    <3> DEFINE r == OptimisticRow(sends + 1)
    <3> HIDE DEF r
    <3>2. /\ DOMAIN list' = DOMAIN list \union {Len(list) + 1}
          /\ \A k \in DOMAIN list : list'[k] = list[k]
          /\ list'[Len(list) + 1] = r
      <4>1. list' = Append(list, r) /\ Len(list) \in Nat /\ DOMAIN list = 1..Len(list)
        BY <2>1, <2>2 DEF r
      <4> QED BY <2>2, <4>1
    <3>3. r.eid = 0
      BY <3>1 DEF r
    <3> QED BY <3>2, <3>3 DEF Eids
  <2> QED BY <2>1, <2>3, HolesUntouched
<1>3. CASE ServerEchoes \/ SomebodyWrites \/ SomebodyMarks \/ ServerRenames
  <2>1. PICK ev : NewEvent(ev) /\ log' = Append(log, ev)
    BY <1>3, LogGrown
  <2>2. UNCHANGED <<handled, list, queue, backfill, history, older, gap>>
    BY <1>3 DEF ServerEchoes, SomebodyWrites, SomebodyMarks, ServerRenames, rowVars, batchVars,
       fetchVars
  <2> QED BY <2>1, <2>2, HolesLogged DEF NewEvent
<1>4. CASE ProcessIrcEvent
  BY <1>1, <1>4, HolesHandled
<1>5. CASE TimerFires
  <2>1. FlushAll(queue, backfill) /\ UNCHANGED <<setting, log, handled, history, older, gap>>
    BY <1>5 DEF TimerFires, serverVars, fetchVars
  <2>2. Messages((Base + 1)..handled') \subseteq Messages((Base + 1)..handled) \union queue
    BY <2>1
  <2>3. queue \in SUBSET Messages(DOMAIN log) /\ \A e \in queue : e > Base
    BY BatchSound DEF HoleInv
  <2> QED BY <1>1, <2>1, <2>2, <2>3, HolesFlushed
<1>6. CASE LoadBufferHistory
  BY <1>6, HolesCached
<1>7. CASE HistoryServed \/ HistoryArrives \/ HistoryFails
  BY <1>7, HolesServed
<1>8. CASE HandleLoadMore
  BY <1>8, HolesOlder
<1>9. CASE LoadMoreArrives
  BY <1>9, HolesPaged
<1>10. CASE UNCHANGED vars
  <2>1. UNCHANGED <<log, handled, list, queue, backfill, history, older, gap>>
    BY <1>10 DEF vars
  <2>2. Messages((Base + 1)..handled') \ queue' \subseteq Messages((Base + 1)..handled) \ queue
    BY <2>1
  <2> QED BY <2>1, <2>2, HolesUntouched
<1> QED BY <1>2, <1>3, <1>4, <1>5, <1>6, <1>7, <1>8, <1>9, <1>10 DEF Next

\* It is whole at the start.
LEMMA HoleInit == Init => HoleInv
<1> SUFFICES ASSUME Init PROVE HoleInv
  OBVIOUS
<1>1. /\ list = <<>> /\ queue = {} /\ backfill = {} /\ handled = Base
      /\ history = NoRequest /\ older = NoRequest
      /\ log = [e \in 1..Base |-> Message(Other, 0, 0)]
  BY DEF Init
<1>2. Base \in Nat
  BY ConstantsAssumption
<1>3. Len(log) = Base
  BY <1>1, <1>2, LogInit DEF LogInv, LogTypes, Init
<1>4. Eids(list) = {} /\ history.rows = {} /\ older.rows = {}
  BY <1>1 DEF Eids, NoRequest
<1>5. Messages((Base + 1)..handled) = {}
  BY <1>1, <1>2 DEF Messages
<1>6. UpClosed(history.rows) /\ UpClosed(backfill)
  BY <1>1, <1>4 DEF UpClosed
<1> QED BY <1>1, <1>2, <1>3, <1>4, <1>5, <1>6 DEF HoleInv

\* If texts differ and the user's messages are recognised in every setting, then
\* between the oldest row and the newest event processed only what is queued, asked
\* for, failed or beyond a stale cache is missing.
THEOREM HoleInvariant ==
  ASSUME Distinct, SelfKnownAlways
  PROVE  Spec => [](LogInv /\ RowsInv /\ TidyInv /\ HoleInv)
<1>1. Init => LogInv /\ RowsInv /\ TidyInv /\ HoleInv
  BY LogInit, RowsInit, TidyInit, HoleInit
<1>2. LogInv /\ RowsInv /\ TidyInv /\ HoleInv /\ [Next]_vars => (LogInv /\ RowsInv /\ TidyInv /\ HoleInv)'
  BY LogStep, RowsStep, TidyStep, HoleStep
<1> QED BY <1>1, <1>2, PTL DEF Spec

\* Then the window has no hole once loadBufferHistory has settled and the backfill
\* queue is empty, whatever the cache held and however small the pages, but for the
\* events between stale cached rows and the newest page: what handleLoadMore takes
\* for the boundary of the loaded rows is one.
THEOREM WindowIsWhole ==
  ASSUME Distinct, SelfKnownAlways PROVE Spec => []NoHoles
<1>1. LogInv /\ RowsInv /\ TidyInv /\ HoleInv => NoHoles
  <2> SUFFICES ASSUME LogInv, RowsInv, HoleInv, history.state \in {"none", "done"}, backfill = {},
                      NEW e \in Messages(Eids(list)), NEW f \in Messages(1..handled) \ queue, e < f
               PROVE  f \in Eids(list) \union gap
    BY DEF NoHoles
  <2>1. e \in Eids(list) /\ f \in 1..handled /\ f \in Nat /\ Base \in Nat /\ handled \in Nat
    BY BaseIs DEF Messages
  <2>2. CASE f > Base
    <3>1. f \in Messages((Base + 1)..handled) \ queue
      BY <2>1, <2>2 DEF Messages
    <3> QED BY <3>1 DEF HoleInv
  <2>3. CASE f \in 1..Base
    <3>1. history.state # "served" /\ history.rows = {}
      BY DEF HoleInv
    <3>2. Excused(f) => f \in gap
      BY <3>1 DEF Excused
    <3> QED BY <2>1, <2>3, <3>2 DEF HoleInv
  <2> QED BY <2>1, <2>2, <2>3
<1> QED BY <1>1, HoleInvariant, PTL

=============================================================================
