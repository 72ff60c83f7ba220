------------------------- MODULE Enumeration_proofs -------------------------
(* What Enumeration makes of any finite set of numbers and any sequence. *)
EXTENDS Enumeration, FiniteSetTheorems, TLAPS

\* A finite set of numbers has an ascending enumeration: each number goes to
\* the place that as many of them as are not greater than it take up.
LEMMA AscendingEnumerates ==
  ASSUME NEW S \in SUBSET Nat, IsFiniteSet(S)
  PROVE  /\ Ascending(S) \in [1..Cardinality(S) -> S]
         /\ \A i, j \in 1..Cardinality(S) : i < j => Ascending(S)[i] < Ascending(S)[j]
<1>. DEFINE n == Cardinality(S)
            below(p) == {q \in S : q <= p}
            rank == [p \in S |-> Cardinality(below(p))]
            place == Ascending(S)
<1>0. \A x \in S : x \in Nat
  OBVIOUS
<1>1. n \in Nat
  BY FS_CardinalityType
<1>2. \A p \in S : /\ IsFiniteSet(below(p)) /\ below(p) # {}
                   /\ Cardinality(below(p)) \in Nat /\ Cardinality(below(p)) <= n
  <2>. SUFFICES ASSUME NEW p \in S
                PROVE  /\ IsFiniteSet(below(p)) /\ below(p) # {}
                       /\ Cardinality(below(p)) \in Nat /\ Cardinality(below(p)) <= n
    OBVIOUS
  <2>1. below(p) \in SUBSET S /\ p \in below(p)
    OBVIOUS
  <2>2. IsFiniteSet(below(p)) /\ Cardinality(below(p)) <= n
    BY <2>1, FS_Subset
  <2>. QED  BY <2>1, <2>2, FS_CardinalityType
<1>3. rank \in [S -> 1..n]
  <2>. SUFFICES ASSUME NEW p \in S PROVE Cardinality(below(p)) \in 1..n
    OBVIOUS
  <2>1. Cardinality(below(p)) # 0
    BY <1>2, FS_EmptySet
  <2>. QED  BY <1>1, <1>2, <2>1
<1>4. \A p, q \in S : p < q => rank[p] < rank[q]
  <2>. SUFFICES ASSUME NEW p \in S, NEW q \in S, p < q
                PROVE  Cardinality(below(p)) < Cardinality(below(q))
    OBVIOUS
  <2>1. below(p) \in SUBSET below(q) /\ q \in below(q) /\ q \notin below(p)
    <3>1. q <= q /\ ~(q <= p) /\ \A x \in S : x <= p => x <= q
      BY <1>0
    <3>. QED  BY <3>1
  <2>2. /\ Cardinality(below(p)) <= Cardinality(below(q))
        /\ Cardinality(below(q)) = Cardinality(below(p)) => below(q) = below(p)
    BY <1>2, <2>1, FS_Subset
  <2>. QED  BY <1>2, <2>1, <2>2
<1>5. rank \in Surjection(S, 1..n)
  <2>1. IsInjective(rank)
    BY <1>3, <1>4 DEF IsInjective
  <2>2. rank \in Injection(S, 1..n)
    BY <1>3, <2>1 DEF Injection
  <2>3. IsFiniteSet(1..n) /\ Cardinality(1..n) = n
    BY <1>1, FS_Interval
  <2>. QED  BY <2>2, <2>3, FS_Injection
<1>6. \A i \in 1..n : \E p \in S : Cardinality({q \in S : q <= p}) = i
  BY <1>5 DEF Surjection
<1>7. place \in [1..n -> S] /\ \A i \in 1..n : rank[place[i]] = i
  <2>1. ASSUME NEW i \in 1..n PROVE place[i] \in S /\ Cardinality({q \in S : q <= place[i]}) = i
    <3>1. place[i] = CHOOSE p \in S : Cardinality({q \in S : q <= p}) = i
      BY DEF Ascending
    <3>. HIDE DEF place, rank, n
    <3>. QED  BY <1>6, <3>1
  <2>2. place = [i \in 1..n |-> place[i]]
    BY DEF Ascending
  <2>3. \A i \in 1..n : rank[place[i]] = i
    BY <2>1
  <2>. HIDE DEF place, rank, n
  <2>. QED  BY <2>1, <2>2, <2>3
<1>. HIDE DEF n, rank, place
<1>8. \A i, j \in 1..n : i < j => place[i] < place[j]
  <2>. SUFFICES ASSUME NEW i \in 1..n, NEW j \in 1..n, i < j PROVE place[i] < place[j]
    OBVIOUS
  <2>1. place[i] \in S /\ place[j] \in S /\ rank[place[i]] = i /\ rank[place[j]] = j
    BY <1>7
  <2>2. place[i] # place[j] /\ ~(place[j] < place[i])
    <3>1. place[j] < place[i] => rank[place[j]] < rank[place[i]]
      BY <1>4, <2>1
    <3>. QED  BY <1>1, <2>1, <3>1
  <2>3. place[i] \in Nat /\ place[j] \in Nat
    BY <1>0, <2>1
  <2>. QED  BY <2>2, <2>3
<1>. QED  BY <1>7, <1>8 DEF n, place

\* It leaves no number out.
LEMMA AscendingCovers ==
  ASSUME NEW S \in SUBSET Nat, IsFiniteSet(S)
  PROVE  Ascending(S) \in Bijection(1..Cardinality(S), S)
<1>. DEFINE n == Cardinality(S)
            f == Ascending(S)
<1>1. n \in Nat /\ IsFiniteSet(1..n) /\ Cardinality(1..n) = n
  BY FS_CardinalityType, FS_Interval
<1>2. f \in [1..n -> S] /\ \A i, j \in 1..n : i < j => f[i] < f[j]
  BY AscendingEnumerates
<1>. HIDE DEF n, f
<1>3. \A i, j \in 1..n : f[i] = f[j] => i = j
  <2>. SUFFICES ASSUME NEW i \in 1..n, NEW j \in 1..n, f[i] = f[j], i # j PROVE FALSE
    OBVIOUS
  <2>1. f[i] < f[j] \/ f[j] < f[i]
    BY <1>1, <1>2
  <2>2. f[i] \in Nat
    BY <1>2
  <2>. QED  BY <2>1, <2>2
<1>4. f \in Injection(1..n, S)
  BY <1>2, <1>3 DEF Injection, IsInjective
<1>5. f \in Surjection(1..n, S)
  BY <1>1, <1>4, FS_Injection DEF n
<1>. QED  BY <1>4, <1>5 DEF Bijection, n, f

\* What is picked of a sequence are its elements at the given positions, each once.
LEMMA PickedElements ==
  ASSUME NEW X, NEW s \in Seq(X), NEW T \in SUBSET DOMAIN s
  PROVE  /\ Picked(s, T) \in Seq(X)
         /\ \A k \in DOMAIN Picked(s, T) : \E i \in T : Picked(s, T)[k] = s[i]
         /\ \A i \in T : \E k \in DOMAIN Picked(s, T) : Picked(s, T)[k] = s[i]
         /\ \A k, l \in DOMAIN Picked(s, T) :
              k # l => \E i, j \in T : i # j /\ Picked(s, T)[k] = s[i] /\ Picked(s, T)[l] = s[j]
<1>. DEFINE n == Cardinality(T)
            f == Ascending(T)
<1>1. DOMAIN s = 1..Len(s) /\ Len(s) \in Nat
  OBVIOUS
<1>2. T \in SUBSET Nat /\ IsFiniteSet(T)
  <2>1. T \in SUBSET (1..Len(s)) /\ IsFiniteSet(1..Len(s))
    BY <1>1, FS_Interval
  <2>2. IsFiniteSet(T)
    BY <2>1, FS_Subset
  <2>. QED  BY <1>1, <2>1, <2>2
<1>3. n \in Nat /\ f \in Bijection(1..n, T)
  BY <1>2, AscendingCovers, FS_CardinalityType
<1>4. Picked(s, T) = [k \in 1..n |-> s[f[k]]]
  BY DEF Picked
<1>. HIDE DEF n, f
<1>5. /\ f \in [1..n -> T]
      /\ \A i \in T : \E k \in 1..n : f[k] = i
      /\ \A k, l \in 1..n : f[k] = f[l] => k = l
  BY <1>3 DEF Bijection, Surjection, Injection, IsInjective
<1>6. \A i \in T : s[i] \in X
  BY <1>1
<1>7. \A k \in 1..n : s[f[k]] \in X
  BY <1>5, <1>6
<1>8. [k \in 1..n |-> s[f[k]]] \in Seq(X)
  BY <1>3, <1>7
<1>. QED  BY <1>4, <1>5, <1>8

LEMMA HasLeast ==
  ASSUME NEW S \in SUBSET Nat, IsFiniteSet(S), S # {}
  PROVE  \E x \in S : \A y \in S : x <= y
<1>. DEFINE n == Cardinality(S)
            f == Ascending(S)
<1>1. /\ f \in [1..n -> S]
      /\ \A i, j \in 1..n : i < j => f[i] < f[j]
      /\ \A x \in S : \E i \in 1..n : f[i] = x
  BY AscendingEnumerates, AscendingCovers DEF Bijection, Surjection
<1>2. n \in Nat /\ n # 0
  BY FS_CardinalityType, FS_EmptySet
<1>. HIDE DEF n, f
<1>3. f[1] \in S /\ f[1] \in Nat
  <2>1. 1 \in 1..n
    BY <1>2
  <2>. QED  BY <1>1, <2>1
<1>4. ASSUME NEW y \in S PROVE f[1] <= y
  <2>1. PICK i \in 1..n : f[i] = y
    BY <1>1
  <2>2. i = 1 \/ f[1] < f[i]
    BY <1>1, <1>2
  <2>. QED  BY <1>3, <2>1, <2>2
<1>. QED  BY <1>3, <1>4

LEMMA HasGreatest ==
  ASSUME NEW N \in Nat, NEW S \in SUBSET (0..N), S # {}
  PROVE  \E x \in S : \A y \in S : y <= x
<1>. DEFINE D == {N - x : x \in S}
<1>1. D \in SUBSET (0..N) /\ D \in SUBSET Nat /\ D # {} /\ IsFiniteSet(0..N)
  <2>1. IsFiniteSet(0..N)
    BY FS_Interval
  <2>2. \A x \in S : N - x \in 0..N /\ N - x \in Nat
    OBVIOUS
  <2>. QED  BY <2>1, <2>2
<1>2. PICK d \in D : \A e \in D : d <= e
  <2>. HIDE DEF D
  <2>1. IsFiniteSet(D)
    BY <1>1, FS_Subset
  <2>. QED  BY <1>1, <2>1, HasLeast
<1>3. PICK x \in S : d = N - x
  BY <1>2
<1>4. \A y \in S : N - x <= N - y
  BY <1>2, <1>3
<1>. QED  BY <1>3, <1>4

\* 2^k is the number of subsets of k numbers.
LEMMA Subsets ==
  ASSUME NEW k \in Nat
  PROVE  IsFiniteSet(SUBSET (1..k)) /\ Cardinality(SUBSET (1..k)) = 2^k
<1>1. IsFiniteSet(1..k) /\ Cardinality(1..k) = k
  BY FS_Interval
<1>. QED  BY <1>1, FS_SUBSET

LEMMA PowerOfTwo == \A k \in Nat : 2^k \in Nat \ {0}
<1>. SUFFICES ASSUME NEW k \in Nat PROVE 2^k \in Nat \ {0}
  OBVIOUS
<1>1. SUBSET (1..k) # {}
  OBVIOUS
<1>2. Cardinality(SUBSET (1..k)) \in Nat /\ Cardinality(SUBSET (1..k)) # 0
  BY <1>1, Subsets, FS_CardinalityType, FS_EmptySet
<1>. QED  BY <1>2, Subsets

LEMMA Doubling == \A k \in Nat : 2^(k + 1) = 2 * 2^k
<1>. SUFFICES ASSUME NEW k \in Nat PROVE 2^(k + 1) = 2 * 2^k
  OBVIOUS
<1>. DEFINE S == 1..k
            X == SUBSET S
            f == [T \in X |-> T \cup {k + 1}]
            Y == {f[T] : T \in X}
<1>1. IsFiniteSet(X) /\ Cardinality(X) = 2^k
  BY Subsets
<1>2. k + 1 \in Nat /\ IsFiniteSet(SUBSET (1..(k + 1))) /\ Cardinality(SUBSET (1..(k + 1))) = 2^(k + 1)
  <2>1. k + 1 \in Nat
    OBVIOUS
  <2>. QED  BY <2>1, Subsets
<1>3. k + 1 \notin S /\ 1..(k + 1) = S \cup {k + 1}
  OBVIOUS
<1>. HIDE DEF S
<1>4. \A T \in X : f[T] = T \cup {k + 1} /\ k + 1 \notin T
  BY <1>3
<1>5. DOMAIN f = X
  OBVIOUS
<1>. HIDE DEF f
<1>6. f \in Surjection(X, Y)
  <2>1. f \in [X -> Y]
    <3>1. f = [T \in X |-> f[T]]
      BY DEF f
    <3>. QED  BY <3>1
  <2>. QED  BY <2>1 DEF Surjection
<1>7. f \in Injection(X, Y)
  <2>1. \A T, U \in X : f[T] = f[U] => T = U
    <3>. SUFFICES ASSUME NEW T \in X, NEW U \in X, f[T] = f[U] PROVE T = U
      OBVIOUS
    <3>1. T = f[T] \ {k + 1} /\ U = f[U] \ {k + 1}
      BY <1>4
    <3>. QED  BY <3>1
  <2>2. f \in [X -> Y]
    BY <1>6 DEF Surjection
  <2>. QED  BY <2>1, <2>2 DEF Injection, IsInjective
<1>8. IsFiniteSet(Y) /\ Cardinality(Y) = 2^k
  <2>. HIDE DEF X, Y
  <2>. QED  BY <1>1, <1>6, <1>7, FS_Surjection
<1>9. SUBSET (1..(k + 1)) = X \cup Y /\ X \cap Y = {}
  <2>1. ASSUME NEW U \in SUBSET (S \cup {k + 1}) PROVE U \in X \cup Y
    <3>1. CASE k + 1 \notin U
      BY <3>1
    <3>2. CASE k + 1 \in U
      <4>1. U \ {k + 1} \in X /\ U = (U \ {k + 1}) \cup {k + 1}
        BY <3>2
      <4>2. f[U \ {k + 1}] = U
        BY <1>4, <4>1
      <4>. QED  BY <4>1, <4>2
    <3>. QED  BY <3>1, <3>2
  <2>2. \A U \in X \cup Y : U \in SUBSET (S \cup {k + 1})
    BY <1>4
  <2>3. X \cap Y = {}
    BY <1>4
  <2>. QED  BY <1>3, <2>1, <2>2, <2>3
<1>10. Cardinality(X \cup Y) = Cardinality(X) + Cardinality(Y) - Cardinality(X \cap Y)
  <2>. HIDE DEF X, Y
  <2>. QED  BY <1>1, <1>8, FS_Union
<1>11. Cardinality(X \cap Y) = 0
  BY <1>9, FS_EmptySet
<1>. HIDE DEF X, Y
<1>12. 2^(k + 1) = 2^k + 2^k - 0
  BY <1>1, <1>2, <1>8, <1>9, <1>10, <1>11
<1>. QED  BY <1>12, PowerOfTwo

LEMMA Outgrows == \A k \in Nat : k < 2^k
<1>. SUFFICES ASSUME NEW k \in Nat, ~(k < 2^k) PROVE FALSE
  OBVIOUS
<1>. DEFINE Bad == {n \in 0..k : ~(n < 2^n)}
<1>1. Bad \in SUBSET Nat /\ IsFiniteSet(Bad) /\ Bad # {}
  <2>1. IsFiniteSet(0..k)
    BY FS_Interval
  <2>2. Bad \in SUBSET (0..k) /\ k \in Bad /\ Bad \in SUBSET Nat
    OBVIOUS
  <2>. HIDE DEF Bad
  <2>. QED  BY <2>1, <2>2, FS_Subset
<1>2. PICK n \in Bad : \A m \in Bad : n <= m
  BY <1>1, HasLeast
<1>3. n # 0
  BY <1>2, PowerOfTwo
<1>4. n - 1 \in Nat /\ n - 1 < 2^(n - 1) /\ 2^n = 2 * 2^(n - 1) /\ 2^(n - 1) \in Nat
  <2>1. n \in 0..k /\ n - 1 \in Nat /\ n - 1 \in 0..k /\ (n - 1) + 1 = n
    BY <1>2, <1>3
  <2>2. n - 1 \notin Bad
    BY <1>2, <2>1
  <2>3. 2^((n - 1) + 1) = 2 * 2^(n - 1)
    BY <2>1, Doubling
  <2>. QED  BY <2>1, <2>2, <2>3, PowerOfTwo
<1>5. n < 2^n
  BY <1>4
<1>. QED  BY <1>2, <1>5

LEMMA PowersGrow == \A j, k \in Nat : j < k => 2^j < 2^k
<1>. SUFFICES ASSUME NEW j \in Nat, NEW k \in Nat, j < k, ~(2^j < 2^k) PROVE FALSE
  OBVIOUS
<1>. DEFINE Bad == {n \in 0..k : j < n /\ ~(2^j < 2^n)}
<1>1. Bad \in SUBSET Nat /\ IsFiniteSet(Bad) /\ Bad # {}
  <2>1. IsFiniteSet(0..k)
    BY FS_Interval
  <2>2. Bad \in SUBSET (0..k) /\ k \in Bad /\ Bad \in SUBSET Nat
    OBVIOUS
  <2>. HIDE DEF Bad
  <2>. QED  BY <2>1, <2>2, FS_Subset
<1>2. PICK n \in Bad : \A m \in Bad : n <= m
  BY <1>1, HasLeast
<1>3. n - 1 \in Nat /\ n - 1 \in 0..k /\ (n - 1) + 1 = n /\ j <= n - 1 /\ n \in Nat
  BY <1>2
<1>4. 2^n = 2 * 2^(n - 1) /\ 2^(n - 1) \in Nat \ {0} /\ 2^j \in Nat \ {0} /\ 2^n \in Nat
  <2>1. 2^((n - 1) + 1) = 2 * 2^(n - 1)
    BY <1>3, Doubling
  <2>. QED  BY <1>3, <2>1, PowerOfTwo
<1>5. 2^j <= 2^(n - 1)
  <2>1. CASE j = n - 1
    BY <1>4, <2>1
  <2>2. CASE j < n - 1
    <3>1. n - 1 \notin Bad
      BY <1>2, <1>3
    <3>2. 2^j < 2^(n - 1)
      BY <1>3, <2>2, <3>1
    <3>. QED  BY <1>4, <3>2
  <2>. QED  BY <1>3, <2>1, <2>2
<1>6. 2^j < 2^n
  BY <1>4, <1>5
<1>. QED  BY <1>2, <1>6
=============================================================================
