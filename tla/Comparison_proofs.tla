-------------------------- MODULE Comparison_proofs --------------------------
(***************************************************************************)
(* Proofs about Comparison for any selections, of any length.              *)
(***************************************************************************)
EXTENDS Comparison, Enumeration_proofs, SequenceTheorems

USE DEF Elements, Wall!Elements

\* The flows count, and pick, as this module does.
LEMMA FlowsCount == \A S : Versus!Cardinality(S) = Cardinality(S) /\ Wall!Cardinality(S) = Cardinality(S)
<1>1. \A S : Versus!Cardinality(S) = Cardinality(S)
  BY DEF Versus!Cardinality, Cardinality
<1>2. \A S : Wall!Cardinality(S) = Cardinality(S)
  BY DEF Wall!Cardinality, Cardinality
<1>. QED  BY <1>1, <1>2

LEMMA WallPicks == \A s, T : Wall!Picked(s, T) = Picked(s, T)
BY DEF Wall!Picked, Picked, Wall!Ascending, Ascending, Wall!Cardinality, Cardinality

LEMMA VersusPicks == \A s, T : Versus!Picked(s, T) = Picked(s, T)
BY DEF Versus!Picked, Picked, Versus!Ascending, Ascending, Versus!Cardinality, Cardinality

(***************************************************************************)
(* What the flows own                                                      *)
(***************************************************************************)
Photos == Elements(snapshot)
Selected == snapshot \in VersusSelections \cup WallSelections

Cell == [id : Photos \cup {None}, rejected : BOOLEAN]
Walls ==
  {w \in [cells : Seq(Cell), rejected : Seq(Photos), input : {snapshot}, mode : Wall!Modes] :
     Wall!Readable(w)}

LEMMA SelectionTypes ==
  ASSUME ComparisonAssumption, Selected
  PROVE  snapshot \in Seq(Photos) /\ Len(snapshot) \in Nat \ {0} /\ None \notin Photos
<1>1. snapshot \in Seq(Photos) /\ Len(snapshot) > 0 /\ None \notin Photos
  BY DEF ComparisonAssumption, Selected, Photos
<1>. QED  BY <1>1

LEMMA SelectionIsDistinct ==
  ASSUME ComparisonAssumption, Selected
  PROVE  \A i, j \in DOMAIN snapshot : snapshot[i] = snapshot[j] => i = j
<1>1. snapshot \in Seq(Photos) /\ Len(snapshot) \in Nat
  BY SelectionTypes
<1>2. Cardinality(Photos) = Len(snapshot)
  BY DEF ComparisonAssumption, Selected, Distinct, Photos
<1>3. IsFiniteSet(1..Len(snapshot)) /\ Cardinality(1..Len(snapshot)) = Len(snapshot)
  <2>1. PICK n \in Nat : n = Len(snapshot)
    BY <1>1
  <2>2. IsFiniteSet(1..n) /\ Cardinality(1..n) = n
    BY FS_Interval
  <2>. QED  BY <2>1, <2>2
<1>4. snapshot \in Surjection(1..Len(snapshot), Photos)
  BY <1>1 DEF Surjection, Photos
<1>5. snapshot \in Injection(1..Len(snapshot), Photos)
  BY <1>2, <1>3, <1>4, FS_Surjection
<1>. QED  BY <1>1, <1>5 DEF Injection, IsInjective

\* The size is the least power of two that is not too small.
LEMMA SizeIsLeast ==
  ASSUME NEW n \in Nat \ {0}
  PROVE  \E k \in 0..n : /\ Versus!NextPowerOfTwo(n) = 2^k /\ n <= 2^k
                         /\ k > 0 => 2^(k - 1) < n
<1>. DEFINE G == {k \in 0..n : n <= 2^k}
            S == {k \in 0..n : 2^k < n}
<1>1. n \in G
  BY Outgrows, PowerOfTwo
<1>2. PICK k \in G : \A j \in G : k <= j
  <2>1. IsFiniteSet(0..n) /\ G \in SUBSET (0..n) /\ G \in SUBSET Nat
    BY FS_Interval
  <2>. HIDE DEF G
  <2>2. IsFiniteSet(G) /\ G # {}
    BY <1>1, <2>1, FS_Subset
  <2>. QED  BY <2>1, <2>2, HasLeast
<1>3. k \in 0..n /\ n <= 2^k /\ k \in Nat /\ k - 1 \in Int
  BY <1>2
<1>4. \A j \in 0..n : j < k => 2^j < n
  <2>. SUFFICES ASSUME NEW j \in 0..n, j < k PROVE 2^j < n
    OBVIOUS
  <2>1. j \notin G
    BY <1>2
  <2>. QED  BY <2>1, PowerOfTwo
<1>5. \A j \in 0..n : ~(j < k) => ~(2^j < n)
  <2>. SUFFICES ASSUME NEW j \in 0..n, ~(j < k), 2^j < n PROVE FALSE
    OBVIOUS
  <2>1. j \in Nat /\ 2^j \in Nat /\ 2^k \in Nat
    BY <1>3, PowerOfTwo
  <2>2. j = k \/ 2^k < 2^j
    BY <1>3, <2>1, PowersGrow
  <2>. QED  BY <1>3, <2>1, <2>2
<1>6. S = 0..(k - 1)
  <2>1. \A j \in 0..n : j \in S <=> j < k
    BY <1>4, <1>5
  <2>2. S \in SUBSET (0..n)
    OBVIOUS
  <2>. HIDE DEF S
  <2>3. \A j \in 0..(k - 1) : j \in 0..n /\ j < k
    BY <1>3
  <2>4. \A j \in 0..n : j < k => j \in 0..(k - 1)
    BY <1>3
  <2>. QED  BY <2>1, <2>2, <2>3, <2>4
<1>7. Cardinality(S) = k
  <2>1. Cardinality(0..(k - 1)) = IF 0 > k - 1 THEN 0 ELSE (k - 1) - 0 + 1
    BY <1>3, FS_Interval
  <2>2. (IF 0 > k - 1 THEN 0 ELSE (k - 1) - 0 + 1) = k
    BY <1>3
  <2>. HIDE DEF S
  <2>. QED  BY <1>6, <2>1, <2>2
<1>8. Versus!NextPowerOfTwo(n) = 2^Cardinality(S)
  BY FlowsCount DEF Versus!NextPowerOfTwo
<1>9. k > 0 => 2^(k - 1) < n
  BY <1>3, <1>4
<1>. QED  BY <1>3, <1>7, <1>8, <1>9

(***************************************************************************)
(* Seeding                                                                 *)
(***************************************************************************)
Permutes(s, m) == /\ s \in [1..m -> 1..m]
                  /\ \A i, j \in 1..m : s[i] = s[j] => i = j

\* A row of seeds made of the row of half its length.
Row(s, m) == [i \in 1..m |-> IF i % 2 = 1 THEN s[(i + 1) \div 2] ELSE m + 1 - s[i \div 2]]
Rows(k) == {2^j : j \in 0..k}
RowOf(order, m) == IF m = 1 THEN <<1>> ELSE Row(order[m \div 2], m)
MakesRows(order, k) == order = [m \in Rows(k) |-> RowOf(order, m)]

LEMMA Halves == \A k \in Nat \ {0} : 2^k # 1 /\ 2^k \div 2 = 2^(k - 1) /\ 2^k = 2 * 2^(k - 1)
<1>. SUFFICES ASSUME NEW k \in Nat \ {0}
              PROVE  2^k # 1 /\ 2^k \div 2 = 2^(k - 1) /\ 2^k = 2 * 2^(k - 1)
  OBVIOUS
<1>1. k - 1 \in Nat /\ (k - 1) + 1 = k
  OBVIOUS
<1>2. 2^((k - 1) + 1) = 2 * 2^(k - 1) /\ 2^(k - 1) \in Nat
  BY <1>1, Doubling, PowerOfTwo
<1>3. PICK h \in Nat : h = 2^(k - 1)
  BY <1>2
<1>4. 2^k = 2 * h
  BY <1>1, <1>2, <1>3
<1>. QED  BY <1>3, <1>4

LEMMA RowPermutes ==
  ASSUME NEW h \in Nat \ {0}, NEW s, Permutes(s, h)
  PROVE  Permutes(Row(s, 2 * h), 2 * h) /\ \A k \in 0..(h - 1) : Row(s, 2 * h)[2 * k + 1] \in 1..h
<1>. DEFINE r == Row(s, 2 * h)
<1>1. \A i \in 1..(2 * h) : i % 2 = 1 => /\ (i + 1) \div 2 \in 1..h /\ i = 2 * ((i + 1) \div 2) - 1
                                         /\ r[i] = s[(i + 1) \div 2]
  BY DEF Row
<1>2. \A i \in 1..(2 * h) : i % 2 # 1 => /\ i \div 2 \in 1..h /\ i = 2 * (i \div 2)
                                         /\ r[i] = 2 * h + 1 - s[i \div 2]
  BY DEF Row
<1>3. \A i \in 1..h : s[i] \in 1..h
  BY DEF Permutes
<1>4. \A i \in 1..(2 * h) : /\ i % 2 = 1 => r[i] \in 1..h
                            /\ i % 2 # 1 => r[i] \in (h + 1)..(2 * h)
  <2>. HIDE DEF r
  <2>. QED  BY <1>1, <1>2, <1>3
<1>5. r \in [1..(2 * h) -> 1..(2 * h)]
  <2>1. r = [i \in 1..(2 * h) |-> r[i]]
    BY DEF Row
  <2>2. \A i \in 1..(2 * h) : r[i] \in 1..(2 * h)
    BY <1>4
  <2>. HIDE DEF r
  <2>. QED  BY <2>1, <2>2
<1>6. ASSUME NEW i \in 1..(2 * h), NEW j \in 1..(2 * h), r[i] = r[j] PROVE i = j
  <2>. HIDE DEF r
  <2>1. CASE i % 2 = 1 /\ j % 2 = 1
    <3>1. s[(i + 1) \div 2] = s[(j + 1) \div 2]
      BY <1>1, <1>6, <2>1
    <3>2. (i + 1) \div 2 = (j + 1) \div 2
      BY <1>1, <2>1, <3>1 DEF Permutes
    <3>. QED  BY <1>1, <2>1, <3>2
  <2>2. CASE i % 2 # 1 /\ j % 2 # 1
    <3>1. s[i \div 2] = s[j \div 2]
      BY <1>2, <1>3, <1>6, <2>2
    <3>2. i \div 2 = j \div 2
      BY <1>2, <2>2, <3>1 DEF Permutes
    <3>. QED  BY <1>2, <2>2, <3>2
  <2>3. CASE ~(i % 2 = 1 <=> j % 2 = 1)
    BY <1>4, <1>6, <2>3
  <2>. QED  BY <2>1, <2>2, <2>3
<1>7. \A k \in 0..(h - 1) : 2 * k + 1 \in 1..(2 * h) /\ (2 * k + 1) % 2 = 1
  OBVIOUS
<1>. HIDE DEF r
<1>8. \A k \in 0..(h - 1) : r[2 * k + 1] \in 1..h
  BY <1>4, <1>7
<1>. QED  BY <1>5, <1>6, <1>8 DEF Permutes, r

\* The rows exist.
LEMMA RowsAreMade == \A k \in Nat : \E order : MakesRows(order, k)
<1>. SUFFICES ASSUME NEW k \in Nat, ~\E order : MakesRows(order, k) PROVE FALSE
  OBVIOUS
<1>. DEFINE Bad == {j \in 0..k : ~\E order : MakesRows(order, j)}
<1>1. PICK j \in Bad : \A i \in Bad : j <= i
  <2>1. IsFiniteSet(0..k) /\ Bad \in SUBSET (0..k) /\ Bad \in SUBSET Nat /\ k \in Bad
    BY FS_Interval
  <2>. HIDE DEF Bad
  <2>2. IsFiniteSet(Bad) /\ Bad # {}
    BY <2>1, FS_Subset
  <2>. QED  BY <2>1, <2>2, HasLeast
<1>2. CASE j = 0
  <2>. DEFINE order == [m \in Rows(0) |-> <<1>>]
  <2>1. Rows(0) = {1}
    BY PowerOfTwo, Outgrows, Halves DEF Rows
  <2>2. \A m \in Rows(0) : RowOf(order, m) = <<1>>
    BY <2>1 DEF RowOf
  <2>3. order = [m \in Rows(0) |-> RowOf(order, m)]
    BY <2>2
  <2>. QED  BY <1>1, <1>2, <2>3 DEF MakesRows
<1>3. CASE j # 0
  <2>1. j \in Nat \ {0} /\ j - 1 \in Nat /\ j - 1 \in 0..k
    BY <1>1, <1>3
  <2>2. PICK f : MakesRows(f, j - 1)
    <3>1. j - 1 \notin Bad
      BY <1>1, <2>1
    <3>. QED  BY <2>1, <3>1
  <2>. DEFINE order == [m \in Rows(j) |-> IF m \in Rows(j - 1) THEN f[m] ELSE RowOf(f, m)]
  <2>3. \A m \in Rows(j) : m # 1 => m \div 2 \in Rows(j - 1)
    <3>1. ASSUME NEW i \in 0..j, 2^i # 1 PROVE 2^i \div 2 \in Rows(j - 1)
      <4>1. i \in Nat /\ i # 0
        <5>1. i = 0 => 2^i = 1
          OBVIOUS
        <5>2. i \in Nat
          BY <2>1
        <5>. QED  BY <3>1, <5>1, <5>2
      <4>. QED  BY <2>1, <4>1, Halves DEF Rows
    <3>. QED  BY <3>1 DEF Rows
  <2>4. Rows(j - 1) \subseteq Rows(j)
    BY <2>1 DEF Rows
  <2>5. \A m \in Rows(j) : RowOf(order, m) = RowOf(f, m)
    <3>. SUFFICES ASSUME NEW m \in Rows(j), m # 1 PROVE order[m \div 2] = f[m \div 2]
      BY DEF RowOf
    <3>. QED  BY <2>3, <2>4
  <2>6. \A m \in Rows(j - 1) : f[m] = RowOf(f, m)
    BY <2>2 DEF MakesRows
  <2>7. order = [m \in Rows(j) |-> RowOf(order, m)]
    BY <2>5, <2>6
  <2>. QED  BY <1>1, <2>7 DEF MakesRows
<1>. QED  BY <1>2, <1>3

LEMMA SeedOrderPermutes ==
  ASSUME NEW k \in Nat
  PROVE  /\ Permutes(Versus!SeedOrder(2^k), 2^k)
         /\ k # 0 => \A i \in 0..(2^(k - 1) - 1) : Versus!SeedOrder(2^k)[2 * i + 1] \in 1..2^(k - 1)
<1>. DEFINE size == 2^k
            order == CHOOSE f : MakesRows(f, size)
<1>1. size \in Nat /\ k \in 0..size
  BY PowerOfTwo, Outgrows
<1>2. Versus!SeedOrder(size) = order[size]
  <2>. HIDE DEF size
  <2>. QED  BY DEF Versus!SeedOrder, MakesRows, Rows, RowOf, Row
<1>3. MakesRows(order, size)
  BY <1>1, RowsAreMade
<1>. HIDE DEF order, size
<1>4. \A j \in 0..size : order[2^j] = RowOf(order, 2^j)
  BY <1>3 DEF MakesRows, Rows
<1>. DEFINE Good(j) == Permutes(order[2^j], 2^j)
            Bad == {j \in 0..size : ~Good(j)}
<1>5. Good(0)
  <2>1. 0 \in 0..size /\ 2^0 = 1
    BY <1>1
  <2>2. order[1] = <<1>>
    BY <1>4, <2>1 DEF RowOf
  <2>. QED  BY <2>1, <2>2 DEF Permutes
<1>6. ASSUME NEW j \in 1..size, Good(j - 1)
      PROVE  /\ Good(j)
             /\ \A i \in 0..(2^(j - 1) - 1) : order[2^j][2 * i + 1] \in 1..2^(j - 1)
  <2>1. j \in Nat \ {0} /\ j - 1 \in Nat /\ j \in 0..size
    BY <1>1
  <2>2. PICK h \in Nat \ {0} : h = 2^(j - 1)
    BY <2>1, PowerOfTwo
  <2>3. 2^j = 2 * h /\ 2^j # 1 /\ 2^j \div 2 = h
    BY <2>1, <2>2, Halves
  <2>4. order[2^j] = Row(order[h], 2 * h)
    BY <1>4, <2>1, <2>3 DEF RowOf
  <2>5. Permutes(order[h], h)
    BY <1>6, <2>2
  <2>. QED  BY <2>2, <2>3, <2>4, <2>5, RowPermutes
<1>7. Bad = {}
  <2>. SUFFICES ASSUME Bad # {} PROVE FALSE
    OBVIOUS
  <2>1. PICK j \in Bad : \A i \in Bad : j <= i
    <3>1. Bad \in SUBSET (0..size) /\ Bad \in SUBSET Nat
      BY <1>1
    <3>. HIDE DEF Bad
    <3>2. IsFiniteSet(0..size)
      BY <1>1, FS_Interval
    <3>3. IsFiniteSet(Bad)
      BY <3>1, <3>2, FS_Subset
    <3>. QED  BY <3>1, <3>3, HasLeast
  <2>2. j # 0
    BY <1>5, <2>1
  <2>3. j \in 1..size /\ j - 1 \in 0..size /\ ~(j <= j - 1)
    BY <1>1, <2>1, <2>2
  <2>4. Good(j - 1)
    BY <2>1, <2>3
  <2>. QED  BY <1>6, <2>1, <2>3, <2>4
<1>8. Good(k)
  BY <1>1, <1>7
<1>9. k # 0 => \A i \in 0..(2^(k - 1) - 1) : order[2^k][2 * i + 1] \in 1..2^(k - 1)
  <2>. SUFFICES ASSUME k # 0 PROVE \A i \in 0..(2^(k - 1) - 1) : order[2^k][2 * i + 1] \in 1..2^(k - 1)
    OBVIOUS
  <2>1. k \in 1..size /\ k - 1 \in 0..size
    BY <1>1
  <2>2. Good(k - 1)
    BY <1>7, <2>1
  <2>. HIDE DEF Good
  <2>. QED  BY <1>6, <2>1, <2>2
<1>. QED  BY <1>2, <1>8, <1>9 DEF size

(***************************************************************************)
(* The bracket as a tree                                                   *)
(***************************************************************************)
Ids == Photos \cup {None}
Outcome == [resolved : BOOLEAN, id : Ids]

\* A bracket of size N: each photo has a slot, no two have the same, and nobody
\* meets nobody in the first round.
Seeded(N, slots) ==
  /\ N \in Nat \ {0} /\ DOMAIN slots = 1..N
  /\ N # 1 => N % 2 = 0
  /\ \A i \in 1..N : slots[i] \in Ids
  /\ \A i, j \in 1..N : slots[i] = slots[j] /\ slots[i] # None => i = j
  /\ \A x \in Photos : \E i \in 1..N : slots[i] = x
  /\ \A k \in 0 .. (N \div 2) - 1 : slots[2 * k + 1] # None \/ slots[2 * k + 2] # None

\* out is what comes out of each node if the matches are lost by lost.
Plays(N, slots, lost, out) ==
  /\ \A n \in 0 .. 2 * N - 2 : out[n] \in Outcome
  /\ \A n \in 0 .. N - 2 : out[n] = Versus!Winner(out[2 * n + 1], out[2 * n + 2], lost[n])
  /\ \A n \in N - 1 .. 2 * N - 2 : out[n] = Versus!Advances(slots[n - N + 2])

Through(o) == o.resolved = TRUE
Stands(o, x) == Through(o) /\ o.id = x

\* What comes out of one match.
Won(l, r, e, w) ==
  /\ Through(w) => Through(l) /\ Through(r) /\ (w = l \/ w = r)
  /\ (Through(l) /\ Through(r)) =>
       /\ l.id = None => w = r
       /\ (l.id # None /\ r.id = None) => w = l
       /\ (l.id # None /\ r.id # None /\ e = l.id) => w = r
       /\ (l.id # None /\ r.id # None /\ e = r.id /\ e # l.id) => w = l
       /\ (l.id # None /\ r.id # None /\ e # r.id /\ e # l.id) => ~Through(w)

LEMMA WinnerWon ==
  ASSUME NEW l \in Outcome, NEW r \in Outcome, NEW e
  PROVE  Won(l, r, e, Versus!Winner(l, r, e))
<1>1. l.resolved \in BOOLEAN /\ r.resolved \in BOOLEAN
  BY DEF Outcome
<1>. QED  BY <1>1 DEF Versus!Winner, Versus!Unresolved, Won, Through

\* The children of a match, and their parent.
LEMMA Kin ==
  ASSUME NEW N \in Nat \ {0}, NEW n \in 0 .. N - 2
  PROVE  /\ n \in Nat /\ n \in 0 .. 2 * N - 2
         /\ 2 * n + 1 \in 0 .. 2 * N - 2 /\ 2 * n + 2 \in 0 .. 2 * N - 2
         /\ n < 2 * n + 1 /\ n < 2 * n + 2
         /\ (2 * n + 1 - 1) \div 2 = n /\ (2 * n + 2 - 1) \div 2 = n
OBVIOUS

LEMMA Parent ==
  ASSUME NEW N \in Nat \ {0}, NEW m \in 1 .. 2 * N - 2
  PROVE  \E p \in 0 .. N - 2 : p < m /\ (m = 2 * p + 1 \/ m = 2 * p + 2)
<1>1. (m - 1) \div 2 \in 0 .. N - 2 /\ (m - 1) \div 2 < m
      /\ (m = 2 * ((m - 1) \div 2) + 1 \/ m = 2 * ((m - 1) \div 2) + 2)
  OBVIOUS
<1>. QED  BY <1>1

\* What comes out of a match.
LEMMA NodeFacts ==
  ASSUME NEW N, NEW slots, NEW lost, NEW out, Seeded(N, slots), Plays(N, slots, lost, out),
         NEW n \in 0 .. N - 2
  PROVE  /\ out[n] \in Outcome /\ out[2 * n + 1] \in Outcome /\ out[2 * n + 2] \in Outcome
         /\ Won(out[2 * n + 1], out[2 * n + 2], lost[n], out[n])
<1>1. N \in Nat \ {0}
  BY DEF Seeded
<1>2. n \in 0 .. 2 * N - 2 /\ 2 * n + 1 \in 0 .. 2 * N - 2 /\ 2 * n + 2 \in 0 .. 2 * N - 2
  BY <1>1
<1>3. /\ out[n] \in Outcome /\ out[2 * n + 1] \in Outcome /\ out[2 * n + 2] \in Outcome
      /\ out[n] = Versus!Winner(out[2 * n + 1], out[2 * n + 2], lost[n])
  BY <1>2 DEF Plays
<1>. QED  BY <1>3, WinnerWon

\* What comes out of a slot.
LEMMA SlotFacts ==
  ASSUME NEW N, NEW slots, NEW lost, NEW out, Seeded(N, slots), Plays(N, slots, lost, out),
         NEW i \in 1 .. N
  PROVE  Stands(out[i + N - 2], slots[i]) /\ i + N - 2 \in N - 1 .. 2 * N - 2
<1>1. N \in Nat \ {0}
  BY DEF Seeded
<1>2. i + N - 2 \in N - 1 .. 2 * N - 2 /\ (i + N - 2) - N + 2 = i
  BY <1>1
<1>3. \A m \in N - 1 .. 2 * N - 2 : out[m] = Versus!Advances(slots[m - N + 2])
  BY DEF Plays
<1>4. out[i + N - 2] = Versus!Advances(slots[(i + N - 2) - N + 2])
  BY <1>2, <1>3
<1>. QED  BY <1>2, <1>4 DEF Versus!Advances, Stands, Through

\* Out of every match comes a photo, if anything does.
LEMMA Substance ==
  ASSUME NEW N, NEW slots, NEW lost, NEW out, Seeded(N, slots), Plays(N, slots, lost, out),
         NEW n \in 0 .. N - 2, Through(out[n])
  PROVE  out[n].id \in Photos /\ out[n].id # None
<1>. DEFINE Bad == {k \in 0 .. N - 2 : Through(out[k]) /\ out[k].id = None}
<1>1. N \in Nat \ {0} /\ N - 2 \in Nat /\ N % 2 = 0
  BY DEF Seeded
<1>2. Bad = {}
  <2>. SUFFICES ASSUME Bad # {} PROVE FALSE
    OBVIOUS
  <2>1. PICK k \in Bad : \A j \in Bad : j <= k
    <3>1. Bad \in SUBSET (0 .. N - 2)
      OBVIOUS
    <3>. HIDE DEF Bad
    <3>. QED  BY <1>1, <3>1, HasGreatest
  <2>2. k \in 0 .. N - 2 /\ Through(out[k]) /\ out[k].id = None
    BY <2>1
  <2>3. Won(out[2 * k + 1], out[2 * k + 2], lost[k], out[k])
    BY <2>2, NodeFacts
  <2>4. /\ Through(out[2 * k + 1]) /\ out[2 * k + 1].id = None
        /\ Through(out[2 * k + 2]) /\ out[2 * k + 2].id = None
    BY <2>2, <2>3 DEF Won
  <2>5. 2 * k + 1 \notin 0 .. N - 2
    <3>1. 2 * k + 1 \notin Bad
      BY <2>1, <2>2
    <3>. QED  BY <2>4, <3>1
  <2>6. PICK j \in 0 .. (N \div 2) - 1 : 2 * j + 1 + N - 2 = 2 * k + 1
    <3>1. k + 1 - (N \div 2) \in 0 .. (N \div 2) - 1 /\ 2 * (k + 1 - (N \div 2)) + 1 + N - 2 = 2 * k + 1
      BY <1>1, <2>2, <2>5
    <3>. QED  BY <3>1
  <2>7. /\ 2 * j + 1 \in 1..N /\ 2 * j + 2 \in 1..N
        /\ (2 * j + 1) + N - 2 = 2 * k + 1 /\ (2 * j + 2) + N - 2 = 2 * k + 2
    BY <1>1, <2>6
  <2>8. Stands(out[(2 * j + 1) + N - 2], slots[2 * j + 1]) /\ Stands(out[(2 * j + 2) + N - 2], slots[2 * j + 2])
    BY <2>7, SlotFacts
  <2>9. slots[2 * j + 1] = None /\ slots[2 * j + 2] = None
    BY <2>4, <2>7, <2>8 DEF Stands
  <2>. QED  BY <2>6, <2>9 DEF Seeded
<1>3. out[n].id # None
  BY <1>2
<1>4. out[n] \in Outcome
  BY NodeFacts
<1>. QED  BY <1>3, <1>4 DEF Outcome, Ids

\* Wherever else a photo stands below node k, it stands all the way from there
\* up to k.
Descends(N, out, x, k) ==
  \A m \in 0 .. 2 * N - 2 : (k < m /\ Stands(out[m], x)) =>
    /\ 2 * k + 1 <= m
    /\ \A p \in 0 .. N - 2 : (m = 2 * p + 1 \/ m = 2 * p + 2) => Stands(out[p], x)

LEMMA Lineage ==
  ASSUME NEW N, NEW slots, NEW lost, NEW out, Seeded(N, slots), Plays(N, slots, lost, out),
         NEW x, x # None, NEW n \in 0 .. 2 * N - 2, Stands(out[n], x)
  PROVE  Descends(N, out, x, n)
<1>. DEFINE Bad == {k \in 0 .. 2 * N - 2 : Stands(out[k], x) /\ ~Descends(N, out, x, k)}
<1>1. N \in Nat \ {0} /\ 2 * N - 2 \in Nat
  BY DEF Seeded
<1>2. Bad = {}
  <2>. SUFFICES ASSUME Bad # {} PROVE FALSE
    OBVIOUS
  <2>1. PICK k \in Bad : \A j \in Bad : j <= k
    <3>1. Bad \in SUBSET (0 .. 2 * N - 2)
      OBVIOUS
    <3>. HIDE DEF Bad
    <3>. QED  BY <1>1, <3>1, HasGreatest
  <2>2. k \in 0 .. 2 * N - 2 /\ Stands(out[k], x) /\ ~Descends(N, out, x, k)
    BY <2>1
  <2>3. \A j \in 0 .. 2 * N - 2 : (k < j /\ Stands(out[j], x)) => Descends(N, out, x, j)
    BY <2>1, <2>2
  <2>. HIDE DEF Bad
  <2>4. CASE k \in N - 1 .. 2 * N - 2
    <3>1. ASSUME NEW m \in 0 .. 2 * N - 2, k < m, Stands(out[m], x) PROVE FALSE
      <4>1. /\ k - N + 2 \in 1..N /\ (k - N + 2) + N - 2 = k
            /\ m - N + 2 \in 1..N /\ (m - N + 2) + N - 2 = m /\ k - N + 2 # m - N + 2
        BY <1>1, <2>4, <3>1
      <4>2. Stands(out[(k - N + 2) + N - 2], slots[k - N + 2]) /\ Stands(out[(m - N + 2) + N - 2], slots[m - N + 2])
        BY <4>1, SlotFacts
      <4>3. slots[k - N + 2] = x /\ slots[m - N + 2] = x
        BY <2>2, <3>1, <4>1, <4>2 DEF Stands
      <4>. QED  BY <4>1, <4>3 DEF Seeded
    <3>. QED  BY <2>2, <3>1 DEF Descends
  <2>5. CASE k \in 0 .. N - 2
    <3>1. Won(out[2 * k + 1], out[2 * k + 2], lost[k], out[k])
      BY <2>5, NodeFacts
    <3>2. Stands(out[2 * k + 1], x) \/ Stands(out[2 * k + 2], x)
      BY <2>2, <3>1 DEF Won, Stands
    <3>3. PICK c \in {2 * k + 1, 2 * k + 2} : Stands(out[c], x)
      BY <3>2
    <3>4. c \in 0 .. 2 * N - 2 /\ k < c /\ 2 * k + 1 <= c /\ c <= 2 * k + 2
      BY <1>1, <2>5, <3>3
    <3>5. ASSUME NEW m \in 0 .. 2 * N - 2, k < m, Stands(out[m], x)
          PROVE  /\ 2 * k + 1 <= m
                 /\ \A p \in 0 .. N - 2 : (m = 2 * p + 1 \/ m = 2 * p + 2) => Stands(out[p], x)
      <4>1. CASE m = c
        <5>1. \A p \in 0 .. N - 2 : (m = 2 * p + 1 \/ m = 2 * p + 2) => p = k
          BY <2>5, <3>3, <4>1
        <5>. QED  BY <2>2, <3>4, <4>1, <5>1
      <4>2. CASE c < m
        <5>1. Descends(N, out, x, c)
          BY <2>3, <3>3, <3>4
        <5>2. /\ 2 * c + 1 <= m
              /\ \A p \in 0 .. N - 2 : (m = 2 * p + 1 \/ m = 2 * p + 2) => Stands(out[p], x)
          BY <3>5, <4>2, <5>1 DEF Descends
        <5>3. 2 * k + 1 <= m
          BY <1>1, <2>5, <3>4, <3>5, <4>2
        <5>. QED  BY <5>2, <5>3
      <4>3. CASE m < c
        <5>1. Descends(N, out, x, m)
          BY <2>3, <3>5
        <5>2. 2 * m + 1 <= c
          BY <3>3, <3>4, <4>3, <5>1 DEF Descends
        <5>. QED  BY <2>5, <3>4, <3>5, <5>2
      <4>. QED  BY <3>4, <4>1, <4>2, <4>3
    <3>. QED  BY <2>2, <3>5 DEF Descends
  <2>. QED  BY <1>1, <2>2, <2>4, <2>5
<1>. QED  BY <1>2

\* The two sides of a match are not the same photo.
LEMMA SidesDiffer ==
  ASSUME NEW N, NEW slots, NEW lost, NEW out, Seeded(N, slots), Plays(N, slots, lost, out),
         NEW x, x # None, NEW n \in 0 .. N - 2
  PROVE  ~(Stands(out[2 * n + 1], x) /\ Stands(out[2 * n + 2], x))
<1>. SUFFICES ASSUME Stands(out[2 * n + 1], x), Stands(out[2 * n + 2], x) PROVE FALSE
  OBVIOUS
<1>1. N \in Nat \ {0}
  BY DEF Seeded
<1>2. 2 * n + 1 \in 0 .. 2 * N - 2 /\ 2 * n + 2 \in 0 .. 2 * N - 2 /\ 2 * n + 1 < 2 * n + 2
  BY <1>1
<1>3. Descends(N, out, x, 2 * n + 1)
  BY <1>2, Lineage
<1>4. 2 * (2 * n + 1) + 1 <= 2 * n + 2
  BY <1>2, <1>3 DEF Descends
<1>. QED  BY <1>1, <1>4

\* x plays match n and does not come out of it.
Falls(out, n, x) == /\ Stands(out[2 * n + 1], x) \/ Stands(out[2 * n + 2], x)
                    /\ ~Stands(out[n], x)

\* A photo falls once.
LEMMA FallsOnce ==
  ASSUME NEW N, NEW slots, NEW lost, NEW out, Seeded(N, slots), Plays(N, slots, lost, out),
         NEW x, x # None, NEW n \in 0 .. N - 2, NEW m \in 0 .. N - 2, Falls(out, n, x), Falls(out, m, x)
  PROVE  n = m
<1>1. N \in Nat \ {0}
  BY DEF Seeded
<1>2. ASSUME NEW i \in 0 .. N - 2, NEW j \in 0 .. N - 2, Falls(out, i, x), Falls(out, j, x), i < j PROVE FALSE
  <2>1. PICK c \in {2 * i + 1, 2 * i + 2} : Stands(out[c], x)
    BY <1>2 DEF Falls
  <2>2. PICK d \in {2 * j + 1, 2 * j + 2} : Stands(out[d], x)
    BY <1>2 DEF Falls
  <2>3. c \in 0 .. 2 * N - 2 /\ d \in 0 .. 2 * N - 2 /\ c < d
    BY <1>1, <1>2, <2>1, <2>2
  <2>4. Descends(N, out, x, c)
    BY <2>1, <2>3, Lineage
  <2>5. Stands(out[j], x)
    BY <2>2, <2>3, <2>4 DEF Descends
  <2>. QED  BY <1>2, <2>5 DEF Falls
<1>3. ~(n < m) /\ ~(m < n)
  BY <1>2
<1>. QED  BY <1>1, <1>3

\* Two photos have come to match n.
Met(out, n) == /\ Through(out[2 * n + 1]) /\ out[2 * n + 1].id # None
               /\ Through(out[2 * n + 2]) /\ out[2 * n + 2].id # None

\* Only matches that two photos came to are lost, and by one of them.
Fair(N, lost, out) ==
  \A n \in 0 .. N - 2 : lost[n] # None =>
    Met(out, n) /\ (lost[n] = out[2 * n + 1].id \/ lost[n] = out[2 * n + 2].id)

Waiting(N, lost, out) == {n \in 0 .. N - 2 : lost[n] = None /\ Met(out, n)}

LEMMA LoserFalls ==
  ASSUME NEW N, NEW slots, NEW lost, NEW out, Seeded(N, slots), Plays(N, slots, lost, out),
         Fair(N, lost, out), NEW n \in 0 .. N - 2, lost[n] # None
  PROVE  Falls(out, n, lost[n]) /\ Through(out[n]) /\ lost[n] \in Photos
<1>1. /\ out[2 * n + 1] \in Outcome /\ out[2 * n + 2] \in Outcome
      /\ Won(out[2 * n + 1], out[2 * n + 2], lost[n], out[n])
  BY NodeFacts
<1>2. Met(out, n) /\ (lost[n] = out[2 * n + 1].id \/ lost[n] = out[2 * n + 2].id)
  BY DEF Fair
<1>3. out[2 * n + 1].id # out[2 * n + 2].id
  BY <1>2, SidesDiffer DEF Met, Stands
<1>4. CASE lost[n] = out[2 * n + 1].id
  <2>1. out[n] = out[2 * n + 2]
    BY <1>1, <1>2, <1>4 DEF Won, Met
  <2>. QED  BY <1>1, <1>2, <1>3, <1>4, <2>1 DEF Falls, Stands, Met, Outcome, Ids
<1>5. CASE lost[n] = out[2 * n + 2].id
  <2>1. out[n] = out[2 * n + 1]
    BY <1>1, <1>2, <1>3, <1>5 DEF Won, Met
  <2>. QED  BY <1>1, <1>2, <1>3, <1>5, <2>1 DEF Falls, Stands, Met, Outcome, Ids
<1>. QED  BY <1>2, <1>4, <1>5

\* Nobody is eliminated twice.
LEMMA LostOnce ==
  ASSUME NEW N, NEW slots, NEW lost, NEW out, Seeded(N, slots), Plays(N, slots, lost, out),
         Fair(N, lost, out), NEW n \in 0 .. N - 2, NEW m \in 0 .. N - 2, lost[n] # None, lost[m] = lost[n]
  PROVE  n = m
<1>1. Falls(out, n, lost[n]) /\ Falls(out, m, lost[n])
  BY LoserFalls
<1>. QED  BY <1>1, FallsOnce

\* Who waits for a decision was never eliminated.
LEMMA WaitingAreIn ==
  ASSUME NEW N, NEW slots, NEW lost, NEW out, Seeded(N, slots), Plays(N, slots, lost, out),
         Fair(N, lost, out), NEW n \in Waiting(N, lost, out),
         NEW x, x = out[2 * n + 1].id \/ x = out[2 * n + 2].id
  PROVE  /\ ~Through(out[n]) /\ x \in Photos /\ x # None
         /\ \A m \in 0 .. N - 2 : lost[m] # x
<1>1. n \in 0 .. N - 2 /\ lost[n] = None /\ Met(out, n)
  BY DEF Waiting
<1>2. /\ out[2 * n + 1] \in Outcome /\ out[2 * n + 2] \in Outcome
      /\ Won(out[2 * n + 1], out[2 * n + 2], lost[n], out[n])
  BY <1>1, NodeFacts
<1>3. ~Through(out[n])
  BY <1>1, <1>2 DEF Won, Met
<1>4. x # None /\ x \in Photos /\ Falls(out, n, x)
  BY <1>1, <1>2, <1>3 DEF Met, Falls, Stands, Outcome, Ids
<1>5. ASSUME NEW m \in 0 .. N - 2, lost[m] = x PROVE FALSE
  <2>1. Falls(out, m, x)
    BY <1>4, <1>5, LoserFalls
  <2>2. m = n
    BY <1>1, <1>4, <2>1, FallsOnce
  <2>. QED  BY <1>1, <1>4, <1>5, <2>2
<1>. QED  BY <1>3, <1>4, <1>5

\* When the final is decided everything is ...
LEMMA AllThrough ==
  ASSUME NEW N, NEW slots, NEW lost, NEW out, Seeded(N, slots), Plays(N, slots, lost, out),
         Through(out[0]), NEW n \in 0 .. 2 * N - 2
  PROVE  Through(out[n])
<1>. DEFINE Bad == {k \in 0 .. 2 * N - 2 : ~Through(out[k])}
<1>1. N \in Nat \ {0} /\ 2 * N - 2 \in Nat
  BY DEF Seeded
<1>2. Bad = {}
  <2>. SUFFICES ASSUME Bad # {} PROVE FALSE
    OBVIOUS
  <2>1. PICK k \in Bad : \A j \in Bad : k <= j
    <3>1. Bad \in SUBSET (0 .. 2 * N - 2) /\ Bad \in SUBSET Nat
      OBVIOUS
    <3>2. IsFiniteSet(0 .. 2 * N - 2)
      BY <1>1, FS_Interval
    <3>. HIDE DEF Bad
    <3>3. IsFiniteSet(Bad)
      BY <3>1, <3>2, FS_Subset
    <3>. QED  BY <3>1, <3>3, HasLeast
  <2>2. k \in 1 .. 2 * N - 2 /\ ~Through(out[k])
    BY <1>1, <2>1
  <2>3. PICK p \in 0 .. N - 2 : p < k /\ (k = 2 * p + 1 \/ k = 2 * p + 2)
    BY <1>1, <2>2, Parent
  <2>4. Through(out[p])
    <3>1. p \in 0 .. 2 * N - 2 /\ ~(k <= p)
      BY <1>1, <2>2, <2>3
    <3>2. p \notin Bad
      BY <2>1, <3>1
    <3>. QED  BY <3>1, <3>2
  <2>. QED  BY <2>2, <2>3, <2>4, NodeFacts DEF Won
<1>. QED  BY <1>2

\* ... and until then there is a match to decide.
LEMMA SomethingWaits ==
  ASSUME NEW N, NEW slots, NEW lost, NEW out, Seeded(N, slots), Plays(N, slots, lost, out),
         Fair(N, lost, out)
  PROVE  Through(out[0]) <=> Waiting(N, lost, out) = {}
<1>. DEFINE Bad == {k \in 0 .. 2 * N - 2 : ~Through(out[k])}
<1>1. N \in Nat \ {0} /\ 2 * N - 2 \in Nat
  BY DEF Seeded
<1>2. ASSUME Through(out[0]), NEW n \in Waiting(N, lost, out) PROVE FALSE
  <2>1. ~Through(out[n]) /\ n \in 0 .. N - 2
    BY <1>2, WaitingAreIn DEF Waiting
  <2>2. n \in 0 .. 2 * N - 2
    BY <1>1, <2>1
  <2>. QED  BY <1>2, <2>1, <2>2, AllThrough
<1>3. ASSUME ~Through(out[0]) PROVE Waiting(N, lost, out) # {}
  <2>1. PICK k \in Bad : \A j \in Bad : j <= k
    <3>1. Bad \in SUBSET (0 .. 2 * N - 2) /\ 0 \in Bad
      BY <1>1, <1>3
    <3>. HIDE DEF Bad
    <3>. QED  BY <1>1, <3>1, HasGreatest
  <2>2. k \in 0 .. 2 * N - 2 /\ ~Through(out[k])
    BY <2>1
  <2>3. k \in 0 .. N - 2
    <3>1. ASSUME k \in N - 1 .. 2 * N - 2 PROVE FALSE
      <4>1. k - N + 2 \in 1..N /\ (k - N + 2) + N - 2 = k
        BY <1>1, <3>1
      <4>2. Stands(out[(k - N + 2) + N - 2], slots[k - N + 2])
        BY <4>1, SlotFacts
      <4>. QED  BY <2>2, <4>1, <4>2 DEF Stands
    <3>. QED  BY <1>1, <2>2, <3>1
  <2>4. Through(out[2 * k + 1]) /\ Through(out[2 * k + 2])
    <3>1. /\ 2 * k + 1 \in 0 .. 2 * N - 2 /\ 2 * k + 2 \in 0 .. 2 * N - 2
          /\ ~(2 * k + 1 <= k) /\ ~(2 * k + 2 <= k)
      BY <1>1, <2>3
    <3>2. 2 * k + 1 \notin Bad /\ 2 * k + 2 \notin Bad
      BY <2>1, <3>1
    <3>. QED  BY <3>1, <3>2
  <2>5. Won(out[2 * k + 1], out[2 * k + 2], lost[k], out[k])
    BY <2>3, NodeFacts
  <2>6. Met(out, k)
    BY <2>2, <2>4, <2>5 DEF Won, Met
  <2>7. lost[k] = None
    BY <2>2, <2>3, LoserFalls
  <2>. QED  BY <2>3, <2>6, <2>7 DEF Waiting
<1>. QED  BY <1>2, <1>3

\* A tournament that is over has eliminated all but one.
LEMMA OneIsLeft ==
  ASSUME NEW N, NEW slots, NEW lost, NEW out, Seeded(N, slots), Plays(N, slots, lost, out),
         Fair(N, lost, out), Through(out[0]), Photos # {}, None \notin Photos
  PROVE  /\ out[0].id \in Photos
         /\ \A x \in Photos : (\E n \in 0 .. N - 2 : lost[n] = x) <=> x # out[0].id
<1>1. N \in Nat \ {0} /\ 2 * N - 2 \in Nat /\ 0 \in 0 .. 2 * N - 2
  BY DEF Seeded
<1>2. out[0].id \in Photos
  <2>1. CASE N = 1
    <3>1. 1 \in 1..N /\ 1 + N - 2 = 0
      BY <2>1
    <3>2. Stands(out[1 + N - 2], slots[1])
      BY <3>1, SlotFacts
    <3>3. slots[1] \in Photos
      BY <2>1 DEF Seeded
    <3>. QED  BY <3>1, <3>2, <3>3 DEF Stands
  <2>2. CASE N # 1
    <3>1. 0 \in 0 .. N - 2
      BY <1>1, <2>2
    <3>. QED  BY <3>1, Substance
  <2>. QED  BY <2>1, <2>2
<1>3. ASSUME NEW n \in 0 .. N - 2, lost[n] = out[0].id PROVE FALSE
  <2>1. Falls(out, n, lost[n]) /\ lost[n] # None
    BY <1>2, <1>3, LoserFalls
  <2>2. PICK c \in {2 * n + 1, 2 * n + 2} : Stands(out[c], lost[n])
    BY <2>1 DEF Falls
  <2>3. c \in 0 .. 2 * N - 2 /\ 0 < c /\ (c = 2 * n + 1 \/ c = 2 * n + 2)
    BY <1>1, <2>2
  <2>4. Stands(out[0], lost[n])
    BY <1>3 DEF Stands
  <2>5. Descends(N, out, lost[n], 0)
    BY <1>1, <2>1, <2>4, Lineage
  <2>6. Stands(out[n], lost[n])
    BY <2>2, <2>3, <2>5 DEF Descends
  <2>. QED  BY <2>1, <2>6 DEF Falls
<1>4. ASSUME NEW x \in Photos, x # out[0].id PROVE \E n \in 0 .. N - 2 : lost[n] = x
  <2>. DEFINE At == {k \in 0 .. 2 * N - 2 : Stands(out[k], x)}
  <2>1. PICK k \in At : \A j \in At : k <= j
    <3>1. PICK i \in 1..N : slots[i] = x
      BY DEF Seeded
    <3>2. i + N - 2 \in At
      <4>1. i + N - 2 \in N - 1 .. 2 * N - 2 /\ Stands(out[i + N - 2], x)
        BY <3>1, SlotFacts
      <4>2. i + N - 2 \in 0 .. 2 * N - 2
        BY <1>1, <4>1
      <4>. QED  BY <4>1, <4>2
    <3>3. At \in SUBSET (0 .. 2 * N - 2) /\ At \in SUBSET Nat
      OBVIOUS
    <3>4. IsFiniteSet(0 .. 2 * N - 2)
      BY <1>1, FS_Interval
    <3>. HIDE DEF At
    <3>5. IsFiniteSet(At)
      BY <3>3, <3>4, FS_Subset
    <3>. QED  BY <3>2, <3>3, <3>5, HasLeast
  <2>2. k \in 1 .. 2 * N - 2 /\ Stands(out[k], x)
    <3>1. k # 0
      BY <1>4, <2>1 DEF Stands
    <3>. QED  BY <1>1, <2>1, <3>1
  <2>3. PICK p \in 0 .. N - 2 : p < k /\ (k = 2 * p + 1 \/ k = 2 * p + 2)
    BY <1>1, <2>2, Parent
  <2>4. ~Stands(out[p], x) /\ Through(out[p])
    <3>1. p \in 0 .. 2 * N - 2 /\ ~(k <= p)
      BY <1>1, <2>2, <2>3
    <3>2. p \notin At
      BY <2>1, <3>1
    <3>. QED  BY <3>1, <3>2, AllThrough
  <2>5. /\ Won(out[2 * p + 1], out[2 * p + 2], lost[p], out[p])
        /\ out[2 * p + 1].id = x \/ out[2 * p + 2].id = x
    BY <2>2, <2>3, NodeFacts DEF Stands
  <2>6. lost[p] = x
    BY <2>4, <2>5 DEF Won, Stands
  <2>. QED  BY <2>6
<1>. QED  BY <1>2, <1>3, <1>4

\* A decision changes only what was open above its match.
LEMMA DecisionStays ==
  ASSUME NEW N, NEW slots, NEW lost, NEW out, Seeded(N, slots), Plays(N, slots, lost, out),
         NEW m \in 0 .. N - 2, ~Through(out[m]),
         NEW lost2, \A n \in 0 .. N - 2 : n # m => lost2[n] = lost[n],
         NEW out2, Plays(N, slots, lost2, out2), NEW n \in 0 .. 2 * N - 2, n > m \/ Through(out[n])
  PROVE  out2[n] = out[n]
<1>. DEFINE Bad == {k \in 0 .. 2 * N - 2 : (k > m \/ Through(out[k])) /\ out2[k] # out[k]}
<1>1. N \in Nat \ {0} /\ 2 * N - 2 \in Nat
  BY DEF Seeded
<1>2. Bad = {}
  <2>. SUFFICES ASSUME Bad # {} PROVE FALSE
    OBVIOUS
  <2>1. PICK k \in Bad : \A j \in Bad : j <= k
    <3>1. Bad \in SUBSET (0 .. 2 * N - 2)
      OBVIOUS
    <3>. HIDE DEF Bad
    <3>. QED  BY <1>1, <3>1, HasGreatest
  <2>2. k \in 0 .. 2 * N - 2 /\ (k > m \/ Through(out[k])) /\ out2[k] # out[k]
    BY <2>1
  <2>3. k \in 0 .. N - 2
    <3>1. ASSUME k \in N - 1 .. 2 * N - 2 PROVE FALSE
      BY <2>2, <3>1 DEF Plays
    <3>. QED  BY <1>1, <2>2, <3>1
  <2>4. /\ 2 * k + 1 \in 0 .. 2 * N - 2 /\ 2 * k + 2 \in 0 .. 2 * N - 2
        /\ ~(2 * k + 1 <= k) /\ ~(2 * k + 2 <= k)
        /\ k > m => 2 * k + 1 > m /\ 2 * k + 2 > m
    BY <1>1, <2>3
  <2>5. k > m \/ (Through(out[2 * k + 1]) /\ Through(out[2 * k + 2]))
    BY <2>2, <2>3, NodeFacts DEF Won
  <2>6. out2[2 * k + 1] = out[2 * k + 1] /\ out2[2 * k + 2] = out[2 * k + 2]
    <3>1. 2 * k + 1 \notin Bad /\ 2 * k + 2 \notin Bad
      BY <2>1, <2>4
    <3>. QED  BY <2>4, <2>5, <3>1
  <2>7. k # m
    BY <1>1, <2>2
  <2>8. lost2[k] = lost[k]
    BY <2>3, <2>7
  <2>9. /\ out[k] = Versus!Winner(out[2 * k + 1], out[2 * k + 2], lost[k])
        /\ out2[k] = Versus!Winner(out2[2 * k + 1], out2[2 * k + 2], lost2[k])
    BY <2>3 DEF Plays
  <2>. QED  BY <2>2, <2>6, <2>8, <2>9
<1>. QED  BY <1>2

LEMMA DecisionIsFair ==
  ASSUME NEW N, NEW slots, NEW lost, NEW out, Seeded(N, slots), Plays(N, slots, lost, out),
         Fair(N, lost, out), NEW m \in Waiting(N, lost, out),
         NEW x, x = out[2 * m + 1].id \/ x = out[2 * m + 2].id,
         NEW lost2, lost2[m] = x, \A n \in 0 .. N - 2 : n # m => lost2[n] = lost[n],
         NEW out2, Plays(N, slots, lost2, out2)
  PROVE  /\ Fair(N, lost2, out2)
         /\ \A n \in Waiting(N, lost2, out2) : n # m /\ (n \in Waiting(N, lost, out) \/ n < m)
<1>1. N \in Nat \ {0}
  BY DEF Seeded
<1>2. /\ m \in 0 .. N - 2 /\ lost[m] = None /\ Met(out, m)
      /\ ~Through(out[m]) /\ x \in Photos /\ x # None
  BY WaitingAreIn DEF Waiting
<1>3. \A n \in 0 .. 2 * N - 2 : (n > m \/ Through(out[n])) => out2[n] = out[n]
  BY <1>2, DecisionStays
<1>4. ASSUME NEW n \in 0 .. N - 2, n >= m \/ Met(out, n)
      PROVE  out2[2 * n + 1] = out[2 * n + 1] /\ out2[2 * n + 2] = out[2 * n + 2]
  <2>1. /\ 2 * n + 1 \in 0 .. 2 * N - 2 /\ 2 * n + 2 \in 0 .. 2 * N - 2
        /\ n >= m => 2 * n + 1 > m /\ 2 * n + 2 > m
    BY <1>1, <1>2
  <2>2. Met(out, n) => Through(out[2 * n + 1]) /\ Through(out[2 * n + 2])
    BY DEF Met
  <2>3. /\ 2 * n + 1 > m \/ Through(out[2 * n + 1])
        /\ 2 * n + 2 > m \/ Through(out[2 * n + 2])
    BY <1>4, <2>1, <2>2
  <2>. QED  BY <1>3, <2>1, <2>3
<1>5. \A n \in 0 .. N - 2 : n >= m \/ Met(out, n) =>
        (Met(out2, n) <=> Met(out, n)) /\ out2[2 * n + 1].id = out[2 * n + 1].id
                                       /\ out2[2 * n + 2].id = out[2 * n + 2].id
  BY <1>4 DEF Met
<1>6. Fair(N, lost2, out2)
  <2>1. ASSUME NEW n \in 0 .. N - 2, lost2[n] # None
        PROVE  Met(out2, n) /\ (lost2[n] = out2[2 * n + 1].id \/ lost2[n] = out2[2 * n + 2].id)
    <3>1. CASE n = m
      BY <1>2, <1>5, <3>1
    <3>2. CASE n # m
      <4>1. Met(out, n) /\ (lost2[n] = out[2 * n + 1].id \/ lost2[n] = out[2 * n + 2].id)
        BY <2>1, <3>2 DEF Fair
      <4>. QED  BY <1>5, <4>1
    <3>. QED  BY <3>1, <3>2
  <2>. QED  BY <2>1 DEF Fair
<1>7. ASSUME NEW n \in Waiting(N, lost2, out2)
      PROVE  n # m /\ (n \in Waiting(N, lost, out) \/ n < m)
  <2>1. n \in 0 .. N - 2 /\ lost2[n] = None /\ Met(out2, n)
    BY DEF Waiting
  <2>2. n # m
    BY <1>2, <2>1
  <2>3. ASSUME ~(n < m) PROVE n \in Waiting(N, lost, out)
    <3>1. n >= m
      BY <1>1, <1>2, <2>1, <2>3
    <3>. QED  BY <1>5, <2>1, <2>2, <3>1 DEF Waiting
  <2>. QED  BY <2>2, <2>3
<1>. QED  BY <1>6, <1>7

\* The deeper a node, the greater its number.
LEMMA DepthGrows ==
  ASSUME NEW n \in Nat, NEW m \in Nat, n <= m
  PROVE  Versus!Depth(n) <= Versus!Depth(m) /\ Versus!Depth(n) \in Nat /\ Versus!Depth(m) \in Nat
<1>. DEFINE S(k) == {d \in 1..k : 2^d <= k + 1}
<1>1. \A k \in Nat : S(k) \in SUBSET (1..k) /\ IsFiniteSet(S(k))
  <2>. SUFFICES ASSUME NEW k \in Nat PROVE S(k) \in SUBSET (1..k) /\ IsFiniteSet(S(k))
    OBVIOUS
  <2>1. S(k) \in SUBSET (1..k)
    OBVIOUS
  <2>2. IsFiniteSet(1..k)
    BY FS_Interval
  <2>. HIDE DEF S
  <2>. QED  BY <2>1, <2>2, FS_Subset
<1>2. S(n) \in SUBSET S(m)
  <2>. SUFFICES ASSUME NEW d \in 1..n, 2^d <= n + 1 PROVE d \in 1..m /\ 2^d <= m + 1
    OBVIOUS
  <2>1. 2^d \in Nat
    BY PowerOfTwo
  <2>2. PICK h \in Nat : h = 2^d
    BY <2>1
  <2>. QED  BY <2>2
<1>3. Versus!Depth(n) = Cardinality(S(n)) /\ Versus!Depth(m) = Cardinality(S(m))
  BY FlowsCount DEF Versus!Depth
<1>. HIDE DEF S
<1>4. Cardinality(S(n)) <= Cardinality(S(m))
  BY <1>1, <1>2, FS_Subset
<1>5. Cardinality(S(n)) \in Nat /\ Cardinality(S(m)) \in Nat
  BY <1>1, FS_CardinalityType
<1>. QED  BY <1>3, <1>4, <1>5

\* What comes out of node n if f is what comes out of those below.
Coming(N, slots, lost, f, n) ==
  IF n \in 0 .. N - 2 THEN Versus!Winner(f[2 * n + 1], f[2 * n + 2], lost[n])
                      ELSE Versus!Advances(slots[n - N + 2])

\* f is what comes out of the nodes from k on.
PlaysFrom(N, slots, lost, f, k) == f = [n \in k .. 2 * N - 2 |-> Coming(N, slots, lost, f, n)]

\* Every bracket can be played.
LEMMA CanBePlayed ==
  ASSUME NEW N \in Nat \ {0}, NEW slots, NEW lost
  PROVE  \E out : PlaysFrom(N, slots, lost, out, 0)
<1>. DEFINE Bad == {k \in 0 .. 2 * N - 1 : ~\E f : PlaysFrom(N, slots, lost, f, k)}
<1>1. Bad = {}
  <2>. SUFFICES ASSUME Bad # {} PROVE FALSE
    OBVIOUS
  <2>1. PICK k \in Bad : \A j \in Bad : j <= k
    <3>1. Bad \in SUBSET (0 .. 2 * N - 1) /\ 2 * N - 1 \in Nat
      OBVIOUS
    <3>. HIDE DEF Bad
    <3>. QED  BY <3>1, HasGreatest
  <2>2. k \in 0 .. 2 * N - 1 /\ ~\E f : PlaysFrom(N, slots, lost, f, k)
    BY <2>1
  <2>3. k # 2 * N - 1
    <3>. SUFFICES ASSUME k = 2 * N - 1 PROVE FALSE
      OBVIOUS
    <3>. DEFINE f == [n \in {} |-> None]
    <3>1. k .. 2 * N - 2 = {}
      OBVIOUS
    <3>2. f = [n \in k .. 2 * N - 2 |-> Coming(N, slots, lost, f, n)]
      BY <3>1
    <3>. QED  BY <2>2, <3>2 DEF PlaysFrom
  <2>4. PICK f : PlaysFrom(N, slots, lost, f, k + 1)
    <3>1. k + 1 \in 0 .. 2 * N - 1 /\ ~(k + 1 <= k)
      BY <2>2, <2>3
    <3>2. k + 1 \notin Bad
      BY <2>1, <3>1
    <3>. QED  BY <3>1, <3>2
  <2>. HIDE DEF Bad
  <2>. DEFINE g == [n \in k .. 2 * N - 2 |-> IF n = k THEN Coming(N, slots, lost, f, k) ELSE f[n]]
  <2>5. \A n \in k + 1 .. 2 * N - 2 : n \in k .. 2 * N - 2 /\ n # k
    BY <2>2
  <2>6. \A n \in k + 1 .. 2 * N - 2 : g[n] = f[n] /\ f[n] = Coming(N, slots, lost, f, n)
    BY <2>4, <2>5 DEF PlaysFrom
  <2>7. ASSUME NEW n \in k .. 2 * N - 2
        PROVE  Coming(N, slots, lost, g, n) = Coming(N, slots, lost, f, n)
    <3>1. CASE n \in 0 .. N - 2
      <4>1. 2 * n + 1 \in k + 1 .. 2 * N - 2 /\ 2 * n + 2 \in k + 1 .. 2 * N - 2
        BY <2>2, <3>1
      <4>2. g[2 * n + 1] = f[2 * n + 1] /\ g[2 * n + 2] = f[2 * n + 2]
        BY <2>6, <4>1
      <4>. HIDE DEF g
      <4>. QED  BY <4>2 DEF Coming
    <3>2. CASE n \notin 0 .. N - 2
      BY <3>2 DEF Coming
    <3>. QED  BY <3>1, <3>2
  <2>8. \A n \in k .. 2 * N - 2 : g[n] = Coming(N, slots, lost, g, n)
    <3>1. k \in k .. 2 * N - 2 => g[k] = Coming(N, slots, lost, f, k)
      OBVIOUS
    <3>2. \A n \in k .. 2 * N - 2 : n = k \/ n \in k + 1 .. 2 * N - 2
      BY <2>2
    <3>. HIDE DEF g
    <3>. QED  BY <2>6, <2>7, <3>1, <3>2
  <2>9. g = [n \in k .. 2 * N - 2 |-> g[n]]
    OBVIOUS
  <2>10. PlaysFrom(N, slots, lost, g, k)
    <3>. HIDE DEF g
    <3>. QED  BY <2>8, <2>9 DEF PlaysFrom
  <2>. QED  BY <2>2, <2>10
<1>2. 0 \in 0 .. 2 * N - 1
  OBVIOUS
<1>. QED  BY <1>1, <1>2

LEMMA PlayedIsPlays ==
  ASSUME NEW N, NEW slots, NEW lost, NEW out, Seeded(N, slots), PlaysFrom(N, slots, lost, out, 0)
  PROVE  Plays(N, slots, lost, out)
<1>. DEFINE Bad == {k \in 0 .. 2 * N - 2 : out[k] \notin Outcome}
<1>1. N \in Nat \ {0} /\ 2 * N - 2 \in Nat
  BY DEF Seeded
<1>2. \A n \in 0 .. 2 * N - 2 : out[n] = Coming(N, slots, lost, out, n)
  BY DEF PlaysFrom
<1>3. \A n \in 0 .. N - 2 : /\ n \in 0 .. 2 * N - 2
                            /\ out[n] = Versus!Winner(out[2 * n + 1], out[2 * n + 2], lost[n])
  <2>1. \A n \in 0 .. N - 2 : n \in 0 .. 2 * N - 2
    BY <1>1
  <2>. QED  BY <1>2, <2>1 DEF Coming
<1>4. \A n \in N - 1 .. 2 * N - 2 : /\ n \in 0 .. 2 * N - 2 /\ n - N + 2 \in 1..N
                                    /\ out[n] = Versus!Advances(slots[n - N + 2])
  <2>1. \A n \in N - 1 .. 2 * N - 2 : n \in 0 .. 2 * N - 2 /\ n \notin 0 .. N - 2 /\ n - N + 2 \in 1..N
    BY <1>1
  <2>. QED  BY <1>2, <2>1 DEF Coming
<1>5. Bad = {}
  <2>. SUFFICES ASSUME Bad # {} PROVE FALSE
    OBVIOUS
  <2>1. PICK k \in Bad : \A j \in Bad : j <= k
    <3>1. Bad \in SUBSET (0 .. 2 * N - 2)
      OBVIOUS
    <3>. HIDE DEF Bad
    <3>. QED  BY <1>1, <3>1, HasGreatest
  <2>2. k \in 0 .. 2 * N - 2 /\ out[k] \notin Outcome
    BY <2>1
  <2>3. CASE k \in 0 .. N - 2
    <3>1. /\ 2 * k + 1 \in 0 .. 2 * N - 2 /\ 2 * k + 2 \in 0 .. 2 * N - 2
          /\ ~(2 * k + 1 <= k) /\ ~(2 * k + 2 <= k)
      BY <1>1, <2>3
    <3>2. 2 * k + 1 \notin Bad /\ 2 * k + 2 \notin Bad
      BY <2>1, <3>1
    <3>3. out[2 * k + 1] \in Outcome /\ out[2 * k + 2] \in Outcome
      BY <3>1, <3>2
    <3>4. Versus!Unresolved \in Outcome
      BY DEF Versus!Unresolved, Outcome, Ids
    <3>5. out[k] \in {out[2 * k + 1], out[2 * k + 2], Versus!Unresolved}
      BY <1>3, <2>3 DEF Versus!Winner
    <3>. QED  BY <2>2, <3>3, <3>4, <3>5
  <2>4. CASE k \in N - 1 .. 2 * N - 2
    <3>1. slots[k - N + 2] \in Ids
      BY <1>4, <2>4 DEF Seeded
    <3>2. out[k] = Versus!Advances(slots[k - N + 2])
      BY <1>4, <2>4
    <3>. QED  BY <2>2, <3>1, <3>2 DEF Versus!Advances, Outcome
  <2>. QED  BY <1>1, <2>2, <2>3, <2>4
<1>. QED  BY <1>3, <1>4, <1>5 DEF Plays

\* What the decisions of a bracket say that its matches were lost by.
Lost(b) == [n \in 0 .. b.size - 2 |-> Versus!Eliminated(b, n)]

LEMMA OutcomesPlay ==
  ASSUME NEW b, Seeded(b.size, b.slots)
  PROVE  Plays(b.size, b.slots, Lost(b), Versus!Outcomes(b))
<1>. DEFINE P(out) == PlaysFrom(b.size, b.slots, Lost(b), out, 0)
            Q(out) == out = [n \in 0 .. 2 * b.size - 2 |->
                               IF n \in Versus!Matches(b)
                               THEN Versus!Winner(out[2 * n + 1], out[2 * n + 2], Versus!Eliminated(b, n))
                               ELSE Versus!Advances(b.slots[n - b.size + 2])]
<1>1. \A out : P(out) <=> Q(out)
  <2>. SUFFICES ASSUME NEW out PROVE P(out) <=> Q(out)
    OBVIOUS
  <2>1. \A n \in 0 .. 2 * b.size - 2 :
          Coming(b.size, b.slots, Lost(b), out, n) =
            IF n \in Versus!Matches(b)
            THEN Versus!Winner(out[2 * n + 1], out[2 * n + 2], Versus!Eliminated(b, n))
            ELSE Versus!Advances(b.slots[n - b.size + 2])
    BY DEF Coming, Lost, Versus!Matches
  <2>. QED  BY <2>1 DEF PlaysFrom
<1>2. Versus!Outcomes(b) = CHOOSE out : Q(out)
  BY DEF Versus!Outcomes
<1>3. b.size \in Nat \ {0}
  BY DEF Seeded
<1>4. \E out : P(out)
  BY <1>3, CanBePlayed
<1>5. Q(Versus!Outcomes(b))
  <2>1. \E out : Q(out)
    <3>. HIDE DEF P, Q
    <3>. QED  BY <1>1, <1>4
  <2>. HIDE DEF P, Q
  <2>. QED  BY <1>2, <2>1
<1>6. P(Versus!Outcomes(b))
  <2>. HIDE DEF P, Q
  <2>. QED  BY <1>1, <1>5
<1>. QED  BY <1>6, PlayedIsPlays

\* The bracket that Initialise() makes is properly seeded.
LEMMA SlotsAreSeeded ==
  ASSUME ComparisonAssumption, Selected
  PROVE  /\ Seeded(Versus!Initialise(snapshot).size, Versus!Initialise(snapshot).slots)
         /\ \E k \in 0 .. Versus!Initialise(snapshot).size : 2^k = Versus!Initialise(snapshot).size
<1>. DEFINE b == Versus!Initialise(snapshot)
            N == b.size
            seed == Versus!SeedOrder(N)
<1>1. PICK n \in Nat \ {0} : n = Len(snapshot)
  BY SelectionTypes
<1>2. N = Versus!NextPowerOfTwo(n)
  BY <1>1 DEF Versus!Initialise
<1>3. b.slots = [i \in 1..N |-> IF seed[i] <= n THEN snapshot[seed[i]] ELSE None]
  BY <1>1 DEF Versus!Initialise
<1>. HIDE DEF b, N
<1>4. PICK k \in 0..n : N = 2^k /\ n <= 2^k /\ (k > 0 => 2^(k - 1) < n)
  BY <1>2, SizeIsLeast
<1>5. k \in Nat /\ N \in Nat \ {0} /\ n <= N /\ k < N /\ k \in 0..N
  BY <1>4, PowerOfTwo, Outgrows
<1>6. /\ Permutes(seed, N)
      /\ k # 0 => \A i \in 0..(2^(k - 1) - 1) : seed[2 * i + 1] \in 1..2^(k - 1)
  BY <1>4, <1>5, SeedOrderPermutes
<1>7. DOMAIN snapshot = 1..n /\ (\A i \in 1..n : snapshot[i] \in Photos) /\ None \notin Photos
  <2>1. snapshot \in Seq(Photos) /\ None \notin Photos
    BY SelectionTypes
  <2>. QED  BY <1>1, <2>1
<1>8. \A i, j \in 1..n : snapshot[i] = snapshot[j] => i = j
  BY <1>7, SelectionIsDistinct
<1>9. seed \in [1..N -> 1..N] /\ \A i, j \in 1..N : seed[i] = seed[j] => i = j
  BY <1>6 DEF Permutes
<1>10. \A y \in 1..N : \E i \in 1..N : seed[i] = y
  <2>1. seed \in Injection(1..N, 1..N)
    BY <1>9 DEF Injection, IsInjective
  <2>2. IsFiniteSet(1..N) /\ Cardinality(1..N) = Cardinality(1..N)
    BY <1>5, FS_Interval
  <2>. HIDE DEF seed
  <2>3. seed \in Surjection(1..N, 1..N)
    BY <2>1, <2>2, FS_Injection
  <2>. QED  BY <2>3 DEF Surjection
<1>. HIDE DEF seed
<1>11. DOMAIN b.slots = 1..N /\ \A i \in 1..N : b.slots[i] = IF seed[i] <= n THEN snapshot[seed[i]] ELSE None
  BY <1>3
<1>12. \A i \in 1..N : /\ seed[i] \in 1..N
                       /\ seed[i] <= n => seed[i] \in 1..n /\ b.slots[i] = snapshot[seed[i]]
                       /\ ~(seed[i] <= n) => b.slots[i] = None
  <2>. SUFFICES ASSUME NEW i \in 1..N
                PROVE  /\ seed[i] \in 1..N
                       /\ seed[i] <= n => seed[i] \in 1..n /\ b.slots[i] = snapshot[seed[i]]
                       /\ ~(seed[i] <= n) => b.slots[i] = None
    OBVIOUS
  <2>1. seed[i] \in 1..N
    BY <1>9
  <2>2. seed[i] <= n => seed[i] \in 1..n
    BY <1>5, <2>1
  <2>3. b.slots[i] = IF seed[i] <= n THEN snapshot[seed[i]] ELSE None
    BY <1>11
  <2>. QED  BY <2>1, <2>2, <2>3
<1>13. \A i \in 1..N : b.slots[i] \in Ids
  BY <1>7, <1>12 DEF Ids
<1>14. \A i, j \in 1..N : b.slots[i] = b.slots[j] /\ b.slots[i] # None => i = j
  <2>. SUFFICES ASSUME NEW i \in 1..N, NEW j \in 1..N, b.slots[i] = b.slots[j], b.slots[i] # None
                PROVE  i = j
    OBVIOUS
  <2>1. seed[i] \in 1..n /\ seed[j] \in 1..n /\ snapshot[seed[i]] = snapshot[seed[j]]
    BY <1>12
  <2>. QED  BY <1>8, <1>9, <2>1
<1>15. \A x \in Photos : \E i \in 1..N : b.slots[i] = x
  <2>. SUFFICES ASSUME NEW x \in Photos PROVE \E i \in 1..N : b.slots[i] = x
    OBVIOUS
  <2>1. PICK y \in 1..n : snapshot[y] = x
    BY <1>7 DEF Photos, Elements
  <2>2. y \in 1..N /\ y <= n
    BY <1>5
  <2>3. PICK i \in 1..N : seed[i] = y
    BY <1>10, <2>2
  <2>. QED  BY <1>12, <2>1, <2>2, <2>3
<1>16. /\ N # 1 => N % 2 = 0
       /\ \A j \in 0 .. (N \div 2) - 1 : b.slots[2 * j + 1] # None \/ b.slots[2 * j + 2] # None
  <2>1. CASE k = 0
    <3>1. N = 1
      BY <1>4, <2>1
    <3>. QED  BY <3>1
  <2>2. CASE k # 0
    <3>1. k \in Nat \ {0} /\ k - 1 \in Nat
      BY <1>5, <2>2
    <3>2. PICK h \in Nat \ {0} : h = 2^(k - 1)
      BY <3>1, PowerOfTwo
    <3>3. N = 2 * h
      BY <1>4, <3>1, <3>2, Halves
    <3>4. h < n
      BY <1>4, <3>1, <3>2
    <3>5. N % 2 = 0 /\ N \div 2 = h
      BY <3>3
    <3>6. ASSUME NEW j \in 0 .. h - 1 PROVE b.slots[2 * j + 1] # None
      <4>1. seed[2 * j + 1] \in 1..h
        BY <1>6, <2>2, <3>2
      <4>2. 2 * j + 1 \in 1..N
        BY <3>3
      <4>3. seed[2 * j + 1] <= n
        BY <3>4, <4>1
      <4>. QED  BY <1>7, <1>12, <4>2, <4>3
    <3>. QED  BY <3>5, <3>6
  <2>. QED  BY <2>1, <2>2
<1>17. Seeded(N, b.slots)
  BY <1>5, <1>11, <1>13, <1>14, <1>15, <1>16 DEF Seeded
<1>. QED  BY <1>4, <1>5, <1>17 DEF N, b

(***************************************************************************)
(* The versus flow                                                         *)
(***************************************************************************)
\* The decisions were taken of matches that two photos had come to, against one of
\* the two, the deeper matches first; so will be those that can be taken.
Played(b) ==
  /\ Fair(b.size, Lost(b), Versus!Outcomes(b))
  /\ \A i, j \in DOMAIN b.decisions :
       i < j => Versus!Depth(b.decisions[j].node) <= Versus!Depth(b.decisions[i].node)
  /\ \A i \in DOMAIN b.decisions : \A n \in Waiting(b.size, Lost(b), Versus!Outcomes(b)) :
       Versus!Depth(n) <= Versus!Depth(b.decisions[i].node)

\* The slots and the input of a bracket are those it was started with.
DecisionOfMatch == [node : Nat, eliminated : Photos]
Brackets ==
  {b \in [size : {Versus!Initialise(snapshot).size}, slots : {Versus!Initialise(snapshot).slots},
          input : {snapshot}, decisions : Seq(DecisionOfMatch)] : Versus!Readable(b) /\ Played(b)}

LEMMA BracketStarts ==
  ASSUME ComparisonAssumption, Selected
  PROVE  Versus!Initialise(snapshot) \in Brackets
<1>. DEFINE b == Versus!Initialise(snapshot)
            n == Versus!NextPowerOfTwo(Len(snapshot))
<1>1. Seeded(b.size, b.slots)
  BY SlotsAreSeeded
<1>2. b.size = n /\ b.input = snapshot /\ b.decisions = <<>> /\ DOMAIN b.slots = 1..n
  BY DEF Versus!Initialise
<1>3. b = [size |-> b.size, slots |-> b.slots, input |-> b.input, decisions |-> b.decisions]
  BY DEF Versus!Initialise
<1>. HIDE DEF b, n
<1>4. n \in Nat \ {0} /\ Len(b.slots) = n
  BY <1>1, <1>2 DEF Seeded
<1>5. DOMAIN b.decisions = {} /\ Len(b.decisions) = 0 /\ b.decisions \in Seq(DecisionOfMatch)
  BY <1>2
<1>6. Versus!Decided(b) = {}
  BY <1>5 DEF Versus!Decided
<1>7. Versus!Readable(b)
  <2>1. Versus!Cardinality(Versus!Decided(b)) = 0
    BY <1>6, FlowsCount, FS_EmptySet
  <2>. QED  BY <1>2, <1>4, <1>5, <2>1 DEF Versus!Readable
<1>8. Played(b)
  <2>1. \A k \in 0 .. b.size - 2 : Lost(b)[k] = None
    BY <1>6 DEF Lost, Versus!Eliminated
  <2>. QED  BY <1>5, <2>1 DEF Played, Fair
<1>. QED  BY <1>2, <1>3, <1>5, <1>7, <1>8 DEF Brackets, b

LEMMA DepthType ==
  ASSUME NEW n \in Nat PROVE Versus!Depth(n) \in 0..n
<1>. DEFINE S == {d \in 1..n : 2^d <= n + 1}
<1>1. S \in SUBSET (1..n) /\ IsFiniteSet(1..n) /\ Cardinality(1..n) = n
  BY FS_Interval
<1>2. IsFiniteSet(S) /\ Cardinality(S) <= n
  BY <1>1, FS_Subset
<1>3. Cardinality(S) \in Nat
  BY <1>2, FS_CardinalityType
<1>. QED  BY <1>2, <1>3, FlowsCount DEF Versus!Depth

\* The schedule decides between any matches that are ready.
LEMMA SomeMatchIsFirst ==
  ASSUME NEW N \in Nat, NEW R \in SUBSET (0..N), R # {}
  PROVE  \E n \in R : \A m \in R :
           \/ Versus!Depth(m) < Versus!Depth(n)
           \/ (Versus!Depth(m) = Versus!Depth(n) /\ n <= m)
<1>. DEFINE key == [n \in R |-> N - Versus!Depth(n)]
            K == {key[n] : n \in R}
            First(n) == \A m \in R : \/ Versus!Depth(m) < Versus!Depth(n)
                                     \/ (Versus!Depth(m) = Versus!Depth(n) /\ n <= m)
<1>1. IsFiniteSet(R)
  <2>1. IsFiniteSet(0..N)
    BY FS_Interval
  <2>. QED  BY <2>1, FS_Subset
<1>2. \A n \in R : n \in Nat /\ Versus!Depth(n) \in Nat /\ Versus!Depth(n) <= N
  BY DepthType
<1>3. K \in SUBSET Nat /\ K # {}
  <2>1. \A n \in R : key[n] \in Nat
    BY <1>2
  <2>. QED  BY <2>1
<1>4. IsFiniteSet(K)
  <2>1. key \in Surjection(R, K)
    BY DEF Surjection
  <2>. HIDE DEF K, key
  <2>. QED  BY <1>1, <2>1, FS_Surjection
<1>5. PICK k \in K : \A l \in K : k <= l
  BY <1>3, <1>4, HasLeast
<1>. DEFINE T == {n \in R : key[n] = k}
<1>6. T \in SUBSET R /\ T # {}
  BY <1>5
<1>7. PICK n \in T : \A m \in T : n <= m
  <2>1. T \in SUBSET Nat /\ IsFiniteSet(T)
    BY <1>1, <1>2, <1>6, FS_Subset
  <2>. HIDE DEF T
  <2>. QED  BY <1>6, <2>1, HasLeast
<1>8. ASSUME NEW m \in R
      PROVE  Versus!Depth(m) < Versus!Depth(n) \/ (Versus!Depth(m) = Versus!Depth(n) /\ n <= m)
  <2>1. N - Versus!Depth(n) <= N - Versus!Depth(m)
    BY <1>5, <1>6
  <2>2. Versus!Depth(m) = Versus!Depth(n) => n <= m
    BY <1>5, <1>7
  <2>. QED  BY <1>2, <1>6, <2>1, <2>2
<1>. QED  BY <1>6, <1>8

LEMMA PendingIsReady ==
  ASSUME NEW b, b.size \in Nat \ {0}, Versus!Ready(b) # {},
         NEW n, n = Versus!FindPending(b).node
  PROVE  /\ n \in Versus!Ready(b)
         /\ \A m \in Versus!Ready(b) : Versus!Depth(m) < Versus!Depth(n) \/ Versus!Depth(m) = Versus!Depth(n)
         /\ Versus!FindPending(b).left = Versus!Outcomes(b)[2 * n + 1].id
         /\ Versus!FindPending(b).right = Versus!Outcomes(b)[2 * n + 2].id
         /\ Versus!FindPending(b) # Versus!NoMatch
<1>. DEFINE R == Versus!Ready(b)
<1>1. R \in SUBSET (0 .. b.size)
  BY DEF Versus!Ready, Versus!Matches
<1>. DEFINE First(k) == \A m \in R : \/ Versus!Depth(m) < Versus!Depth(k)
                                     \/ (Versus!Depth(m) = Versus!Depth(k) /\ k <= m)
            p == CHOOSE k \in R : First(k)
<1>2. \E k \in R : First(k)
  BY <1>1, SomeMatchIsFirst
<1>3. p \in R /\ First(p)
  <2>. HIDE DEF R, First
  <2>. QED  BY <1>2
<1>4. Versus!FindPending(b) = [node |-> p, left |-> Versus!Outcomes(b)[2 * p + 1].id,
                               right |-> Versus!Outcomes(b)[2 * p + 2].id]
  BY DEF Versus!FindPending
<1>. HIDE DEF p
<1>5. n = p
  BY <1>4
<1>6. p # -1
  BY <1>1, <1>3
<1>7. Versus!FindPending(b) # Versus!NoMatch
  BY <1>4, <1>6 DEF Versus!NoMatch
<1>. QED  BY <1>3, <1>4, <1>5, <1>7

LEMMA BracketTypes ==
  ASSUME ComparisonAssumption, Selected, NEW b \in Brackets
  PROVE  /\ b.size \in Nat \ {0} /\ Len(b.slots) = b.size
         /\ b.decisions \in Seq(DecisionOfMatch)
         /\ b = [size |-> b.size, slots |-> b.slots, input |-> snapshot, decisions |-> b.decisions]
         /\ b.size = Versus!Initialise(snapshot).size /\ b.slots = Versus!Initialise(snapshot).slots
         /\ Versus!Readable(b) /\ Played(b)
         /\ Seeded(b.size, b.slots) /\ Plays(b.size, b.slots, Lost(b), Versus!Outcomes(b))
<1>1. /\ b.size = Versus!Initialise(snapshot).size /\ b.slots = Versus!Initialise(snapshot).slots
      /\ b.decisions \in Seq(DecisionOfMatch)
      /\ b = [size |-> b.size, slots |-> b.slots, input |-> snapshot, decisions |-> b.decisions]
      /\ Versus!Readable(b) /\ Played(b)
  BY DEF Brackets
<1>2. Seeded(b.size, b.slots)
  BY <1>1, SlotsAreSeeded
<1>3. Len(b.slots) = b.size /\ b.size \in Nat \ {0}
  BY <1>1, <1>2 DEF Versus!Readable, Seeded
<1>. QED  BY <1>1, <1>2, <1>3, OutcomesPlay

LEMMA CountingUp == \A n \in Nat : IsFiniteSet(1..n) /\ Cardinality(1..n) = n
BY FS_Interval

\* No match is decided twice.
LEMMA DecidedOnce ==
  ASSUME NEW b, b.size \in Nat \ {0}, b.decisions \in Seq(DecisionOfMatch), Versus!Readable(b)
  PROVE  \A i, j \in DOMAIN b.decisions : b.decisions[i].node = b.decisions[j].node => i = j
<1>. DEFINE D == Versus!Decided(b)
            f == [i \in DOMAIN b.decisions |-> b.decisions[i].node]
<1>1. PICK n \in Nat : n = Len(b.decisions) /\ DOMAIN b.decisions = 1..n
  OBVIOUS
<1>2. IsFiniteSet(1..n) /\ Cardinality(1..n) = n
  BY CountingUp
<1>3. Cardinality(D) = n
  BY <1>1, FlowsCount DEF Versus!Readable
<1>4. f \in Surjection(1..n, D)
  BY <1>1 DEF Surjection, Versus!Decided
<1>5. f \in Injection(1..n, D)
  <2>. HIDE DEF f, D
  <2>. QED  BY <1>2, <1>3, <1>4, FS_Surjection
<1>6. \A i, j \in 1..n : f[i] = f[j] => i = j
  BY <1>5 DEF Injection, IsInjective
<1>. QED  BY <1>1, <1>6

\* What a match was lost by is what the decision about it says.
LEMMA LostIsDecided ==
  ASSUME NEW b, b.size \in Nat \ {0}, b.decisions \in Seq(DecisionOfMatch), Versus!Readable(b)
  PROVE  /\ \A i \in DOMAIN b.decisions :
              /\ b.decisions[i].node \in 0 .. b.size - 2 /\ b.decisions[i].eliminated # None
              /\ Lost(b)[b.decisions[i].node] = b.decisions[i].eliminated
         /\ \A n \in 0 .. b.size - 2 : n \notin Versus!Decided(b) <=> Lost(b)[n] = None
<1>1. \A i \in DOMAIN b.decisions :
        b.decisions[i].node \in 0 .. b.size - 2 /\ b.decisions[i].eliminated # None
  BY DEF Versus!Readable, Versus!Matches
<1>2. ASSUME NEW i \in DOMAIN b.decisions
      PROVE  Lost(b)[b.decisions[i].node] = b.decisions[i].eliminated
  <2>. DEFINE n == b.decisions[i].node
              j == CHOOSE k \in DOMAIN b.decisions : b.decisions[k].node = n
  <2>1. j \in DOMAIN b.decisions /\ b.decisions[j].node = n
    OBVIOUS
  <2>2. j = i
    BY <2>1, DecidedOnce
  <2>3. n \in Versus!Decided(b) /\ n \in 0 .. b.size - 2
    BY <1>1 DEF Versus!Decided
  <2>4. Lost(b)[n] = b.decisions[j].eliminated
    BY <2>3 DEF Lost, Versus!Eliminated
  <2>. QED  BY <2>2, <2>4
<1>3. ASSUME NEW n \in 0 .. b.size - 2 PROVE n \notin Versus!Decided(b) <=> Lost(b)[n] = None
  <2>1. n \notin Versus!Decided(b) => Lost(b)[n] = None
    BY DEF Lost, Versus!Eliminated
  <2>2. ASSUME n \in Versus!Decided(b) PROVE Lost(b)[n] # None
    <3>1. PICK i \in DOMAIN b.decisions : b.decisions[i].node = n
      BY <2>2 DEF Versus!Decided
    <3>. QED  BY <1>1, <1>2, <3>1
  <2>. QED  BY <2>1, <2>2
<1>. QED  BY <1>1, <1>2, <1>3

LEMMA ReadyIsWaiting ==
  ASSUME NEW b, b.size \in Nat \ {0}, b.decisions \in Seq(DecisionOfMatch), Versus!Readable(b),
         Plays(b.size, b.slots, Lost(b), Versus!Outcomes(b))
  PROVE  Versus!Ready(b) = Waiting(b.size, Lost(b), Versus!Outcomes(b))
<1>. DEFINE out == Versus!Outcomes(b)
<1>1. \A n \in 0 .. b.size - 2 : /\ out[2 * n + 1].resolved \in BOOLEAN
                                 /\ out[2 * n + 2].resolved \in BOOLEAN
  <2>1. \A n \in 0 .. b.size - 2 : 2 * n + 1 \in 0 .. 2 * b.size - 2 /\ 2 * n + 2 \in 0 .. 2 * b.size - 2
    OBVIOUS
  <2>. HIDE DEF out
  <2>2. \A n \in 0 .. 2 * b.size - 2 : out[n] \in Outcome
    BY DEF Plays, out
  <2>. QED  BY <2>1, <2>2 DEF Outcome
<1>2. \A n \in 0 .. b.size - 2 : n \notin Versus!Decided(b) <=> Lost(b)[n] = None
  BY LostIsDecided
<1>. QED  BY <1>1, <1>2 DEF Versus!Ready, Versus!Matches, Waiting, Met, Through

\* A decision is taken of a match that is still to be decided, the deepest of
\* those, and against one of the two photos that came to it.
Takes(b, a, n) ==
  /\ n \in Versus!Ready(b)
  /\ \A m \in Versus!Ready(b) : Versus!Depth(m) < Versus!Depth(n) \/ Versus!Depth(m) = Versus!Depth(n)
  /\ a.asset = Versus!Outcomes(b)[2 * n + 1].id \/ a.asset = Versus!Outcomes(b)[2 * n + 2].id
  /\ a.asset # None
  /\ Versus!Reduce(b, a).rejected = <<a.asset>>
  /\ Versus!Reduce(b, a).payload =
       [b EXCEPT !.decisions = Append(@, [node |-> n, eliminated |-> a.asset])]

LEMMA VersusAccepts ==
  ASSUME NEW b, NEW a, b.size \in Nat \ {0}, Versus!Reduce(b, a).accepted
  PROVE  Takes(b, a, Versus!FindPending(b).node)
<1>. DEFINE n == Versus!FindPending(b).node
<1>1. /\ Versus!FindPending(b) # Versus!NoMatch /\ a.asset # None
      /\ a.asset \in {Versus!FindPending(b).left, Versus!FindPending(b).right}
      /\ Versus!Reduce(b, a).rejected = <<a.asset>>
      /\ Versus!Reduce(b, a).payload =
           [b EXCEPT !.decisions = Append(@, [node |-> n, eliminated |-> a.asset])]
  BY DEF Versus!Reduce, Versus!Refused
<1>2. Versus!Ready(b) # {}
  BY <1>1 DEF Versus!FindPending
<1>. HIDE DEF n
<1>3. n = Versus!FindPending(b).node
  BY DEF n
<1>4. /\ n \in Versus!Ready(b)
      /\ \A m \in Versus!Ready(b) : Versus!Depth(m) < Versus!Depth(n) \/ Versus!Depth(m) = Versus!Depth(n)
      /\ Versus!FindPending(b).left = Versus!Outcomes(b)[2 * n + 1].id
      /\ Versus!FindPending(b).right = Versus!Outcomes(b)[2 * n + 2].id
  BY <1>2, <1>3, PendingIsReady
<1>5. a.asset = Versus!Outcomes(b)[2 * n + 1].id \/ a.asset = Versus!Outcomes(b)[2 * n + 2].id
  BY <1>1, <1>4
<1>6. Versus!Reduce(b, a).payload =
        [b EXCEPT !.decisions = Append(@, [node |-> n, eliminated |-> a.asset])]
  BY <1>1, <1>3
<1>. QED  BY <1>1, <1>4, <1>5, <1>6 DEF Takes, n

\* What a further decision changes of a bracket.
LEMMA DecisionAdds ==
  ASSUME NEW b, b.size \in Nat \ {0}, b.decisions \in Seq(DecisionOfMatch), Versus!Readable(b),
         NEW n \in 0 .. b.size - 2, n \notin Versus!Decided(b), NEW x \in Photos, x # None,
         NEW c, c.size = b.size, c.slots = b.slots,
         c.decisions = Append(b.decisions, [node |-> n, eliminated |-> x])
  PROVE  /\ c.decisions \in Seq(DecisionOfMatch) /\ Versus!Readable(c)
         /\ DOMAIN c.decisions = DOMAIN b.decisions \cup {Len(b.decisions) + 1}
         /\ \A i \in DOMAIN b.decisions : c.decisions[i] = b.decisions[i]
         /\ c.decisions[Len(b.decisions) + 1].node = n
         /\ Lost(c)[n] = x
         /\ \A k \in 0 .. b.size - 2 : k # n => Lost(c)[k] = Lost(b)[k]
<1>. DEFINE e == [node |-> n, eliminated |-> x]
            d == c.decisions
<1>1. e \in DecisionOfMatch /\ e.node = n /\ e.eliminated = x
  BY DEF DecisionOfMatch
<1>2. d = Append(b.decisions, e)
  OBVIOUS
<1>. HIDE DEF d, e
<1>3. /\ d \in Seq(DecisionOfMatch) /\ Len(d) = Len(b.decisions) + 1 /\ Len(b.decisions) \in Nat
      /\ DOMAIN d = DOMAIN b.decisions \cup {Len(b.decisions) + 1}
      /\ DOMAIN b.decisions = 1 .. Len(b.decisions)
      /\ \A i \in DOMAIN b.decisions : d[i] = b.decisions[i]
      /\ d[Len(b.decisions) + 1] = e
  BY <1>1, <1>2
<1>4. Versus!Decided(c) = Versus!Decided(b) \cup {n}
  BY <1>1, <1>3 DEF Versus!Decided, d
<1>5. Versus!Cardinality(Versus!Decided(c)) = Len(d)
  <2>1. Versus!Decided(b) \in SUBSET (0 .. b.size - 2)
    BY DEF Versus!Decided, Versus!Readable, Versus!Matches
  <2>2. IsFiniteSet(Versus!Decided(b))
    <3>1. b.size - 2 \in Int
      OBVIOUS
    <3>2. IsFiniteSet(0 .. b.size - 2)
      BY <3>1, FS_Interval
    <3>. QED  BY <2>1, <3>2, FS_Subset
  <2>3. Cardinality(Versus!Decided(b)) = Len(b.decisions)
    BY FlowsCount DEF Versus!Readable
  <2>4. Cardinality(Versus!Decided(b) \cup {n}) = Cardinality(Versus!Decided(b)) + 1
    BY <2>2, FS_AddElement
  <2>. QED  BY <1>3, <1>4, <2>3, <2>4, FlowsCount
<1>6. \A i \in DOMAIN d : d[i].node \in Versus!Matches(b) /\ d[i].eliminated # None
  <2>1. \A i \in DOMAIN b.decisions : /\ b.decisions[i].node \in Versus!Matches(b)
                                      /\ b.decisions[i].eliminated # None
    BY DEF Versus!Readable
  <2>2. n \in Versus!Matches(b)
    BY DEF Versus!Matches
  <2>. QED  BY <1>1, <1>3, <2>1, <2>2
<1>7. Versus!Readable(c)
  <2>1. Versus!Matches(c) = Versus!Matches(b)
    BY DEF Versus!Matches
  <2>. QED  BY <1>5, <1>6, <2>1 DEF Versus!Readable, d
<1>8. \A i \in DOMAIN d : Lost(c)[d[i].node] = d[i].eliminated
  BY <1>3, <1>7, LostIsDecided DEF d
<1>9. Lost(c)[n] = x
  BY <1>1, <1>3, <1>8
<1>10. ASSUME NEW k \in 0 .. b.size - 2, k # n PROVE Lost(c)[k] = Lost(b)[k]
  <2>1. CASE k \in Versus!Decided(b)
    <3>1. PICK i \in DOMAIN b.decisions : b.decisions[i].node = k
      BY <2>1 DEF Versus!Decided
    <3>2. Lost(b)[k] = b.decisions[i].eliminated
      BY <3>1, LostIsDecided
    <3>. QED  BY <1>3, <1>8, <3>1, <3>2
  <2>2. CASE k \notin Versus!Decided(b)
    <3>1. k \notin Versus!Decided(c)
      BY <1>4, <1>10, <2>2
    <3>. QED  BY <2>2, <3>1 DEF Lost, Versus!Eliminated
  <2>. QED  BY <2>1, <2>2
<1>. QED  BY <1>1, <1>3, <1>7, <1>9, <1>10 DEF d

LEMMA VersusKeepsBrackets ==
  ASSUME ComparisonAssumption, Selected, NEW b \in Brackets, NEW a, Versus!Reduce(b, a).accepted
  PROVE  Versus!Reduce(b, a).payload \in Brackets /\ a.asset \in Photos
<1>. DEFINE n == Versus!FindPending(b).node
            c == Versus!Reduce(b, a).payload
            d == Append(b.decisions, [node |-> n, eliminated |-> a.asset])
            last == Len(b.decisions) + 1
            W == Waiting(b.size, Lost(b), Versus!Outcomes(b))
            V == Waiting(c.size, Lost(c), Versus!Outcomes(c))
            depth(m) == Versus!Depth(m)
<1>1. /\ b.size \in Nat \ {0} /\ b.decisions \in Seq(DecisionOfMatch)
      /\ b = [size |-> b.size, slots |-> b.slots, input |-> snapshot, decisions |-> b.decisions]
      /\ b.size = Versus!Initialise(snapshot).size /\ b.slots = Versus!Initialise(snapshot).slots
      /\ Versus!Readable(b) /\ Played(b)
      /\ Seeded(b.size, b.slots) /\ Plays(b.size, b.slots, Lost(b), Versus!Outcomes(b))
  BY BracketTypes
<1>2. Versus!Ready(b) = W
  BY <1>1, ReadyIsWaiting
<1>3. /\ n \in W /\ \A m \in W : depth(m) < depth(n) \/ depth(m) = depth(n)
      /\ a.asset = Versus!Outcomes(b)[2 * n + 1].id \/ a.asset = Versus!Outcomes(b)[2 * n + 2].id
      /\ a.asset # None
      /\ c = [b EXCEPT !.decisions = d]
  <2>1. b.size \in Nat \ {0}
    BY <1>1
  <2>2. Takes(b, a, n)
    BY <2>1, VersusAccepts
  <2>. HIDE DEF W, n
  <2>. QED  BY <1>2, <2>2 DEF Takes
<1>. HIDE DEF c, n, W, V
<1>4. Fair(b.size, Lost(b), Versus!Outcomes(b))
  BY <1>1 DEF Played
<1>5. a.asset \in Photos
  BY <1>1, <1>3, <1>4, WaitingAreIn DEF W
<1>6. n \in 0 .. b.size - 2 /\ n \notin Versus!Decided(b)
  BY <1>2, <1>3 DEF Versus!Ready, Versus!Matches
<1>7. c = [size |-> b.size, slots |-> b.slots, input |-> snapshot, decisions |-> d]
  <2>. HIDE DEF d
  <2>. QED  BY <1>1, <1>3
<1>8. c.size = b.size /\ c.slots = b.slots /\ c.input = snapshot /\ c.decisions = d
  <2>. HIDE DEF d
  <2>. QED  BY <1>7
<1>9. /\ c.decisions \in Seq(DecisionOfMatch) /\ Versus!Readable(c)
      /\ DOMAIN c.decisions = DOMAIN b.decisions \cup {last}
      /\ \A i \in DOMAIN b.decisions : c.decisions[i] = b.decisions[i]
      /\ c.decisions[last].node = n
      /\ Lost(c)[n] = a.asset
      /\ \A k \in 0 .. b.size - 2 : k # n => Lost(c)[k] = Lost(b)[k]
  <2>1. c.decisions = Append(b.decisions, [node |-> n, eliminated |-> a.asset])
    BY <1>8
  <2>. HIDE DEF d, last
  <2>2. c.size = b.size /\ c.slots = b.slots
    BY <1>8
  <2>3. b.size \in Nat \ {0} /\ b.decisions \in Seq(DecisionOfMatch) /\ Versus!Readable(b)
    BY <1>1
  <2>4. n \in 0 .. b.size - 2 /\ n \notin Versus!Decided(b) /\ a.asset \in Photos /\ a.asset # None
    BY <1>3, <1>5, <1>6
  <2>. HIDE DEF depth
  <2>5. /\ c.decisions \in Seq(DecisionOfMatch) /\ Versus!Readable(c)
        /\ DOMAIN c.decisions = DOMAIN b.decisions \cup {Len(b.decisions) + 1}
        /\ \A i \in DOMAIN b.decisions : c.decisions[i] = b.decisions[i]
        /\ c.decisions[Len(b.decisions) + 1].node = n
        /\ Lost(c)[n] = a.asset
        /\ \A k \in 0 .. b.size - 2 : k # n => Lost(c)[k] = Lost(b)[k]
    BY <2>1, <2>2, <2>3, <2>4, DecisionAdds
  <2>. QED  BY <2>5 DEF last
<1>10. Plays(b.size, b.slots, Lost(c), Versus!Outcomes(c))
  BY <1>1, <1>8, OutcomesPlay
<1>11. /\ Fair(b.size, Lost(c), Versus!Outcomes(c))
       /\ \A m \in V : m # n /\ (m \in W \/ m < n)
  <2>1. n \in Waiting(b.size, Lost(b), Versus!Outcomes(b))
    BY <1>3 DEF W
  <2>2. Seeded(b.size, b.slots) /\ Plays(b.size, b.slots, Lost(b), Versus!Outcomes(b))
    BY <1>1
  <2>3. /\ a.asset = Versus!Outcomes(b)[2 * n + 1].id \/ a.asset = Versus!Outcomes(b)[2 * n + 2].id
        /\ Lost(c)[n] = a.asset
        /\ \A k \in 0 .. b.size - 2 : k # n => Lost(c)[k] = Lost(b)[k]
    BY <1>3, <1>9
  <2>4. /\ Fair(b.size, Lost(c), Versus!Outcomes(c))
        /\ \A m \in Waiting(b.size, Lost(c), Versus!Outcomes(c)) :
             m # n /\ (m \in Waiting(b.size, Lost(b), Versus!Outcomes(b)) \/ m < n)
    BY <1>4, <1>10, <2>1, <2>2, <2>3, DecisionIsFair
  <2>5. V = Waiting(b.size, Lost(c), Versus!Outcomes(c))
    BY <1>8 DEF V
  <2>. QED  BY <2>4, <2>5 DEF W
<1>12. \A i \in DOMAIN b.decisions : b.decisions[i].node \in Nat
  BY <1>1, LostIsDecided
<1>13. /\ \A m \in Nat : depth(m) \in Nat
       /\ \A m \in Nat : m <= n => depth(m) <= depth(n)
  <2>1. n \in Nat
    BY <1>6
  <2>. QED  BY <2>1, DepthGrows
<1>14. V \in SUBSET Nat /\ W \in SUBSET Nat /\ n \in Nat
  BY <1>6 DEF V, W, Waiting
<1>15. \A i \in DOMAIN b.decisions : \A m \in W : depth(m) <= depth(b.decisions[i].node)
  BY <1>1 DEF Played, W
<1>16. \A m \in V : depth(m) <= depth(n)
  BY <1>3, <1>11, <1>13, <1>14
<1>17. /\ DOMAIN b.decisions = 1 .. Len(b.decisions) /\ Len(b.decisions) \in Nat
  BY <1>1
<1>. HIDE DEF depth
<1>18. \A i, j \in DOMAIN c.decisions : i < j => depth(c.decisions[j].node) <= depth(c.decisions[i].node)
  <2>. SUFFICES ASSUME NEW i \in DOMAIN c.decisions, NEW j \in DOMAIN c.decisions, i < j
                PROVE  depth(c.decisions[j].node) <= depth(c.decisions[i].node)
    OBVIOUS
  <2>1. i \in DOMAIN b.decisions /\ c.decisions[i] = b.decisions[i]
    BY <1>9, <1>17
  <2>2. CASE j = last
    BY <1>3, <1>9, <1>15, <2>1, <2>2
  <2>3. CASE j \in DOMAIN b.decisions
    BY <1>1, <1>9, <2>1, <2>3 DEF Played, depth
  <2>. QED  BY <1>9, <2>2, <2>3
<1>19. \A i \in DOMAIN c.decisions : \A m \in V : depth(m) <= depth(c.decisions[i].node)
  <2>. SUFFICES ASSUME NEW i \in DOMAIN c.decisions, NEW m \in V
                PROVE  depth(m) <= depth(c.decisions[i].node)
    OBVIOUS
  <2>1. CASE i = last
    BY <1>9, <1>16, <2>1
  <2>2. CASE i \in DOMAIN b.decisions
    <3>1. depth(m) <= depth(n) /\ depth(n) <= depth(b.decisions[i].node)
      BY <1>3, <1>15, <1>16, <2>2
    <3>2. depth(m) \in Nat /\ depth(n) \in Nat /\ depth(b.decisions[i].node) \in Nat
      BY <1>12, <1>13, <1>14, <2>2
    <3>. QED  BY <1>9, <2>2, <3>1, <3>2
  <2>. QED  BY <1>9, <2>1, <2>2
<1>20. Played(c)
  BY <1>8, <1>11, <1>18, <1>19 DEF Played, V, depth
<1>21. c \in Brackets
  <2>. HIDE DEF d
  <2>. QED  BY <1>1, <1>7, <1>8, <1>9, <1>20 DEF Brackets
<1>. QED  BY <1>5, <1>21 DEF c

(***************************************************************************)
(* The wall flow                                                           *)
(***************************************************************************)
\* What parse() requires of cells c and rejections r.
Agree(c, r) ==
  /\ \A i \in DOMAIN c : c[i].id = None => c[i].rejected = TRUE
  /\ \A i \in DOMAIN c :
       c[i].id # None =>
         /\ (c[i].rejected = TRUE) <=> (c[i].id \in Elements(r))
         /\ \A j \in DOMAIN c : c[j].id = c[i].id => i = j

Candidates(c) == {id \in Photos : Wall!Candidate(id) \in Elements(c)}

\* No photo is rejected twice, and each is a candidate or rejected.
WholeWalls ==
  {w \in Walls : /\ \A i, j \in DOMAIN w.rejected : w.rejected[i] = w.rejected[j] => i = j
                 /\ Photos \subseteq Candidates(w.cells) \cup Elements(w.rejected)}

LEMMA CellTypes ==
  ASSUME NEW c \in Seq(Cell), NEW i \in DOMAIN c
  PROVE  /\ c[i].id \in Photos \cup {None} /\ c[i].rejected \in BOOLEAN
         /\ c[i] = [id |-> c[i].id, rejected |-> c[i].rejected]
<1>1. c[i] \in Cell
  OBVIOUS
<1>. QED  BY <1>1 DEF Cell

LEMMA WallTypes ==
  ASSUME NEW w \in Walls
  PROVE  /\ w.cells \in Seq(Cell) /\ w.rejected \in Seq(Photos) /\ w.mode \in Wall!Modes
         /\ w = [cells |-> w.cells, rejected |-> w.rejected, input |-> snapshot, mode |-> w.mode]
         /\ Wall!Readable(w) /\ Agree(w.cells, w.rejected)
<1>1. /\ w.cells \in Seq(Cell) /\ w.rejected \in Seq(Photos) /\ w.mode \in Wall!Modes
      /\ w = [cells |-> w.cells, rejected |-> w.rejected, input |-> snapshot, mode |-> w.mode]
      /\ Wall!Readable(w)
  BY DEF Walls
<1>2. \A i \in DOMAIN w.cells : w.cells[i].rejected \in BOOLEAN
  BY <1>1, CellTypes
<1>3. Agree(w.cells, w.rejected)
  BY <1>1, <1>2 DEF Wall!Readable, Agree
<1>. QED  BY <1>1, <1>3

LEMMA MakesWall ==
  ASSUME NEW c \in Seq(Cell), NEW r \in Seq(Photos), NEW m \in Wall!Modes, Agree(c, r)
  PROVE  [cells |-> c, rejected |-> r, input |-> snapshot, mode |-> m] \in Walls
<1>. DEFINE w == [cells |-> c, rejected |-> r, input |-> snapshot, mode |-> m]
<1>1. w.cells = c /\ w.rejected = r /\ w.input = snapshot
  OBVIOUS
<1>2. \A i \in DOMAIN c : c[i].id \in Photos \cup {None} /\ c[i].rejected \in BOOLEAN
  BY CellTypes
<1>3. w \in [cells : Seq(Cell), rejected : Seq(Photos), input : {snapshot}, mode : Wall!Modes]
  OBVIOUS
<1>. HIDE DEF w
<1>4. Wall!Readable(w)
  BY <1>1, <1>2 DEF Wall!Readable, Agree, Photos
<1>. QED  BY <1>3, <1>4 DEF Walls, w

\* Some of the cells agree with what the kept photos were rejected as.
LEMMA PickedAgree ==
  ASSUME NEW c \in Seq(Cell), NEW r, NEW q, NEW T \in SUBSET DOMAIN c, Agree(c, r),
         \A i \in T : c[i].id # None => (c[i].id \in Elements(r) <=> c[i].id \in Elements(q))
  PROVE  Picked(c, T) \in Seq(Cell) /\ Agree(Picked(c, T), q)
<1>. DEFINE d == Picked(c, T)
<1>1. /\ d \in Seq(Cell)
      /\ \A k \in DOMAIN d : \E i \in T : d[k] = c[i]
      /\ \A k, l \in DOMAIN d : k # l => \E i, j \in T : i # j /\ d[k] = c[i] /\ d[l] = c[j]
  BY PickedElements
<1>. HIDE DEF d
<1>2. ASSUME NEW k \in DOMAIN d
      PROVE  /\ d[k].id = None => d[k].rejected = TRUE
             /\ d[k].id # None => ((d[k].rejected = TRUE) <=> (d[k].id \in Elements(q)))
  <2>1. PICK i \in T : d[k] = c[i]
    BY <1>1
  <2>. QED  BY <2>1 DEF Agree
<1>3. ASSUME NEW k \in DOMAIN d, NEW l \in DOMAIN d, d[k].id # None, d[l].id = d[k].id, k # l
      PROVE  FALSE
  <2>1. PICK i, j \in T : i # j /\ d[k] = c[i] /\ d[l] = c[j]
    BY <1>1, <1>3
  <2>. QED  BY <1>3, <2>1 DEF Agree
<1>. QED  BY <1>1, <1>2, <1>3 DEF Agree, d

LEMMA WallStarts ==
  ASSUME ComparisonAssumption, Selected, NEW m \in Wall!Modes
  PROVE  Wall!Initialise(snapshot, m) \in Walls
<1>. DEFINE c == [i \in DOMAIN snapshot |-> Wall!Candidate(snapshot[i])]
<1>1. snapshot \in Seq(Photos) /\ Len(snapshot) \in Nat /\ None \notin Photos
  BY SelectionTypes
<1>2. DOMAIN snapshot = 1..Len(snapshot) /\ \A i \in DOMAIN snapshot : snapshot[i] \in Photos
  BY <1>1
<1>3. \A i \in DOMAIN snapshot : Wall!Candidate(snapshot[i]) \in Cell
  BY <1>2 DEF Wall!Candidate, Cell
<1>4. c \in Seq(Cell)
  BY <1>1, <1>2, <1>3
<1>5. /\ DOMAIN c = DOMAIN snapshot
      /\ \A i \in DOMAIN c : c[i].id = snapshot[i] /\ c[i].rejected = FALSE
  BY DEF Wall!Candidate
<1>. HIDE DEF c
<1>6. Agree(c, << >>)
  <2>1. Elements(<< >>) = {}
    OBVIOUS
  <2>2. \A i \in DOMAIN c : c[i].id # None
    BY <1>1, <1>2, <1>5
  <2>. HIDE DEF Elements
  <2>. QED  BY <1>5, <2>1, <2>2, SelectionIsDistinct DEF Agree
<1>7. << >> \in Seq(Photos)
  OBVIOUS
<1>8. [cells |-> c, rejected |-> << >>, input |-> snapshot, mode |-> m] \in Walls
  BY <1>4, <1>6, <1>7, MakesWall
<1>. QED  BY <1>8 DEF Wall!Initialise, c

\* An elimination takes one photo out of the candidates and rejects it; anything
\* else that a wall accepts leaves both as they are.
Link(v, w) ==
  \/ w.rejected = v.rejected /\ Candidates(w.cells) = Candidates(v.cells)
  \/ \E id \in Candidates(v.cells) :
       /\ w.rejected = Append(v.rejected, id)
       /\ Candidates(w.cells) = Candidates(v.cells) \ {id}

LEMMA PlaceOfCandidate ==
  ASSUME NEW w \in Walls, NEW id, Wall!Position(w, id) # 0
  PROVE  /\ Wall!Position(w, id) \in DOMAIN w.cells
         /\ w.cells[Wall!Position(w, id)] = Wall!Candidate(id)
BY DEF Wall!Position

LEMMA IsCandidate ==
  ASSUME NEW c \in Seq(Cell), NEW x \in Photos
  PROVE  x \in Candidates(c) <=> \E i \in DOMAIN c : c[i].id = x /\ c[i].rejected = FALSE
<1>1. \A i \in DOMAIN c : c[i] = [id |-> c[i].id, rejected |-> c[i].rejected]
  BY CellTypes
<1>2. \A i \in DOMAIN c : c[i] = Wall!Candidate(x) <=> c[i].id = x /\ c[i].rejected = FALSE
  BY <1>1 DEF Wall!Candidate
<1>. QED  BY <1>2 DEF Candidates

LEMMA VacatedRejecting ==
  ASSUME NEW w \in Walls, NEW d, NEW id
  PROVE  Wall!Rejecting([w EXCEPT !.cells = d], id) =
           [cells |-> d, rejected |-> Append(w.rejected, id), input |-> snapshot, mode |-> w.mode]
<1>1. [w EXCEPT !.cells = d] = [cells |-> d, rejected |-> w.rejected, input |-> snapshot, mode |-> w.mode]
  BY WallTypes
<1>. DEFINE v == [w EXCEPT !.cells = d]
            q == Append(v.rejected, id)
<1>2. q = Append(w.rejected, id)
  BY <1>1
<1>3. Wall!Rejecting(v, id) = [v EXCEPT !.rejected = q]
  BY DEF Wall!Rejecting
<1>4. v = [cells |-> d, rejected |-> w.rejected, input |-> snapshot, mode |-> w.mode]
  BY <1>1
<1>. HIDE DEF q, v
<1>5. [v EXCEPT !.rejected = q] = [cells |-> d, rejected |-> q, input |-> snapshot, mode |-> w.mode]
  BY <1>4
<1>. QED  BY <1>2, <1>3, <1>5 DEF v

LEMMA WallEliminates ==
  ASSUME ComparisonAssumption, Selected, NEW w \in Walls, NEW id, Wall!Eliminate(w, id).accepted
  PROVE  /\ Wall!Eliminate(w, id).payload \in Walls
         /\ id \in Candidates(w.cells) /\ id \in Photos
         /\ Wall!Eliminate(w, id).payload.rejected = Append(w.rejected, id)
         /\ Candidates(Wall!Eliminate(w, id).payload.cells) = Candidates(w.cells) \ {id}
<1>. DEFINE p == Wall!Position(w, id)
            v == Wall!Eliminate(w, id).payload
            r == Append(w.rejected, id)
            c == w.cells
<1>1. /\ c \in Seq(Cell) /\ w.rejected \in Seq(Photos) /\ w.mode \in Wall!Modes
      /\ w = [cells |-> c, rejected |-> w.rejected, input |-> snapshot, mode |-> w.mode]
      /\ Agree(c, w.rejected)
  BY WallTypes
<1>2. /\ id # None /\ p # 0
      /\ v = Wall!Rejecting(Wall!Vacated(w, p), id)
  BY DEF Wall!Eliminate, Wall!Refused, Wall!Accept
<1>3. p \in DOMAIN c /\ c[p] = Wall!Candidate(id) /\ c[p].id = id /\ c[p].rejected = FALSE
  BY <1>2, PlaceOfCandidate DEF Wall!Candidate
<1>4. id \in Photos
  BY <1>1, <1>2, <1>3, CellTypes
<1>5. r \in Seq(Photos) /\ Elements(r) = Elements(w.rejected) \cup {id}
  <2>1. /\ r \in Seq(Photos) /\ DOMAIN r = DOMAIN w.rejected \cup {Len(w.rejected) + 1}
        /\ \A i \in DOMAIN w.rejected : r[i] = w.rejected[i]
        /\ r[Len(w.rejected) + 1] = id
    BY <1>1, <1>4
  <2>. HIDE DEF r
  <2>. QED  BY <2>1
<1>6. \A i \in DOMAIN c : i # p => c[i].id # id
  BY <1>1, <1>2, <1>3 DEF Agree
<1>9. id \in Candidates(c)
  BY <1>3, <1>4 DEF Candidates
<1>. HIDE DEF v, p, r
<1>7. CASE w.mode = "fixed"
  <2>. DEFINE d == [c EXCEPT ![p] = Wall!Placeholder(id)]
  <2>1. /\ DOMAIN d = DOMAIN c /\ d[p].id = id /\ d[p].rejected = TRUE
        /\ \A i \in DOMAIN c : i # p => d[i] = c[i]
    BY <1>3 DEF Wall!Placeholder
  <2>2. d \in Seq(Cell)
    <3>1. Wall!Placeholder(id) \in Cell
      BY <1>4 DEF Wall!Placeholder, Cell
    <3>. QED  BY <1>1, <1>3, <3>1
  <2>3. v = [cells |-> d, rejected |-> r, input |-> snapshot, mode |-> w.mode]
    <3>1. Wall!Vacated(w, p) = [w EXCEPT !.cells = d]
      <4>1. [c EXCEPT ![p] = Wall!Placeholder(c[p].id)] = d
        BY <1>3
      <4>. HIDE DEF d
      <4>. QED  BY <1>7, <4>1 DEF Wall!Vacated
    <3>. HIDE DEF d
    <3>2. Wall!Rejecting([w EXCEPT !.cells = d], id) =
            [cells |-> d, rejected |-> r, input |-> snapshot, mode |-> w.mode]
      BY VacatedRejecting DEF r
    <3>. QED  BY <1>2, <3>1, <3>2
  <2>. HIDE DEF d
  <2>4. Agree(d, r)
    <3>1. \A i \in DOMAIN d : d[i].id = None => d[i].rejected = TRUE
      BY <1>1, <1>2, <2>1 DEF Agree
    <3>2. ASSUME NEW i \in DOMAIN d, d[i].id # None PROVE (d[i].rejected = TRUE) <=> (d[i].id \in Elements(r))
      <4>. HIDE DEF Elements
      <4>1. CASE i = p
        BY <1>5, <2>1, <4>1
      <4>2. CASE i # p
        <5>1. d[i] = c[i] /\ c[i].id # id /\ i \in DOMAIN c
          BY <1>6, <2>1, <4>2
        <5>. QED  BY <1>1, <1>5, <3>2, <5>1 DEF Agree
      <4>. QED  BY <4>1, <4>2
    <3>3. ASSUME NEW i \in DOMAIN d, d[i].id # None, NEW j \in DOMAIN d, d[j].id = d[i].id PROVE i = j
      BY <1>1, <1>6, <2>1, <3>3 DEF Agree
    <3>. QED  BY <3>1, <3>2, <3>3 DEF Agree
  <2>5. v \in Walls
    BY <1>1, <1>5, <2>2, <2>3, <2>4, MakesWall
  <2>6. Candidates(d) = Candidates(c) \ {id}
    <3>1. ASSUME NEW x \in Photos
          PROVE  (x \in Candidates(d)) <=> (x \in Candidates(c) /\ x # id)
      <4>1. x \in Candidates(d) <=> \E i \in DOMAIN d : d[i].id = x /\ d[i].rejected = FALSE
        BY <2>2, IsCandidate
      <4>2. x \in Candidates(c) <=> \E i \in DOMAIN c : c[i].id = x /\ c[i].rejected = FALSE
        BY <1>1, IsCandidate
      <4>3. \A i \in DOMAIN c : d[i].id = x /\ d[i].rejected = FALSE
                                 <=> c[i].id = x /\ c[i].rejected = FALSE /\ x # id
        BY <1>3, <1>6, <2>1
      <4>. QED  BY <2>1, <4>1, <4>2, <4>3
    <3>. QED  BY <3>1 DEF Candidates
  <2>. QED  BY <1>4, <1>9, <2>3, <2>5, <2>6 DEF v, r
<1>8. CASE w.mode # "fixed"
  <2>. DEFINE T == DOMAIN c \ {p}
              d == Picked(c, T)
  <2>6. T \in SUBSET DOMAIN c
    OBVIOUS
  <2>1. v = [cells |-> d, rejected |-> r, input |-> snapshot, mode |-> w.mode]
    <3>1. Wall!Without(c, p) = d
      BY WallPicks DEF Wall!Without
    <3>. HIDE DEF d
    <3>2. Wall!Vacated(w, p) = [w EXCEPT !.cells = d]
      BY <1>8, <3>1 DEF Wall!Vacated
    <3>3. Wall!Rejecting([w EXCEPT !.cells = d], id) =
            [cells |-> d, rejected |-> r, input |-> snapshot, mode |-> w.mode]
      BY VacatedRejecting DEF r
    <3>. QED  BY <1>2, <3>2, <3>3
  <2>2. d \in Seq(Cell) /\ Agree(d, r)
    <3>1. \A i \in T : c[i].id # None => (c[i].id \in Elements(w.rejected) <=> c[i].id \in Elements(r))
      <4>. HIDE DEF Elements
      <4>. QED  BY <1>5, <1>6
    <3>. QED  BY <1>1, <3>1, PickedAgree
  <2>3. /\ \A k \in DOMAIN d : \E i \in T : d[k] = c[i]
        /\ \A i \in T : \E k \in DOMAIN d : d[k] = c[i]
    <3>1. c \in Seq(Cell)
      BY <1>1
    <3>. HIDE DEF T, c, d, Elements
    <3>2. /\ \A k \in DOMAIN Picked(c, T) : \E i \in T : Picked(c, T)[k] = c[i]
          /\ \A i \in T : \E k \in DOMAIN Picked(c, T) : Picked(c, T)[k] = c[i]
      BY <2>6, <3>1, PickedElements
    <3>. QED  BY <3>2 DEF d
  <2>. HIDE DEF d
  <2>4. v \in Walls
    BY <1>1, <1>5, <2>1, <2>2, MakesWall
  <2>5. Candidates(d) = Candidates(c) \ {id}
    <3>1. ASSUME NEW x \in Photos
          PROVE  (x \in Candidates(d)) <=> (x \in Candidates(c) /\ x # id)
      <4>1. x \in Candidates(d) <=> \E i \in DOMAIN d : d[i].id = x /\ d[i].rejected = FALSE
        BY <2>2, IsCandidate
      <4>2. x \in Candidates(c) <=> \E i \in DOMAIN c : c[i].id = x /\ c[i].rejected = FALSE
        BY <1>1, IsCandidate
      <4>3. \A i \in T : c[i].id # id
        BY <1>6
      <4>4. \A i \in DOMAIN c : c[i].id = x /\ x # id => i \in T
        BY <1>3
      <4>. HIDE DEF T
      <4>. QED  BY <2>3, <2>6, <4>1, <4>2, <4>3, <4>4
    <3>. QED  BY <3>1 DEF Candidates
  <2>. QED  BY <1>4, <1>9, <2>1, <2>4, <2>5 DEF v, r
<1>. QED  BY <1>7, <1>8

\* Compacting drops the cells that are held and nothing else.
LEMMA WallCompacts ==
  ASSUME NEW w \in Walls
  PROVE  /\ Wall!Compacted(w) \in Walls
         /\ Wall!Compacted(w).rejected = w.rejected
         /\ Candidates(Wall!Compacted(w).cells) = Candidates(w.cells)
<1>. DEFINE c == w.cells
            T == {i \in DOMAIN c : Wall!Holds(c[i])}
            d == Picked(c, T)
<1>1. /\ c \in Seq(Cell) /\ w.rejected \in Seq(Photos) /\ w.mode \in Wall!Modes
      /\ w = [cells |-> c, rejected |-> w.rejected, input |-> snapshot, mode |-> w.mode]
      /\ Agree(c, w.rejected)
  BY WallTypes
<1>2. T \in SUBSET DOMAIN c
  OBVIOUS
<1>3. /\ d \in Seq(Cell) /\ Agree(d, w.rejected)
      /\ \A k \in DOMAIN d : \E i \in T : d[k] = c[i]
      /\ \A i \in T : \E k \in DOMAIN d : d[k] = c[i]
  <2>. HIDE DEF c, T
  <2>1. d \in Seq(Cell) /\ Agree(d, w.rejected)
    BY <1>1, <1>2, PickedAgree
  <2>2. /\ \A k \in DOMAIN d : \E i \in T : d[k] = c[i]
        /\ \A i \in T : \E k \in DOMAIN d : d[k] = c[i]
    BY <1>1, <1>2, PickedElements
  <2>. QED  BY <2>1, <2>2
<1>4. Wall!Compacted(w) = [w EXCEPT !.cells = d]
  BY WallPicks DEF Wall!Compacted
<1>5. \A i \in DOMAIN c : i \in T <=> c[i].rejected = FALSE
  BY <1>1, CellTypes DEF Wall!Holds
<1>. HIDE DEF T, d
<1>6. Wall!Compacted(w) = [cells |-> d, rejected |-> w.rejected, input |-> snapshot, mode |-> w.mode]
  BY <1>1, <1>4
<1>7. Candidates(d) = Candidates(c)
  <2>1. ASSUME NEW x \in Photos PROVE x \in Candidates(d) <=> x \in Candidates(c)
    <3>1. x \in Candidates(d) <=> \E i \in DOMAIN d : d[i].id = x /\ d[i].rejected = FALSE
      BY <1>3, IsCandidate
    <3>2. x \in Candidates(c) <=> \E i \in DOMAIN c : c[i].id = x /\ c[i].rejected = FALSE
      BY <1>1, IsCandidate
    <3>. QED  BY <1>2, <1>3, <1>5, <3>1, <3>2
  <2>. QED  BY <2>1 DEF Candidates
<1>8. Wall!Compacted(w) \in Walls
  BY <1>1, <1>3, <1>6, MakesWall
<1>. QED  BY <1>6, <1>7, <1>8

LEMMA WallTurns ==
  ASSUME NEW w \in Walls, NEW m \in Wall!Modes, Wall!SetLayoutMode(w, m).accepted
  PROVE  /\ Wall!SetLayoutMode(w, m).payload \in Walls
         /\ Wall!SetLayoutMode(w, m).payload.rejected = w.rejected
         /\ Candidates(Wall!SetLayoutMode(w, m).payload.cells) = Candidates(w.cells)
<1>. DEFINE v == [w EXCEPT !.mode = m]
<1>1. v = [cells |-> w.cells, rejected |-> w.rejected, input |-> snapshot, mode |-> m]
  BY WallTypes
<1>2. v \in Walls
  BY <1>1, WallTypes, MakesWall
<1>3. Wall!SetLayoutMode(w, m).payload = IF m = "reflow" THEN Wall!Compacted(v) ELSE v
  BY DEF Wall!SetLayoutMode, Wall!Refused, Wall!Accept
<1>. HIDE DEF v
<1>. QED  BY <1>1, <1>2, <1>3, WallCompacts

LEMMA WallKeepsWalls ==
  ASSUME ComparisonAssumption, Selected, NEW w \in Walls, NEW a, Wall!Reduce(w, a).accepted,
         \/ \E id : a = Eliminating(id)
         \/ \E m \in Wall!Modes : a = Mode(m)
         \/ a = Compacting
  PROVE  Wall!Reduce(w, a).payload \in Walls /\ Link(w, Wall!Reduce(w, a).payload)
<1>1. Wall!Readable(w)
  BY WallTypes
<1>2. ASSUME NEW id, a = Eliminating(id) PROVE Wall!Reduce(w, a) = Wall!Eliminate(w, id)
  BY <1>1, <1>2 DEF Wall!Reduce, Eliminating
<1>3. ASSUME NEW m, a = Mode(m) PROVE Wall!Reduce(w, a) = Wall!SetLayoutMode(w, m)
  BY <1>1, <1>3 DEF Wall!Reduce, Mode
<1>4. ASSUME a = Compacting PROVE Wall!Reduce(w, a) = Wall!Compact(w)
  BY <1>1, <1>4 DEF Wall!Reduce, Compacting
<1>5. ASSUME NEW id, a = Eliminating(id)
      PROVE  Wall!Reduce(w, a).payload \in Walls /\ Link(w, Wall!Reduce(w, a).payload)
  <2>1. Wall!Eliminate(w, id).accepted /\ Wall!Reduce(w, a) = Wall!Eliminate(w, id)
    BY <1>2, <1>5
  <2>. HIDE DEF Link
  <2>2. /\ Wall!Reduce(w, a).payload \in Walls /\ id \in Candidates(w.cells)
        /\ Wall!Reduce(w, a).payload.rejected = Append(w.rejected, id)
        /\ Candidates(Wall!Reduce(w, a).payload.cells) = Candidates(w.cells) \ {id}
    BY <2>1, WallEliminates
  <2>. DEFINE v == Wall!Reduce(w, a).payload
  <2>3. v \in Walls /\ id \in Candidates(w.cells) /\ v.rejected = Append(w.rejected, id)
        /\ Candidates(v.cells) = Candidates(w.cells) \ {id}
    BY <2>2
  <2>. HIDE DEF v
  <2>4. Link(w, v)
    BY <2>3 DEF Link
  <2>. QED  BY <2>3, <2>4 DEF v
<1>6. ASSUME NEW m \in Wall!Modes, a = Mode(m)
      PROVE  Wall!Reduce(w, a).payload \in Walls /\ Link(w, Wall!Reduce(w, a).payload)
  BY <1>3, <1>6, WallTurns DEF Link
<1>7. ASSUME a = Compacting
      PROVE  Wall!Reduce(w, a).payload \in Walls /\ Link(w, Wall!Reduce(w, a).payload)
  <2>1. Wall!Reduce(w, a).payload = Wall!Compacted(w)
    BY <1>4, <1>7 DEF Wall!Compact, Wall!Refused, Wall!Accept
  <2>. QED  BY <2>1, WallCompacts DEF Link
<1>. QED  BY <1>5, <1>6, <1>7

\* A step of a wall loses no photo and rejects none again.
LEMMA LinkKeepsWhole ==
  ASSUME NEW v \in WholeWalls, NEW w \in Walls, Link(v, w)
  PROVE  w \in WholeWalls
<1>1. /\ v \in Walls
      /\ \A i, j \in DOMAIN v.rejected : v.rejected[i] = v.rejected[j] => i = j
      /\ Photos \subseteq Candidates(v.cells) \cup Elements(v.rejected)
  BY DEF WholeWalls
<1>2. CASE w.rejected = v.rejected /\ Candidates(w.cells) = Candidates(v.cells)
  <2>. HIDE DEF Elements
  <2>. QED  BY <1>1, <1>2 DEF WholeWalls
<1>3. ASSUME NEW id \in Candidates(v.cells), w.rejected = Append(v.rejected, id),
             Candidates(w.cells) = Candidates(v.cells) \ {id}
      PROVE  w \in WholeWalls
  <2>1. v.rejected \in Seq(Photos) /\ v.cells \in Seq(Cell) /\ Agree(v.cells, v.rejected) /\ id \in Photos
    BY <1>1, <1>3, WallTypes DEF Candidates
  <2>2. id \notin Elements(v.rejected) \/ id = None
    <3>1. PICK i \in DOMAIN v.cells : v.cells[i].id = id /\ v.cells[i].rejected = FALSE
      BY <1>3, <2>1, IsCandidate
    <3>2. id # None => ((v.cells[i].rejected = TRUE) <=> (id \in Elements(v.rejected)))
      BY <2>1, <3>1 DEF Agree
    <3>. QED  BY <3>1, <3>2
  <2>. DEFINE r == w.rejected
              q == v.rejected
  <2>3. /\ DOMAIN r = DOMAIN q \cup {Len(q) + 1} /\ Len(q) + 1 \notin DOMAIN q
        /\ \A i \in DOMAIN q : r[i] = q[i]
        /\ r[Len(q) + 1] = id
    BY <1>3, <2>1
  <2>. HIDE DEF r, q
  <2>4. id # None
    <3>1. PICK i \in DOMAIN v.cells : v.cells[i].id = id /\ v.cells[i].rejected = FALSE
      BY <1>3, <2>1, IsCandidate
    <3>. QED  BY <2>1, <3>1 DEF Agree
  <2>5. \A i, j \in DOMAIN r : r[i] = r[j] => i = j
    <3>1. \A i, j \in DOMAIN q : q[i] = q[j] => i = j
      BY <1>1 DEF q
    <3>2. \A i \in DOMAIN q : q[i] # id
      BY <2>2, <2>4 DEF q
    <3>. QED  BY <2>3, <3>1, <3>2
  <2>6. Elements(r) = Elements(q) \cup {id}
    BY <2>3
  <2>7. Photos \subseteq Candidates(w.cells) \cup Elements(r)
    <3>. HIDE DEF Elements
    <3>. QED  BY <1>1, <1>3, <2>6 DEF q
  <2>. QED  BY <2>5, <2>7 DEF WholeWalls, r
<1>. QED  BY <1>2, <1>3 DEF Link

LEMMA WallStartsWhole ==
  ASSUME ComparisonAssumption, Selected, NEW m \in Wall!Modes
  PROVE  Wall!Initialise(snapshot, m) \in WholeWalls
<1>. DEFINE w == Wall!Initialise(snapshot, m)
<1>1. w \in Walls
  BY WallStarts
<1>2. w.rejected = << >> /\ w.cells = [i \in DOMAIN snapshot |-> Wall!Candidate(snapshot[i])]
  BY DEF Wall!Initialise
<1>. HIDE DEF w
<1>3. \A i \in DOMAIN snapshot : Wall!Candidate(snapshot[i]) \in Elements(w.cells)
  BY <1>2
<1>4. Photos \subseteq Candidates(w.cells)
  BY <1>3 DEF Candidates, Photos
<1>5. DOMAIN w.rejected = {}
  BY <1>2
<1>. QED  BY <1>1, <1>4, <1>5 DEF WholeWalls, w

\* An older build forgets which photos the held cells were of.
LEMMA OlderBuildKeepsWalls ==
  ASSUME NEW w \in Walls
  PROVE  /\ Wall!Anonymous(w) \in Walls
         /\ Wall!Anonymous(w).rejected = w.rejected
         /\ Candidates(Wall!Anonymous(w).cells) = Candidates(w.cells)
<1>. DEFINE c == w.cells
            d == [i \in DOMAIN c |-> IF Wall!Holds(c[i]) THEN c[i] ELSE Wall!Placeholder(None)]
<1>1. /\ c \in Seq(Cell) /\ w.rejected \in Seq(Photos) /\ w.mode \in Wall!Modes
      /\ w = [cells |-> c, rejected |-> w.rejected, input |-> snapshot, mode |-> w.mode]
      /\ Agree(c, w.rejected)
  BY WallTypes
<1>2. Wall!Placeholder(None) \in Cell
  BY DEF Wall!Placeholder, Cell
<1>3. /\ DOMAIN d = DOMAIN c
      /\ \A i \in DOMAIN c : d[i] = c[i] \/ (d[i].id = None /\ d[i].rejected = TRUE)
      /\ \A i \in DOMAIN c : c[i].rejected = FALSE => d[i] = c[i]
  BY DEF Wall!Placeholder, Wall!Holds
<1>4. d \in Seq(Cell)
  BY <1>1, <1>2
<1>5. Wall!Anonymous(w) = [w EXCEPT !.cells = d]
  BY DEF Wall!Anonymous
<1>. HIDE DEF d
<1>6. Wall!Anonymous(w) = [cells |-> d, rejected |-> w.rejected, input |-> snapshot, mode |-> w.mode]
  BY <1>1, <1>5
<1>7. Agree(d, w.rejected)
  <2>. HIDE DEF Elements
  <2>. QED  BY <1>1, <1>3 DEF Agree
<1>8. Candidates(d) = Candidates(c)
  <2>1. ASSUME NEW x \in Photos PROVE x \in Candidates(d) <=> x \in Candidates(c)
    <3>1. x \in Candidates(d) <=> \E i \in DOMAIN d : d[i].id = x /\ d[i].rejected = FALSE
      BY <1>4, IsCandidate
    <3>2. x \in Candidates(c) <=> \E i \in DOMAIN c : c[i].id = x /\ c[i].rejected = FALSE
      BY <1>1, IsCandidate
    <3>. QED  BY <1>3, <3>1, <3>2
  <2>. QED  BY <2>1 DEF Candidates
<1>9. Wall!Anonymous(w) \in Walls
  BY <1>1, <1>4, <1>6, <1>7, MakesWall
<1>. QED  BY <1>6, <1>8, <1>9

(***************************************************************************)
(* The states of a comparison and its undo stack                           *)
(***************************************************************************)
States == [revision : Nat \ {0}, payload : IF flow = "versus" THEN Brackets ELSE WholeWalls]
Made == {d \in [before : States, after : States] :
           flow = "wall" => Link(d.before.payload, d.after.payload)}

\* What runs, what is on the undo stack and what was put by as a draft are all
\* states of the flow, and each decision starts from what the one before made.
Kept ==
  /\ flow \in {"versus", "wall"} /\ Selected
  /\ Running => state \in States
  /\ ~Running => stored \in States /\ decisions = << >>
  /\ decisions \in Seq(Made) /\ cursor \in 0..Len(decisions)
  /\ cursor > 0 => decisions[cursor].after = state
  /\ cursor < Len(decisions) => decisions[cursor + 1].before = state
  /\ \A k \in 1 .. Len(decisions) - 1 : decisions[k].after = decisions[k + 1].before

LEMMA StatesStay ==
  ASSUME UNCHANGED <<flow, snapshot>>
  PROVE  States' = States /\ Made' = Made /\ Selected' = Selected
<1>1. Photos' = Photos /\ Selected' = Selected
  BY DEF Photos, Selected
<1>2. Brackets' = Brackets /\ WholeWalls' = WholeWalls
  BY <1>1 DEF Brackets, Walls, DecisionOfMatch, Cell, WholeWalls, Candidates
<1>3. States' = States
  BY <1>2 DEF States
<1>4. Made' = Made
  BY <1>1, <1>3 DEF Made, Link, Candidates
<1>. QED  BY <1>1, <1>3, <1>4

LEMMA StateNotAbsent ==
  ASSUME NEW s \in States PROVE s # NoState
BY DEF States, NoState

LEMMA MadeTypes ==
  ASSUME NEW d \in Seq(Made), NEW k \in 1..Len(d)
  PROVE  /\ d[k].before \in States /\ d[k].after \in States
         /\ flow = "wall" => Link(d[k].before.payload, d[k].after.payload)
<1>1. d[k] \in Made
  OBVIOUS
<1>. QED  BY <1>1 DEF Made

LEMMA CutAndAppend ==
  ASSUME NEW X, NEW s \in Seq(X), NEW n \in 0..Len(s), NEW e \in X
  PROVE  /\ Append(SubSeq(s, 1, n), e) \in Seq(X)
         /\ Len(Append(SubSeq(s, 1, n), e)) = n + 1
         /\ \A k \in 1..n : Append(SubSeq(s, 1, n), e)[k] = s[k]
         /\ Append(SubSeq(s, 1, n), e)[n + 1] = e
<1>1. SubSeq(s, 1, n) \in Seq(X) /\ Len(SubSeq(s, 1, n)) = n /\ \A k \in 1..n : SubSeq(s, 1, n)[k] = s[k]
  <2>1. n \in Nat /\ n <= Len(s) /\ Len(s) \in Nat
    OBVIOUS
  <2>. QED  BY <2>1
<1>. DEFINE t == SubSeq(s, 1, n)
<1>. HIDE DEF t
<1>2. /\ Append(t, e) \in Seq(X) /\ Len(Append(t, e)) = n + 1
      /\ \A k \in 1..n : Append(t, e)[k] = s[k]
      /\ Append(t, e)[n + 1] = e
  BY <1>1 DEF t
<1>. QED  BY <1>2 DEF t

\* The actions that the views turn gestures into.
Deciding(a) == \/ \E id : a = Eliminating(id)
               \/ flow = "wall" /\ ((\E m \in Wall!Modes : a = Mode(m)) \/ a = Compacting)

\* What is accepted leads from a state of the flow to a state of the flow.
LEMMA AcceptedIsMade ==
  ASSUME ComparisonAssumption, Kept, Running, NEW a, Reduce(state, a).accepted, Deciding(a)
  PROVE  Result(a) \in States /\ [before |-> state, after |-> Result(a)] \in Made
<1>1. state \in States /\ state.revision \in Nat \ {0} /\ Selected
  BY DEF Kept, States
<1>2. CASE flow = "versus"
  <2>1. state.payload \in Brackets
    BY <1>1, <1>2 DEF States
  <2>2. Versus!Reduce(state.payload, a).accepted /\ Reduce(state, a) = Versus!Reduce(state.payload, a)
    BY <1>2 DEF Reduce
  <2>3. Versus!Reduce(state.payload, a).payload \in Brackets
    BY <1>1, <2>1, <2>2, VersusKeepsBrackets
  <2>4. Result(a) \in States
    BY <1>1, <1>2, <2>2, <2>3 DEF Result, States
  <2>. QED  BY <1>1, <1>2, <2>4 DEF Made
<1>3. CASE flow = "wall"
  <2>1. state.payload \in Walls /\ state.payload \in WholeWalls
    BY <1>1, <1>3 DEF States, WholeWalls
  <2>2. Wall!Reduce(state.payload, a).accepted /\ Reduce(state, a) = Wall!Reduce(state.payload, a)
    BY <1>3 DEF Reduce
  <2>3. /\ Wall!Reduce(state.payload, a).payload \in Walls
        /\ Link(state.payload, Wall!Reduce(state.payload, a).payload)
    BY <1>1, <1>3, <2>1, <2>2, WallKeepsWalls DEF Deciding
  <2>4. Wall!Reduce(state.payload, a).payload \in WholeWalls
    BY <2>1, <2>3, LinkKeepsWhole
  <2>5. Result(a) \in States /\ Result(a).payload = Wall!Reduce(state.payload, a).payload
    BY <1>1, <1>3, <2>2, <2>4 DEF Result, States
  <2>. QED  BY <1>1, <2>3, <2>5 DEF Made
<1>. QED  BY <1>2, <1>3 DEF Kept

LEMMA DispatchKept ==
  ASSUME ComparisonAssumption, Kept, Running, NEW a, NEW e, Deciding(a), Dispatch(a, e),
         UNCHANGED <<flow, snapshot, stored>>
  PROVE  Kept'
<1>1. States' = States /\ Made' = Made /\ Selected' = Selected
  BY StatesStay
<1>2. CASE ~Accepted(a, e)
  BY <1>1, <1>2 DEF Dispatch, Kept, Running, NoState
<1>3. CASE Accepted(a, e)
  <2>. DEFINE d == [before |-> state, after |-> Result(a)]
              t == Append(SubSeq(decisions, 1, cursor), d)
  <2>1. Result(a) \in States /\ d \in Made
    BY <1>3, AcceptedIsMade DEF Accepted
  <2>2. d.before = state /\ d.after = Result(a)
    OBVIOUS
  <2>3. decisions' = t /\ cursor' = cursor + 1 /\ state' = Result(a)
    BY <1>3 DEF Dispatch, ApplyState
  <2>4. decisions \in Seq(Made) /\ cursor \in 0..Len(decisions) /\ Len(decisions) \in Nat
    BY DEF Kept
  <2>. HIDE DEF d
  <2>5. /\ t \in Seq(Made) /\ Len(t) = cursor + 1
        /\ \A k \in 1..cursor : t[k] = decisions[k]
        /\ t[cursor + 1] = d
    BY <2>1, <2>4, CutAndAppend
  <2>. HIDE DEF t
  <2>6. \A k \in 1..cursor : t[k].after = t[k + 1].before
    <3>1. ASSUME NEW k \in 1..cursor, k < cursor PROVE t[k].after = t[k + 1].before
      BY <2>4, <2>5, <3>1 DEF Kept
    <3>2. cursor > 0 => t[cursor].after = t[cursor + 1].before
      BY <2>2, <2>4, <2>5 DEF Kept
    <3>. QED  BY <2>4, <3>1, <3>2
  <2>7. Running'
    BY DEF Running, NoState
  <2>. QED  BY <1>1, <2>1, <2>2, <2>3, <2>4, <2>5, <2>6, <2>7 DEF Kept
<1>. QED  BY <1>2, <1>3

LEMMA SelectedStarts ==
  ASSUME ComparisonAssumption, Init PROVE Kept
<1>1. CASE \E s \in VersusSelections : Start("versus", s, Versus!Initialise(s))
  <2>1. /\ flow = "versus" /\ Selected
        /\ state = [revision |-> 1, payload |-> Versus!Initialise(snapshot)]
        /\ decisions = << >> /\ cursor = 0 /\ Running
    BY <1>1 DEF Start, Selected, Running
  <2>2. Versus!Initialise(snapshot) \in Brackets
    BY <2>1, BracketStarts
  <2>3. state \in States
    BY <2>1, <2>2 DEF States
  <2>. QED  BY <2>1, <2>3 DEF Kept
<1>2. CASE \E s \in WallSelections, m \in Wall!Modes : Start("wall", s, Wall!Initialise(s, m))
  <2>1. PICK m \in Wall!Modes :
          /\ flow = "wall" /\ Selected
          /\ state = [revision |-> 1, payload |-> Wall!Initialise(snapshot, m)]
          /\ decisions = << >> /\ cursor = 0 /\ Running
    BY <1>2 DEF Start, Selected, Running
  <2>2. Wall!Initialise(snapshot, m) \in WholeWalls
    BY <2>1, WallStartsWhole
  <2>3. state \in States
    BY <2>1, <2>2 DEF States
  <2>. QED  BY <2>1, <2>3 DEF Kept
<1>. QED  BY <1>1, <1>2 DEF Init

\* Undo and redo move between the states that the decisions join.
LEMMA UndoKept ==
  ASSUME Kept, Undo PROVE Kept' /\ state = decisions[cursor].after /\ state' = decisions[cursor].before
<1>1. /\ decisions \in Seq(Made) /\ cursor \in 1..Len(decisions) /\ Len(decisions) \in Nat
      /\ cursor' = cursor - 1 /\ state' = decisions[cursor].before
      /\ UNCHANGED <<flow, snapshot, decisions, stored>> /\ Running
  BY DEF Undo, Kept, ApplyState
<1>2. States' = States /\ Made' = Made /\ Selected' = Selected
  BY <1>1, StatesStay
<1>3. decisions[cursor].before \in States
  BY <1>1, MadeTypes
<1>4. cursor' > 0 => decisions[cursor - 1].after = decisions[cursor].before
  BY <1>1 DEF Kept
<1>5. Running'
  BY <1>1 DEF Running, NoState
<1>. QED  BY <1>1, <1>2, <1>3, <1>4, <1>5 DEF Kept

LEMMA RedoKept ==
  ASSUME Kept, Redo
  PROVE  Kept' /\ state = decisions[cursor + 1].before /\ state' = decisions[cursor + 1].after
<1>1. /\ decisions \in Seq(Made) /\ cursor \in 0 .. Len(decisions) - 1 /\ Len(decisions) \in Nat
      /\ cursor' = cursor + 1 /\ state' = decisions[cursor + 1].after
      /\ UNCHANGED <<flow, snapshot, decisions, stored>> /\ Running
  BY DEF Redo, Kept, ApplyState
<1>2. States' = States /\ Made' = Made /\ Selected' = Selected
  BY <1>1, StatesStay
<1>3. decisions[cursor + 1].after \in States
  BY <1>1, MadeTypes
<1>4. cursor' < Len(decisions) => decisions[cursor' + 1].before = decisions[cursor + 1].after
  BY <1>1 DEF Kept
<1>5. Running'
  BY <1>1 DEF Running, NoState
<1>. QED  BY <1>1, <1>2, <1>3, <1>4, <1>5 DEF Kept

\* A draft that an older build wrote is still a draft.
LEMMA OlderBuildPauses ==
  ASSUME Kept, OlderBuild PROVE stored' \in States /\ ~Running'
<1>1. /\ stored \in States /\ flow = "wall" /\ UNCHANGED <<flow, snapshot>>
      /\ stored' = [stored EXCEPT !.payload = Wall!Anonymous(stored.payload)]
  BY DEF OlderBuild, Kept
<1>2. stored.payload \in WholeWalls /\ stored.payload \in Walls
  BY <1>1 DEF States, WholeWalls
<1>4. Wall!Anonymous(stored.payload) \in WholeWalls
  <2>. HIDE DEF Elements
  <2>. QED  BY <1>2, OlderBuildKeepsWalls DEF WholeWalls
<1>3. stored' \in States
  BY <1>1, <1>4 DEF States
<1>. QED  BY <1>3, StateNotAbsent DEF Running, NoState

LEMMA KeptStep ==
  ASSUME ComparisonAssumption, Kept, [Next]_vars PROVE Kept'
<1>1. CASE Undo \/ Redo
  BY <1>1, UndoKept, RedoKept
<1>2. CASE Pause
  <2>1. /\ state \in States /\ stored' = state /\ decisions' = << >> /\ cursor' = 0
        /\ UNCHANGED <<flow, snapshot>>
    BY <1>2 DEF Pause, Kept
  <2>2. ~Running'
    BY <2>1, StateNotAbsent DEF Running, NoState
  <2>3. States' = States /\ Made' = Made /\ Selected' = Selected
    BY <2>1, StatesStay
  <2>. QED  BY <2>1, <2>2, <2>3 DEF Kept
<1>3. CASE Resume
  <2>1. /\ stored \in States /\ state' = stored /\ decisions = << >> /\ cursor = 0
        /\ stored' = NoState /\ UNCHANGED <<flow, snapshot, decisions, cursor>>
    BY <1>3 DEF Resume, Kept
  <2>2. Running'
    BY <2>1 DEF Running, NoState
  <2>3. States' = States /\ Made' = Made /\ Selected' = Selected
    BY <2>1, StatesStay
  <2>. QED  BY <2>1, <2>2, <2>3 DEF Kept
<1>4. CASE OlderBuild
  <2>1. decisions = << >> /\ cursor = 0 /\ UNCHANGED <<flow, snapshot, state, decisions, cursor>>
    BY <1>4 DEF OlderBuild, Kept
  <2>2. stored' \in States /\ ~Running'
    BY <1>4, OlderBuildPauses
  <2>3. States' = States /\ Made' = Made /\ Selected' = Selected
    BY <2>1, StatesStay
  <2>. QED  BY <2>1, <2>2, <2>3 DEF Kept
<1>5. ASSUME NEW side \in {"left", "right"}, Decide(side) PROVE Kept'
  BY <1>5, DispatchKept DEF Decide, CanDecide, Deciding
<1>6. CASE ReleasePane
  BY <1>6, DispatchKept DEF ReleasePane, CanDecide, Deciding
<1>7. CASE ReleaseTile
  BY <1>7, DispatchKept DEF ReleaseTile, Deciding
<1>8. ASSUME NEW id, DeleteKey(id) PROVE Kept'
  BY <1>8, DispatchKept DEF DeleteKey, Deciding
<1>9. ASSUME NEW a \in {Mode(m) : m \in Wall!Modes} \cup {Compacting}, Arrange(a) PROVE Kept'
  BY <1>9, DispatchKept DEF Arrange, Deciding
<1>10. ASSUME UNCHANGED <<flow, snapshot, state, decisions, cursor, stored>> PROVE Kept'
  <2>1. States' = States /\ Made' = Made /\ Selected' = Selected
    BY <1>10, StatesStay
  <2>. QED  BY <1>10, <2>1 DEF Kept, Running, NoState
<1>11. CASE \/ Abandon \/ UNCHANGED vars
            \/ \E side \in {"left", "right"} : Loaded(side) \/ PressPane(side)
            \/ \E id \in Elements(snapshot) : PressTile(id)
  BY <1>10, <1>11 DEF Abandon, vars, Loaded, PressPane, PressTile
<1>. QED  BY <1>1, <1>2, <1>3, <1>4, <1>5, <1>6, <1>7, <1>8, <1>9, <1>11 DEF Next

LEMMA AlwaysKept == Spec => []Kept
<1>1. Init => Kept
  BY SelectedStarts, ComparisonAssumption
<1>2. Kept /\ [Next]_vars => Kept'
  BY KeptStep, ComparisonAssumption
<1>. QED  BY <1>1, <1>2, PTL DEF Spec

\* Neither flow refuses a draft it wrote, however the comparison went before and
\* whether the program that wrote it kept the photos of the cells that are held.
THEOREM DraftIsAlwaysReadable == Spec => []DraftIsReadable
<1>1. ASSUME Kept, NEW s \in States PROVE Readable(s)
  <2>1. flow = "versus" => Versus!Readable(s.payload)
    BY DEF States, Brackets
  <2>2. flow # "versus" => Wall!Readable(s.payload)
    BY DEF States, WholeWalls, Walls
  <2>. QED  BY <2>1, <2>2 DEF Readable
<1>2. Kept => DraftIsReadable
  BY <1>1 DEF Kept, DraftIsReadable
<1>. QED  BY <1>2, AlwaysKept, PTL

(***************************************************************************)
(* The contract of a flow                                                  *)
(***************************************************************************)
\* What validateTransition() requires of the summary of a state.
Sound(summary) ==
  /\ Distinct(summary.remaining) /\ Distinct(summary.rejected)
  /\ Elements(summary.remaining) \cap Elements(summary.rejected) = {}
  /\ Elements(summary.remaining) \cup Elements(summary.rejected) = Photos

LEMMA Differing ==
  ASSUME NEW X, NEW s \in Seq(X), \A i, j \in DOMAIN s : s[i] = s[j] => i = j
  PROVE  Distinct(s)
<1>1. PICK n \in Nat : n = Len(s) /\ DOMAIN s = 1..n
  OBVIOUS
<1>2. IsFiniteSet(1..n) /\ Cardinality(1..n) = n
  BY CountingUp
<1>3. s \in Bijection(1..n, Elements(s))
  BY <1>1 DEF Bijection, Injection, Surjection, IsInjective
<1>. HIDE DEF Elements
<1>4. Cardinality(Elements(s)) = n
  <2>1. ExistsBijection(1..n, Elements(s))
    BY <1>3 DEF ExistsBijection
  <2>. QED  BY <1>2, <2>1, FS_Bijection
<1>. QED  BY <1>1, <1>4 DEF Distinct

\* A wall remains what its candidates are.
LEMMA WallIsSound ==
  ASSUME NEW w \in WholeWalls
  PROVE  Sound(Wall!Summarise(w))
<1>. DEFINE c == w.cells
            T == {i \in DOMAIN c : Wall!Holds(c[i])}
            d == Picked(c, T)
            r == w.rejected
            s == Wall!Remaining(w)
<1>1. /\ w \in Walls
      /\ \A i, j \in DOMAIN r : r[i] = r[j] => i = j
      /\ Photos \subseteq Candidates(c) \cup Elements(r)
  BY DEF WholeWalls
<1>2. /\ c \in Seq(Cell) /\ r \in Seq(Photos)
      /\ w = [cells |-> c, rejected |-> r, input |-> snapshot, mode |-> w.mode]
      /\ Agree(c, r)
  BY <1>1, WallTypes
<1>3. T \in SUBSET DOMAIN c
  OBVIOUS
<1>4. /\ d \in Seq(Cell) /\ Agree(d, r)
      /\ \A k \in DOMAIN d : \E i \in T : d[k] = c[i]
      /\ \A i \in T : \E k \in DOMAIN d : d[k] = c[i]
  <2>. HIDE DEF c, T, r
  <2>1. d \in Seq(Cell) /\ Agree(d, r)
    BY <1>2, <1>3, PickedAgree
  <2>2. c \in Seq(Cell)
    BY <1>2
  <2>. HIDE DEF Elements
  <2>3. \A k \in DOMAIN d : \E i \in T : d[k] = c[i]
    BY <1>3, <2>2, PickedElements
  <2>4. \A i \in T : \E k \in DOMAIN d : d[k] = c[i]
    BY <1>3, <2>2, PickedElements
  <2>. QED  BY <2>1, <2>3, <2>4
<1>5. \A i \in DOMAIN c : i \in T <=> c[i].rejected = FALSE
  BY <1>2, CellTypes DEF Wall!Holds
<1>6. s = [i \in DOMAIN d |-> d[i].id]
  <2>1. Wall!Compacted(w) = [w EXCEPT !.cells = d]
    BY WallPicks DEF Wall!Compacted
  <2>. HIDE DEF d
  <2>2. Wall!Compacted(w).cells = d
    BY <1>2, <2>1
  <2>. QED  BY <2>2 DEF Wall!Remaining
<1>. HIDE DEF T, d
<1>7. \A k \in DOMAIN d : d[k].rejected = FALSE
  BY <1>3, <1>4, <1>5
<1>8. \A k \in DOMAIN d : d[k].id # None /\ d[k].id \in Photos
  BY <1>4, <1>7, CellTypes DEF Agree
<1>9. s \in Seq(Photos) /\ DOMAIN s = DOMAIN d /\ \A k \in DOMAIN d : s[k] = d[k].id
  <2>1. DOMAIN d = 1..Len(d) /\ Len(d) \in Nat
    BY <1>4
  <2>. QED  BY <1>6, <1>8, <2>1
<1>. HIDE DEF s
<1>10. Distinct(s)
  <2>1. \A i, j \in DOMAIN s : s[i] = s[j] => i = j
    BY <1>4, <1>8, <1>9 DEF Agree
  <2>. QED  BY <1>9, <2>1, Differing
<1>11. Distinct(r)
  BY <1>1, <1>2, Differing
<1>12. Elements(s) \cap Elements(r) = {}
  <2>1. \A k \in DOMAIN d : d[k].id \notin Elements(r)
    <3>. HIDE DEF Elements
    <3>. QED  BY <1>4, <1>7, <1>8 DEF Agree
  <2>. QED  BY <1>9, <2>1
<1>13. Elements(s) \cup Elements(r) = Photos
  <2>1. Elements(s) \subseteq Photos /\ Elements(r) \subseteq Photos
    BY <1>2, <1>9
  <2>2. Candidates(c) \subseteq Elements(s)
    <3>. SUFFICES ASSUME NEW x \in Candidates(c) PROVE x \in Elements(s)
      OBVIOUS
    <3>1. x \in Photos
      BY DEF Candidates
    <3>2. PICK i \in DOMAIN c : c[i].id = x /\ c[i].rejected = FALSE
      BY <1>2, <3>1, IsCandidate
    <3>3. PICK k \in DOMAIN d : d[k] = c[i]
      BY <1>4, <1>5, <3>2
    <3>. QED  BY <1>9, <3>2, <3>3
  <2>. HIDE DEF Elements
  <2>. QED  BY <1>1, <2>1, <2>2
<1>14. Wall!Summarise(w).remaining = s /\ Wall!Summarise(w).rejected = r
  BY DEF Wall!Summarise, s
<1>. HIDE DEF Elements, r
<1>. QED  BY <1>10, <1>11, <1>12, <1>13, <1>14 DEF Sound

\* Who remains in a bracket is who lost no match.
LEMMA BracketRemains ==
  ASSUME ComparisonAssumption, Selected, NEW b \in Brackets
  PROVE  /\ Versus!Summarise(b).remaining \in Seq(Photos)
         /\ \A i, j \in DOMAIN Versus!Summarise(b).remaining :
              Versus!Summarise(b).remaining[i] = Versus!Summarise(b).remaining[j] => i = j
         /\ Versus!Summarise(b).rejected \in Seq(Photos)
         /\ \A i, j \in DOMAIN Versus!Summarise(b).rejected :
              Versus!Summarise(b).rejected[i] = Versus!Summarise(b).rejected[j] => i = j
         /\ Elements(Versus!Summarise(b).remaining) =
              {x \in Photos : \A n \in 0 .. b.size - 2 : Lost(b)[n] # x}
         /\ Elements(Versus!Summarise(b).rejected) =
              {x \in Photos : \E n \in 0 .. b.size - 2 : Lost(b)[n] = x}
<1>. DEFINE r == [i \in DOMAIN b.decisions |-> b.decisions[i].eliminated]
            kept == {i \in DOMAIN snapshot : \A k \in DOMAIN r : r[k] # snapshot[i]}
            s == Picked(snapshot, kept)
            Losers == {x \in Photos : \E n \in 0 .. b.size - 2 : Lost(b)[n] = x}
<1>1. /\ b.size \in Nat \ {0} /\ b.decisions \in Seq(DecisionOfMatch) /\ b.input = snapshot
      /\ Versus!Readable(b) /\ Fair(b.size, Lost(b), Versus!Outcomes(b))
      /\ Seeded(b.size, b.slots) /\ Plays(b.size, b.slots, Lost(b), Versus!Outcomes(b))
  <2>1. /\ b.size \in Nat \ {0} /\ b.decisions \in Seq(DecisionOfMatch)
        /\ Versus!Readable(b) /\ Played(b)
        /\ Seeded(b.size, b.slots) /\ Plays(b.size, b.slots, Lost(b), Versus!Outcomes(b))
    BY BracketTypes
  <2>2. b.input = snapshot
    BY DEF Brackets
  <2>. QED  BY <2>1, <2>2 DEF Played
<1>2. snapshot \in Seq(Photos) /\ None \notin Photos
  BY SelectionTypes
<1>3. Versus!Summarise(b).rejected = r /\ Versus!Summarise(b).remaining = s
  BY <1>1, VersusPicks DEF Versus!Summarise
<1>4. \A i \in DOMAIN b.decisions : b.decisions[i].eliminated \in Photos
  <2>1. \A i \in DOMAIN b.decisions : b.decisions[i] \in DecisionOfMatch
    BY <1>1
  <2>. QED  BY <2>1 DEF DecisionOfMatch
<1>5. r \in Seq(Photos) /\ DOMAIN r = DOMAIN b.decisions
      /\ \A i \in DOMAIN r : r[i] = b.decisions[i].eliminated
  <2>1. DOMAIN b.decisions = 1..Len(b.decisions) /\ Len(b.decisions) \in Nat
    BY <1>1
  <2>. QED  BY <1>4, <2>1
<1>. HIDE DEF r
<1>6. /\ \A i \in DOMAIN r : /\ b.decisions[i].node \in 0 .. b.size - 2 /\ r[i] # None
                             /\ Lost(b)[b.decisions[i].node] = r[i]
      /\ \A n \in 0 .. b.size - 2 : n \notin Versus!Decided(b) <=> Lost(b)[n] = None
  BY <1>1, <1>5, LostIsDecided
<1>7. \A i, j \in DOMAIN r : r[i] = r[j] => i = j
  <2>. SUFFICES ASSUME NEW i \in DOMAIN r, NEW j \in DOMAIN r, r[i] = r[j] PROVE i = j
    OBVIOUS
  <2>1. b.decisions[i].node = b.decisions[j].node
    BY <1>1, <1>6, LostOnce
  <2>. QED  BY <1>1, <1>5, <2>1, DecidedOnce
<1>8. Elements(r) = Losers
  <2>1. ASSUME NEW i \in DOMAIN r PROVE r[i] \in Losers
    BY <1>4, <1>5, <1>6
  <2>2. ASSUME NEW x \in Photos, NEW n \in 0 .. b.size - 2, Lost(b)[n] = x PROVE x \in Elements(r)
    <3>1. n \in Versus!Decided(b)
      BY <1>2, <1>6, <2>2
    <3>2. PICK i \in DOMAIN b.decisions : b.decisions[i].node = n
      BY <3>1 DEF Versus!Decided
    <3>. QED  BY <1>5, <1>6, <2>2, <3>2
  <2>. QED  BY <2>1, <2>2
<1>9. /\ s \in Seq(Photos)
      /\ \A k \in DOMAIN s : \E i \in kept : s[k] = snapshot[i]
      /\ \A i \in kept : \E k \in DOMAIN s : s[k] = snapshot[i]
      /\ \A k, l \in DOMAIN s : k # l => \E i, j \in kept : i # j /\ s[k] = snapshot[i] /\ s[l] = snapshot[j]
  <2>1. kept \in SUBSET DOMAIN snapshot
    OBVIOUS
  <2>. HIDE DEF kept
  <2>. QED  BY <1>2, <2>1, PickedElements
<1>. HIDE DEF s
<1>10. \A i, j \in DOMAIN s : s[i] = s[j] => i = j
  <2>. SUFFICES ASSUME NEW i \in DOMAIN s, NEW j \in DOMAIN s, s[i] = s[j], i # j PROVE FALSE
    OBVIOUS
  <2>1. PICK k, l \in kept : k # l /\ s[i] = snapshot[k] /\ s[j] = snapshot[l]
    BY <1>9
  <2>. QED  BY <2>1, SelectionIsDistinct
<1>11. \A x : x \in Elements(s) <=> x \in Photos /\ x \notin Elements(r)
  <2>1. \A i \in DOMAIN snapshot : i \in kept <=> snapshot[i] \notin Elements(r)
    OBVIOUS
  <2>2. ASSUME NEW x \in Elements(s) PROVE x \in Photos /\ x \notin Elements(r)
    <3>1. PICK k \in DOMAIN s : s[k] = x
      OBVIOUS
    <3>2. PICK i \in kept : s[k] = snapshot[i]
      BY <1>9
    <3>. QED  BY <2>1, <3>1, <3>2 DEF Photos
  <2>3. ASSUME NEW x \in Photos, x \notin Elements(r) PROVE x \in Elements(s)
    <3>1. PICK i \in DOMAIN snapshot : snapshot[i] = x
      BY DEF Photos
    <3>2. i \in kept
      BY <2>1, <2>3, <3>1
    <3>. QED  BY <1>9, <3>1, <3>2
  <2>. HIDE DEF Elements
  <2>. QED  BY <2>2, <2>3
<1>12. Elements(s) = {x \in Photos : \A n \in 0 .. b.size - 2 : Lost(b)[n] # x}
  <2>. HIDE DEF Elements
  <2>. QED  BY <1>8, <1>11
<1>. HIDE DEF Elements
<1>. QED  BY <1>3, <1>5, <1>7, <1>8, <1>9, <1>10, <1>12

LEMMA BracketIsSound ==
  ASSUME ComparisonAssumption, Selected, NEW b \in Brackets
  PROVE  Sound(Versus!Summarise(b))
<1>. DEFINE s == Versus!Summarise(b).remaining
            r == Versus!Summarise(b).rejected
            Loses(x) == \E n \in 0 .. b.size - 2 : Lost(b)[n] = x
<1>1. /\ s \in Seq(Photos) /\ \A i, j \in DOMAIN s : s[i] = s[j] => i = j
      /\ r \in Seq(Photos) /\ \A i, j \in DOMAIN r : r[i] = r[j] => i = j
      /\ Elements(s) = {x \in Photos : ~Loses(x)} /\ Elements(r) = {x \in Photos : Loses(x)}
  <2>. HIDE DEF Elements
  <2>. QED  BY BracketRemains
<1>2. Sound(Versus!Summarise(b)) <=>
        /\ Distinct(s) /\ Distinct(r) /\ Elements(s) \cap Elements(r) = {}
        /\ Elements(s) \cup Elements(r) = Photos
  BY DEF Sound
<1>. HIDE DEF s, r, Elements, Loses
<1>3. Distinct(s) /\ Distinct(r)
  BY <1>1, Differing
<1>4. Elements(s) \cap Elements(r) = {} /\ Elements(s) \cup Elements(r) = Photos
  BY <1>1
<1>. QED  BY <1>2, <1>3, <1>4

\* What a wall rejects in one step are photos.
LEMMA WallRejectsPhotos ==
  ASSUME ComparisonAssumption, Selected, NEW w \in Walls, NEW a, Wall!Reduce(w, a).accepted,
         \/ \E id : a = Eliminating(id)
         \/ \E m \in Wall!Modes : a = Mode(m)
         \/ a = Compacting
  PROVE  Elements(Wall!Reduce(w, a).rejected) \subseteq Photos
<1>1. Wall!Readable(w)
  BY WallTypes
<1>2. ASSUME NEW id, a = Eliminating(id) PROVE Elements(Wall!Reduce(w, a).rejected) \subseteq Photos
  <2>1. Wall!Reduce(w, a) = Wall!Eliminate(w, id) /\ Wall!Eliminate(w, id).accepted
    BY <1>1, <1>2 DEF Wall!Reduce, Eliminating
  <2>2. Wall!Eliminate(w, id).rejected = <<id>>
    BY <2>1 DEF Wall!Eliminate, Wall!Refused, Wall!Accept
  <2>3. id \in Photos
    <3>. HIDE DEF Elements
    <3>. QED  BY <2>1, WallEliminates
  <2>. QED  BY <2>1, <2>2, <2>3
<1>3. ASSUME NEW m, a = Mode(m) PROVE Elements(Wall!Reduce(w, a).rejected) \subseteq Photos
  <2>1. Wall!Reduce(w, a) = Wall!SetLayoutMode(w, m) /\ Wall!SetLayoutMode(w, m).accepted
    BY <1>1, <1>3 DEF Wall!Reduce, Mode
  <2>2. Wall!SetLayoutMode(w, m).rejected = << >>
    BY <2>1 DEF Wall!SetLayoutMode, Wall!Refused, Wall!Accept
  <2>. QED  BY <2>1, <2>2
<1>4. ASSUME a = Compacting PROVE Elements(Wall!Reduce(w, a).rejected) \subseteq Photos
  <2>1. Wall!Reduce(w, a) = Wall!Compact(w) /\ Wall!Compact(w).accepted
    BY <1>1, <1>4 DEF Wall!Reduce, Compacting
  <2>2. Wall!Compact(w).rejected = << >>
    BY <2>1 DEF Wall!Compact, Wall!Refused, Wall!Accept
  <2>. QED  BY <2>1, <2>2
<1>. QED  BY <1>2, <1>3, <1>4

\* Whatever the bracket or the wall accepts, in any state that is reached and from
\* any view, validateTransition() lets pass: every photo of the input remains or is
\* rejected, once, and never both.
THEOREM ContractIsKept == Spec => []ContractKept
<1>1. ASSUME Kept, Running, NEW a \in Actions, Reduce(state, a).accepted
      PROVE  ValidTransition(Result(a), Reduce(state, a).rejected)
  <2>1. Deciding(a) /\ (flow = "versus" \/ flow = "wall") /\ Selected /\ state \in States
    BY <1>1 DEF Actions, Deciding, Kept
  <2>2. Result(a) \in States
    BY <1>1, <2>1, AcceptedIsMade, ComparisonAssumption
  <2>3. Sound(Summary(Result(a)))
    <3>1. CASE flow = "versus"
      BY <2>1, <2>2, <3>1, BracketIsSound, ComparisonAssumption DEF States, Summary
    <3>2. CASE flow = "wall"
      BY <2>2, <3>2, WallIsSound DEF States, Summary
    <3>. QED  BY <2>1, <3>1, <3>2
  <2>4. Elements(Reduce(state, a).rejected) \subseteq Photos
    <3>1. CASE flow = "versus"
      <4>. DEFINE b == state.payload
      <4>1. b \in Brackets /\ Versus!Reduce(b, a).accepted /\ Reduce(state, a) = Versus!Reduce(b, a)
        BY <1>1, <2>1, <3>1 DEF States, Reduce
      <4>2. b.size \in Nat \ {0} /\ a.asset \in Photos
        <5>. HIDE DEF b
        <5>. QED  BY <2>1, <4>1, BracketTypes, VersusKeepsBrackets, ComparisonAssumption
      <4>3. Takes(b, a, Versus!FindPending(b).node)
        BY <4>1, <4>2, VersusAccepts
      <4>4. Versus!Reduce(b, a).rejected = <<a.asset>>
        BY <4>3 DEF Takes
      <4>. QED  BY <4>1, <4>2, <4>4
    <3>2. CASE flow = "wall"
      <4>1. state.payload \in Walls
        BY <2>1, <3>2 DEF States, WholeWalls
      <4>2. Wall!Reduce(state.payload, a).accepted /\ Reduce(state, a) = Wall!Reduce(state.payload, a)
        BY <1>1, <3>2 DEF Reduce
      <4>. HIDE DEF Elements
      <4>. QED  BY <2>1, <3>2, <4>1, <4>2, WallRejectsPhotos, ComparisonAssumption DEF Deciding
    <3>. QED  BY <2>1, <3>1, <3>2
  <2>5. Result(a).revision > state.revision
    BY <2>1 DEF Result, States
  <2>. HIDE DEF Elements
  <2>. QED  BY <2>3, <2>4, <2>5 DEF ValidTransition, Sound, Photos
<1>2. Kept => ContractKept
  BY <1>1 DEF ContractKept
<1>. QED  BY <1>2, AlwaysKept, PTL

(***************************************************************************)
(* The course of a bracket                                                 *)
(***************************************************************************)
LEMMA PhotosAreFinite ==
  ASSUME ComparisonAssumption, Selected PROVE IsFiniteSet(Photos) /\ Photos # {}
<1>1. snapshot \in Seq(Photos) /\ Len(snapshot) \in Nat \ {0}
  BY SelectionTypes
<1>2. PICK n \in Nat \ {0} : n = Len(snapshot) /\ DOMAIN snapshot = 1..n
  BY <1>1
<1>3. IsFiniteSet(1..n)
  BY <1>2, CountingUp
<1>4. snapshot \in Surjection(1..n, Photos)
  BY <1>1, <1>2 DEF Surjection, Photos
<1>5. snapshot[1] \in Photos
  BY <1>2 DEF Photos
<1>. QED  BY <1>3, <1>4, <1>5, FS_Surjection

\* The tournament is over when there is no match to decide, which is when one
\* remains.
NeverStalls(b) ==
  LET remaining == Elements(Versus!Summarise(b).remaining) IN
  /\ Versus!Summarise(b).complete <=> Cardinality(remaining) = 1
  /\ Versus!Summarise(b).complete <=> Versus!FindPending(b) = Versus!NoMatch
  /\ Versus!Summarise(b).complete => Versus!Survivor(b) \in remaining
  /\ ~Versus!Summarise(b).complete => /\ Versus!FindPending(b).left \in remaining
                                      /\ Versus!FindPending(b).right \in remaining
                                      /\ Versus!FindPending(b).left # Versus!FindPending(b).right

LEMMA SomeMatchOrOneIsLeft ==
  ASSUME ComparisonAssumption, Selected, NEW b \in Brackets
  PROVE  NeverStalls(b)
<1>. DEFINE R == Elements(Versus!Summarise(b).remaining)
            out == Versus!Outcomes(b)
            W == Waiting(b.size, Lost(b), out)
            m == Versus!FindPending(b)
            done == Versus!Summarise(b).complete
<1>1. /\ b.size \in Nat \ {0} /\ b.decisions \in Seq(DecisionOfMatch)
      /\ Versus!Readable(b) /\ Fair(b.size, Lost(b), out)
      /\ Seeded(b.size, b.slots) /\ Plays(b.size, b.slots, Lost(b), out)
  BY BracketTypes DEF Played
<1>2. R = {x \in Photos : \A n \in 0 .. b.size - 2 : Lost(b)[n] # x}
  <2>. HIDE DEF Elements
  <2>. QED  BY BracketRemains
<1>3. IsFiniteSet(Photos) /\ Photos # {} /\ None \notin Photos
  BY PhotosAreFinite, SelectionTypes
<1>. HIDE DEF Elements
<1>4. IsFiniteSet(R)
  <2>1. R \subseteq Photos
    BY <1>2
  <2>. HIDE DEF R
  <2>. QED  BY <1>3, <2>1, FS_Subset
<1>5. done \in BOOLEAN /\ (done <=> Through(out[0]))
  <2>1. 0 \in 0 .. 2 * b.size - 2
    BY <1>1
  <2>2. out[0] \in Outcome
    BY <1>1, <2>1 DEF Plays
  <2>3. done = out[0].resolved
    BY DEF Versus!Summarise
  <2>. QED  BY <2>2, <2>3 DEF Outcome, Through
<1>6. Versus!Ready(b) = W
  BY <1>1, ReadyIsWaiting
<1>7. Through(out[0]) <=> W = {}
  <2>. HIDE DEF out
  <2>. QED  BY <1>1, SomethingWaits
<1>8. W = {} => m = Versus!NoMatch
  BY <1>6 DEF Versus!FindPending
<1>9. W # {} => /\ m # Versus!NoMatch /\ m.node \in W
                /\ m.left = out[2 * m.node + 1].id /\ m.right = out[2 * m.node + 2].id
  <2>. SUFFICES ASSUME W # {} PROVE /\ m # Versus!NoMatch /\ m.node \in W
                                    /\ m.left = out[2 * m.node + 1].id
                                    /\ m.right = out[2 * m.node + 2].id
    OBVIOUS
  <2>1. Versus!Ready(b) # {} /\ b.size \in Nat \ {0}
    BY <1>1, <1>6
  <2>. DEFINE n == m.node
  <2>2. n = Versus!FindPending(b).node
    OBVIOUS
  <2>. HIDE DEF n, W
  <2>3. /\ n \in Versus!Ready(b) /\ m # Versus!NoMatch
        /\ m.left = out[2 * n + 1].id /\ m.right = out[2 * n + 2].id
    BY <2>1, <2>2, PendingIsReady
  <2>. QED  BY <1>6, <2>3 DEF n
<1>10. W # {} => m.left \in R /\ m.right \in R /\ m.left # m.right
  <2>. SUFFICES ASSUME W # {} PROVE m.left \in R /\ m.right \in R /\ m.left # m.right
    OBVIOUS
  <2>. DEFINE n == m.node
  <2>1. n \in W /\ m.left = out[2 * n + 1].id /\ m.right = out[2 * n + 2].id
    BY <1>9
  <2>. HIDE DEF n, m, R, out
  <2>2. \A x : x = m.left \/ x = m.right => x \in Photos /\ x # None /\ \A k \in 0 .. b.size - 2 : Lost(b)[k] # x
    BY <1>1, <2>1, WaitingAreIn
  <2>3. Met(out, n) /\ n \in 0 .. b.size - 2
    BY <2>1 DEF Waiting
  <2>4. m.left # m.right
    BY <1>1, <2>1, <2>3, SidesDiffer DEF Met, Stands
  <2>. QED  BY <1>2, <2>2, <2>4
<1>11. Through(out[0]) => R = {out[0].id}
  <2>. SUFFICES ASSUME Through(out[0]) PROVE R = {out[0].id}
    OBVIOUS
  <2>. HIDE DEF out
  <2>1. /\ out[0].id \in Photos
        /\ \A x \in Photos : (\E n \in 0 .. b.size - 2 : Lost(b)[n] = x) <=> x # out[0].id
    BY <1>1, <1>3, OneIsLeft
  <2>. HIDE DEF R
  <2>. QED  BY <1>2, <2>1
<1>12. Cardinality(R) = 1 <=> \E x : R = {x}
  <2>. HIDE DEF R
  <2>. QED  BY <1>4, FS_Singleton
<1>13. Versus!Survivor(b) = out[0].id
  BY DEF Versus!Survivor
<1>14. NeverStalls(b) <=>
         /\ done <=> Cardinality(R) = 1
         /\ done <=> m = Versus!NoMatch
         /\ done => Versus!Survivor(b) \in R
         /\ ~done => m.left \in R /\ m.right \in R /\ m.left # m.right
  BY DEF NeverStalls
<1>. HIDE DEF R, out, W, m, done
<1>15. done <=> Cardinality(R) = 1
  <2>1. done => Cardinality(R) = 1
    BY <1>5, <1>11, <1>12
  <2>2. ASSUME ~done, NEW x, R = {x} PROVE FALSE
    BY <1>5, <1>7, <1>10, <2>2
  <2>. QED  BY <1>5, <1>12, <2>1, <2>2
<1>16. done <=> m = Versus!NoMatch
  BY <1>5, <1>7, <1>8, <1>9
<1>17. done => Versus!Survivor(b) \in R
  BY <1>5, <1>11, <1>13
<1>18. ~done => m.left \in R /\ m.right \in R /\ m.left # m.right
  BY <1>5, <1>7, <1>10
<1>. QED  BY <1>14, <1>15, <1>16, <1>17, <1>18

\* From two photos to one a bracket always has a match to decide, between two that
\* are both still in, and it says that it is complete when one is left.
THEOREM BracketAlwaysGoesOn == Spec => []BracketNeverStalls
<1>1. ASSUME Kept PROVE BracketNeverStalls
  <2>1. ASSUME Running, flow = "versus" PROVE NeverStalls(state.payload)
    BY <1>1, <2>1, SomeMatchOrOneIsLeft, ComparisonAssumption DEF Kept, States
  <2>2. flow = "versus" => Summary(state) = Versus!Summarise(state.payload)
    BY DEF Summary
  <2>. HIDE DEF Elements
  <2>. QED  BY <2>1, <2>2 DEF BracketNeverStalls, NeverStalls, Match, Bracket
<1>. QED  BY <1>1, AlwaysKept, PTL

\* The first rounds come first, and there is one photo at least in each match of
\* the first of them.
InRounds(b) ==
  /\ \A i, j \in DOMAIN b.decisions :
       i < j => Versus!Round(b, b.decisions[i].node) <= Versus!Round(b, b.decisions[j].node)
  /\ Versus!FindPending(b) # Versus!NoMatch =>
       \A i \in DOMAIN b.decisions :
         Versus!Round(b, b.decisions[i].node) <= Versus!Round(b, Versus!FindPending(b).node)
  /\ \A k \in 0 .. (b.size \div 2) - 1 : b.slots[2 * k + 1] # None \/ b.slots[2 * k + 2] # None

LEMMA FirstRoundsFirst ==
  ASSUME ComparisonAssumption, Selected, NEW b \in Brackets
  PROVE  InRounds(b)
<1>. DEFINE W == Waiting(b.size, Lost(b), Versus!Outcomes(b))
            n == Versus!FindPending(b).node
            d(i) == b.decisions[i].node
<1>1. /\ b.size \in Nat \ {0} /\ b.decisions \in Seq(DecisionOfMatch)
      /\ b.size = Versus!Initialise(snapshot).size
      /\ Versus!Readable(b) /\ Played(b)
      /\ Seeded(b.size, b.slots) /\ Plays(b.size, b.slots, Lost(b), Versus!Outcomes(b))
  BY BracketTypes
<1>2. PICK r \in Nat : r = Versus!Rounds(b)
  <2>1. \E k \in 0 .. b.size : 2^k = b.size
    BY <1>1, SlotsAreSeeded
  <2>2. Versus!Rounds(b) \in 0 .. b.size
    BY <2>1 DEF Versus!Rounds
  <2>. QED  BY <1>1, <2>2
<1>3. \A m : Versus!Round(b, m) = r - Versus!Depth(m)
  BY <1>2 DEF Versus!Round
<1>4. \A m \in Nat : Versus!Depth(m) \in Nat
  BY DepthType
<1>5. \A i \in DOMAIN b.decisions : d(i) \in Nat
  BY <1>1, LostIsDecided
<1>6. \A i, j \in DOMAIN b.decisions : i < j => Versus!Depth(d(j)) <= Versus!Depth(d(i))
  BY <1>1 DEF Played
<1>7. \A i \in DOMAIN b.decisions : \A m \in W : Versus!Depth(m) <= Versus!Depth(d(i))
  BY <1>1 DEF Played
<1>8. Versus!FindPending(b) # Versus!NoMatch => n \in W
  <2>1. Versus!Ready(b) = W
    BY <1>1, ReadyIsWaiting
  <2>2. Versus!FindPending(b) # Versus!NoMatch => Versus!Ready(b) # {}
    BY DEF Versus!FindPending
  <2>3. b.size \in Nat \ {0}
    BY <1>1
  <2>4. n = Versus!FindPending(b).node
    OBVIOUS
  <2>. HIDE DEF n, W
  <2>5. Versus!Ready(b) # {} => n \in Versus!Ready(b)
    BY <2>3, <2>4, PendingIsReady
  <2>. QED  BY <2>1, <2>2, <2>5
<1>9. W \subseteq Nat
  BY <1>1 DEF Waiting
<1>10. \A k \in 0 .. (b.size \div 2) - 1 : b.slots[2 * k + 1] # None \/ b.slots[2 * k + 2] # None
  BY <1>1 DEF Seeded
<1>. HIDE DEF W, n
<1>11. ASSUME NEW i \in DOMAIN b.decisions, NEW j \in DOMAIN b.decisions, i < j
       PROVE  Versus!Round(b, d(i)) <= Versus!Round(b, d(j))
  <2>1. /\ Versus!Depth(d(i)) \in Nat /\ Versus!Depth(d(j)) \in Nat
        /\ Versus!Depth(d(j)) <= Versus!Depth(d(i))
    BY <1>4, <1>5, <1>6, <1>11
  <2>. QED  BY <1>3, <2>1
<1>12. ASSUME n \in W, NEW i \in DOMAIN b.decisions
       PROVE  Versus!Round(b, d(i)) <= Versus!Round(b, n)
  <2>1. /\ Versus!Depth(d(i)) \in Nat /\ Versus!Depth(n) \in Nat
        /\ Versus!Depth(n) <= Versus!Depth(d(i))
    BY <1>4, <1>5, <1>7, <1>9, <1>12
  <2>. QED  BY <1>3, <2>1
<1>. QED  BY <1>8, <1>10, <1>11, <1>12 DEF InRounds, n

\* However long the input, the rounds of a bracket are played in order, and a bye
\* spares a photo the first of them only.
THEOREM RoundsAreAlwaysInOrder == Spec => []PlayedInRounds
<1>1. ASSUME Kept PROVE PlayedInRounds
  <2>1. ASSUME Running, flow = "versus" PROVE InRounds(state.payload)
    BY <1>1, <2>1, FirstRoundsFirst, ComparisonAssumption DEF Kept, States
  <2>. QED  BY <2>1 DEF PlayedInRounds, InRounds, Match, Bracket
<1>. QED  BY <1>1, AlwaysKept, PTL

(***************************************************************************)
(* Gestures of the wall view                                               *)
(***************************************************************************)
\* A wall that lost the pressed photo rejected just that one.
LEMMA LostToTheGesture ==
  ASSUME NEW v \in Walls, NEW w \in Walls, Link(v, w), NEW x,
         Wall!Candidate(x) \in Elements(v.cells), x \in Photos,
         \A i \in DOMAIN w.cells : w.cells[i].id # x
  PROVE  w.rejected = Append(v.rejected, x)
<1>1. x \in Candidates(v.cells)
  BY DEF Candidates
<1>2. x \notin Candidates(w.cells)
  <2>1. w.cells \in Seq(Cell)
    BY WallTypes
  <2>. QED  BY <2>1, IsCandidate
<1>. QED  BY <1>1, <1>2 DEF Link

\* A wall never loses a photo by going back.
LEMMA NotLostByUndo ==
  ASSUME NEW v \in Walls, NEW w \in Walls, Link(v, w), NEW x,
         Wall!Candidate(x) \in Elements(w.cells), x \in Photos
  PROVE  \E i \in DOMAIN v.cells : v.cells[i].id = x
<1>1. x \in Candidates(w.cells)
  BY DEF Candidates
<1>2. x \in Candidates(v.cells)
  BY <1>1 DEF Link
<1>3. v.cells \in Seq(Cell)
  BY WallTypes
<1>. QED  BY <1>2, <1>3, IsCandidate

LEMMA SurvivorIsPhoto ==
  ASSUME ComparisonAssumption, Kept, Running, flow = "wall", NEW x, Survives(x)
  PROVE  x \in Photos /\ state.payload \in Walls /\ Wall!Candidate(x) \in Elements(state.payload.cells)
<1>1. state.payload \in Walls
  BY DEF Kept, States, WholeWalls
<1>2. Wall!Candidate(x) \in Elements(state.payload.cells)
  BY DEF Survives, Cells
<1>3. PICK i \in DOMAIN state.payload.cells : state.payload.cells[i] = Wall!Candidate(x)
  BY <1>2
<1>4. state.payload.cells[i].id = x /\ state.payload.cells[i].rejected = FALSE
  BY <1>3 DEF Wall!Candidate
<1>5. state.payload.cells \in Seq(Cell) /\ Agree(state.payload.cells, state.payload.rejected)
  BY <1>1, WallTypes
<1>6. x # None
  BY <1>4, <1>5 DEF Agree
<1>7. x \in Photos
  BY <1>4, <1>5, <1>6, CellTypes
<1>. QED  BY <1>1, <1>2, <1>7

\* What dispatch accepts on a wall is a step of the wall.
LEMMA DispatchLinks ==
  ASSUME ComparisonAssumption, Kept, Running, flow = "wall", NEW a, NEW e, Deciding(a),
         Dispatch(a, e), state' # state
  PROVE  /\ state' = Result(a) /\ Wall!Reduce(state.payload, a).accepted
         /\ state'.payload = Wall!Reduce(state.payload, a).payload
         /\ state'.payload \in Walls /\ Link(state.payload, state'.payload)
<1>1. Accepted(a, e) /\ state' = Result(a)
  BY DEF Dispatch, ApplyState
<1>2. Result(a) \in States /\ [before |-> state, after |-> Result(a)] \in Made
  BY <1>1, AcceptedIsMade DEF Accepted
<1>3. Link(state.payload, Result(a).payload)
  <2>. DEFINE d == [before |-> state, after |-> Result(a)]
  <2>1. d.before = state /\ d.after = Result(a)
    OBVIOUS
  <2>. HIDE DEF d
  <2>. QED  BY <1>2, <2>1 DEF Made, d
<1>4. Wall!Reduce(state.payload, a).accepted /\ Result(a).payload = Wall!Reduce(state.payload, a).payload
  BY <1>1 DEF Accepted, Reduce, Result
<1>5. Result(a).payload \in Walls
  BY <1>2 DEF States, WholeWalls
<1>. QED  BY <1>1, <1>3, <1>4, <1>5

LEMMA GestureStep ==
  ASSUME ComparisonAssumption, Kept, [Next]_vars, Gesture, flow = "wall", Survives(pressed.photo)
  PROVE  GestureHits
<1>. DEFINE x == pressed.photo
<1>0. pressed # None /\ pressed' = None /\ state' # state /\ Running'
  BY DEF Gesture
<1>1. CASE Undo
  <2>1. /\ Running /\ cursor \in 1..Len(decisions) /\ decisions \in Seq(Made)
        /\ state = decisions[cursor].after /\ state' = decisions[cursor].before
        /\ pressed' = StillPressed(state')
    BY <1>1, UndoKept DEF Undo, Kept
  <2>2. /\ state'.payload \in Walls /\ Link(state'.payload, state.payload)
    BY <2>1, MadeTypes DEF States, WholeWalls
  <2>3. \E i \in DOMAIN state'.payload.cells : state'.payload.cells[i].id = x
    <3>1. x \in Photos /\ state.payload \in Walls /\ Wall!Candidate(x) \in Elements(state.payload.cells)
      BY <2>1, SurvivorIsPhoto
    <3>. HIDE DEF x, Elements
    <3>. QED  BY <2>2, <3>1, NotLostByUndo
  <2>4. StillPressed(state') = pressed
    BY <2>3 DEF StillPressed
  <2>. QED  BY <1>0, <2>1, <2>4
<1>2. CASE Redo
  <2>1. /\ Running /\ cursor + 1 \in 1..Len(decisions) /\ decisions \in Seq(Made)
        /\ state = decisions[cursor + 1].before /\ state' = decisions[cursor + 1].after
        /\ pressed' = StillPressed(state')
    <3>1. Running /\ cursor + 1 \in 1..Len(decisions) /\ decisions \in Seq(Made)
      BY <1>2 DEF Redo, Kept
    <3>2. state = decisions[cursor + 1].before /\ state' = decisions[cursor + 1].after
      BY <1>2, RedoKept
    <3>3. pressed' = StillPressed(decisions[cursor + 1].after)
      BY <1>2 DEF Redo
    <3>. QED  BY <3>1, <3>2, <3>3
  <2>2. /\ state'.payload \in Walls /\ Link(state.payload, state'.payload)
    BY <2>1, MadeTypes DEF States, WholeWalls
  <2>3. \A i \in DOMAIN state'.payload.cells : state'.payload.cells[i].id # x
    BY <1>0, <2>1 DEF StillPressed
  <2>4. x \in Photos /\ state.payload \in Walls /\ Wall!Candidate(x) \in Elements(state.payload.cells)
    BY <2>1, SurvivorIsPhoto
  <2>. HIDE DEF x, Elements
  <2>. QED  BY <2>2, <2>3, <2>4, LostToTheGesture DEF GestureHits, x
<1>3. CASE ReleaseTile
  <2>. DEFINE a == Eliminating(x)
  <2>1. Running /\ Deciding(a) /\ \E e : Dispatch(a, e)
    BY <1>3 DEF ReleaseTile, Deciding
  <2>2. /\ Wall!Reduce(state.payload, a).accepted
        /\ state'.payload = Wall!Reduce(state.payload, a).payload
    BY <1>0, <2>1, DispatchLinks
  <2>3. state.payload \in Walls /\ Selected
    BY <2>1, SurvivorIsPhoto DEF Kept
  <2>4. Wall!Reduce(state.payload, a) = Wall!Eliminate(state.payload, x)
    BY <2>3, WallTypes DEF Wall!Reduce, Eliminating
  <2>5. state'.payload.rejected = Append(state.payload.rejected, x)
    <3>1. Wall!Eliminate(state.payload, x).accepted
      BY <2>2, <2>4
    <3>2. Wall!Eliminate(state.payload, x).payload.rejected = Append(state.payload.rejected, x)
      BY <2>3, <3>1, WallEliminates
    <3>. QED  BY <2>2, <2>4, <3>2
  <2>. QED  BY <2>5 DEF GestureHits
<1>4. ASSUME NEW a, NEW e, Deciding(a), Dispatch(a, e), pressed' = StillPressed(state'), Running
      PROVE  GestureHits
  <2>1. state'.payload \in Walls /\ Link(state.payload, state'.payload)
    BY <1>0, <1>4, DispatchLinks
  <2>2. \A i \in DOMAIN state'.payload.cells : state'.payload.cells[i].id # x
    BY <1>0, <1>4 DEF StillPressed
  <2>. QED  BY <1>4, <2>1, <2>2, SurvivorIsPhoto, LostToTheGesture DEF GestureHits
<1>5. ASSUME NEW id, DeleteKey(id) PROVE GestureHits
  BY <1>4, <1>5 DEF DeleteKey, Deciding
<1>6. ASSUME NEW a \in {Mode(m) : m \in Wall!Modes} \cup {Compacting}, Arrange(a) PROVE GestureHits
  BY <1>4, <1>6 DEF Arrange, Deciding
<1>7. CASE \/ Pause \/ Resume \/ OlderBuild \/ Abandon \/ ReleasePane \/ UNCHANGED vars
           \/ \E side \in {"left", "right"} : Loaded(side) \/ Decide(side) \/ PressPane(side)
           \/ \E id \in Elements(snapshot) : PressTile(id)
  <2>1. CASE Pause
    BY <1>0, <2>1, StateNotAbsent DEF Pause, Kept, Running, NoState
  <2>. QED
    BY <1>0, <1>7, <2>1 DEF Resume, OlderBuild, Abandon, ReleasePane, CanDecide, vars, Loaded, Decide, PressPane,
                            PressTile
<1>. QED  BY <1>1, <1>2, <1>3, <1>5, <1>6, <1>7 DEF Next

\* A gesture on the wall that ends with another state has rejected the photo it
\* was pressed on, whatever was undone, redone or compacted while it was held.
THEOREM PressedTileIsGone == Spec => TilePressedIsTileGone
<1>1. Kept /\ [Next]_vars => [Gesture /\ flow = "wall" /\ Survives(pressed.photo) => GestureHits]_vars
  BY GestureStep, ComparisonAssumption
<1>. QED  BY <1>1, AlwaysKept, PTL DEF Spec, TilePressedIsTileGone

(***************************************************************************)
(* The panes of the versus view                                            *)
(***************************************************************************)
Pane(p) == /\ p = [id |-> p.id, photo |-> p.photo, ready |-> p.ready, marked |-> p.marked]
           /\ p.photo = p.id

Panes(p) == p = [left |-> p.left, right |-> p.right] /\ Pane(p.left) /\ Pane(p.right)

Agrees(p, s) == (flow = "versus" /\ Match(s) # Versus!NoMatch)
                  => p.left.id = Match(s).left /\ p.right.id = Match(s).right

Showing == Panes(panes) /\ (Running => Agrees(panes, state))

LEMMA NewPanes == Pane(Blank) /\ (\A id : Pane(Presenting(id))) /\ Panes(NoPanes)
<1>1. Pane(Blank) /\ \A id : Pane(Presenting(id))
  BY DEF Pane, Blank, Presenting
<1>. QED  BY <1>1 DEF Panes, NoPanes

LEMMA Remarked ==
  ASSUME NEW p, Pane(p), NEW b
  PROVE  Pane([p EXCEPT !.marked = b]) /\ [p EXCEPT !.marked = b].id = p.id
<1>1. [p EXCEPT !.marked = b] = [id |-> p.id, photo |-> p.photo, ready |-> p.ready, marked |-> b]
  BY DEF Pane
<1>. QED  BY <1>1 DEF Pane

\* Whatever the panes showed, they come to show the match of the state applied.
LEMMA ShownAgrees ==
  ASSUME NEW s, NEW p, Panes(p) PROVE Panes(Shown(s, p)) /\ Agrees(Shown(s, p), s)
<1>1. CASE flow = "wall"
  BY <1>1 DEF Shown, Agrees
<1>2. CASE flow # "wall" /\ Match(s) = Versus!NoMatch
  <2>1. Pane([Presenting(Versus!Survivor(s.payload)) EXCEPT !.marked = Versus!Survivor(s.payload) # None])
    BY NewPanes, Remarked
  <2>2. Panes(ShowSurvivor(p, Versus!Survivor(s.payload)))
    BY <2>1, NewPanes DEF ShowSurvivor, Panes
  <2>. QED  BY <1>2, <2>2 DEF Shown, Agrees
<1>3. CASE flow # "wall" /\ Match(s) # Versus!NoMatch
  <2>. DEFINE m == Match(s)
              l == IF p.left.id = m.left THEN [p.left EXCEPT !.marked = FALSE] ELSE Presenting(m.left)
              r == IF p.right.id = m.right THEN p.right ELSE Presenting(m.right)
  <2>1. Pane(l) /\ l.id = m.left
    <3>1. CASE p.left.id = m.left
      BY <3>1, Remarked DEF Panes
    <3>2. CASE p.left.id # m.left
      BY <3>2, NewPanes DEF Presenting
    <3>. QED  BY <3>1, <3>2
  <2>2. Pane(r) /\ r.id = m.right
    BY NewPanes DEF Presenting, Panes
  <2>3. Shown(s, p) = [left |-> l, right |-> r]
    BY <1>3 DEF Shown, ShowMatch
  <2>. HIDE DEF l, r, m
  <2>4. Shown(s, p).left = l /\ Shown(s, p).right = r
    BY <2>3
  <2>5. Panes(Shown(s, p))
    BY <2>1, <2>2, <2>3, <2>4 DEF Panes
  <2>. QED  BY <2>1, <2>2, <2>4, <2>5 DEF Agrees, m
<1>. QED  BY <1>1, <1>2, <1>3

LEMMA Readied ==
  ASSUME NEW p, Pane(p), NEW b
  PROVE  Pane([p EXCEPT !.ready = b]) /\ [p EXCEPT !.ready = b].id = p.id
<1>1. [p EXCEPT !.ready = b] = [id |-> p.id, photo |-> p.photo, ready |-> b, marked |-> p.marked]
  BY DEF Pane
<1>. QED  BY <1>1 DEF Pane

LEMMA AppliedShows ==
  ASSUME Showing, NEW next, ApplyState(next), UNCHANGED flow PROVE Showing'
<1>1. Panes(Shown(next, panes)) /\ Agrees(Shown(next, panes), next)
  BY ShownAgrees DEF Showing
<1>2. panes' = Shown(next, panes) /\ state' = next
  BY DEF ApplyState
<1>. QED  BY <1>1, <1>2 DEF Showing, Agrees, Match

LEMMA SameShows ==
  ASSUME Showing, UNCHANGED <<flow, state, stored, panes>> PROVE Showing'
BY DEF Showing, Agrees, Match, Panes, Pane, Running, NoState

LEMMA ShowingStep ==
  ASSUME Kept, Showing, [Next]_vars PROVE Showing'
<1>1. CASE Undo \/ Redo
  BY <1>1, AppliedShows DEF Undo, Redo
<1>2. CASE Pause
  <2>1. ~Running'
    BY <1>2, StateNotAbsent DEF Pause, Kept, Running, NoState
  <2>2. Panes(panes')
    BY <1>2, NewPanes DEF Pause, NoPanes
  <2>. QED  BY <2>1, <2>2 DEF Showing
<1>3. CASE Resume
  <2>1. Panes(Shown(stored, NoPanes)) /\ Agrees(Shown(stored, NoPanes), stored)
    BY NewPanes, ShownAgrees
  <2>2. panes' = Shown(stored, NoPanes) /\ state' = stored /\ flow' = flow
    BY <1>3 DEF Resume
  <2>. QED  BY <2>1, <2>2 DEF Showing, Agrees, Match
<1>4. CASE OlderBuild
  <2>1. ~Running'
    BY <1>4, OlderBuildPauses
  <2>. QED  BY <1>4, <2>1 DEF OlderBuild, Showing
<1>5. ASSUME NEW a, NEW e, Dispatch(a, e), UNCHANGED <<flow, stored>> PROVE Showing'
  <2>1. CASE Accepted(a, e)
    BY <1>5, <2>1, AppliedShows DEF Dispatch
  <2>2. CASE ~Accepted(a, e)
    BY <1>5, <2>2, SameShows DEF Dispatch
  <2>. QED  BY <2>1, <2>2
<1>6. ASSUME NEW side \in {"left", "right"}, Loaded(side) PROVE Showing'
  <2>. DEFINE q == [panes[side] EXCEPT !.ready = TRUE]
  <2>1. panes = [left |-> panes.left, right |-> panes.right] /\ Pane(panes.left) /\ Pane(panes.right)
    BY DEF Showing, Panes
  <2>2. Pane(q) /\ q.id = panes[side].id
    <3>1. Pane(panes[side])
      BY <1>6, <2>1
    <3>. QED  BY <3>1, Readied
  <2>3. panes' = [panes EXCEPT ![side] = q]
    BY <1>6, <2>1 DEF Loaded
  <2>. HIDE DEF q
  <2>4. /\ panes' = [left |-> panes'.left, right |-> panes'.right]
        /\ Pane(panes'.left) /\ panes'.left.id = panes.left.id
        /\ Pane(panes'.right) /\ panes'.right.id = panes.right.id
    <3>1. CASE side = "left"
      <4>1. panes' = [left |-> q, right |-> panes.right]
        BY <2>1, <2>3, <3>1
      <4>. QED  BY <2>1, <2>2, <3>1, <4>1
    <3>2. CASE side = "right"
      <4>1. panes' = [left |-> panes.left, right |-> q]
        BY <2>1, <2>3, <3>2
      <4>. QED  BY <2>1, <2>2, <3>2, <4>1
    <3>. QED  BY <1>6, <3>1, <3>2
  <2>. QED  BY <1>6, <2>4 DEF Loaded, Showing, Panes, Agrees, Match, Running, NoState
<1>7. CASE \/ Abandon \/ UNCHANGED vars
           \/ \E side \in {"left", "right"} : PressPane(side)
           \/ \E id \in Elements(snapshot) : PressTile(id)
  BY <1>7, SameShows DEF Abandon, vars, PressPane, PressTile
<1>8. CASE \/ ReleasePane \/ ReleaseTile
           \/ \E side \in {"left", "right"} : Decide(side)
           \/ \E id \in Elements(snapshot) : DeleteKey(id)
           \/ \E a \in {Mode(m) : m \in Wall!Modes} \cup {Compacting} : Arrange(a)
  BY <1>5, <1>8 DEF ReleasePane, ReleaseTile, Decide, DeleteKey, Arrange
<1>. QED  BY <1>1, <1>2, <1>3, <1>4, <1>6, <1>7, <1>8 DEF Next

\* The panes show the match that the buttons decide, whether it came up by a
\* decision, by undo or redo, or with a draft that was taken up again.
THEOREM PanesAlwaysShowTheMatch == Spec => []PanesShowTheMatch
<1>1. Init => Showing
  <2>. SUFFICES ASSUME Init PROVE Showing
    OBVIOUS
  <2>1. panes = Shown(state, NoPanes)
    BY DEF Init, Start
  <2>2. Panes(Shown(state, NoPanes)) /\ Agrees(Shown(state, NoPanes), state)
    BY NewPanes, ShownAgrees
  <2>. QED  BY <2>1, <2>2 DEF Showing
<1>2. Kept /\ Showing /\ [Next]_vars => Showing'
  BY ShowingStep
<1>3. Showing => PanesShowTheMatch
  BY DEF Showing, Agrees, Panes, Pane, PanesShowTheMatch
<1>. QED  BY <1>1, <1>2, <1>3, AlwaysKept, PTL DEF Spec
=============================================================================
