----------------------------- MODULE KvDiskProofs -----------------------------
(* Proofs about the disk tier, for every set of engines, models, persist       *)
(* threads, conversations and budgets.                                         *)
EXTENDS KvDisk, FunctionTheorems, FiniteSetTheorems, SequenceTheorems, WellFoundedInduction, TLAPS

-----------------------------------------------------------------------------
(* Numbers and sequences *)

\* A set of natural numbers that is not empty has a least member.
LEMMA LeastOf ==
    ASSUME NEW S, S \subseteq Nat, S # {}
    PROVE  \E n \in S : \A k \in S : n <= k
<1>1. PICK n \in S : \A k \in S : ~(<<k, n>> \in OpToRel(<, Nat))
  BY NatLessThanWellFounded, WFMin
<1>2. \A k \in S : ~(k < n)
  <2>. SUFFICES ASSUME NEW k \in S, k < n
                PROVE  <<k, n>> \in OpToRel(<, Nat)
    BY <1>1
  <2>1. <<k, n>> \in Nat \X Nat /\ <<k, n>>[1] < <<k, n>>[2]
    OBVIOUS
  <2>. QED
    BY <2>1, Zenon DEF OpToRel
<1>. QED
  BY <1>2

\* Induction over a set of natural numbers: what holds at 0, and at each number
\* up to n if it holds at the one before, holds at n.
LEMMA UpTo ==
    ASSUME NEW n \in Nat, NEW S, 0 \in S,
           \A k \in 1..n : k - 1 \in S => k \in S
    PROVE  \A k \in 0..n : k \in S
<1>. SUFFICES ASSUME NEW k \in 0..n, k \notin S PROVE FALSE
  OBVIOUS
<1>. DEFINE T == {j \in 0..n : j \notin S}
<1>1. T \subseteq Nat /\ T # {}
  OBVIOUS
<1>2. PICK m \in T : \A j \in T : m <= j
  <2>. HIDE DEF T
  <2>. QED
    BY <1>1, LeastOf
<1>3. m \in 1..n /\ m - 1 \in 0..n /\ m \notin S
  OBVIOUS
<1>4. m - 1 \notin T
  <2>. HIDE DEF T
  <2>. QED
    BY <1>2, <1>3
<1>. QED
  BY <1>3, <1>4

\* A function given by its value at 0 and its step exists.
Recursive(f, n, T, z, G) ==
    /\ f \in [0..n -> T] /\ f[0] = z
    /\ \A k \in 1..n : f[k] = G[<<k, f[k - 1]>>]

LEMMA RecursionExists ==
    ASSUME NEW n \in Nat, NEW T, NEW z \in T, NEW G \in [(1..n) \X T -> T]
    PROVE  \E f : Recursive(f, n, T, z, G)
<1>. DEFINE Ok(m, f) == f[0] = z /\ \A k \in 1..m : f[k] = G[<<k, f[k - 1]>>]
            S == {m \in 0..n : \E f \in [0..m -> T] : Ok(m, f)}
<1>1. 0 \in S
  <2>. DEFINE f == [i \in 0..0 |-> z]
  <2>1. f \in [0..0 -> T] /\ f[0] = z
    OBVIOUS
  <2>2. Ok(0, f)
    BY <2>1
  <2>. HIDE DEF f, Ok
  <2>. QED
    BY <2>1, <2>2
<1>2. ASSUME NEW k \in 1..n, k - 1 \in S PROVE k \in S
  <2>1. PICK f \in [0..(k - 1) -> T] : Ok(k - 1, f)
    BY <1>2
  <2>. DEFINE g == [i \in 0..k |-> IF i = k THEN G[<<k, f[k - 1]>>] ELSE f[i]]
  <2>2. G[<<k, f[k - 1]>>] \in T
    <3>1. k - 1 \in 0..(k - 1) /\ k \in 1..n
      OBVIOUS
    <3>2. <<k, f[k - 1]>> \in (1..n) \X T
      BY <3>1
    <3>. QED
      BY <3>2
  <2>3. \A i \in 0..k : i # k => i \in 0..(k - 1)
    OBVIOUS
  <2>4. g \in [0..k -> T]
    BY <2>2, <2>3
  <2>5. g[0] = z
    BY <2>1
  <2>6. ASSUME NEW i \in 1..k PROVE g[i] = G[<<i, g[i - 1]>>]
    <3>1. i - 1 \in 0..(k - 1) /\ i - 1 # k /\ i - 1 \in 0..k
      OBVIOUS
    <3>2. g[i - 1] = f[i - 1]
      BY <3>1
    <3>3. CASE i = k
      <4>1. k \in 0..k /\ g[k] = G[<<k, f[k - 1]>>]
        OBVIOUS
      <4>. HIDE DEF g
      <4>. QED
        BY <3>2, <3>3, <4>1
    <3>4. CASE i # k
      <4>1. i \in 1..(k - 1) /\ i \in 0..k
        BY <3>4
      <4>2. g[i] = f[i]
        BY <3>4, <4>1
      <4>3. f[i] = G[<<i, f[i - 1]>>]
        BY <2>1, <4>1
      <4>. HIDE DEF g
      <4>. QED
        BY <3>2, <4>2, <4>3
    <3>. QED
      BY <3>3, <3>4
  <2>7. Ok(k, g)
    BY <2>5, <2>6
  <2>8. k \in 0..n
    OBVIOUS
  <2>. HIDE DEF g, Ok
  <2>. QED
    BY <2>4, <2>7, <2>8
<1>3. n \in S
  <2>. HIDE DEF S
  <2>1. n \in 0..n
    OBVIOUS
  <2>. QED
    BY <1>1, <1>2, <2>1, UpTo
<1>. QED
  BY <1>3 DEF Recursive

-----------------------------------------------------------------------------
(* Arranging a sequence *)

\* Every position is given the ones up to it, in one order.
Ordered(I, upto) ==
    /\ upto \in [I -> SUBSET I]
    /\ \A i \in I : i \in upto[i]
    /\ \A i, j \in I : i # j =>
           \/ i \notin upto[j] /\ upto[j] \subseteq upto[i]
           \/ j \notin upto[i] /\ upto[i] \subseteq upto[j]

\* A numbering of these positions.
Numbers(order, I, s, a) ==
    /\ order \in [1..Cardinality(I) -> I]
    /\ \A k, l \in 1..Cardinality(I) : order[k] = order[l] => k = l
    /\ \A i \in I : \E k \in 1..Cardinality(I) : order[k] = i
    /\ a = [k \in 1..Cardinality(I) |-> s[order[k]]]

\* Positions in order are numbered by how many come up to each.
LEMMA OrderOf ==
    ASSUME NEW I, IsFiniteSet(I), NEW upto, Ordered(I, upto), NEW s
    PROVE  \E order : Numbers(order, I, s, Arranged(s, upto))
<1>. DEFINE N == Cardinality(I)
            rank == [i \in I |-> Cardinality(upto[i])]
            order == [k \in 1..N |-> CHOOSE i \in I : Cardinality(upto[i]) = k]
<1>1. N \in Nat
  BY FS_CardinalityType
<1>2. ASSUME NEW i \in I
      PROVE  IsFiniteSet(upto[i]) /\ Cardinality(upto[i]) \in 1..N
  <2>1. upto[i] \in SUBSET I /\ upto[i] # {}
    BY DEF Ordered
  <2>2. IsFiniteSet(upto[i]) /\ Cardinality(upto[i]) <= N
    BY <2>1, FS_Subset
  <2>3. Cardinality(upto[i]) \in Nat /\ Cardinality(upto[i]) # 0
    BY <2>1, <2>2, FS_CardinalityType, FS_EmptySet
  <2>. HIDE DEF N
  <2>. QED
    BY <1>1, <2>2, <2>3
<1>3. ASSUME NEW i \in I, NEW j \in I, i \notin upto[j], upto[j] \subseteq upto[i]
      PROVE  Cardinality(upto[i]) # Cardinality(upto[j])
  <2>1. upto[j] # upto[i]
    BY <1>3 DEF Ordered
  <2>2. upto[j] \in SUBSET upto[i]
    BY <1>3
  <2>. QED
    BY <1>2, <2>1, <2>2, FS_Subset
<1>4. \A i, j \in I : Cardinality(upto[i]) = Cardinality(upto[j]) => i = j
  BY <1>3 DEF Ordered
<1>5. rank \in [I -> 1..N] /\ \A i, j \in I : rank[i] = rank[j] => i = j
  <2>. HIDE DEF N
  <2>. QED
    BY <1>2, <1>4
<1>6. \A k \in 1..N : \E i \in I : rank[i] = k
  <2>. HIDE DEF rank
  <2>1. rank \in Injection(I, 1..N)
    BY <1>5, Fun_IsInj
  <2>2. IsFiniteSet(1..N) /\ Cardinality(1..N) = N
    <3>. HIDE DEF N
    <3>. QED
      BY <1>1, FS_Interval
  <2>3. rank \in Surjection(I, 1..N)
    BY <2>1, <2>2, FS_Injection
  <2>. QED
    BY <2>3 DEF Surjection
<1>7. ASSUME NEW k \in 1..N
      PROVE  order[k] \in I /\ Cardinality(upto[order[k]]) = k
  <2>1. \E i \in I : Cardinality(upto[i]) = k
    BY <1>6
  <2>2. order[k] = CHOOSE i \in I : Cardinality(upto[i]) = k
    OBVIOUS
  <2>. HIDE DEF order
  <2>. QED
    BY <2>1, <2>2
<1>8. Arranged(s, upto) = [k \in 1..N |-> s[order[k]]]
  BY DEF Arranged, Ordered
<1>9. order \in [1..N -> I]
  <2>. HIDE DEF N
  <2>. QED
    BY <1>7
<1>. HIDE DEF order
<1>10. \A k, l \in 1..N : order[k] = order[l] => k = l
  BY <1>7
<1>11. \A i \in I : \E k \in 1..N : order[k] = i
  BY <1>2, <1>4, <1>7
<1>12. Numbers(order, I, s, Arranged(s, upto))
  BY <1>8, <1>9, <1>10, <1>11 DEF Numbers
<1>. QED
  BY <1>12

\* No two manifests of a list have one path.
Distinct(s) == \A i, j \in DOMAIN s : SamePath(s[i], s[j]) => i = j

\* An arrangement of some positions of a sequence holds the entries there.
LEMMA ArrangedItems ==
    ASSUME NEW M, NEW s \in Seq(M), NEW I, I \subseteq DOMAIN s,
           NEW upto, Ordered(I, upto)
    PROVE  /\ Arranged(s, upto) \in Seq(M)
           /\ Len(Arranged(s, upto)) = Cardinality(I)
           /\ Items(Arranged(s, upto)) = {s[i] : i \in I}
           /\ Distinct(s) => Distinct(Arranged(s, upto))
<1>1. DOMAIN s = 1..Len(s) /\ Len(s) \in Nat /\ \A i \in DOMAIN s : s[i] \in M
  BY LenProperties
<1>2. IsFiniteSet(I) /\ Cardinality(I) \in Nat
  <2>1. IsFiniteSet(1..Len(s))
    <3>. DEFINE n == Len(s)
    <3>1. n \in Int
      BY <1>1
    <3>. HIDE DEF n
    <3>2. IsFiniteSet(1..n)
      BY <3>1, FS_Interval
    <3>. QED
      BY <3>2 DEF n
  <2>2. I \in SUBSET (1..Len(s))
    BY <1>1
  <2>. QED
    BY <2>1, <2>2, FS_Subset, FS_CardinalityType
<1>3. PICK order : Numbers(order, I, s, Arranged(s, upto))
  BY <1>2, OrderOf
<1>. DEFINE N == Cardinality(I)
            a == Arranged(s, upto)
<1>4. DOMAIN a = 1..N /\ \A k \in 1..N : a[k] = s[order[k]] /\ order[k] \in I
  BY <1>3 DEF Numbers
<1>. HIDE DEF N, a
<1>5. N \in Nat
  BY <1>2 DEF N
<1>6. a \in [1..N -> M]
  <2>1. a = [k \in 1..N |-> a[k]]
    BY <1>3 DEF a, N, Numbers
  <2>2. \A k \in 1..N : a[k] \in M
    BY <1>1, <1>4
  <2>. QED
    BY <2>1, <2>2
<1>7. a \in Seq(M) /\ Len(a) = N
  <2>1. a \in Seq(M)
    BY <1>5, <1>6, SeqDef
  <2>. QED
    BY <1>4, <1>5, <2>1, LenProperties
<1>8. Items(a) = {s[i] : i \in I}
  <2>1. \A k \in 1..N : order[k] \in I /\ a[k] = s[order[k]]
    BY <1>4
  <2>2. \A i \in I : \E k \in 1..N : order[k] = i
    BY <1>3 DEF N, Numbers
  <2>3. \A x \in Items(a) : x \in {s[i] : i \in I}
    BY <1>4, <2>1 DEF Items
  <2>4. \A i \in I : s[i] \in Items(a)
    BY <1>4, <2>1, <2>2 DEF Items
  <2>. QED
    BY <2>3, <2>4
<1>9. Distinct(s) => Distinct(a)
  BY <1>3, <1>4 DEF Distinct, N, Numbers
<1>. QED
  BY <1>7, <1>8, <1>9 DEF a, N

LEMMA WithoutItems ==
    ASSUME NEW M, NEW s \in Seq(M), NEW gone
    PROVE  /\ Without(s, gone) \in Seq(M)
           /\ Items(Without(s, gone)) = Items(s) \ gone
           /\ Distinct(s) => Distinct(Without(s, gone))
<1>. DEFINE left == {i \in DOMAIN s : s[i] \notin gone}
            upto == [i \in left |-> {j \in left : j <= i}]
<1>1. DOMAIN s = 1..Len(s) /\ Len(s) \in Nat
  BY LenProperties
<1>2. left \subseteq Nat /\ left \subseteq DOMAIN s
  BY <1>1
<1>3. Without(s, gone) = Arranged(s, upto)
  BY DEF Without
<1>4. {s[i] : i \in left} = Items(s) \ gone
  BY DEF Items
<1>5. /\ upto \in [left -> SUBSET left]
      /\ \A i \in left : upto[i] = {j \in left : j <= i}
  OBVIOUS
<1>. HIDE DEF left, upto
<1>6. Ordered(left, upto)
  <2>1. \A i, j \in left : i \in Nat /\ j \in Nat /\ (i # j => i < j \/ j < i)
    BY <1>2
  <2>2. \A i, j \in left : i < j => j \notin upto[i] /\ upto[i] \subseteq upto[j]
    BY <1>2, <1>5
  <2>3. \A i \in left : i \in upto[i]
    BY <1>2, <1>5
  <2>. QED
    BY <1>5, <2>1, <2>2, <2>3 DEF Ordered
<1>7. /\ Arranged(s, upto) \in Seq(M)
      /\ Items(Arranged(s, upto)) = {s[i] : i \in left}
      /\ Distinct(s) => Distinct(Arranged(s, upto))
  BY <1>2, <1>6, ArrangedItems
<1>. QED
  BY <1>3, <1>4, <1>7

LEMMA NewestFirstItems ==
    ASSUME NEW M, NEW s \in Seq(M), \A m \in M : m.last_used \in Nat
    PROVE  /\ NewestFirst(s) \in Seq(M)
           /\ Len(NewestFirst(s)) = Len(s)
           /\ Items(NewestFirst(s)) = Items(s)
           /\ Distinct(s) => Distinct(NewestFirst(s))
<1>. DEFINE I == DOMAIN s
            Up(i) == {j \in I : \/ s[j].last_used > s[i].last_used
                                \/ s[j].last_used = s[i].last_used /\ j <= i}
            upto == [i \in I |-> Up(i)]
<1>1. I = 1..Len(s) /\ Len(s) \in Nat /\ \A i \in I : s[i].last_used \in Nat /\ i \in Nat
  BY LenProperties
<1>2. NewestFirst(s) = Arranged(s, upto)
  BY DEF NewestFirst
<1>3. {s[i] : i \in I} = Items(s)
  BY DEF Items
<1>4. /\ upto \in [I -> SUBSET I]
      /\ \A i \in I : upto[i] = Up(i)
  OBVIOUS
<1>5. Cardinality(I) = Len(s)
  <2>. DEFINE n == Len(s)
  <2>1. n \in Nat /\ I = 1..n
    BY <1>1
  <2>. HIDE DEF n, I
  <2>2. Cardinality(1..n) = n
    BY <2>1, FS_Interval
  <2>. QED
    BY <2>1, <2>2 DEF n
<1>6. I \subseteq DOMAIN s
  OBVIOUS
<1>. HIDE DEF I, upto
<1>7. \A i \in I : i \in upto[i]
  BY <1>1, <1>4
<1>. DEFINE Before(i, j) == \/ s[i].last_used > s[j].last_used
                           \/ (s[i].last_used = s[j].last_used /\ i < j)
<1>8. ASSUME NEW i \in I, NEW j \in I, i # j PROVE Before(i, j) \/ Before(j, i)
  <2>1. i \in Nat /\ j \in Nat /\ s[i].last_used \in Nat /\ s[j].last_used \in Nat
    BY <1>1
  <2>2. \A a, b \in Nat : a > b \/ b > a \/ a = b
    OBVIOUS
  <2>3. i < j \/ j < i
    BY <1>8, <2>1
  <2>4. \/ s[i].last_used > s[j].last_used \/ s[j].last_used > s[i].last_used
        \/ s[i].last_used = s[j].last_used
    BY <2>1, <2>2
  <2>5. CASE s[i].last_used > s[j].last_used
    BY <2>5
  <2>6. CASE s[j].last_used > s[i].last_used
    BY <2>6
  <2>7. CASE s[i].last_used = s[j].last_used
    BY <2>3, <2>7
  <2>. QED
    BY <2>4, <2>5, <2>6, <2>7
<1>9. ASSUME NEW i \in I, NEW j \in I, Before(i, j)
      PROVE  j \notin upto[i] /\ upto[i] \subseteq upto[j]
  <2>1. j \notin upto[i]
    BY <1>1, <1>4, <1>9
  <2>2. ASSUME NEW k \in upto[i] PROVE k \in upto[j]
    <3>1. /\ k \in I
          /\ s[k].last_used > s[i].last_used \/ (s[k].last_used = s[i].last_used /\ k <= i)
      <4>1. k \in Up(i)
        BY <1>4
      <4>. QED
        BY <4>1
    <3>2. s[k].last_used > s[j].last_used \/ (s[k].last_used = s[j].last_used /\ k <= j)
      BY <1>1, <1>9, <3>1
    <3>. QED
      BY <1>4, <3>1, <3>2
  <2>. QED
    BY <2>1, <2>2
<1>. HIDE DEF Before
<1>10. Ordered(I, upto)
  BY <1>4, <1>7, <1>8, <1>9 DEF Ordered
<1>11. /\ Arranged(s, upto) \in Seq(M)
       /\ Len(Arranged(s, upto)) = Cardinality(I)
       /\ Items(Arranged(s, upto)) = {s[i] : i \in I}
       /\ Distinct(s) => Distinct(Arranged(s, upto))
  BY <1>6, <1>10, ArrangedItems
<1>. QED
  BY <1>2, <1>3, <1>5, <1>11

-----------------------------------------------------------------------------
(* Prefixes and file names *)

LEMMA PrefixAt ==
    ASSUME NEW c \in Seq(Nat), NEW n \in 1..Len(c)
    PROVE  /\ SubSeq(c, 1, n) \in Seq(Nat) /\ Len(SubSeq(c, 1, n)) = n
           /\ \A i \in 1..n : SubSeq(c, 1, n)[i] = c[i]
           /\ \A k \in 1..n : SubSeq(SubSeq(c, 1, n), 1, k) = SubSeq(c, 1, k)
<1>1. Len(c) \in Nat /\ n \in Nat /\ 1 <= n /\ n <= Len(c)
  BY LenProperties
<1>2. \A i \in 1..n : c[i] \in Nat
  BY <1>1, ElementOfSeq
<1>3. /\ SubSeq(c, 1, n) \in Seq(Nat)
      /\ Len(SubSeq(c, 1, n)) = IF 1 <= n THEN n - 1 + 1 ELSE 0
      /\ \A i \in 1..(n - 1 + 1) : SubSeq(c, 1, n)[i] = c[1 + i - 1]
  BY <1>1, <1>2, SubSeqProperties
<1>4. Len(SubSeq(c, 1, n)) = n /\ \A i \in 1..n : SubSeq(c, 1, n)[i] = c[i]
  BY <1>1, <1>3
<1>5. ASSUME NEW k \in 1..n
      PROVE  SubSeq(SubSeq(c, 1, n), 1, k) = SubSeq(c, 1, k)
  <2>1. 1 \in 1..Len(c) /\ n \in 1..Len(c) /\ 1 \in 1..(n - 1 + 1) /\ k \in 1..(n - 1 + 1)
    BY <1>1
  <2>2. SubSeq(SubSeq(c, 1, n), 1, k) = SubSeq(c, 1 + 1 - 1, 1 + k - 1)
    BY <2>1, SubSeqOfSubSeq
  <2>3. 1 + 1 - 1 = 1 /\ 1 + k - 1 = k
    OBVIOUS
  <2>. QED
    BY <2>2, <2>3
<1>. QED
  BY <1>3, <1>4, <1>5

LEMMA PrefixesOf ==
    ASSUME NEW c \in Seq(Nat)
    PROVE  /\ IsFiniteSet(Prefixes(c))
           /\ \A p \in Prefixes(c) : /\ p \in Seq(Nat) /\ Len(p) \in 1..Len(c)
                                     /\ p = SubSeq(c, 1, Len(p))
                                     /\ Prefixes(p) \subseteq Prefixes(c)
           /\ c # <<>> => c \in Prefixes(c)
<1>. DEFINE n == Len(c)
            f == [k \in 1..n |-> SubSeq(c, 1, k)]
<1>1. n \in Nat
  BY LenProperties
<1>2. f \in Surjection(1..n, Prefixes(c))
  BY DEF Prefixes, Surjection
<1>3. IsFiniteSet(Prefixes(c))
  <2>. HIDE DEF f, n
  <2>1. IsFiniteSet(1..n)
    BY <1>1, FS_Interval
  <2>. QED
    BY <1>2, <2>1, FS_Surjection
<1>4. ASSUME NEW p \in Prefixes(c)
      PROVE  /\ p \in Seq(Nat) /\ Len(p) \in 1..n
             /\ p = SubSeq(c, 1, Len(p))
             /\ Prefixes(p) \subseteq Prefixes(c)
  <2>1. PICK k \in 1..n : p = SubSeq(c, 1, k)
    BY DEF Prefixes
  <2>2. p \in Seq(Nat) /\ Len(p) = k /\ \A j \in 1..k : SubSeq(p, 1, j) = SubSeq(c, 1, j)
    BY <2>1, PrefixAt
  <2>3. \A j \in 1..k : j \in 1..n
    BY <1>1
  <2>. QED
    BY <2>1, <2>2, <2>3 DEF Prefixes
<1>5. c # <<>> => c \in Prefixes(c)
  <2>. HAVE c # <<>>
  <2>1. n \in Nat \ {0}
    BY EmptySeq
  <2>2. n \in 1..n
    BY <2>1
  <2>3. SubSeq(c, 1, n) = c
    BY SubSeqFull
  <2>. QED
    BY <2>2, <2>3 DEF Prefixes
<1>. QED
  BY <1>3, <1>4, <1>5

LEMMA PrefixType ==
    /\ \A p \in Prefix : /\ p \in Seq(Nat) /\ Len(p) \in Nat \ {0}
                         /\ p \in Prefixes(p) /\ Prefixes(p) \subseteq Prefix
                         /\ IsFiniteSet(Prefixes(p))
    /\ Conversation \subseteq Prefix
<1>1. \A c \in Conversation : c \in Seq(Nat) /\ c # <<>>
  BY ConversationAssumption
<1>2. Conversation \subseteq Prefix
  BY <1>1, PrefixesOf DEF Prefix
<1>3. ASSUME NEW p \in Prefix
      PROVE  /\ p \in Seq(Nat) /\ Len(p) \in Nat \ {0}
             /\ p \in Prefixes(p) /\ Prefixes(p) \subseteq Prefix
             /\ IsFiniteSet(Prefixes(p))
  <2>1. PICK c \in Conversation : p \in Prefixes(c)
    BY DEF Prefix
  <2>2. p \in Seq(Nat) /\ Len(p) \in 1..Len(c) /\ Prefixes(p) \subseteq Prefixes(c)
    BY <1>1, <2>1, PrefixesOf
  <2>3. Len(p) \in Nat \ {0} /\ p # <<>>
    BY <2>2, EmptySeq
  <2>. QED
    BY <2>2, <2>3, PrefixesOf DEF Prefix
<1>. QED
  BY <1>2, <1>3

\* The files a manifest names exist as names, and are finitely many.
LEMMA NamesType ==
    ASSUME NEW mf, mf.model \in Model, mf.tokens \in Prefix
    PROVE  Names(mf) \subseteq FileName /\ IsFiniteSet(Names(mf))
<1>1. /\ mf.tokens \in Prefixes(mf.tokens) /\ Prefixes(mf.tokens) \subseteq Prefix
      /\ IsFiniteSet(Prefixes(mf.tokens))
  BY PrefixType
<1>. DEFINE B == {KvFile(mf.model, p) : p \in Prefixes(mf.tokens)}
            f == [p \in Prefixes(mf.tokens) |-> KvFile(mf.model, p)]
<1>2. f \in Surjection(Prefixes(mf.tokens), B)
  BY DEF Surjection
<1>3. IsFiniteSet(B)
  <2>. HIDE DEF f, B
  <2>. QED
    BY <1>1, <1>2, FS_Surjection
<1>4. IsFiniteSet(WindowBlob(mf)) /\ WindowBlob(mf) \subseteq FileName
  <2>1. WindowFile(mf.model, mf.tokens) \in FileName
    BY DEF FileName
  <2>2. WindowBlob(mf) = {} \/ WindowBlob(mf) = {WindowFile(mf.model, mf.tokens)}
    BY DEF WindowBlob
  <2>. QED
    BY <2>1, <2>2, FS_EmptySet, FS_Singleton
<1>5. B \subseteq FileName
  BY <1>1 DEF FileName
<1>6. Names(mf) = B \cup WindowBlob(mf)
  BY DEF Names
<1>. HIDE DEF B
<1>. QED
  BY <1>3, <1>4, <1>5, <1>6, FS_Union

-----------------------------------------------------------------------------
(* What a collection keeps *)

Budgeted(M) == [total : Nat, keep : Seq(M)]

\* One manifest after another is charged and kept or not.
Charged(s, k, w) == w.total + Cardinality(Fresh(s, k))
NextWalk(s, k, w) ==
    IF Charged(s, k, w) > budget /\ w.keep # <<>> THEN w
    ELSE [total |-> Charged(s, k, w), keep |-> Append(w.keep, s[k])]

LEMMA FreshFinite ==
    ASSUME NEW s, NEW k, IsFiniteSet(Names(s[k]))
    PROVE  IsFiniteSet(Fresh(s, k)) /\ Cardinality(Fresh(s, k)) \in Nat
<1>1. Fresh(s, k) \in SUBSET Names(s[k])
  BY DEF Fresh
<1>. QED
  BY <1>1, FS_Subset, FS_CardinalityType

LEMMA WalkIs ==
    ASSUME NEW M, NEW s \in Seq(M), \A m \in M : IsFiniteSet(Names(m))
    PROVE  /\ Walk(s)[0] = [total |-> 0, keep |-> <<>>]
           /\ \A k \in 0..Len(s) : Walk(s)[k] \in Budgeted(M)
           /\ \A k \in 1..Len(s) : Walk(s)[k] = NextWalk(s, k, Walk(s)[k - 1])
<1>. DEFINE n == Len(s)
            T == Budgeted(M)
            z == [total |-> 0, keep |-> <<>>]
            G == [x \in (1..n) \X T |-> NextWalk(s, x[1], x[2])]
            Is(w) == w = [k \in 0..n |-> IF k = 0 THEN z ELSE NextWalk(s, k, w[k - 1])]
<1>1. n \in Nat
  BY LenProperties
<1>2. z \in T
  BY EmptySeq DEF Budgeted
<1>3. ASSUME NEW k \in 1..n, NEW w \in T PROVE NextWalk(s, k, w) \in T
  <2>1. s[k] \in M
    BY ElementOfSeq
  <2>2. Charged(s, k, w) \in Nat
    <3>1. Cardinality(Fresh(s, k)) \in Nat
      BY <2>1, FreshFinite
    <3>. QED
      BY <3>1 DEF Budgeted, Charged
  <2>3. w.keep \in Seq(M)
    BY DEF Budgeted
  <2>4. Append(w.keep, s[k]) \in Seq(M)
    BY <2>1, <2>3, AppendProperties
  <2>. QED
    BY <2>2, <2>4 DEF Budgeted, NextWalk
<1>4. G \in [(1..n) \X T -> T] /\ \A k \in 1..n, w \in T : G[<<k, w>>] = NextWalk(s, k, w)
  <2>. HIDE DEF T, n
  <2>. QED
    BY <1>3
<1>5. PICK f : Recursive(f, n, T, z, G)
  <2>. HIDE DEF n, T, z, G
  <2>. QED
    BY <1>1, <1>2, <1>4, RecursionExists
<1>6. Is(f)
  <2>. HIDE DEF T, z, G, n
  <2>1. f = [k \in 0..n |-> f[k]]
    BY <1>5 DEF Recursive
  <2>2. ASSUME NEW k \in 0..n
        PROVE  f[k] = IF k = 0 THEN z ELSE NextWalk(s, k, f[k - 1])
    <3>1. CASE k = 0
      BY <1>5, <3>1 DEF Recursive
    <3>2. CASE k # 0
      <4>1. k \in 1..n /\ k - 1 \in 0..n
        BY <1>1, <3>2
      <4>2. f[k - 1] \in T
        BY <1>5, <4>1 DEF Recursive
      <4>. QED
        BY <1>4, <1>5, <3>2, <4>1, <4>2 DEF Recursive
    <3>. QED
      BY <3>1, <3>2
  <2>. QED
    BY <2>1, <2>2
<1>7. Walk(s) = CHOOSE w : Is(w)
  BY DEF Walk, NextWalk, Charged
<1>8. Is(Walk(s))
  <2>. HIDE DEF Is
  <2>. QED
    BY <1>6, <1>7
<1>9. /\ Walk(s)[0] = z
      /\ \A k \in 1..n : Walk(s)[k] = NextWalk(s, k, Walk(s)[k - 1])
  <2>1. 0 \in 0..n /\ \A k \in 1..n : k \in 0..n /\ k # 0
    BY <1>1
  <2>. DEFINE W == Walk(s)
  <2>2. W = [k \in 0..n |-> IF k = 0 THEN z ELSE NextWalk(s, k, W[k - 1])]
    BY <1>8
  <2>. HIDE DEF n, z, W
  <2>3. \A k \in 0..n : W[k] = IF k = 0 THEN z ELSE NextWalk(s, k, W[k - 1])
    BY <2>2
  <2>. QED
    BY <2>1, <2>3 DEF W
<1>10. \A k \in 0..n : Walk(s)[k] \in T
  <2>. DEFINE S == {k \in 0..n : Walk(s)[k] \in T}
  <2>. HIDE DEF T, z, n
  <2>1. 0 \in S
    BY <1>1, <1>2, <1>9
  <2>2. \A k \in 1..n : k - 1 \in S => k \in S
    BY <1>3, <1>9
  <2>. HIDE DEF S
  <2>3. \A k \in 0..n : k \in S
    BY <1>1, <2>1, <2>2, UpTo
  <2>. QED
    BY <2>3 DEF S
<1>. QED
  BY <1>9, <1>10

FilesOf(S) == UNION {Names(m) : m \in S}

\* The files on disk that the manifests in keep name and no other of S does.
OwnFiles(S, keep) == {f \in FilesOf(keep) \ FilesOf(S \ keep) : OnDisk(f)}

First(s, k) == {s[j] : j \in 1..k}

\* After the first k manifests: what is kept is among them and has been
\* charged, and fits unless it is the first alone.
WalkInv(s, k) ==
    LET w == Walk(s)[k]
    IN /\ Items(w.keep) \subseteq First(s, k) /\ Distinct(w.keep)
       /\ Len(w.keep) <= 1 \/ w.total <= budget
       /\ Cardinality(OwnFiles(First(s, k), Items(w.keep))) <= w.total

LEMMA ItemsAppend ==
    ASSUME NEW M, NEW s \in Seq(M), NEW m \in M
    PROVE  /\ Append(s, m) \in Seq(M) /\ Len(Append(s, m)) = Len(s) + 1
           /\ Items(Append(s, m)) = Items(s) \cup {m}
           /\ Distinct(s) /\ (\A x \in Items(s) : ~SamePath(x, m) /\ ~SamePath(m, x)) =>
                Distinct(Append(s, m))
<1>. DEFINE a == Append(s, m)
            n == Len(s)
<1>1. /\ n \in Nat /\ a \in Seq(M) /\ Len(a) = n + 1
      /\ \A i \in 1..n : a[i] = s[i]
      /\ a[n + 1] = m /\ DOMAIN s = 1..n /\ DOMAIN a = 1..Len(a)
  BY AppendProperties, LenProperties
<1>. HIDE DEF a, n
<1>2. DOMAIN a = 1..(n + 1) /\ \A i \in 1..(n + 1) : i \in 1..n \/ i = n + 1
  BY <1>1
<1>3. Items(a) = Items(s) \cup {m}
  <2>1. \A x \in Items(a) : x \in Items(s) \cup {m}
    BY <1>1, <1>2 DEF Items
  <2>2. \A x \in Items(s) : x \in Items(a)
    BY <1>1, <1>2 DEF Items
  <2>3. m \in Items(a)
    <3>1. n + 1 \in 1..(n + 1)
      BY <1>1
    <3>. QED
      BY <1>1, <1>2, <3>1 DEF Items
  <2>. QED
    BY <2>1, <2>2, <2>3
<1>4. ASSUME Distinct(s), \A x \in Items(s) : ~SamePath(x, m) /\ ~SamePath(m, x)
      PROVE  Distinct(a)
  <2>. SUFFICES ASSUME NEW i \in 1..(n + 1), NEW j \in 1..(n + 1), SamePath(a[i], a[j])
                PROVE  i = j
    BY <1>2 DEF Distinct
  <2>1. \A k \in 1..n : s[k] \in Items(s)
    BY <1>1 DEF Items
  <2>2. CASE i \in 1..n /\ j \in 1..n
    BY <1>1, <1>4, <2>2 DEF Distinct
  <2>3. CASE i = n + 1 /\ j \in 1..n
    BY <1>1, <1>4, <2>1, <2>3
  <2>4. CASE j = n + 1 /\ i \in 1..n
    BY <1>1, <1>4, <2>1, <2>4
  <2>. QED
    BY <1>2, <2>2, <2>3, <2>4
<1>. QED
  BY <1>1, <1>3, <1>4 DEF a, n

LEMMA FilesFinite ==
    ASSUME NEW q \in Seq(Manifest), \A m \in Manifest : IsFiniteSet(Names(m))
    PROVE  IsFiniteSet(FilesOf(Items(q)))
<1>1. IsFiniteSet(Items(q))
  <2>1. Len(q) \in Nat /\ DOMAIN q = 1..Len(q) /\ \A i \in DOMAIN q : q[i] \in Manifest
    BY LenProperties
  <2>2. q \in Surjection(DOMAIN q, Items(q))
    <3>1. q \in [DOMAIN q -> Items(q)]
      <4>1. q = [i \in DOMAIN q |-> q[i]]
        BY LenProperties
      <4>2. \A i \in DOMAIN q : q[i] \in Items(q)
        BY DEF Items
      <4>. QED
        BY <4>1, <4>2
    <3>2. \A x \in Items(q) : \E i \in DOMAIN q : q[i] = x
      BY DEF Items
    <3>. QED
      BY <3>1, <3>2 DEF Surjection
  <2>3. IsFiniteSet(DOMAIN q)
    <3>. DEFINE n == Len(q)
    <3>1. n \in Nat /\ DOMAIN q = 1..n
      BY <2>1
    <3>. HIDE DEF n
    <3>2. IsFiniteSet(1..n)
      BY <3>1, FS_Interval
    <3>. QED
      BY <3>1, <3>2
  <2>. QED
    BY <2>2, <2>3, FS_Surjection
<1>. DEFINE K == Items(q)
            F == {Names(m) : m \in K}
            g == [m \in K |-> Names(m)]
<1>2. K \subseteq Manifest
  BY LenProperties DEF Items
<1>3. g \in Surjection(K, F)
  BY DEF Surjection
<1>4. IsFiniteSet(F)
  <2>. HIDE DEF F, g
  <2>. QED
    BY <1>1, <1>3, FS_Surjection
<1>5. \A x \in F : IsFiniteSet(x)
  BY <1>2
<1>6. IsFiniteSet(UNION F)
  <2>. HIDE DEF F
  <2>. QED
    BY <1>4, <1>5, FS_UNION
<1>. QED
  BY <1>6 DEF FilesOf

LEMMA WalkStep ==
    ASSUME NEW s \in Seq(Manifest), Distinct(s), budget \in Nat,
           NEW k \in 1..Len(s), WalkInv(s, k - 1)
    PROVE  WalkInv(s, k)
<1>. DEFINE w == Walk(s)[k - 1]
            v == Walk(s)[k]
            K == Items(w.keep)
            P == First(s, k - 1)
<1>1. \A m \in Manifest : IsFiniteSet(Names(m))
  BY NamesType DEF Manifest
<1>2. Len(s) \in Nat /\ k \in Nat /\ k - 1 \in 0..Len(s) /\ s[k] \in Manifest
  BY LenProperties, ElementOfSeq
<1>3. w \in Budgeted(Manifest) /\ v = NextWalk(s, k, w)
  BY <1>1, <1>2, WalkIs
<1>4. /\ K \subseteq P /\ Distinct(w.keep)
      /\ Len(w.keep) <= 1 \/ w.total <= budget
      /\ Cardinality(OwnFiles(P, K)) <= w.total
  BY DEF WalkInv
<1>5. w.keep \in Seq(Manifest) /\ w.total \in Nat
  BY <1>3 DEF Budgeted
<1>6. First(s, k) = P \cup {s[k]}
  <2>1. 1..k = (1..(k - 1)) \cup {k}
    BY <1>2
  <2>. QED
    BY <2>1 DEF First
<1>7. \A x \in P : ~SamePath(x, s[k]) /\ ~SamePath(s[k], x)
  <2>1. \A j \in 1..(k - 1) : j \in DOMAIN s /\ k \in DOMAIN s /\ j # k
    BY <1>2, LenProperties
  <2>. QED
    BY <2>1 DEF Distinct, First
<1>8. s[k] \notin P
  BY <1>7 DEF SamePath
<1>9. IsFiniteSet(FilesOf(K)) /\ IsFiniteSet(Names(s[k]))
  BY <1>1, <1>2, <1>5, FilesFinite
<1>10. IsFiniteSet(OwnFiles(P, K)) /\ Cardinality(OwnFiles(P, K)) \in Nat
  <2>1. OwnFiles(P, K) \in SUBSET FilesOf(K)
    BY DEF OwnFiles
  <2>. QED
    BY <1>9, <2>1, FS_Subset, FS_CardinalityType
<1>. HIDE DEF w, v, K, P
<1>11. CASE v = w
  <2>1. OwnFiles(P \cup {s[k]}, K) \in SUBSET OwnFiles(P, K)
    BY DEF OwnFiles, FilesOf
  <2>2. Cardinality(OwnFiles(P \cup {s[k]}, K)) <= Cardinality(OwnFiles(P, K))
    BY <1>10, <2>1, FS_Subset
  <2>3. Cardinality(OwnFiles(P \cup {s[k]}, K)) \in Nat
    BY <1>10, <2>1, FS_Subset, FS_CardinalityType
  <2>4. Cardinality(OwnFiles(P \cup {s[k]}, K)) <= w.total
    BY <1>4, <1>5, <1>10, <2>2, <2>3
  <2>. QED
    BY <1>4, <1>6, <1>11, <2>4 DEF WalkInv, v, K
<1>12. CASE /\ v = [total |-> Charged(s, k, w), keep |-> Append(w.keep, s[k])]
            /\ ~(Charged(s, k, w) > budget /\ w.keep # <<>>)
  <2>1. IsFiniteSet(Fresh(s, k)) /\ Cardinality(Fresh(s, k)) \in Nat
    BY <1>9, FreshFinite
  <2>2. /\ v.keep = Append(w.keep, s[k])
        /\ v.total = w.total + Cardinality(Fresh(s, k)) /\ v.total \in Nat
    BY <1>5, <1>12, <2>1 DEF Charged
  <2>3. Items(v.keep) = K \cup {s[k]} /\ Distinct(v.keep) /\ Len(v.keep) = Len(w.keep) + 1
    <3>1. \A x \in Items(w.keep) : ~SamePath(x, s[k]) /\ ~SamePath(s[k], x)
      BY <1>4, <1>7 DEF K
    <3>. QED
      BY <1>2, <1>4, <1>5, <2>2, <3>1, ItemsAppend DEF K
  <2>4. Len(v.keep) <= 1 \/ v.total <= budget
    <3>1. CASE w.keep = <<>>
      <4>1. Len(w.keep) = 0
        BY <3>1, EmptySeq
      <4>. QED
        BY <2>3, <4>1
    <3>2. CASE ~(Charged(s, k, w) > budget)
      BY <2>2, <3>2 DEF Charged
    <3>. QED
      BY <1>12, <3>1, <3>2
  <2>5. (P \cup {s[k]}) \ (K \cup {s[k]}) = P \ K
    BY <1>8
  <2>6. OwnFiles(P \cup {s[k]}, K \cup {s[k]}) \subseteq OwnFiles(P, K) \cup Fresh(s, k)
    <3>. SUFFICES ASSUME NEW f \in FilesOf(K \cup {s[k]}), f \notin FilesOf(P \ K), OnDisk(f),
                         f \notin OwnFiles(P, K)
                  PROVE  f \in Fresh(s, k)
      BY <2>5 DEF OwnFiles
    <3>1. f \notin FilesOf(K)
      BY DEF OwnFiles
    <3>2. f \in Names(s[k])
      BY <3>1 DEF FilesOf
    <3>3. f \notin FilesOf(P)
      BY <3>1 DEF FilesOf
    <3>4. FilesOf(P) = UNION {Names(s[j]) : j \in 1..(k - 1)}
      BY DEF FilesOf, P, First
    <3>. QED
      BY <3>2, <3>3, <3>4 DEF Fresh
  <2>7. /\ IsFiniteSet(OwnFiles(P, K) \cup Fresh(s, k))
        /\ Cardinality(OwnFiles(P, K) \cup Fresh(s, k)) <=
             Cardinality(OwnFiles(P, K)) + Cardinality(Fresh(s, k))
    <3>. DEFINE A == OwnFiles(P, K)
                B == Fresh(s, k)
    <3>. HIDE DEF A, B
    <3>1. IsFiniteSet(A) /\ IsFiniteSet(B) /\ Cardinality(A) \in Nat /\ Cardinality(B) \in Nat
      BY <1>10, <2>1 DEF A, B
    <3>2. /\ IsFiniteSet(A \cup B)
          /\ Cardinality(A \cup B) = Cardinality(A) + Cardinality(B) - Cardinality(A \cap B)
      BY <3>1, FS_Union
    <3>3. A \cap B \in SUBSET A
      OBVIOUS
    <3>4. Cardinality(A \cap B) \in Nat
      BY <3>1, <3>3, FS_Subset, FS_CardinalityType
    <3>5. Cardinality(A \cup B) <= Cardinality(A) + Cardinality(B)
      BY <3>1, <3>2, <3>4
    <3>. QED
      BY <3>2, <3>5 DEF A, B
  <2>8. Cardinality(OwnFiles(P \cup {s[k]}, K \cup {s[k]})) <= v.total
    <3>. DEFINE C == OwnFiles(P \cup {s[k]}, K \cup {s[k]})
                U == OwnFiles(P, K) \cup Fresh(s, k)
    <3>1. C \in SUBSET U
      BY <2>6
    <3>. HIDE DEF C
    <3>2. IsFiniteSet(U)
      BY <2>7
    <3>3. Cardinality(C) \in Nat /\ Cardinality(C) <= Cardinality(U) /\ Cardinality(U) \in Nat
      <4>. HIDE DEF U
      <4>. QED
        BY <3>1, <3>2, FS_Subset, FS_CardinalityType
    <3>4. Cardinality(C) <= v.total
      BY <1>4, <1>5, <1>10, <2>1, <2>2, <2>7, <3>3
    <3>. QED
      BY <3>4 DEF C
  <2>9. Items(v.keep) \subseteq First(s, k)
    BY <1>4, <1>6, <2>3
  <2>. QED
    BY <1>6, <2>3, <2>4, <2>8, <2>9 DEF WalkInv, v
<1>. QED
  BY <1>3, <1>11, <1>12 DEF NextWalk

\* What the collection keeps is some of the index, is all of it without a
\* limit, and with one is a single manifest or fits it, but for the files a
\* dropped manifest names too.
LEMMA KeepIs ==
    ASSUME NEW s \in Seq(Manifest), Distinct(s), budget \in Nat
    PROVE  /\ Keep(s) \in Seq(Manifest) /\ Distinct(Keep(s))
           /\ Items(Keep(s)) \subseteq Items(s)
           /\ budget = 0 => Keep(s) = s
           /\ budget > 0 =>
                \/ Len(Keep(s)) = 1
                \/ Cardinality(OwnFiles(Items(s), Items(Keep(s)))) <= budget
<1>1. CASE budget = 0
  BY <1>1 DEF Keep
<1>2. CASE budget # 0
  <2>. DEFINE q == NewestFirst(s)
              n == Len(s)
  <2>1. \A m \in Manifest : m.last_used \in Nat
    BY BoundAssumption DEF Manifest
  <2>2. q \in Seq(Manifest) /\ Len(q) = n /\ Items(q) = Items(s) /\ Distinct(q)
    BY <2>1, NewestFirstItems
  <2>3. Keep(s) = Walk(q)[n].keep
    BY <1>2 DEF Keep
  <2>4. n \in Nat
    BY LenProperties
  <2>. HIDE DEF q, n
  <2>5. \A m \in Manifest : IsFiniteSet(Names(m))
    BY NamesType DEF Manifest
  <2>6. /\ Walk(q)[0] = [total |-> 0, keep |-> <<>>]
        /\ \A k \in 0..n : Walk(q)[k] \in Budgeted(Manifest)
    <3>1. /\ Walk(q)[0] = [total |-> 0, keep |-> <<>>]
          /\ \A k \in 0..Len(q) : Walk(q)[k] \in Budgeted(Manifest)
      BY <2>2, <2>5, WalkIs
    <3>. QED
      BY <2>2, <3>1
  <2>7. WalkInv(q, 0)
    <3>1. Walk(q)[0].keep = <<>> /\ Walk(q)[0].total = 0
      BY <2>6
    <3>2. Len(<<>>) = 0 /\ DOMAIN <<>> = {} /\ Items(<<>>) = {} /\ Distinct(<<>>)
      <4>1. <<>> \in Seq(Manifest) /\ Len(<<>>) = 0 /\ DOMAIN <<>> = {}
        BY EmptySeq
      <4>. QED
        BY <4>1 DEF Items, Distinct
    <3>3. OwnFiles(First(q, 0), {}) = {}
      BY DEF OwnFiles, FilesOf
    <3>. DEFINE v == Walk(q)[0]
    <3>4. Items(v.keep) = {} /\ Distinct(v.keep) /\ Len(v.keep) = 0 /\ v.total = 0
      BY <3>1, <3>2
    <3>5. Cardinality(OwnFiles(First(q, 0), Items(v.keep))) = 0
      BY <3>3, <3>4, FS_EmptySet
    <3>. HIDE DEF v
    <3>6. Len(v.keep) <= 1 /\ Cardinality(OwnFiles(First(q, 0), Items(v.keep))) <= v.total
      BY <3>4, <3>5
    <3>. QED
      BY <3>4, <3>6 DEF WalkInv, v
  <2>8. \A k \in 0..n : WalkInv(q, k)
    <3>. DEFINE S == {k \in 0..n : WalkInv(q, k)}
    <3>1. 0 \in S
      BY <2>4, <2>7
    <3>2. ASSUME NEW k \in 1..n, k - 1 \in S PROVE k \in S
      <4>1. WalkInv(q, k - 1) /\ k \in 1..Len(q)
        BY <2>2, <3>2
      <4>2. WalkInv(q, k)
        BY <2>2, <4>1, WalkStep
      <4>. QED
        BY <2>4, <4>2
    <3>. HIDE DEF S
    <3>3. \A k \in 0..n : k \in S
      BY <2>4, <3>1, <3>2, UpTo
    <3>. QED
      BY <3>3 DEF S
  <2>. DEFINE w == Walk(q)[n]
  <2>9. WalkInv(q, n) /\ w \in Budgeted(Manifest)
    BY <2>4, <2>6, <2>8
  <2>10. First(q, n) = Items(q)
    <3>1. DOMAIN q = 1..n
      BY <2>2, LenProperties
    <3>. QED
      BY <3>1 DEF First, Items
  <2>11. /\ Items(w.keep) \subseteq Items(q) /\ Distinct(w.keep)
         /\ Len(w.keep) <= 1 \/ w.total <= budget
         /\ Cardinality(OwnFiles(Items(q), Items(w.keep))) <= w.total
    BY <2>9, <2>10 DEF WalkInv
  <2>12. w.keep \in Seq(Manifest) /\ w.total \in Nat
    BY <2>9 DEF Budgeted
  <2>. HIDE DEF w
  <2>13. ASSUME budget > 0, Len(w.keep) # 1
         PROVE  Cardinality(OwnFiles(Items(q), Items(w.keep))) <= budget
    <3>1. Len(w.keep) \in Nat
      BY <2>12, LenProperties
    <3>2. CASE Len(w.keep) = 0
      <4>1. w.keep = <<>>
        BY <2>12, <3>2, EmptySeq
      <4>2. DOMAIN w.keep = {}
        BY <4>1
      <4>3. Items(w.keep) = {}
        BY <4>2 DEF Items
      <4>4. OwnFiles(Items(q), Items(w.keep)) = {}
        BY <4>3 DEF OwnFiles, FilesOf
      <4>5. Cardinality(OwnFiles(Items(q), Items(w.keep))) = 0
        BY <4>4, FS_EmptySet
      <4>. QED
        BY <2>13, <4>5
    <3>3. CASE w.total <= budget
      <4>. DEFINE c == Cardinality(OwnFiles(Items(q), Items(w.keep)))
      <4>1. IsFiniteSet(OwnFiles(Items(q), Items(w.keep))) => c \in Nat
        BY FS_CardinalityType
      <4>2. IsFiniteSet(FilesOf(Items(w.keep)))
        BY <2>5, <2>12, FilesFinite
      <4>3. OwnFiles(Items(q), Items(w.keep)) \in SUBSET FilesOf(Items(w.keep))
        BY DEF OwnFiles
      <4>4. IsFiniteSet(OwnFiles(Items(q), Items(w.keep)))
        BY <4>2, <4>3, FS_Subset
      <4>5. c \in Nat /\ c <= w.total
        BY <2>11, <4>1, <4>4
      <4>. HIDE DEF c
      <4>6. c <= budget
        BY <2>12, <3>3, <4>5
      <4>. QED
        BY <4>6 DEF c
    <3>4. Len(w.keep) = 0 \/ w.total <= budget
      <4>. DEFINE l == Len(w.keep)
      <4>1. l \in Nat /\ l # 1 /\ (l <= 1 \/ w.total <= budget)
        BY <2>11, <2>13, <3>1
      <4>. HIDE DEF l
      <4>2. l = 0 \/ w.total <= budget
        BY <4>1
      <4>. QED
        BY <4>2 DEF l
    <3>. QED
      BY <3>2, <3>3, <3>4
  <2>14. Items(q) = Items(s) /\ Keep(s) = w.keep
    BY <2>2, <2>3 DEF w
  <2>. QED
    BY <1>2, <2>11, <2>12, <2>13, <2>14
<1>. QED
  BY <1>1, <1>2

-----------------------------------------------------------------------------
(* The store under its locks: types, the persist lock, the order of a persist *)

Locking == {"blocks", "manifest", "index", "collect"}
\* The states of a persist whose blocks and side file are written.
AllWritten == {"manifest", "index", "collect"}

\* The persist lock of an engine's store has one holder.
OneWriter ==
    \A t, u \in Thread :
        (/\ persist[t].at \in Locking /\ persist[u].at \in Locking
         /\ persist[t].engine = persist[u].engine) => t = u

\* A persist goes through its blocks once and in their order.
BlocksInOrder ==
    \A t \in Thread :
        /\ persist[t].at # "idle" =>
             persist[t].next <= Len(persist[t].tokens) + 1
        /\ persist[t].at = "staged" => persist[t].next = 1
        /\ persist[t].at \in AllWritten =>
             persist[t].next > Len(persist[t].tokens)

\* What SweepSparesWriter promises.
Spared(t) ==
    (persist[t].at \notin {"idle", "staged"} /\ ~persist[t].disturbed)
        => \A n \in 1..(persist[t].next - 1) : OnDisk(PBlock(t, n))

StoreInv ==
    /\ KvTypeOK
    /\ IsFiniteSet(manifests)
    /\ OneWriter
    /\ BlocksInOrder
    /\ \A t \in Thread : Spared(t)

RestoreRecord ==
    [at : {"chosen", "checked", "chain", "reading", "failed", "imported"},
     prompt : Conversation, mi : Nat \ {0}, covered : Nat \ {0},
     chain : Seq(FileName), window : SUBSET FileName, rows : Seq(Rows),
     chosen : Manifest, still : BOOLEAN]
PersistRecord ==
    [at : {"staged", "blocks", "manifest", "index", "collect"},
     engine : Engine, tokens : Prefix, staged : SUBSET Nat, next : Nat \ {0},
     last_used : 0..MaxClock, disturbed : BOOLEAN]

LEMMA RecordOf ==
    /\ \A r \in RestoreState : r.at # "idle" => r \in RestoreRecord
    /\ \A p \in PersistState : p.at # "idle" => p \in PersistRecord
    /\ RestoreRecord \subseteq RestoreState /\ NoRestore \in RestoreState
    /\ PersistRecord \subseteq PersistState /\ NoPersist \in PersistState
    /\ NoRestore.at = "idle" /\ NoPersist.at = "idle"
BY DEF RestoreState, RestoreRecord, PersistState, PersistRecord, NoRestore, NoPersist

\* A step of a restore touches nothing else.
LEMMA RestoreStepInv ==
    ASSUME StoreInv, NEW e \in Engine, NEW next \in RestoreState,
           restore' = [restore EXCEPT ![e] = next], requests' \in 0..MaxRequests,
           UNCHANGED <<files, manifests, budget, open, index, persist, clock,
                       damages, restarts, shared, kept>>
    PROVE  StoreInv'
<1>1. restore' \in [Engine -> RestoreState]
  BY DEF StoreInv, KvTypeOK
<1>2. KvTypeOK'
  BY <1>1 DEF StoreInv, KvTypeOK
<1>3. OneWriter' /\ BlocksInOrder' /\ \A t \in Thread : Spared(t)'
  BY DEF StoreInv, OneWriter, BlocksInOrder, Spared, OnDisk, PBlock, PModel
<1>. QED
  BY <1>2, <1>3 DEF StoreInv

\* A persist whose engine, sequence and place in it stay the same, and whose
\* files do, keeps its promise.
Same(p, q) ==
    /\ p.engine = q.engine /\ p.tokens = q.tokens /\ p.next = q.next

LEMMA SparedStays ==
    ASSUME NEW t \in Thread, Spared(t),
           persist'[t].at \notin {"idle", "staged"} =>
               /\ persist[t].at \notin {"idle", "staged"}
               /\ Same(persist[t], persist'[t])
               /\ ~persist'[t].disturbed => ~persist[t].disturbed,
           persist'[t].at \notin {"idle", "staged"} /\ ~persist'[t].disturbed =>
               \A n \in 1..(persist[t].next - 1) :
                   OnDisk(PBlock(t, n)) => files'[PBlock(t, n)] # Absent
    PROVE  Spared(t)'
BY DEF Spared, Same, OnDisk, PBlock, PModel

LEMMA PersistType ==
    ASSUME KvTypeOK, NEW t \in Thread, persist[t].at # "idle"
    PROVE  /\ persist[t] \in PersistRecord
           /\ persist[t].tokens \in Seq(Nat) /\ Len(persist[t].tokens) \in Nat \ {0}
           /\ PModel(t) \in Model
           /\ \A n \in 1..Len(persist[t].tokens) :
                 /\ SubSeq(persist[t].tokens, 1, n) \in Prefixes(persist[t].tokens)
                 /\ SubSeq(persist[t].tokens, 1, n) \in Prefix
                 /\ PBlock(t, n) \in FileName
           /\ WindowFile(PModel(t), persist[t].tokens) \in FileName
<1>1. persist[t] \in PersistRecord
  BY RecordOf DEF KvTypeOK
<1>2. persist[t].tokens \in Prefix /\ persist[t].engine \in Engine
  BY <1>1 DEF PersistRecord
<1>3. PModel(t) \in Model
  BY <1>2, EngineAssumption DEF PModel
<1>4. /\ persist[t].tokens \in Seq(Nat) /\ Len(persist[t].tokens) \in Nat \ {0}
      /\ Prefixes(persist[t].tokens) \subseteq Prefix
  BY <1>2, PrefixType
<1>5. \A n \in 1..Len(persist[t].tokens) :
          /\ SubSeq(persist[t].tokens, 1, n) \in Prefixes(persist[t].tokens)
          /\ SubSeq(persist[t].tokens, 1, n) \in Prefix
  BY <1>4 DEF Prefixes
<1>6. \A n \in 1..Len(persist[t].tokens) : PBlock(t, n) \in FileName
  BY <1>3, <1>5 DEF PBlock, FileName
<1>7. WindowFile(PModel(t), persist[t].tokens) \in FileName
  BY <1>2, <1>3 DEF FileName
<1>. QED
  BY <1>1, <1>3, <1>4, <1>5, <1>6, <1>7

LEMMA StoreInit == Init => StoreInv
<1>. SUFFICES ASSUME Init PROVE StoreInv
  OBVIOUS
<1>1. files \in [FileName -> Content]
  BY DEF Init, Content
<1>2. <<>> \in Seq(Manifest) /\ DOMAIN <<>> = {}
  BY EmptySeq
<1>3. index \in [Engine -> Seq(Manifest)] /\ \A e \in Engine : DOMAIN index[e] = {}
  BY <1>2 DEF Init
<1>4. /\ restore \in [Engine -> RestoreState] /\ persist \in [Thread -> PersistState]
      /\ \A t \in Thread : persist[t].at = "idle"
  BY RecordOf DEF Init
<1>5. /\ requests \in 0..MaxRequests /\ clock \in 0..MaxClock
      /\ damages \in Nat /\ restarts \in Nat /\ damages + restarts <= MaxFaults
  BY BoundAssumption DEF Init
<1>6. KvTypeOK
  BY <1>1, <1>3, <1>4, <1>5 DEF Init, KvTypeOK
<1>7. OneWriter /\ BlocksInOrder /\ \A t \in Thread : Spared(t)
  BY <1>4 DEF OneWriter, BlocksInOrder, Spared, Locking, AllWritten
<1>. QED
  BY <1>6, <1>7, FS_EmptySet DEF StoreInv, Init

LEMMA StoreOpen ==
    ASSUME StoreInv, NEW e \in Engine, Open(e) PROVE StoreInv'
<1>. DEFINE N == Cardinality(manifests)
<1>1. PICK order \in [1..N -> manifests] :
          Items(order) = manifests /\ index' = [index EXCEPT ![e] = order]
  BY DEF Open
<1>2. N \in Nat /\ IsFiniteSet(manifests) /\ manifests \subseteq Manifest
  BY FS_CardinalityType DEF StoreInv, KvTypeOK
<1>. HIDE DEF N
<1>3. order \in Seq(Manifest) /\ DOMAIN order = 1..N
  <2>1. order \in [1..N -> Manifest]
    BY <1>2
  <2>. QED
    BY <1>2, <2>1, SeqDef
<1>4. \A i, j \in DOMAIN order : SamePath(order[i], order[j]) => i = j
  <2>1. order \in Surjection(1..N, manifests)
    BY <1>1, <1>3 DEF Items, Surjection
  <2>2. IsFiniteSet(1..N) /\ Cardinality(1..N) = N
    BY <1>2, FS_Interval
  <2>3. order \in Injection(1..N, manifests)
    BY <1>2, <2>1, <2>2, FS_SurjSameCardinalityImpliesInj DEF N
  <2>4. \A i, j \in 1..N : order[i] = order[j] => i = j
    BY <2>3 DEF Injection, IsInjective
  <2>5. \A i \in 1..N : order[i] \in manifests
    BY <1>1
  <2>6. \A a, b \in manifests : SamePath(a, b) => a = b
    BY DEF StoreInv, KvTypeOK
  <2>. QED
    BY <1>3, <2>4, <2>5, <2>6
<1>5. /\ index' \in [Engine -> Seq(Manifest)]
      /\ \A f \in Engine : \A i, j \in DOMAIN index'[f] :
            SamePath(index'[f][i], index'[f][j]) => i = j
  <2>1. index' \in [Engine -> Seq(Manifest)]
    BY <1>1, <1>3 DEF StoreInv, KvTypeOK
  <2>2. \A f \in Engine : index'[f] = IF f = e THEN order ELSE index[f]
    BY <1>1 DEF StoreInv, KvTypeOK
  <2>. QED
    BY <1>4, <2>1, <2>2 DEF StoreInv, KvTypeOK
<1>6. KvTypeOK'
  BY <1>5 DEF StoreInv, KvTypeOK, Open
<1>7. OneWriter' /\ BlocksInOrder' /\ \A t \in Thread : Spared(t)'
  BY DEF StoreInv, Open, OneWriter, BlocksInOrder, Spared, OnDisk, PBlock, PModel
<1>. QED
  BY <1>6, <1>7 DEF StoreInv, Open

LEMMA StoreRestart ==
    ASSUME StoreInv, Restart PROVE StoreInv'
<1>2. <<>> \in Seq(Manifest) /\ DOMAIN <<>> = {}
  BY EmptySeq
<1>3. index' \in [Engine -> Seq(Manifest)] /\ \A e \in Engine : DOMAIN index'[e] = {}
  BY <1>2 DEF Restart
<1>4. /\ restore' \in [Engine -> RestoreState] /\ persist' \in [Thread -> PersistState]
      /\ \A t \in Thread : persist'[t].at = "idle"
  BY RecordOf DEF Restart
<1>5. damages' \in Nat /\ restarts' \in Nat /\ damages' + restarts' <= MaxFaults
  BY BoundAssumption DEF Restart, StoreInv, KvTypeOK
<1>6. KvTypeOK'
  BY <1>3, <1>4, <1>5 DEF StoreInv, KvTypeOK, Restart
<1>7. OneWriter' /\ BlocksInOrder' /\ \A t \in Thread : Spared(t)'
  BY <1>4 DEF OneWriter, BlocksInOrder, Spared, Locking, AllWritten
<1>. QED
  BY <1>6, <1>7 DEF StoreInv, Restart

LEMMA StoreDamage ==
    ASSUME StoreInv, Damage PROVE StoreInv'
<1>1. damages' \in Nat /\ restarts' \in Nat /\ damages' + restarts' <= MaxFaults
  BY BoundAssumption DEF Damage, StoreInv, KvTypeOK
<1>2. files' \in [FileName -> Content] /\ \A f \in FileName : OnDisk(f) => files'[f] # Absent
  <2>1. CASE UNCHANGED files
    BY <2>1 DEF StoreInv, KvTypeOK, OnDisk
  <2>2. ASSUME NEW g \in FileName, files' = [files EXCEPT ![g] = Damaged]
        PROVE  /\ files' \in [FileName -> Content]
               /\ \A f \in FileName : OnDisk(f) => files'[f] # Absent
    <3>1. Damaged \in Content /\ Damaged # Absent
      BY DEF Content, Damaged, Absent
    <3>2. files \in [FileName -> Content]
      BY DEF StoreInv, KvTypeOK
    <3>3. \A f \in FileName : files'[f] = IF f = g THEN Damaged ELSE files[f]
      BY <2>2, <3>2
    <3>. QED
      BY <2>2, <3>1, <3>2, <3>3 DEF OnDisk
  <2>. QED
    BY <2>1, <2>2 DEF Damage
<1>3. manifests' \subseteq manifests
  BY DEF Damage
<1>4. KvTypeOK'
  BY <1>1, <1>2, <1>3 DEF StoreInv, KvTypeOK, Damage
<1>5. IsFiniteSet(manifests')
  <2>1. manifests' \in SUBSET manifests
    BY <1>3
  <2>. QED
    BY <2>1, FS_Subset DEF StoreInv
<1>6. OneWriter' /\ BlocksInOrder'
  BY DEF StoreInv, Damage, OneWriter, BlocksInOrder
<1>7. ASSUME NEW t \in Thread PROVE Spared(t)'
  <2>1. persist' = persist
    BY DEF Damage
  <2>2. CASE persist[t].at = "idle"
    BY <2>1, <2>2 DEF Spared
  <2>3. CASE persist[t].at # "idle"
    <3>1. ASSUME NEW n \in 1..(persist[t].next - 1) PROVE PBlock(t, n) \in FileName
      <4>1. persist[t].next \in Nat /\ persist[t].next <= Len(persist[t].tokens) + 1
        BY <2>3, PersistType DEF StoreInv, BlocksInOrder, PersistRecord
      <4>2. Len(persist[t].tokens) \in Nat
        BY <2>3, PersistType DEF StoreInv
      <4>3. n \in 1..Len(persist[t].tokens)
        BY <4>1, <4>2
      <4>. QED
        BY <2>3, <4>3, PersistType DEF StoreInv
    <3>. QED
      BY <1>2, <2>1, <3>1, SparedStays DEF StoreInv, Same
  <2>. QED
    BY <2>2, <2>3
<1>. QED
  BY <1>4, <1>5, <1>6, <1>7 DEF StoreInv

LEMMA RestoreType ==
    ASSUME KvTypeOK, NEW e \in Engine, restore[e].at # "idle"
    PROVE  /\ restore[e] \in RestoreRecord
           /\ At(e) => Found(e) \in Manifest
           /\ \A mf \in Manifest :
                 /\ Chain(mf.model, mf.tokens) \in Seq(FileName)
                 /\ Len(Chain(mf.model, mf.tokens)) = Len(mf.tokens)
                 /\ Take(Chain(mf.model, mf.tokens), restore[e].covered) \in Seq(FileName)
                 /\ WindowBlob(mf) \subseteq FileName
<1>1. restore[e] \in RestoreRecord
  BY RecordOf DEF KvTypeOK
<1>2. At(e) => Found(e) \in Manifest
  BY LenProperties DEF KvTypeOK, At, Found
<1>3. ASSUME NEW mf \in Manifest
      PROVE  /\ Chain(mf.model, mf.tokens) \in Seq(FileName)
             /\ Len(Chain(mf.model, mf.tokens)) = Len(mf.tokens)
             /\ Take(Chain(mf.model, mf.tokens), restore[e].covered) \in Seq(FileName)
             /\ WindowBlob(mf) \subseteq FileName
  <2>1. mf.model \in Model /\ mf.tokens \in Prefix
    BY DEF Manifest
  <2>2. Len(mf.tokens) \in Nat /\ Prefixes(mf.tokens) \subseteq Prefix
    BY <2>1, PrefixType
  <2>3. \A n \in 1..Len(mf.tokens) : KvFile(mf.model, SubSeq(mf.tokens, 1, n)) \in FileName
    <3>1. \A n \in 1..Len(mf.tokens) : SubSeq(mf.tokens, 1, n) \in Prefix
      BY <2>2 DEF Prefixes
    <3>. QED
      BY <2>1, <3>1 DEF FileName
  <2>. DEFINE c == Chain(mf.model, mf.tokens)
              n == Len(mf.tokens)
  <2>4. c \in [1..n -> FileName] /\ DOMAIN c = 1..n
    BY <2>3 DEF Chain
  <2>. HIDE DEF c, n
  <2>5. c \in Seq(FileName)
    BY <2>2, <2>4, SeqDef DEF n
  <2>6. Len(c) = n
    <3>1. DOMAIN c = 1..Len(c) /\ Len(c) \in Nat
      BY <2>5, LenProperties
    <3>. QED
      BY <2>2, <2>4, <3>1 DEF n
  <2>7. Take(c, restore[e].covered) \in Seq(FileName)
    <3>1. restore[e].covered \in Nat \ {0}
      BY <1>1 DEF RestoreRecord
    <3>2. CASE restore[e].covered < Len(c)
      <4>1. \A i \in 1..restore[e].covered : i \in 1..Len(c)
        BY <2>2, <2>6, <3>1, <3>2 DEF n
      <4>2. \A i \in 1..restore[e].covered : c[i] \in FileName
        BY <2>5, <4>1, ElementOfSeq
      <4>3. SubSeq(c, 1, restore[e].covered) \in Seq(FileName)
        BY <3>1, <4>2, SubSeqProperties
      <4>. QED
        BY <3>2, <4>3 DEF Take
    <3>3. CASE ~(restore[e].covered < Len(c))
      BY <2>5, <3>3 DEF Take
    <3>. QED
      BY <3>2, <3>3
  <2>8. WindowBlob(mf) \subseteq FileName
    BY <2>1 DEF WindowBlob, FileName
  <2>. QED
    BY <2>5, <2>6, <2>7, <2>8 DEF c, n
<1>. QED
  BY <1>1, <1>2, <1>3

LEMMA SharedBlocksType ==
    ASSUME NEW mf, NEW c, mf.tokens \in Prefix
    PROVE  SharedBlocks(mf, c) \in Nat
<1>1. IsFiniteSet(Prefixes(mf.tokens))
  BY PrefixType
<1>2. Prefixes(mf.tokens) \cap Prefixes(c) \in SUBSET Prefixes(mf.tokens)
  OBVIOUS
<1>. QED
  BY <1>1, <1>2, FS_Subset, FS_CardinalityType DEF SharedBlocks

LEMMA StoreFind ==
    ASSUME StoreInv, NEW e \in Engine, NEW c \in Served[e], Find(e, c)
    PROVE  StoreInv'
<1>1. PICK i \in Best(e, c) :
         restore' = [restore EXCEPT ![e] =
            [at |-> "chosen", prompt |-> c, mi |-> i,
             covered |-> SharedBlocks(index[e][i], c),
             chain |-> <<>>, window |-> {}, rows |-> <<>>,
             chosen |-> index[e][i], still |-> TRUE]]
  BY DEF Find
<1>2. /\ i \in DOMAIN index[e] /\ SharedBlocks(index[e][i], c) > 0
  BY DEF Best
<1>3. index[e] \in Seq(Manifest)
  BY DEF StoreInv, KvTypeOK
<1>4. i \in Nat \ {0} /\ index[e][i] \in Manifest
  BY <1>2, <1>3, LenProperties, ElementOfSeq
<1>5. SharedBlocks(index[e][i], c) \in Nat \ {0}
  <2>1. SharedBlocks(index[e][i], c) \in Nat
    BY <1>4, SharedBlocksType DEF Manifest
  <2>. QED
    BY <1>2, <2>1
<1>6. c \in Conversation
  BY DEF Conversation
<1>7. <<>> \in Seq(FileName) /\ <<>> \in Seq(Rows)
  BY EmptySeq
<1>8. [at |-> "chosen", prompt |-> c, mi |-> i,
       covered |-> SharedBlocks(index[e][i], c),
       chain |-> <<>>, window |-> {}, rows |-> <<>>,
       chosen |-> index[e][i], still |-> TRUE] \in RestoreState
  BY <1>4, <1>5, <1>6, <1>7, RecordOf DEF RestoreRecord
<1>9. requests' \in 0..MaxRequests
  BY BoundAssumption DEF Find, StoreInv, KvTypeOK
<1>. QED
  BY <1>1, <1>8, <1>9, RestoreStepInv DEF Find

LEMMA StoreRestoreNext ==
    ASSUME StoreInv, NEW e \in Engine, RestoreNext(e), ~Forget(e)
    PROVE  StoreInv'
<1>. DEFINE r == restore[e]
<1>0. restore[e].at # "idle"
  BY DEF RestoreNext, CheckWindow, ReadChain, ReadWindowName, ReadBlock, ReadWindow, Release
<1>1. /\ r \in RestoreRecord
      /\ At(e) => Found(e) \in Manifest
      /\ \A mf \in Manifest :
            /\ Take(Chain(mf.model, mf.tokens), r.covered) \in Seq(FileName)
            /\ WindowBlob(mf) \subseteq FileName
  BY <1>0, RestoreType DEF StoreInv
<1>2. ASSUME NEW next \in RestoreState, RestoreStep(e, next) PROVE StoreInv'
  <2>1. requests' \in 0..MaxRequests
    BY <1>2 DEF RestoreStep, StoreInv, KvTypeOK
  <2>. QED
    BY <1>2, <2>1, RestoreStepInv DEF RestoreStep
<1>3. NoRestore \in RestoreState /\ RestoreRecord \subseteq RestoreState
  BY RecordOf
<1>4. StillThere(e) \in BOOLEAN
  BY <1>1 DEF StillThere, RestoreRecord
<1>. HIDE DEF r
<1>5. CASE CheckWindow(e)
  <2>1. [r EXCEPT !.at = "checked", !.still = StillThere(e)] \in RestoreRecord
    BY <1>1, <1>4 DEF RestoreRecord
  <2>. QED
    BY <1>2, <1>3, <1>5, <2>1 DEF CheckWindow, r
<1>6. CASE ReadChain(e)
  <2>1. At(e) => [r EXCEPT !.at = "chain",
                 !.chain = Take(Chain(Found(e).model, Found(e).tokens), r.covered),
                 !.still = StillThere(e)] \in RestoreRecord
    BY <1>1, <1>4 DEF RestoreRecord
  <2>. QED
    BY <1>2, <1>3, <1>6, <2>1 DEF ReadChain, r
<1>7. CASE ReadWindowName(e)
  <2>1. [r EXCEPT !.at = "reading",
            !.window = IF At(e) THEN WindowBlob(Found(e)) ELSE {},
            !.still = StillThere(e)] \in RestoreRecord
    BY <1>1, <1>4 DEF RestoreRecord
  <2>. QED
    BY <1>2, <1>3, <1>7, <2>1 DEF ReadWindowName, r
<1>8. ASSUME NEW x \in Rows PROVE Append(r.rows, x) \in Seq(Rows)
  BY <1>1, AppendProperties DEF RestoreRecord
<1>9. CASE ReadBlock(e)
  <2>1. files[NextBlock(e)] \in Rows =>
            [r EXCEPT !.rows = Append(@, files[NextBlock(e)])] \in RestoreRecord
    BY <1>1, <1>8 DEF RestoreRecord
  <2>2. [r EXCEPT !.at = "failed"] \in RestoreRecord
    BY <1>1 DEF RestoreRecord
  <2>. QED
    BY <1>2, <1>3, <1>9, <2>1, <2>2 DEF ReadBlock, r
<1>10. CASE ReadWindow(e)
  <2>1. \A f : files[f] \in Rows =>
            [r EXCEPT !.at = "imported", !.rows = Append(@, files[f])] \in RestoreRecord
    BY <1>1, <1>8 DEF RestoreRecord
  <2>2. [r EXCEPT !.at = "imported"] \in RestoreRecord
    BY <1>1 DEF RestoreRecord
  <2>. QED
    BY <1>2, <1>3, <1>10, <2>1, <2>2 DEF ReadWindow, r
<1>11. CASE Release(e)
  BY <1>2, <1>3, <1>11 DEF Release
<1>. QED
  BY <1>5, <1>6, <1>7, <1>9, <1>10, <1>11 DEF RestoreNext

\* A persist that loses no block of its own to others goes on undisturbed.
LEMMA DisturbedIs ==
    ASSUME KvTypeOK, NEW lost, NEW others, NEW t \in Thread
    PROVE  LET d == Disturbed(lost, others)[t]
           IN /\ d \in PersistState /\ d.at = persist[t].at
              /\ persist[t].at = "idle" => d = persist[t]
              /\ persist[t].at # "idle" =>
                   /\ Same(persist[t], d)
                   /\ d.last_used = persist[t].last_used
                   /\ d.staged = persist[t].staged
                   /\ ~d.disturbed =>
                        /\ ~persist[t].disturbed
                        /\ persist[t].engine \in others =>
                             \A p \in Prefixes(persist[t].tokens) :
                                KvFile(ModelOf[persist[t].engine], p) \notin lost
<1>. DEFINE d == Disturbed(lost, others)[t]
            Hit == /\ persist[t].at # "idle"
                   /\ persist[t].engine \in others
                   /\ \E p \in Prefixes(persist[t].tokens) :
                         KvFile(ModelOf[persist[t].engine], p) \in lost
<1>1. d = IF Hit THEN [persist[t] EXCEPT !.disturbed = TRUE] ELSE persist[t]
  BY DEF Disturbed
<1>2. persist[t] \in PersistState
  BY DEF KvTypeOK
<1>3. CASE persist[t].at = "idle"
  BY <1>1, <1>2, <1>3
<1>4. CASE persist[t].at # "idle" /\ Hit
  <2>1. persist[t] \in PersistRecord
    BY <1>2, <1>4, RecordOf
  <2>2. d = [persist[t] EXCEPT !.disturbed = TRUE]
    BY <1>1, <1>4
  <2>. HIDE DEF Hit, d
  <2>3. d \in PersistRecord /\ d.at = persist[t].at /\ d.disturbed = TRUE
        /\ Same(persist[t], d) /\ d.last_used = persist[t].last_used
        /\ d.staged = persist[t].staged
    BY <2>1, <2>2 DEF PersistRecord, Same
  <2>. QED
    BY <1>4, <2>3, RecordOf DEF d
<1>5. CASE persist[t].at # "idle" /\ ~Hit
  <2>1. d = persist[t]
    BY <1>1, <1>5
  <2>. QED
    BY <1>2, <1>5, <2>1 DEF Same
<1>. QED
  BY <1>3, <1>4, <1>5

\* Threads that hold no lock and a thread of an engine of its own: the shape of
\* the persists survives when each but one stays as it is.
LEMMA ShapeStays ==
    ASSUME StoreInv, NEW u \in Thread,
           \A t \in Thread \ {u} : /\ persist'[t].at = persist[t].at
                                   /\ persist[t].at # "idle" => Same(persist[t], persist'[t]),
           persist'[u].at \in Locking =>
               /\ persist'[u].engine = persist[u].engine
               /\ persist[u].at \in Locking \/ ~Locked(persist[u].engine),
           persist'[u].at # "idle" =>
               persist'[u].next <= Len(persist'[u].tokens) + 1,
           persist'[u].at = "staged" => persist'[u].next = 1,
           persist'[u].at \in AllWritten =>
               persist'[u].next > Len(persist'[u].tokens)
    PROVE  OneWriter' /\ BlocksInOrder'
<1>1. \A t \in Thread : persist[t].at \in Locking => persist[t].at # "idle"
  BY DEF Locking
<1>2. ASSUME NEW t \in Thread, NEW v \in Thread,
             persist'[t].at \in Locking, persist'[v].at \in Locking,
             persist'[t].engine = persist'[v].engine
      PROVE  t = v
  <2>1. \A x \in Thread \ {u} : persist'[x].at \in Locking =>
            persist[x].at \in Locking /\ persist[x].engine = persist'[x].engine
    BY <1>1 DEF Same
  <2>2. CASE t # u /\ v # u
    BY <1>2, <2>1, <2>2 DEF StoreInv, OneWriter
  <2>3. CASE t = u /\ v # u
    <3>1. persist[v].at \in Locking /\ persist[v].engine = persist[u].engine
      BY <1>2, <2>1, <2>3
    <3>2. Locked(persist[u].engine)
      BY <3>1 DEF Locked, Locking
    <3>. QED
      BY <1>2, <2>3, <3>1, <3>2 DEF StoreInv, OneWriter
  <2>4. CASE v = u /\ t # u
    <3>1. persist[t].at \in Locking /\ persist[t].engine = persist[u].engine
      BY <1>2, <2>1, <2>4
    <3>2. Locked(persist[u].engine)
      BY <3>1 DEF Locked, Locking
    <3>. QED
      BY <1>2, <2>4, <3>1, <3>2 DEF StoreInv, OneWriter
  <2>. QED
    BY <2>2, <2>3, <2>4
<1>3. OneWriter'
  BY <1>2 DEF OneWriter
<1>4. ASSUME NEW t \in Thread
      PROVE  /\ persist'[t].at # "idle" =>
                  persist'[t].next <= Len(persist'[t].tokens) + 1
             /\ persist'[t].at = "staged" => persist'[t].next = 1
             /\ persist'[t].at \in AllWritten =>
                  persist'[t].next > Len(persist'[t].tokens)
  <2>1. CASE t = u
    BY <2>1
  <2>2. CASE t # u
    BY <2>2 DEF StoreInv, BlocksInOrder, Same, AllWritten
  <2>. QED
    BY <2>1, <2>2
<1>5. BlocksInOrder'
  BY <1>4 DEF BlocksInOrder
<1>. QED
  BY <1>3, <1>5

LEMMA ManifestsSubset ==
    ASSUME StoreInv, manifests' \subseteq manifests
    PROVE  /\ manifests' \subseteq Manifest /\ IsFiniteSet(manifests')
           /\ \A a, b \in manifests' : SamePath(a, b) => a = b
<1>1. manifests' \in SUBSET manifests
  OBVIOUS
<1>. QED
  BY <1>1, FS_Subset DEF StoreInv, KvTypeOK

LEMMA SparedOthers ==
    ASSUME StoreInv, NEW t \in Thread, NEW lost, NEW others,
           persist'[t] = Disturbed(lost, others)[t],
           persist[t].at \notin {"idle", "staged"} => persist[t].engine \in others,
           \A f \in FileName : files'[f] # Absent \/ ~OnDisk(f) \/ f \in lost
    PROVE  Spared(t)'
<1>. SUFFICES ASSUME persist'[t].at \notin {"idle", "staged"}, ~persist'[t].disturbed,
                     NEW n \in 1..(persist'[t].next - 1)
              PROVE  files'[PBlock(t, n)'] # Absent
  BY DEF Spared, OnDisk
<1>1. KvTypeOK /\ Spared(t)
  BY DEF StoreInv
<1>. DEFINE d == Disturbed(lost, others)[t]
<1>2. d.at = persist[t].at /\ d = persist'[t]
  BY <1>1, DisturbedIs
<1>3. persist[t].at \notin {"idle", "staged"}
  BY <1>2
<1>4. /\ Same(persist[t], d) /\ ~persist[t].disturbed
      /\ \A p \in Prefixes(persist[t].tokens) :
            KvFile(ModelOf[persist[t].engine], p) \notin lost
  BY <1>1, <1>2, <1>3, DisturbedIs
<1>5. n \in 1..(persist[t].next - 1) /\ PBlock(t, n)' = PBlock(t, n)
  BY <1>2, <1>4 DEF Same, PBlock, PModel
<1>6. n \in 1..Len(persist[t].tokens)
  <2>1. /\ persist[t].next \in Nat /\ Len(persist[t].tokens) \in Nat
        /\ persist[t].next <= Len(persist[t].tokens) + 1
    BY <1>1, <1>3, PersistType DEF StoreInv, BlocksInOrder, PersistRecord
  <2>. QED
    BY <1>5, <2>1
<1>7. PBlock(t, n) \in FileName /\ PBlock(t, n) \notin lost
  <2>1. SubSeq(persist[t].tokens, 1, n) \in Prefixes(persist[t].tokens)
    BY <1>1, <1>3, <1>6, PersistType
  <2>. QED
    BY <1>1, <1>3, <1>4, <1>6, <2>1, PersistType DEF PBlock, PModel
<1>8. OnDisk(PBlock(t, n))
  BY <1>1, <1>3, <1>4, <1>5 DEF Spared
<1>. QED
  BY <1>5, <1>7, <1>8

LEMMA StoreForget ==
    ASSUME StoreInv, NEW e \in Engine, Forget(e)
    PROVE  StoreInv'
<1>. DEFINE f == NextBlock(e)
            gone == {mf \in Items(index[e]) : f \in Names(mf)}
<1>1. /\ files' = [files EXCEPT ![f] = Absent]
      /\ index' = [index EXCEPT ![e] = Without(@, gone)]
      /\ manifests' = {mf \in manifests : \A g \in gone : ~SamePath(mf, g)}
      /\ persist' = Disturbed({f}, Engine)
      /\ restore' = [restore EXCEPT ![e] = NoRestore]
      /\ UNCHANGED <<requests, budget, open, clock, damages, restarts, shared, kept>>
  BY DEF Forget
<1>. HIDE DEF f, gone
<1>2. KvTypeOK
  BY DEF StoreInv
<1>3. files' \in [FileName -> Content]
  BY <1>1, <1>2 DEF KvTypeOK, Content
<1>4. /\ index' \in [Engine -> Seq(Manifest)]
      /\ \A g \in Engine : Distinct(index'[g])
  <2>1. index[e] \in Seq(Manifest) /\ \A g \in Engine : Distinct(index[g])
    BY <1>2 DEF KvTypeOK, Distinct
  <2>2. Without(index[e], gone) \in Seq(Manifest) /\ Distinct(Without(index[e], gone))
    BY <2>1, WithoutItems
  <2>3. \A g \in Engine : index'[g] = IF g = e THEN Without(index[e], gone) ELSE index[g]
    BY <1>1, <1>2 DEF KvTypeOK
  <2>. QED
    BY <1>1, <1>2, <2>1, <2>2, <2>3 DEF KvTypeOK
<1>5. restore' \in [Engine -> RestoreState]
  BY <1>1, <1>2, RecordOf DEF KvTypeOK
<1>6. \A t \in Thread : /\ persist'[t] = Disturbed({f}, Engine)[t]
                        /\ persist'[t] \in PersistState
                        /\ persist'[t].at = persist[t].at
                        /\ persist[t].at # "idle" => Same(persist[t], persist'[t])
  BY <1>1, <1>2, DisturbedIs
<1>7. persist' \in [Thread -> PersistState]
  <2>1. persist' = [t \in Thread |-> persist'[t]]
    BY <1>1 DEF Disturbed
  <2>. QED
    BY <1>6, <2>1
<1>8. /\ manifests' \subseteq Manifest /\ IsFiniteSet(manifests')
      /\ \A a, b \in manifests' : SamePath(a, b) => a = b
  BY <1>1, ManifestsSubset
<1>9. KvTypeOK'
  BY <1>1, <1>2, <1>3, <1>4, <1>5, <1>7, <1>8 DEF KvTypeOK, Distinct
<1>10. \A t \in Thread : Spared(t)'
  <2>1. \A g \in FileName : files'[g] # Absent \/ ~OnDisk(g) \/ g \in {f}
    BY <1>1, <1>2 DEF OnDisk, KvTypeOK
  <2>2. ASSUME NEW t \in Thread, persist[t].at \notin {"idle", "staged"}
        PROVE  persist[t].engine \in Engine
    BY <1>2, <2>2, PersistType DEF PersistRecord
  <2>. QED
    BY <1>6, <2>1, <2>2, SparedOthers
<1>11. OneWriter' /\ BlocksInOrder'
  <2>1. \A t \in Thread : persist'[t].at # "idle" => Same(persist[t], persist'[t])
    BY <1>6
  <2>. QED
    BY <1>6, <2>1 DEF StoreInv, OneWriter, BlocksInOrder, Same, Locking, AllWritten
<1>. QED
  BY <1>8, <1>9, <1>10, <1>11 DEF StoreInv

\* A step of one persist, the other variables typed: only its own record and
\* its promise are to be looked at.
LEMMA PersistStepInv ==
    ASSUME StoreInv, NEW u \in Thread, NEW next \in PersistState,
           persist' = [persist EXCEPT ![u] = next],
           files' \in [FileName -> Content],
           \A f \in FileName : OnDisk(f) => files'[f] # Absent,
           manifests' \subseteq Manifest, IsFiniteSet(manifests'),
           \A a, b \in manifests' : SamePath(a, b) => a = b,
           index' \in [Engine -> Seq(Manifest)], \A g \in Engine : Distinct(index'[g]),
           requests' \in 0..MaxRequests, clock' \in 0..MaxClock,
           kept' \subseteq Model \X Prefix,
           UNCHANGED <<budget, open, restore, damages, restarts, shared>>,
           next.at \in Locking =>
               /\ next.engine = persist[u].engine
               /\ persist[u].at \in Locking \/ ~Locked(persist[u].engine),
           next.at # "idle" => next.next <= Len(next.tokens) + 1,
           next.at = "staged" => next.next = 1,
           next.at \in AllWritten => next.next > Len(next.tokens),
           Spared(u)'
    PROVE  StoreInv'
<1>1. KvTypeOK
  BY DEF StoreInv
<1>2. persist' \in [Thread -> PersistState] /\ persist'[u] = next
      /\ \A t \in Thread \ {u} : persist'[t] = persist[t]
  BY <1>1 DEF KvTypeOK
<1>3. KvTypeOK'
  BY <1>1, <1>2 DEF KvTypeOK, Distinct
<1>4. OneWriter' /\ BlocksInOrder'
  <2>1. \A t \in Thread \ {u} : /\ persist'[t].at = persist[t].at
                                /\ persist[t].at # "idle" => Same(persist[t], persist'[t])
    BY <1>2 DEF Same
  <2>. QED
    BY <1>2, <2>1, ShapeStays
<1>5. ASSUME NEW t \in Thread PROVE Spared(t)'
  <2>1. CASE t = u
    BY <2>1
  <2>2. CASE t # u
    <3>1. persist'[t] = persist[t]
      BY <1>2, <2>2
    <3>2. CASE persist[t].at = "idle"
      BY <3>1, <3>2 DEF Spared
    <3>3. CASE persist[t].at # "idle"
      <4>1. ASSUME NEW n \in 1..(persist[t].next - 1) PROVE PBlock(t, n) \in FileName
        <5>1. persist[t].next \in Nat /\ persist[t].next <= Len(persist[t].tokens) + 1
          BY <1>1, <3>3, PersistType DEF StoreInv, BlocksInOrder, PersistRecord
        <5>2. Len(persist[t].tokens) \in Nat
          BY <1>1, <3>3, PersistType
        <5>3. n \in 1..Len(persist[t].tokens)
          BY <5>1, <5>2
        <5>. QED
          BY <1>1, <3>3, <5>3, PersistType
      <4>2. Spared(t)
        BY DEF StoreInv
      <4>. QED
        BY <3>1, <4>1, <4>2, SparedStays DEF Same
    <3>. QED
      BY <3>2, <3>3
  <2>. QED
    BY <2>1, <2>2
<1>. QED
  BY <1>3, <1>4, <1>5 DEF StoreInv

\* ... and of those that change no file and no manifest.
LEMMA QuietStepInv ==
    ASSUME StoreInv, NEW u \in Thread, NEW next \in PersistState,
           persist' = [persist EXCEPT ![u] = next], requests' \in 0..MaxRequests,
           UNCHANGED <<files, manifests, index, clock, kept, budget, open, restore,
                       damages, restarts, shared>>,
           next.at \in Locking =>
               /\ next.engine = persist[u].engine
               /\ persist[u].at \in Locking \/ ~Locked(persist[u].engine),
           next.at # "idle" => next.next <= Len(next.tokens) + 1,
           next.at = "staged" => next.next = 1,
           next.at \in AllWritten => next.next > Len(next.tokens),
           Spared(u)'
    PROVE  StoreInv'
<1>1. /\ files' \in [FileName -> Content]
      /\ \A f \in FileName : OnDisk(f) => files'[f] # Absent
      /\ manifests' \subseteq Manifest /\ IsFiniteSet(manifests')
      /\ \A a, b \in manifests' : SamePath(a, b) => a = b
      /\ index' \in [Engine -> Seq(Manifest)] /\ \A g \in Engine : Distinct(index'[g])
      /\ clock' \in 0..MaxClock /\ kept' \subseteq Model \X Prefix
  BY DEF StoreInv, KvTypeOK, OnDisk, Distinct
<1>. QED
  BY <1>1, PersistStepInv

LEMMA StoreStage ==
    ASSUME StoreInv, NEW t \in Thread, NEW e \in Engine, NEW c \in Served[e],
           Stage(t, e, c)
    PROVE  StoreInv'
<1>. DEFINE staged == {n \in 1..Len(c) : ~OnDisk(Chain(ModelOf[e], c)[n])}
            next == [at |-> "staged", engine |-> e, tokens |-> c, staged |-> staged,
                     next |-> 1, last_used |-> 0, disturbed |-> FALSE]
<1>1. persist' = [persist EXCEPT ![t] = next]
  BY DEF Stage
<1>2. c \in Conversation /\ c \in Prefix /\ Len(c) \in Nat \ {0}
  BY PrefixType DEF Conversation
<1>3. next \in PersistState
  <2>1. staged \in SUBSET Nat
    BY <1>2
  <2>2. 0 \in 0..MaxClock
    BY BoundAssumption
  <2>. HIDE DEF staged
  <2>3. next \in PersistRecord
    BY <1>2, <2>1, <2>2 DEF PersistRecord
  <2>. QED
    BY <2>3, RecordOf
<1>4. /\ next.at = "staged" /\ next.next = 1 /\ next.tokens = c
  OBVIOUS
<1>. HIDE DEF next
<1>5. requests' \in 0..MaxRequests
  BY BoundAssumption DEF Stage, StoreInv, KvTypeOK
<1>6. persist'[t] = next
  BY <1>1 DEF StoreInv, KvTypeOK
<1>7. Spared(t)'
  BY <1>4, <1>6 DEF Spared
<1>8. next.at \notin Locking /\ next.at \notin AllWritten /\ next.next <= Len(next.tokens) + 1
  BY <1>2, <1>4 DEF Locking, AllWritten
<1>9. UNCHANGED <<files, manifests, index, clock, kept, budget, open, restore,
                       damages, restarts, shared>>
  BY DEF Stage
<1>. QED
  BY <1>1, <1>3, <1>4, <1>5, <1>7, <1>8, <1>9, QuietStepInv

LEMMA StoreLeave ==
    ASSUME StoreInv, NEW t \in Thread, PersistStep(t, NoPersist),
           UNCHANGED <<files, manifests, index, clock, kept>>
    PROVE  StoreInv'
<1>1. persist' = [persist EXCEPT ![t] = NoPersist] /\ NoPersist \in PersistState
      /\ NoPersist.at = "idle" /\ requests' \in 0..MaxRequests
  BY RecordOf DEF PersistStep, StoreInv, KvTypeOK
<1>2. persist'[t] = NoPersist
  BY <1>1 DEF StoreInv, KvTypeOK
<1>3. Spared(t)'
  BY <1>1, <1>2 DEF Spared
<1>4. NoPersist.at \notin Locking /\ NoPersist.at \notin AllWritten
  BY <1>1 DEF Locking, AllWritten
<1>. QED
  BY <1>1, <1>3, <1>4, QuietStepInv DEF PersistStep

LEMMA StoreLock ==
    ASSUME StoreInv, NEW t \in Thread, Lock(t) PROVE StoreInv'
<1>. DEFINE next == [persist[t] EXCEPT !.at = "blocks"]
<1>0. persist[t].at = "staged" /\ ~Locked(persist[t].engine)
  BY DEF Lock
<1>1. persist[t] \in PersistRecord
  BY <1>0, PersistType DEF StoreInv
<1>2. /\ next \in PersistRecord /\ next.at = "blocks" /\ Same(persist[t], next)
      /\ next.disturbed = persist[t].disturbed
  BY <1>1 DEF PersistRecord, Same
<1>. HIDE DEF next
<1>3. persist' = [persist EXCEPT ![t] = next]
      /\ UNCHANGED <<files, manifests, index, clock, kept, budget, open, restore,
                     damages, restarts, shared, requests>>
  BY DEF Lock, PersistStep, next
<1>4. next \in PersistState /\ persist'[t] = next /\ requests' \in 0..MaxRequests
  BY <1>2, <1>3, RecordOf DEF StoreInv, KvTypeOK
<1>5. next.next <= Len(next.tokens) + 1
  BY <1>0, <1>2 DEF StoreInv, BlocksInOrder, Same
<1>6. Spared(t)'
  \* A staged persist has written no block.
  <2>1. persist[t].next = 1
    BY <1>0 DEF StoreInv, BlocksInOrder
  <2>. QED
    BY <1>2, <1>4, <2>1 DEF Spared, Same
<1>. QED
  BY <1>0, <1>2, <1>3, <1>4, <1>5, <1>6, QuietStepInv DEF Same, AllWritten

\* A file that a persist writes is one that was not there.
LEMMA FileWritten ==
    ASSUME KvTypeOK, NEW g \in FileName, NEW m \in Model, NEW slid \in BOOLEAN,
           files' = [files EXCEPT ![g] = Export(m, slid)]
    PROVE  /\ files' \in [FileName -> Content]
           /\ \A f \in FileName : OnDisk(f) => files'[f] # Absent
           /\ files'[g] \in Rows /\ files'[g] # Absent /\ files'[g] = Export(m, slid)
           /\ \A f \in FileName : f # g => files'[f] = files[f]
<1>1. Export(m, slid) \in Rows
  BY DEF Rows
<1>2. Export(m, slid) # Absent
  BY DEF Export, Absent
<1>3. Rows \subseteq Content /\ files \in [FileName -> Content]
  BY DEF Content, KvTypeOK
<1>4. \A f \in FileName : files'[f] = IF f = g THEN Export(m, slid) ELSE files[f]
  BY <1>3
<1>. QED
  BY <1>1, <1>2, <1>3, <1>4 DEF OnDisk

LEMMA PRowsType ==
    ASSUME KvTypeOK, NEW t \in Thread, persist[t].at # "idle"
    PROVE  PModel(t) \in Model /\ PSlid(t) \in BOOLEAN /\ PRows(t) \in Rows
<1>1. PModel(t) \in Model
  BY PersistType
<1>2. PSlid(t) \in BOOLEAN
  BY DEF PSlid, Slid
<1>. QED
  BY <1>1, <1>2 DEF PRows, Rows

LEMMA StoreWriteBlock ==
    ASSUME StoreInv, NEW t \in Thread, WriteBlock(t) PROVE StoreInv'
<1>. DEFINE n == persist[t].next
            f == PBlock(t, n)
            next == [persist[t] EXCEPT !.next = @ + 1]
<1>1. persist[t].at = "blocks" /\ n <= Len(persist[t].tokens)
  BY DEF WriteBlock
<1>2. KvTypeOK /\ persist[t] \in PersistRecord /\ Len(persist[t].tokens) \in Nat /\ n \in Nat \ {0}
  BY <1>1, PersistType DEF StoreInv, PersistRecord
<1>3. n \in 1..Len(persist[t].tokens) /\ f \in FileName
  <2>1. n \in 1..Len(persist[t].tokens)
    BY <1>1, <1>2
  <2>. QED
    BY <1>1, <1>2, <2>1, PersistType
<1>4. CASE PersistStep(t, NoPersist) /\ UNCHANGED <<files, manifests, index, clock, kept>>
  BY <1>4, StoreLeave
<1>5. CASE /\ PersistStep(t, next) /\ UNCHANGED <<manifests, index, clock, kept>>
           /\ \/ OnDisk(f) /\ UNCHANGED files
              \/ ~OnDisk(f) /\ files' = [files EXCEPT ![f] = PRows(t)]
  <2>1. /\ files' \in [FileName -> Content]
        /\ \A g \in FileName : OnDisk(g) => files'[g] # Absent
        /\ files'[f] # Absent
    <3>1. CASE OnDisk(f) /\ UNCHANGED files
      BY <1>2, <3>1 DEF KvTypeOK, OnDisk
    <3>2. CASE files' = [files EXCEPT ![f] = PRows(t)]
      <4>1. PModel(t) \in Model /\ PSlid(t) \in BOOLEAN /\ PRows(t) = Export(PModel(t), PSlid(t))
        BY <1>1, <1>2, PRowsType DEF PRows
      <4>. HIDE DEF f
      <4>. QED
        BY <1>2, <1>3, <3>2, <4>1, FileWritten
    <3>. QED
      BY <1>5, <3>1, <3>2
  <2>2. /\ next \in PersistRecord /\ next.at = "blocks" /\ next.next = n + 1
        /\ next.engine = persist[t].engine /\ next.tokens = persist[t].tokens
        /\ next.disturbed = persist[t].disturbed
    BY <1>1, <1>2 DEF PersistRecord
  <2>3. persist' = [persist EXCEPT ![t] = next]
        /\ UNCHANGED <<manifests, index, clock, kept, budget, open, restore,
                       damages, restarts, shared, requests>>
    BY <1>5 DEF PersistStep
  <2>. HIDE DEF next
  <2>4. next \in PersistState /\ persist'[t] = next
    BY <1>2, <2>2, <2>3, RecordOf DEF KvTypeOK
  <2>5. next.next <= Len(next.tokens) + 1
    <3>. HIDE DEF n
    <3>. QED
      BY <1>2, <1>3, <2>2
  <2>6. Spared(t)'
    <3>. SUFFICES ASSUME ~next.disturbed, NEW k \in 1..(next.next - 1)
                  PROVE  files'[PBlock(t, k)'] # Absent
      BY <2>4 DEF Spared, OnDisk
    <3>1. \A i \in Nat : PBlock(t, i)' = PBlock(t, i)
      BY <2>2, <2>4 DEF PBlock, PModel
    <3>2. k \in Nat /\ (k \in 1..(n - 1) \/ k = n)
      <4>. HIDE DEF n
      <4>. QED
        BY <1>2, <2>2
    <3>3. CASE k \in 1..(n - 1)
      <4>1. OnDisk(PBlock(t, k))
        BY <1>1, <2>2, <3>3 DEF StoreInv, Spared
      <4>2. k \in 1..Len(persist[t].tokens)
        <5>. HIDE DEF n
        <5>. QED
          BY <1>2, <1>3, <3>3
      <4>3. PBlock(t, k) \in FileName
        BY <1>1, <1>2, <4>2, PersistType
      <4>. QED
        BY <2>1, <3>1, <3>2, <4>1, <4>3
    <3>4. CASE k = n
      BY <2>1, <3>1, <3>2, <3>4
    <3>. QED
      BY <3>2, <3>3, <3>4
  <2>7. /\ manifests' \subseteq Manifest /\ IsFiniteSet(manifests')
        /\ \A a, b \in manifests' : SamePath(a, b) => a = b
        /\ index' \in [Engine -> Seq(Manifest)] /\ \A g \in Engine : Distinct(index'[g])
        /\ requests' \in 0..MaxRequests /\ clock' \in 0..MaxClock
        /\ kept' \subseteq Model \X Prefix
    BY <2>3 DEF StoreInv, KvTypeOK, Distinct
  <2>8. next.at \in Locking /\ persist[t].at \in Locking /\ next.at \notin AllWritten
        /\ next.at # "staged"
    BY <1>1, <2>2 DEF Locking, AllWritten
  <2>. QED
    BY <2>1, <2>2, <2>3, <2>4, <2>5, <2>6, <2>7, <2>8, PersistStepInv
<1>. QED
  BY <1>4, <1>5 DEF WriteBlock

LEMMA StoreWriteWindow ==
    ASSUME StoreInv, NEW t \in Thread, WriteWindow(t) PROVE StoreInv'
<1>. DEFINE next == [persist[t] EXCEPT
                        !.at = "manifest", !.staged = {}, !.last_used = clock']
            f == WindowFile(PModel(t), persist[t].tokens)
<1>1. persist[t].at = "blocks" /\ persist[t].next > Len(persist[t].tokens)
      /\ clock' \in clock..MaxClock
  BY DEF WriteWindow
<1>2. KvTypeOK /\ persist[t] \in PersistRecord /\ f \in FileName
  BY <1>1, PersistType DEF StoreInv
<1>3. clock' \in 0..MaxClock
  BY <1>1, <1>2, BoundAssumption DEF KvTypeOK
<1>4. /\ files' \in [FileName -> Content]
      /\ \A g \in FileName : OnDisk(g) => files'[g] # Absent
  <2>1. CASE UNCHANGED files
    BY <1>2, <2>1 DEF KvTypeOK, OnDisk
  <2>2. CASE files' = [files EXCEPT ![f] = PRows(t)]
    <3>1. PModel(t) \in Model /\ PSlid(t) \in BOOLEAN /\ PRows(t) = Export(PModel(t), PSlid(t))
      BY <1>1, <1>2, PRowsType DEF PRows
    <3>. HIDE DEF f
    <3>. QED
      BY <1>2, <2>2, <3>1, FileWritten
  <2>. QED
    BY <2>1, <2>2 DEF WriteWindow
<1>5. /\ next \in PersistRecord /\ next.at = "manifest" /\ Same(persist[t], next)
      /\ next.disturbed = persist[t].disturbed
  BY <1>2, <1>3 DEF PersistRecord, Same
<1>6. persist' = [persist EXCEPT ![t] = next]
      /\ UNCHANGED <<manifests, index, kept, budget, open, restore,
                     damages, restarts, shared, requests>>
  BY DEF WriteWindow, PersistStep
<1>. HIDE DEF next
<1>7. next \in PersistState /\ persist'[t] = next
  BY <1>2, <1>5, <1>6, RecordOf DEF KvTypeOK
<1>8. Spared(t)'
  <2>1. \A n \in 1..(persist[t].next - 1) : PBlock(t, n) \in FileName
    <3>1. \A n \in 1..(persist[t].next - 1) : n \in 1..Len(persist[t].tokens)
      <4>1. persist[t].next \in Nat /\ persist[t].next <= Len(persist[t].tokens) + 1
        BY <1>1, <1>2 DEF StoreInv, BlocksInOrder, PersistRecord
      <4>2. Len(persist[t].tokens) \in Nat
        BY <1>1, <1>2, PersistType
      <4>. QED
        BY <4>1, <4>2
    <3>. QED
      BY <1>1, <1>2, <3>1, PersistType
  <2>2. Spared(t) /\ persist[t].at \notin {"idle", "staged"}
    BY <1>1 DEF StoreInv
  <2>. QED
    BY <1>4, <1>5, <1>7, <2>1, <2>2, SparedStays
<1>9. /\ manifests' \subseteq Manifest /\ IsFiniteSet(manifests')
      /\ \A a, b \in manifests' : SamePath(a, b) => a = b
      /\ index' \in [Engine -> Seq(Manifest)] /\ \A g \in Engine : Distinct(index'[g])
      /\ requests' \in 0..MaxRequests /\ kept' \subseteq Model \X Prefix
  BY <1>6 DEF StoreInv, KvTypeOK, Distinct
<1>10. /\ next.at \in Locking /\ persist[t].at \in Locking /\ next.at \in AllWritten
       /\ next.at # "staged"
  BY <1>1, <1>5 DEF Locking, AllWritten
<1>11. next.next <= Len(next.tokens) + 1 /\ next.next > Len(next.tokens)
       /\ next.engine = persist[t].engine
  BY <1>1, <1>5 DEF StoreInv, BlocksInOrder, Same
<1>. QED
  BY <1>3, <1>4, <1>6, <1>7, <1>8, <1>9, <1>10, <1>11, PersistStepInv

\* A step of a persist after its last block, which stays in place.
LEMMA LaterStepInv ==
    ASSUME StoreInv, NEW t \in Thread, persist[t].at \in AllWritten,
           NEW at \in AllWritten,
           persist' = [persist EXCEPT ![t] = [persist[t] EXCEPT !.at = at]],
           manifests' \subseteq Manifest, IsFiniteSet(manifests'),
           \A a, b \in manifests' : SamePath(a, b) => a = b,
           index' \in [Engine -> Seq(Manifest)], \A g \in Engine : Distinct(index'[g]),
           UNCHANGED <<files, clock, kept, budget, open, restore,
                       damages, restarts, shared, requests>>
    PROVE  StoreInv'
<1>. DEFINE next == [persist[t] EXCEPT !.at = at]
<1>1. KvTypeOK /\ persist[t].at # "idle" /\ persist[t].at # "staged" /\ persist[t].at \in Locking
      /\ at \in Locking /\ at # "idle" /\ at # "staged"
  BY DEF StoreInv, AllWritten, Locking
<1>2. persist[t] \in PersistRecord
  BY <1>1, PersistType
<1>3. /\ next \in PersistRecord /\ next.at = at /\ Same(persist[t], next)
      /\ next.disturbed = persist[t].disturbed
  BY <1>2 DEF PersistRecord, Same, AllWritten
<1>. HIDE DEF next
<1>4. persist' = [persist EXCEPT ![t] = next] /\ persist'[t] = next /\ next \in PersistState
  BY <1>1, <1>3, RecordOf DEF KvTypeOK, next
<1>5. /\ files' \in [FileName -> Content]
      /\ \A f \in FileName : OnDisk(f) => files'[f] # Absent
      /\ requests' \in 0..MaxRequests /\ clock' \in 0..MaxClock
      /\ kept' \subseteq Model \X Prefix
  BY <1>1 DEF KvTypeOK, OnDisk
<1>6. Spared(t)'
  <2>1. \A f : OnDisk(f) => files'[f] # Absent
    BY DEF OnDisk
  <2>. QED
    BY <1>1, <1>3, <1>4, <2>1, SparedStays DEF StoreInv
<1>7. next.next <= Len(next.tokens) + 1 /\ next.next > Len(next.tokens)
      /\ next.engine = persist[t].engine
  BY <1>1, <1>3 DEF StoreInv, BlocksInOrder, Same
<1>. QED
  BY <1>1, <1>3, <1>4, <1>5, <1>6, <1>7, PersistStepInv

LEMMA WrittenType ==
    ASSUME KvTypeOK, NEW t \in Thread, persist[t].at # "idle"
    PROVE  /\ Written(t) \in Manifest
           /\ Written(t).model = PModel(t) /\ Written(t).tokens = persist[t].tokens
           /\ Written(t).last_used = persist[t].last_used
<1>1. persist[t] \in PersistRecord /\ PModel(t) \in Model
  BY PersistType
<1>. QED
  BY <1>1 DEF Written, Manifest, PersistRecord

LEMMA StoreWriteManifest ==
    ASSUME StoreInv, NEW t \in Thread, WriteManifest(t) PROVE StoreInv'
<1>. DEFINE w == Written(t)
            rest == {mf \in manifests : ~SamePath(mf, w)}
<1>1. persist[t].at = "manifest" /\ KvTypeOK
  BY DEF WriteManifest, StoreInv
<1>2. w \in Manifest
  BY <1>1, WrittenType
<1>3. /\ manifests' = rest \cup {w}
      /\ persist' = [persist EXCEPT ![t] = [persist[t] EXCEPT !.at = "index"]]
      /\ UNCHANGED <<files, index, clock, kept, budget, open, restore, damages,
                     restarts, shared, requests>>
  BY DEF WriteManifest, PersistStep
<1>4. rest \in SUBSET manifests /\ IsFiniteSet(manifests) /\ manifests \subseteq Manifest
      /\ \A a, b \in manifests : SamePath(a, b) => a = b
  BY DEF StoreInv, KvTypeOK
<1>5. \A a \in rest : ~SamePath(a, w) /\ ~SamePath(w, a)
  BY DEF SamePath
<1>. HIDE DEF rest, w
<1>6. manifests' \subseteq Manifest /\ IsFiniteSet(manifests')
  BY <1>2, <1>3, <1>4, FS_Subset, FS_AddElement
<1>7. \A a, b \in manifests' : SamePath(a, b) => a = b
  BY <1>3, <1>4, <1>5
<1>8. index' \in [Engine -> Seq(Manifest)] /\ \A g \in Engine : Distinct(index'[g])
  BY <1>1, <1>3 DEF KvTypeOK, Distinct
<1>9. persist[t].at \in AllWritten /\ "index" \in AllWritten
  BY <1>1 DEF AllWritten
<1>. QED
  BY <1>3, <1>6, <1>7, <1>8, <1>9, LaterStepInv

LEMMA EnteredIndex ==
    ASSUME KvTypeOK, NEW t \in Thread, EnterIndex(t)
    PROVE  LET e == persist[t].engine
           IN /\ e \in Engine
              /\ index' \in [Engine -> Seq(Manifest)] /\ \A g \in Engine : Distinct(index'[g])
              /\ \A g \in Engine : g # e => index'[g] = index[g]
              /\ Items(index'[e]) =
                    {mf \in Items(index[e]) : ~ExtendedBy(Written(t), mf)} \cup {Written(t)}
<1>. DEFINE e == persist[t].engine
            w == Written(t)
            old == {mf \in Items(index[e]) : ExtendedBy(w, mf)}
            left == Without(index[e], old)
<1>1. persist[t].at = "index" /\ index' = [index EXCEPT ![e] = Append(left, w)]
  BY DEF EnterIndex
<1>2. persist[t] \in PersistRecord /\ w \in Manifest /\ w.tokens \in Prefix /\ e \in Engine
  BY <1>1, PersistType, WrittenType DEF PersistRecord, Manifest
<1>3. index[e] \in Seq(Manifest) /\ \A g \in Engine : Distinct(index[g])
  BY <1>2 DEF KvTypeOK, Distinct
<1>4. left \in Seq(Manifest) /\ Items(left) = Items(index[e]) \ old /\ Distinct(left)
  <2>. DEFINE s == index[e]
  <2>1. s \in Seq(Manifest) /\ Distinct(s)
    BY <1>2, <1>3
  <2>. HIDE DEF old, s
  <2>2. /\ Without(s, old) \in Seq(Manifest)
        /\ Items(Without(s, old)) = Items(s) \ old
        /\ Distinct(s) => Distinct(Without(s, old))
    BY <2>1, WithoutItems
  <2>. QED
    BY <2>1, <2>2 DEF s
<1>5. ASSUME NEW x \in Items(left) PROVE ~SamePath(x, w) /\ ~SamePath(w, x)
  <2>1. ~ExtendedBy(w, x)
    BY <1>4
  <2>2. w.tokens \in Prefixes(w.tokens)
    BY <1>2, PrefixType
  <2>. QED
    BY <2>1, <2>2 DEF SamePath, ExtendedBy
<1>6. /\ Append(left, w) \in Seq(Manifest) /\ Items(Append(left, w)) = Items(left) \cup {w}
      /\ Distinct(Append(left, w))
  <2>. HIDE DEF left, w, e
  <2>. QED
    BY <1>2, <1>4, <1>5, ItemsAppend
<1>7. \A g \in Engine : index'[g] = IF g = e THEN Append(left, w) ELSE index[g]
  BY <1>1 DEF KvTypeOK
<1>8. index' \in [Engine -> Seq(Manifest)]
  <2>. HIDE DEF left, w, e
  <2>. QED
    BY <1>1, <1>6 DEF KvTypeOK
<1>9. \A g \in Engine : Distinct(index'[g])
  <2>. HIDE DEF left, w, e
  <2>. QED
    BY <1>3, <1>6, <1>7
<1>10. Items(index'[e]) = {mf \in Items(index[e]) : ~ExtendedBy(w, mf)} \cup {w}
  BY <1>2, <1>4, <1>6, <1>7
<1>. QED
  BY <1>2, <1>7, <1>8, <1>9, <1>10

LEMMA StoreEnterIndex ==
    ASSUME StoreInv, NEW t \in Thread, EnterIndex(t) PROVE StoreInv'
<1>1. persist[t].at = "index" /\ KvTypeOK
  BY DEF EnterIndex, StoreInv
<1>2. index' \in [Engine -> Seq(Manifest)] /\ \A g \in Engine : Distinct(index'[g])
  BY <1>1, EnteredIndex
<1>3. /\ persist' = [persist EXCEPT ![t] = [persist[t] EXCEPT !.at = "collect"]]
      /\ UNCHANGED <<files, manifests, clock, kept, budget, open, restore, damages,
                     restarts, shared, requests>>
  BY DEF EnterIndex, PersistStep
<1>4. manifests' \subseteq Manifest /\ IsFiniteSet(manifests')
      /\ \A a, b \in manifests' : SamePath(a, b) => a = b
  BY <1>3 DEF StoreInv, KvTypeOK
<1>5. persist[t].at \in AllWritten /\ "collect" \in AllWritten
  BY <1>1 DEF AllWritten
<1>. QED
  BY <1>2, <1>3, <1>4, <1>5, LaterStepInv

\* What a collection does, in the terms of KeepIs.
LEMMA Collected ==
    ASSUME KvTypeOK, NEW t \in Thread, CollectGarbage(t)
    PROVE  LET e == persist[t].engine
               keep == Keep(index[e])
               dropped == Items(index[e]) \ Items(keep)
               named == FilesOf(Items(keep))
           IN /\ e \in Engine /\ persist[t].at = "collect"
              /\ index[e] \in Seq(Manifest) /\ Distinct(index[e])
              /\ keep \in Seq(Manifest) /\ Distinct(keep)
              /\ Items(keep) \subseteq Items(index[e])
              /\ named \subseteq FileName
              /\ index' = [index EXCEPT ![e] = keep] /\ index'[e] = keep
              /\ manifests' = {mf \in manifests : \A d \in dropped : ~SamePath(mf, d)}
              /\ files' = [f \in FileName |-> IF f \in named THEN files[f] ELSE Absent]
              /\ persist' = [Disturbed(FileName \ named, Engine \ {e})
                                EXCEPT ![t] = NoPersist]
              /\ persist'[t] = NoPersist
              /\ \A u \in Thread \ {t} :
                    persist'[u] = Disturbed(FileName \ named, Engine \ {e})[u]
<1>. DEFINE e == persist[t].engine
            keep == Keep(index[e])
            dropped == Items(index[e]) \ Items(keep)
            named == FilesOf(Items(keep))
<1>1. persist[t].at = "collect"
  BY DEF CollectGarbage
<1>2. e \in Engine
  BY <1>1, PersistType DEF PersistRecord
<1>3. index[e] \in Seq(Manifest) /\ Distinct(index[e]) /\ budget \in Nat
  BY <1>2, EngineAssumption DEF KvTypeOK, Distinct
<1>4. keep \in Seq(Manifest) /\ Distinct(keep) /\ Items(keep) \subseteq Items(index[e])
  BY <1>3, KeepIs
<1>5. named \subseteq FileName
  <2>1. \A x \in Items(keep) : x \in Manifest
    BY <1>4, LenProperties DEF Items
  <2>2. \A x \in Manifest : Names(x) \subseteq FileName
    BY NamesType DEF Manifest
  <2>. HIDE DEF keep
  <2>. QED
    BY <2>1, <2>2 DEF FilesOf
<1>6. /\ index' = [index EXCEPT ![e] = keep]
      /\ manifests' = {mf \in manifests : \A d \in dropped : ~SamePath(mf, d)}
      /\ files' = [f \in FileName |-> IF f \in named THEN files[f] ELSE Absent]
      /\ persist' = [Disturbed(FileName \ named, Engine \ {e}) EXCEPT ![t] = NoPersist]
  BY DEF CollectGarbage, FilesOf
<1>7. DOMAIN Disturbed(FileName \ named, Engine \ {e}) = Thread
  BY DEF Disturbed
<1>. HIDE DEF e, keep, dropped, named
<1>8. index'[e] = keep
  BY <1>2, <1>6 DEF KvTypeOK
<1>9. persist'[t] = NoPersist
      /\ \A u \in Thread \ {t} : persist'[u] = Disturbed(FileName \ named, Engine \ {e})[u]
  BY <1>6, <1>7
<1>. QED
  BY <1>1, <1>2, <1>3, <1>4, <1>5, <1>6, <1>8, <1>9 DEF e, keep, dropped, named

LEMMA StoreCollect ==
    ASSUME StoreInv, NEW t \in Thread, CollectGarbage(t) PROVE StoreInv'
<1>. DEFINE e == persist[t].engine
            keep == Keep(index[e])
            dropped == Items(index[e]) \ Items(keep)
            named == FilesOf(Items(keep))
            D == Disturbed(FileName \ named, Engine \ {e})
<1>1. KvTypeOK
  BY DEF StoreInv
<1>2. /\ e \in Engine /\ persist[t].at = "collect"
      /\ keep \in Seq(Manifest) /\ Distinct(keep)
      /\ index' = [index EXCEPT ![e] = keep]
      /\ manifests' = {mf \in manifests : \A d \in dropped : ~SamePath(mf, d)}
      /\ files' = [f \in FileName |-> IF f \in named THEN files[f] ELSE Absent]
      /\ persist' = [D EXCEPT ![t] = NoPersist]
      /\ persist'[t] = NoPersist
      /\ \A u \in Thread \ {t} : persist'[u] = D[u]
  BY <1>1, Collected
<1>3. UNCHANGED <<requests, budget, open, restore, clock, damages, restarts, shared>>
      /\ kept' = kept \cup {<<PModel(t), persist[t].tokens>>}
  BY DEF CollectGarbage
<1>4. <<PModel(t), persist[t].tokens>> \in Model \X Prefix
  BY <1>1, <1>2, PersistType DEF PersistRecord
<1>. HIDE DEF e, keep, dropped, named
<1>5. files' \in [FileName -> Content]
  BY <1>1, <1>2 DEF KvTypeOK, Content
<1>6. index' \in [Engine -> Seq(Manifest)] /\ \A g \in Engine : Distinct(index'[g])
  <2>1. \A g \in Engine : index'[g] = IF g = e THEN keep ELSE index[g]
    BY <1>1, <1>2 DEF KvTypeOK
  <2>. QED
    BY <1>1, <1>2, <2>1 DEF KvTypeOK, Distinct
<1>7. /\ manifests' \subseteq Manifest /\ IsFiniteSet(manifests')
      /\ \A a, b \in manifests' : SamePath(a, b) => a = b
  BY <1>2, ManifestsSubset
<1>8. \A u \in Thread : /\ D[u] \in PersistState /\ D[u].at = persist[u].at
                        /\ persist[u].at # "idle" => Same(persist[u], D[u])
  <2>. DEFINE lost == FileName \ named
              others == Engine \ {e}
  <2>1. D = Disturbed(lost, others)
    OBVIOUS
  <2>. HIDE DEF lost, others, D
  <2>. QED
    BY <1>1, <2>1, DisturbedIs
<1>9. persist' \in [Thread -> PersistState]
  <2>1. DOMAIN D = Thread
    BY DEF Disturbed
  <2>2. D = [u \in Thread |-> D[u]]
    BY DEF Disturbed
  <2>. HIDE DEF D
  <2>3. D \in [Thread -> PersistState]
    BY <1>8, <2>2
  <2>. QED
    BY <1>2, <2>3, RecordOf
<1>10. KvTypeOK'
  BY <1>1, <1>3, <1>4, <1>5, <1>6, <1>7, <1>9 DEF KvTypeOK, Distinct
<1>11. NoPersist.at = "idle"
  BY RecordOf
<1>12. OneWriter' /\ BlocksInOrder'
  <2>. HIDE DEF D
  <2>1. \A u \in Thread \ {t} : /\ persist'[u].at = persist[u].at
                                /\ persist[u].at # "idle" => Same(persist[u], persist'[u])
    BY <1>2, <1>8
  <2>2. persist'[t].at \notin Locking /\ persist'[t].at = "idle" /\ persist'[t].at \notin AllWritten
    BY <1>2, <1>11 DEF Locking, AllWritten
  <2>. QED
    BY <2>1, <2>2, ShapeStays
<1>13. ASSUME NEW u \in Thread PROVE Spared(u)'
  <2>1. CASE u = t
    BY <1>2, <1>11, <2>1 DEF Spared
  <2>2. CASE u # t
    <3>1. persist'[u] = D[u]
      BY <1>2, <2>2
    <3>2. persist[u].at \notin {"idle", "staged"} => persist[u].engine \in Engine \ {e}
      <4>. SUFFICES ASSUME persist[u].at \notin {"idle", "staged"}
                    PROVE  persist[u].engine \in Engine \ {e}
        OBVIOUS
      <4>1. persist[u] \in PersistRecord
        BY <1>1, PersistType
      <4>2. persist[u].at \in Locking /\ persist[t].at \in Locking /\ persist[u].engine \in Engine
        BY <1>2, <4>1 DEF PersistRecord, Locking
      <4>. QED
        BY <2>2, <4>2 DEF StoreInv, OneWriter, e
    <3>3. \A f \in FileName : files'[f] # Absent \/ ~OnDisk(f) \/ f \in FileName \ named
      BY <1>2 DEF OnDisk
    <3>. QED
      BY <3>1, <3>2, <3>3, SparedOthers
  <2>. QED
    BY <2>1, <2>2
<1>. QED
  BY <1>7, <1>10, <1>12, <1>13 DEF StoreInv

LEMMA StoreNext ==
    ASSUME StoreInv, [Next]_vars PROVE StoreInv'
<1>1. CASE UNCHANGED vars
  BY <1>1 DEF vars, StoreInv, KvTypeOK, OneWriter, BlocksInOrder, Spared, OnDisk, PBlock, PModel
<1>2. ASSUME NEW e \in Engine, Open(e) PROVE StoreInv'
  BY <1>2, StoreOpen
<1>3. ASSUME NEW e \in Engine, NEW c \in Served[e], Find(e, c) PROVE StoreInv'
  BY <1>3, StoreFind
<1>4. ASSUME NEW e \in Engine, RestoreNext(e) PROVE StoreInv'
  BY <1>4, StoreRestoreNext, StoreForget
<1>5. ASSUME NEW t \in Thread, NEW e \in Engine, NEW c \in Served[e], Stage(t, e, c)
      PROVE  StoreInv'
  BY <1>5, StoreStage
<1>6. ASSUME NEW t \in Thread, PersistNext(t) PROVE StoreInv'
  <2>1. WriteFails(t) => PersistStep(t, NoPersist)
                         /\ UNCHANGED <<files, manifests, index, clock, kept>>
    BY DEF WriteFails
  <2>. QED
    BY <1>6, <2>1, StoreLock, StoreWriteBlock, StoreWriteWindow, StoreWriteManifest,
       StoreLeave, StoreEnterIndex, StoreCollect DEF PersistNext
<1>. QED
  BY <1>1, <1>2, <1>3, <1>4, <1>5, <1>6, StoreDamage, StoreRestart DEF Next

\* Every reachable state of the store is well formed, for any engines, models,
\* threads, conversations and budgets.
THEOREM StoreCorrect == Spec => []StoreInv
BY StoreInit, StoreNext, PTL DEF Spec

\* SweepSparesWriter: no collection of a store's own takes a block from under
\* the persist that wrote it or counted on it.
THEOREM CollectionSparesWriter == Spec => []SweepSparesWriter
<1>1. StoreInv => SweepSparesWriter
  BY DEF StoreInv, SweepSparesWriter, Spared
<1>. QED
  BY <1>1, StoreCorrect, PTL

\* CollectionFits: a collection leaves no file its index does not name, and
\* what it keeps fits the budget.
THEOREM CollectionsFit == Spec => CollectionFits
<1>. DEFINE Fits ==
        \A t \in Thread :
            (budget > 0 /\ CollectGarbage(t)) =>
                LET e == persist[t].engine
                    dropped == UNION {Names(mf) :
                                        mf \in Items(index[e]) \ Items(index'[e])}
                    left == {f \in FileName : files'[f] # Absent}
                IN \/ Len(index'[e]) = 1
                   \/ Cardinality(left \ dropped) <= budget
<1>1. ASSUME StoreInv, NEW t \in Thread, budget > 0, CollectGarbage(t)
      PROVE  LET e == persist[t].engine
                 dropped == UNION {Names(mf) : mf \in Items(index[e]) \ Items(index'[e])}
                 left == {f \in FileName : files'[f] # Absent}
             IN \/ Len(index'[e]) = 1
                \/ Cardinality(left \ dropped) <= budget
  <2>. DEFINE e == persist[t].engine
              dropped == UNION {Names(mf) : mf \in Items(index[e]) \ Items(index'[e])}
              left == {f \in FileName : files'[f] # Absent}
              keep == Keep(index[e])
              named == FilesOf(Items(keep))
  <2>1. KvTypeOK
    BY <1>1 DEF StoreInv
  <2>2. /\ index[e] \in Seq(Manifest) /\ Distinct(index[e])
        /\ named \subseteq FileName
        /\ index'[e] = keep
        /\ files' = [f \in FileName |-> IF f \in named THEN files[f] ELSE Absent]
    BY <1>1, <2>1, Collected
  <2>3. budget \in Nat
    BY <2>1, EngineAssumption DEF KvTypeOK
  <2>4. \/ Len(keep) = 1
        \/ Cardinality(OwnFiles(Items(index[e]), Items(keep))) <= budget
    BY <1>1, <2>2, <2>3, KeepIs
  <2>5. left \ dropped = OwnFiles(Items(index[e]), Items(keep))
    <3>1. dropped = FilesOf(Items(index[e]) \ Items(keep))
      BY <2>2 DEF FilesOf
    <3>. HIDE DEF e, keep, named, dropped
    <3>2. left = {f \in named : OnDisk(f)}
      BY <2>2 DEF OnDisk
    <3>. HIDE DEF left
    <3>. QED
      BY <3>1, <3>2 DEF OwnFiles, named
  <2>. QED
    BY <2>2, <2>4, <2>5
<1>2. StoreInv => [Fits]_vars
  BY <1>1
<1>. QED
  BY <1>2, StoreCorrect, PTL DEF CollectionFits

-----------------------------------------------------------------------------
(* What is kept: one store at a time, no limit and no damage *)

\* The blocks of a manifest, without the side file.
Blocks(mf) == {KvFile(mf.model, p) : p \in Prefixes(mf.tokens)}
IndexBlocks(e) == UNION {Blocks(x) : x \in Items(index[e])}

OneOpen == \A e, f \in open : e = f

\* Only the engine whose store is open restores and persists.
OpenOnly ==
    /\ \A t \in Thread : persist[t].at # "idle" => persist[t].engine \in open
    /\ \A e \in Engine : restore[e].at # "idle" => e \in open

NoDamage == \A f \in FileName : OnDisk(f) => files[f] \in Rows

\* The index of the open store knows every manifest or a longer one, or the
\* persist that wrote it is about to tell it.
ManifestsIndexed ==
    \A mf \in manifests, e \in open :
        \/ \E x \in Items(index[e]) : ExtendedBy(x, mf)
        \/ \E t \in Thread : /\ persist[t].at = "index"
                             /\ SamePath(mf, Written(t))

\* ... and nothing that is not in the directory.
IndexWritten ==
    \A e \in open : \A x \in Items(index[e]) :
        \E mf \in manifests : SamePath(mf, x)

\* The directory has the blocks of every manifest in it.
ManifestBlocks == \A mf \in manifests : \A f \in Blocks(mf) : OnDisk(f)

\* A persist has on disk what it has gone through.
Wrote(t) ==
    /\ persist[t].at \in Locking =>
         \A n \in 1..(persist[t].next - 1) : OnDisk(PBlock(t, n))
    /\ persist[t].at \in AllWritten =>
         \A f \in Names(Written(t)) : OnDisk(f)
    /\ persist[t].at = "index" => Written(t) \in manifests
    /\ persist[t].at = "collect" =>
         \E x \in Items(index[persist[t].engine]) : SamePath(x, Written(t))

\* A restore reads blocks that the index of its store names, and finds them.
Reads(e) ==
    /\ restore[e].at # "failed"
    /\ restore[e].at \in {"chain", "reading"} =>
         \A n \in DOMAIN restore[e].chain : restore[e].chain[n] \in IndexBlocks(e)

Covers(mf, k) ==
    /\ mf.model = k[1] /\ k[2] \in Prefixes(mf.tokens)
    /\ \A f \in Names(mf) : OnDisk(f)

KeptCovered ==
    \A k \in kept :
        /\ \E mf \in manifests : Covers(mf, k)
        /\ \A e \in open : \E x \in Items(index[e]) : Covers(x, k)

AloneInv ==
    /\ OneOpen /\ OpenOnly /\ NoDamage
    /\ ManifestsIndexed /\ IndexWritten /\ ManifestBlocks
    /\ \A t \in Thread : Wrote(t)
    /\ \A e \in Engine : Reads(e)
    /\ KeptCovered

Alone == ~shared /\ budget = 0 /\ damages = 0

LEMMA ExtendedBlocks ==
    ASSUME NEW a, NEW b, a.tokens \in Prefix, ExtendedBy(a, b)
    PROVE  /\ Blocks(b) \subseteq Blocks(a)
           /\ \A c : ExtendedBy(b, c) => ExtendedBy(a, c)
<1>1. a.tokens \in Seq(Nat)
  BY PrefixType
<1>2. b.model = a.model /\ Prefixes(b.tokens) \subseteq Prefixes(a.tokens)
  BY <1>1, PrefixesOf DEF ExtendedBy
<1>. QED
  BY <1>2 DEF Blocks, ExtendedBy

LEMMA SamePathNames ==
    ASSUME NEW a, NEW b, SamePath(a, b)
    PROVE  /\ SamePath(b, a) /\ Names(a) = Names(b) /\ Blocks(a) = Blocks(b)
           /\ \A k : Covers(a, k) <=> Covers(b, k)
           /\ a.tokens \in Prefix => ExtendedBy(a, b) /\ ExtendedBy(b, a)
<1>1. a.model = b.model /\ a.tokens = b.tokens
  BY DEF SamePath
<1>2. a.tokens \in Prefix => a.tokens \in Prefixes(a.tokens)
  BY PrefixType
<1>. QED
  BY <1>1, <1>2 DEF SamePath, Names, WindowBlob, Blocks, Covers, ExtendedBy

LEMMA BlocksNamed ==
    \A mf : Blocks(mf) \subseteq Names(mf)
BY DEF Blocks, Names

LEMMA ItemsType ==
    ASSUME KvTypeOK, NEW e \in Engine, NEW x \in Items(index[e])
    PROVE  x \in Manifest /\ x.tokens \in Prefix /\ x.model \in Model
           /\ Names(x) \subseteq FileName
<1>1. index[e] \in Seq(Manifest)
  BY DEF KvTypeOK
<1>2. x \in Manifest
  BY <1>1, LenProperties DEF Items
<1>. QED
  BY <1>2, NamesType DEF Manifest

\* One persist at most has the lock when one store is open.
LEMMA OnlyWriter ==
    ASSUME StoreInv, AloneInv, NEW t \in Thread, persist[t].at \in Locking,
           NEW u \in Thread, u # t
    PROVE  persist[u].at \notin Locking
<1>1. \A v \in Thread : persist[v].at \in Locking => persist[v].engine \in open
  BY DEF AloneInv, OpenOnly, Locking
<1>. QED
  BY <1>1 DEF AloneInv, OneOpen, StoreInv, OneWriter

LEMMA AloneInit == Init => AloneInv
<1>. SUFFICES ASSUME Init PROVE AloneInv
  OBVIOUS
<1>1. /\ \A t \in Thread : persist[t].at = "idle"
      /\ \A e \in Engine : restore[e].at = "idle"
      /\ open = {} /\ manifests = {} /\ kept = {}
  BY RecordOf DEF Init
<1>2. NoDamage
  BY DEF Init, NoDamage, OnDisk
<1>. QED
  BY <1>1, <1>2 DEF AloneInv, OneOpen, OpenOnly, ManifestsIndexed, IndexWritten,
     ManifestBlocks, Wrote, Reads, KeptCovered, Locking, AllWritten

\* Every step of a restore but the one that forgets a block.
LEMMA AloneRestoreStep ==
    ASSUME StoreInv, AloneInv, NEW e \in open, NEW next,
           restore' = [restore EXCEPT ![e] = next],
           UNCHANGED <<files, manifests, budget, open, index, persist, clock,
                       damages, restarts, shared, kept>>,
           next.at # "failed",
           next.at \in {"chain", "reading"} =>
               \A n \in DOMAIN next.chain : next.chain[n] \in IndexBlocks(e)
    PROVE  AloneInv'
<1>1. /\ OneOpen' /\ NoDamage' /\ ManifestsIndexed' /\ IndexWritten' /\ ManifestBlocks'
      /\ \A t \in Thread : Wrote(t)'
      /\ KeptCovered'
  BY DEF AloneInv, OneOpen, NoDamage, ManifestsIndexed, IndexWritten, ManifestBlocks,
     Wrote, KeptCovered, Covers, OnDisk, PBlock, PModel, Written
<1>2. /\ \A f \in Engine : restore'[f] = IF f = e THEN next ELSE restore[f]
      /\ \A f : IndexBlocks(f)' = IndexBlocks(f)
  BY DEF StoreInv, KvTypeOK, IndexBlocks
<1>3. OpenOnly'
  BY <1>2 DEF AloneInv, OpenOnly
<1>4. \A f \in Engine : Reads(f)'
  BY <1>2 DEF AloneInv, Reads
<1>. QED
  BY <1>1, <1>3, <1>4 DEF AloneInv

LEMMA AloneFind ==
    ASSUME StoreInv, AloneInv, NEW e \in Engine, NEW c \in Served[e], Find(e, c)
    PROVE  AloneInv'
<1>1. PICK i \in Best(e, c) :
         restore' = [restore EXCEPT ![e] =
            [at |-> "chosen", prompt |-> c, mi |-> i,
             covered |-> SharedBlocks(index[e][i], c),
             chain |-> <<>>, window |-> {}, rows |-> <<>>,
             chosen |-> index[e][i], still |-> TRUE]]
  BY DEF Find
<1>. DEFINE next ==
         [at |-> "chosen", prompt |-> c, mi |-> i,
          covered |-> SharedBlocks(index[e][i], c),
          chain |-> <<>>, window |-> {}, rows |-> <<>>,
          chosen |-> index[e][i], still |-> TRUE]
<1>2. next.at = "chosen" /\ restore' = [restore EXCEPT ![e] = next]
  BY <1>1
<1>. HIDE DEF next
<1>. QED
  BY <1>2, AloneRestoreStep DEF Find

LEMMA AloneRestoreNext ==
    ASSUME StoreInv, AloneInv, NEW e \in Engine, RestoreNext(e)
    PROVE  AloneInv'
<1>. DEFINE r == restore[e]
<1>0. restore[e].at # "idle" /\ KvTypeOK
  BY DEF RestoreNext, CheckWindow, ReadChain, ReadWindowName, ReadBlock, ReadWindow,
     Release, Forget, StoreInv
<1>1. r \in RestoreRecord /\ e \in open /\ r.at # "failed" /\ Reads(e)
  BY <1>0, RestoreType DEF AloneInv, OpenOnly, Reads
<1>2. ASSUME NEW next, RestoreStep(e, next), next.at # "failed",
             next.at \in {"chain", "reading"} =>
                 \A n \in DOMAIN next.chain : next.chain[n] \in IndexBlocks(e)
      PROVE  AloneInv'
  BY <1>1, <1>2, AloneRestoreStep DEF RestoreStep
<1>3. NoRestore.at = "idle"
  BY RecordOf
<1>. HIDE DEF r
<1>4. CASE CheckWindow(e)
  <2>1. [r EXCEPT !.at = "checked", !.still = StillThere(e)].at = "checked"
    BY <1>1 DEF RestoreRecord
  <2>. QED
    BY <1>2, <1>3, <1>4, <2>1 DEF CheckWindow, r
<1>5. CASE ReadChain(e)
  <2>. DEFINE c == Chain(Found(e).model, Found(e).tokens)
              next == [r EXCEPT !.at = "chain", !.chain = Take(c, r.covered),
                                !.still = StillThere(e)]
  <2>1. next.at = "chain" /\ next.chain = Take(c, r.covered)
    BY <1>1 DEF RestoreRecord
  <2>2. ASSUME At(e) PROVE \A n \in DOMAIN Take(c, r.covered) :
                                Take(c, r.covered)[n] \in IndexBlocks(e)
    <3>1. Found(e) \in Items(index[e]) /\ Found(e) \in Manifest
      BY <1>0, <2>2, RestoreType DEF At, Found, Items
    <3>2. /\ Found(e).tokens \in Prefix /\ c \in Seq(FileName)
          /\ Len(c) = Len(Found(e).tokens) /\ Len(Found(e).tokens) \in Nat
      BY <1>0, <3>1, RestoreType, PrefixType DEF Manifest
    <3>3. DOMAIN Take(c, r.covered) \subseteq 1..Len(c)
          /\ \A n \in DOMAIN Take(c, r.covered) : Take(c, r.covered)[n] = c[n]
      <4>. DEFINE k == r.covered
                  l == Len(c)
      <4>1. k \in Nat \ {0} /\ l \in Nat
        BY <1>1, <3>2 DEF RestoreRecord
      <4>2. CASE k < l
        <5>1. Take(c, k) = SubSeq(c, 1, k)
          BY <4>2 DEF Take
        <5>. HIDE DEF c, k
        <5>2. \A i \in 1..k : c[i] \in FileName
          BY <3>2, <4>1, <4>2, ElementOfSeq
        <5>3. /\ SubSeq(c, 1, k) \in Seq(FileName)
              /\ Len(SubSeq(c, 1, k)) = k
              /\ \A i \in 1..(k - 1 + 1) : SubSeq(c, 1, k)[i] = c[1 + i - 1]
          BY <4>1, <5>2, SubSeqProperties
        <5>4. DOMAIN SubSeq(c, 1, k) = 1..k
          BY <5>3, LenProperties
        <5>. QED
          BY <4>1, <4>2, <5>1, <5>3, <5>4 DEF k
      <4>3. CASE ~(k < l)
        <5>1. Take(c, k) = c
          BY <4>3 DEF Take
        <5>. HIDE DEF c
        <5>. QED
          BY <3>2, <5>1, LenProperties
      <4>. QED
        BY <4>2, <4>3
    <3>4. ASSUME NEW n \in 1..Len(c) PROVE c[n] \in IndexBlocks(e)
      <4>1. n \in 1..Len(Found(e).tokens)
        BY <3>2
      <4>2. SubSeq(Found(e).tokens, 1, n) \in Prefixes(Found(e).tokens)
        BY <4>1 DEF Prefixes
      <4>3. c[n] = KvFile(Found(e).model, SubSeq(Found(e).tokens, 1, n))
        BY <4>1 DEF Chain
      <4>4. c[n] \in Blocks(Found(e))
        <5>. HIDE DEF c
        <5>. QED
          BY <4>2, <4>3 DEF Blocks
      <4>. QED
        BY <3>1, <4>4 DEF IndexBlocks
    <3>. QED
      BY <3>3, <3>4
  <2>3. RestoreStep(e, IF At(e) THEN next ELSE NoRestore)
    BY <1>5 DEF ReadChain, r
  <2>. HIDE DEF c, next
  <2>. QED
    BY <1>2, <1>3, <2>1, <2>2, <2>3
<1>6. CASE ReadWindowName(e)
  <2>. DEFINE next == [r EXCEPT !.at = "reading",
                !.window = IF At(e) THEN WindowBlob(Found(e)) ELSE {},
                !.still = StillThere(e)]
  <2>1. next.at = "reading" /\ next.chain = r.chain
    BY <1>1 DEF RestoreRecord
  <2>2. r.at = "chain" /\ RestoreStep(e, next)
    BY <1>6 DEF ReadWindowName, r
  <2>. HIDE DEF next
  <2>. QED
    BY <1>1, <1>2, <2>1, <2>2 DEF Reads, r
<1>7. CASE ReadBlock(e)
  <2>. DEFINE k == Len(r.rows) + 1
  <2>1. r.at = "reading" /\ Len(r.rows) < Len(r.chain)
    BY <1>7 DEF ReadBlock, r
  <2>2. k \in DOMAIN r.chain /\ NextBlock(e) = r.chain[k]
    <3>1. Len(r.rows) \in Nat /\ Len(r.chain) \in Nat /\ DOMAIN r.chain = 1..Len(r.chain)
      BY <1>1, LenProperties DEF RestoreRecord
    <3>2. k \in 1..Len(r.chain)
      BY <2>1, <3>1
    <3>. QED
      BY <3>1, <3>2 DEF NextBlock, r
  <2>3. NextBlock(e) \in IndexBlocks(e)
    BY <1>1, <2>1, <2>2 DEF Reads, r
  <2>4. PICK x \in Items(index[e]) : NextBlock(e) \in Blocks(x)
    BY <2>3 DEF IndexBlocks
  <2>5. PICK mf \in manifests : SamePath(mf, x)
    BY <1>1, <2>4 DEF AloneInv, IndexWritten
  <2>6. NextBlock(e) \in Blocks(mf) /\ NextBlock(e) \in FileName
    BY <1>0, <2>4, <2>5, SamePathNames, ItemsType, BlocksNamed
  <2>7. files[NextBlock(e)] \in Rows
    BY <2>6 DEF AloneInv, ManifestBlocks, NoDamage
  <2>. DEFINE next == [r EXCEPT !.rows = Append(@, files[NextBlock(e)])]
  <2>8. next.at = "reading" /\ next.chain = r.chain
    BY <1>1, <2>1 DEF RestoreRecord
  <2>9. RestoreStep(e, next)
    BY <1>7, <2>7 DEF ReadBlock, r
  <2>. HIDE DEF next
  <2>. QED
    BY <1>1, <1>2, <2>1, <2>8, <2>9 DEF Reads, r
<1>8. CASE ReadWindow(e)
  <2>1. \A f : [r EXCEPT !.at = "imported", !.rows = Append(@, files[f])].at = "imported"
    BY <1>1 DEF RestoreRecord
  <2>2. [r EXCEPT !.at = "imported"].at = "imported"
    BY <1>1 DEF RestoreRecord
  <2>. QED
    BY <1>2, <1>3, <1>8, <2>1, <2>2 DEF ReadWindow, r
<1>9. CASE Release(e)
  BY <1>2, <1>3, <1>9 DEF Release
<1>10. ~Forget(e)
  BY <1>1 DEF Forget, r
<1>. QED
  BY <1>4, <1>5, <1>6, <1>7, <1>8, <1>9, <1>10 DEF RestoreNext

LEMMA AloneOpen ==
    ASSUME StoreInv, AloneInv, NEW e \in Engine, Open(e), ~shared'
    PROVE  AloneInv'
<1>1. open = {} /\ open' = {e}
  BY DEF Open
<1>2. PICK order : Items(order) = manifests /\ index' = [index EXCEPT ![e] = order]
  BY DEF Open
<1>3. Items(index'[e]) = manifests
  BY <1>2 DEF StoreInv, KvTypeOK
<1>4. /\ \A t \in Thread : persist'[t].at = "idle"
      /\ \A f \in Engine : restore'[f].at = "idle"
      /\ UNCHANGED <<files, manifests, kept>>
  BY <1>1 DEF AloneInv, OpenOnly, Open
<1>5. \A mf \in manifests : ExtendedBy(mf, mf) /\ SamePath(mf, mf)
  BY PrefixType DEF StoreInv, KvTypeOK, Manifest, ExtendedBy, SamePath
<1>6. OneOpen' /\ OpenOnly' /\ NoDamage' /\ ManifestBlocks'
  BY <1>1, <1>4 DEF AloneInv, OneOpen, OpenOnly, NoDamage, ManifestBlocks, OnDisk
<1>7. ManifestsIndexed' /\ IndexWritten'
  BY <1>1, <1>3, <1>4, <1>5 DEF ManifestsIndexed, IndexWritten
<1>8. (\A t \in Thread : Wrote(t)') /\ (\A f \in Engine : Reads(f)')
  BY <1>4 DEF Wrote, Reads, Locking, AllWritten
<1>9. KeptCovered'
  <2>1. \A mf, k : Covers(mf, k)' <=> Covers(mf, k)
    BY <1>4 DEF Covers, OnDisk
  <2>. QED
    BY <1>1, <1>3, <1>4, <2>1 DEF AloneInv, KeptCovered
<1>. QED
  BY <1>6, <1>7, <1>8, <1>9 DEF AloneInv

LEMMA AloneRestart ==
    ASSUME StoreInv, AloneInv, Restart PROVE AloneInv'
<1>1. /\ \A t \in Thread : persist'[t].at = "idle"
      /\ \A f \in Engine : restore'[f].at = "idle"
      /\ open' = {}
      /\ UNCHANGED <<files, manifests, kept>>
  BY RecordOf DEF Restart
<1>2. OneOpen' /\ OpenOnly' /\ NoDamage' /\ ManifestBlocks' /\ ManifestsIndexed' /\ IndexWritten'
  BY <1>1 DEF AloneInv, OneOpen, OpenOnly, NoDamage, ManifestBlocks, ManifestsIndexed,
     IndexWritten, OnDisk
<1>3. (\A t \in Thread : Wrote(t)') /\ (\A f \in Engine : Reads(f)')
  BY <1>1 DEF Wrote, Reads, Locking, AllWritten
<1>4. KeptCovered'
  BY <1>1 DEF AloneInv, KeptCovered, Covers, OnDisk
<1>. QED
  BY <1>2, <1>3, <1>4 DEF AloneInv

\* Files that stay keep what they cover.
LEMMA StillCovers ==
    ASSUME NEW mf, mf.model \in Model, mf.tokens \in Prefix,
           \A f \in FileName : OnDisk(f) => files'[f] # Absent
    PROVE  /\ \A k : Covers(mf, k) => Covers(mf, k)'
           /\ \A f \in Names(mf) : OnDisk(f) => OnDisk(f)'
<1>1. Names(mf) \subseteq FileName
  BY NamesType
<1>. QED
  BY <1>1 DEF Covers, OnDisk

\* A step of a persist that leaves the manifests and the index alone and takes
\* no file away.
LEMMA AloneStep ==
    ASSUME StoreInv, AloneInv, NEW t \in Thread, NEW next,
           persist' = [persist EXCEPT ![t] = next],
           persist[t].at # "index",
           \A f \in FileName : OnDisk(f) => files'[f] # Absent,
           NoDamage',
           UNCHANGED <<manifests, index, open, restore, kept>>,
           next.at # "idle" => next.engine \in open,
           Wrote(t)'
    PROVE  AloneInv'
<1>1. KvTypeOK /\ manifests \subseteq Manifest
      /\ \A mf \in manifests : mf.model \in Model /\ mf.tokens \in Prefix
  BY DEF StoreInv, KvTypeOK, Manifest
<1>2. persist'[t] = next /\ \A u \in Thread \ {t} : persist'[u] = persist[u]
  BY <1>1 DEF KvTypeOK
<1>3. OneOpen' /\ OpenOnly' /\ IndexWritten' /\ \A e \in Engine : Reads(e)'
  BY <1>2 DEF AloneInv, OneOpen, OpenOnly, IndexWritten, Reads, IndexBlocks
<1>4. ManifestsIndexed'
  <2>1. \A u \in Thread : persist[u].at = "index" =>
            persist'[u].at = "index" /\ Written(u)' = Written(u)
    BY <1>2 DEF Written, PModel
  <2>. QED
    BY <2>1 DEF AloneInv, ManifestsIndexed
<1>5. ManifestBlocks'
  BY <1>1, StillCovers, BlocksNamed DEF AloneInv, ManifestBlocks
<1>6. ASSUME NEW u \in Thread PROVE Wrote(u)'
  <2>1. CASE u = t
    BY <2>1
  <2>2. CASE u # t
    <3>1. persist'[u] = persist[u]
      BY <1>2, <2>2
    <3>2. CASE persist[u].at \notin Locking
      BY <3>1, <3>2 DEF Wrote, Locking, AllWritten
    <3>3. CASE persist[u].at \in Locking
      <4>1. persist[u].at # "idle" /\ Wrote(u)
        BY <3>3 DEF Locking, AloneInv
      <4>2. \A n \in 1..(persist[u].next - 1) : PBlock(u, n) \in FileName
        <5>1. \A n \in 1..(persist[u].next - 1) : n \in 1..Len(persist[u].tokens)
          <6>1. persist[u].next \in Nat /\ persist[u].next <= Len(persist[u].tokens) + 1
            BY <1>1, <4>1, PersistType DEF StoreInv, BlocksInOrder, PersistRecord
          <6>2. Len(persist[u].tokens) \in Nat
            BY <1>1, <4>1, PersistType
          <6>. QED
            BY <6>1, <6>2
        <5>. QED
          BY <1>1, <4>1, <5>1, PersistType
      <4>3. Names(Written(u)) \subseteq FileName
        BY <1>1, <4>1, WrittenType, NamesType DEF Manifest
      <4>4. Written(u)' = Written(u) /\ \A n : PBlock(u, n)' = PBlock(u, n)
        BY <3>1 DEF Written, PModel, PBlock
      <4>. QED
        BY <3>1, <4>1, <4>2, <4>3, <4>4 DEF Wrote, OnDisk
    <3>. QED
      BY <3>2, <3>3
  <2>. QED
    BY <2>1, <2>2
<1>7. KeptCovered'
  <2>1. \A e \in open : \A x \in Items(index[e]) : x.model \in Model /\ x.tokens \in Prefix
    BY <1>1, ItemsType DEF KvTypeOK
  <2>2. \A mf \in manifests, k \in kept : Covers(mf, k) => Covers(mf, k)'
    BY <1>1, StillCovers
  <2>3. \A e \in open : \A x \in Items(index[e]), k \in kept : Covers(x, k) => Covers(x, k)'
    BY <2>1, StillCovers
  <2>. QED
    BY <2>2, <2>3 DEF AloneInv, KeptCovered
<1>. QED
  BY <1>3, <1>4, <1>5, <1>6, <1>7 DEF AloneInv

LEMMA AloneStage ==
    ASSUME StoreInv, AloneInv, NEW t \in Thread, NEW e \in Engine, NEW c \in Served[e],
           Stage(t, e, c)
    PROVE  AloneInv'
<1>. DEFINE next == [at |-> "staged", engine |-> e, tokens |-> c,
          staged |-> {n \in 1..Len(c) : ~OnDisk(Chain(ModelOf[e], c)[n])},
          next |-> 1, last_used |-> 0, disturbed |-> FALSE]
<1>1. /\ persist' = [persist EXCEPT ![t] = next] /\ next.at = "staged" /\ next.engine = e
      /\ e \in open /\ persist[t].at = "idle"
      /\ UNCHANGED <<files, manifests, index, open, restore, kept>>
  BY DEF Stage
<1>. HIDE DEF next
<1>2. NoDamage' /\ \A f \in FileName : OnDisk(f) => files'[f] # Absent
  BY <1>1 DEF AloneInv, NoDamage, OnDisk
<1>3. Wrote(t)'
  <2>1. persist'[t].at = "staged"
    BY <1>1 DEF StoreInv, KvTypeOK
  <2>. QED
    BY <2>1 DEF Wrote, Locking, AllWritten
<1>. QED
  BY <1>1, <1>2, <1>3, AloneStep

LEMMA AloneLeave ==
    ASSUME StoreInv, AloneInv, NEW t \in Thread, PersistStep(t, NoPersist),
           persist[t].at # "index",
           UNCHANGED <<files, manifests, index, clock, kept>>
    PROVE  AloneInv'
<1>1. NoDamage' /\ \A f \in FileName : OnDisk(f) => files'[f] # Absent
  BY DEF AloneInv, NoDamage, OnDisk
<1>2. persist'[t].at = "idle" /\ NoPersist.at = "idle"
  BY RecordOf DEF PersistStep, StoreInv, KvTypeOK
<1>3. Wrote(t)'
  BY <1>2 DEF Wrote, Locking, AllWritten
<1>. QED
  BY <1>1, <1>2, <1>3, AloneStep DEF PersistStep

LEMMA AloneLock ==
    ASSUME StoreInv, AloneInv, NEW t \in Thread, Lock(t) PROVE AloneInv'
<1>. DEFINE next == [persist[t] EXCEPT !.at = "blocks"]
<1>0. persist[t].at = "staged" /\ persist[t].next = 1 /\ persist[t].engine \in open
  BY DEF Lock, StoreInv, BlocksInOrder, AloneInv, OpenOnly
<1>1. persist[t] \in PersistRecord
  BY <1>0, PersistType DEF StoreInv
<1>2. /\ next.at = "blocks" /\ Same(persist[t], next)
  BY <1>1 DEF PersistRecord, Same
<1>. HIDE DEF next
<1>3. persist' = [persist EXCEPT ![t] = next]
      /\ UNCHANGED <<files, manifests, index, kept, open, restore>>
  BY DEF Lock, PersistStep, next
<1>4. persist'[t] = next
  BY <1>3 DEF StoreInv, KvTypeOK
<1>5. Wrote(t)'
  BY <1>0, <1>2, <1>4 DEF Wrote, Same, Locking, AllWritten
<1>6. NoDamage' /\ \A f \in FileName : OnDisk(f) => files'[f] # Absent
  BY <1>3 DEF AloneInv, NoDamage, OnDisk
<1>. QED
  BY <1>0, <1>2, <1>3, <1>5, <1>6, AloneStep DEF Same

LEMMA AloneFileWritten ==
    ASSUME StoreInv, AloneInv, NEW t \in Thread, persist[t].at # "idle",
           NEW g \in FileName, files' = [files EXCEPT ![g] = PRows(t)]
    PROVE  NoDamage' /\ (\A f \in FileName : OnDisk(f) => files'[f] # Absent)
           /\ files'[g] # Absent
<1>1. PModel(t) \in Model /\ PSlid(t) \in BOOLEAN /\ PRows(t) = Export(PModel(t), PSlid(t))
  BY PRowsType DEF PRows, StoreInv
<1>2. /\ \A f \in FileName : OnDisk(f) => files'[f] # Absent
      /\ files'[g] \in Rows /\ files'[g] # Absent
      /\ \A f \in FileName : f # g => files'[f] = files[f]
  BY <1>1, FileWritten DEF StoreInv
<1>. QED
  BY <1>2 DEF AloneInv, NoDamage, OnDisk

LEMMA AloneWriteBlock ==
    ASSUME StoreInv, AloneInv, NEW t \in Thread, WriteBlock(t) PROVE AloneInv'
<1>. DEFINE n == persist[t].next
            f == PBlock(t, n)
            next == [persist[t] EXCEPT !.next = @ + 1]
<1>1. persist[t].at = "blocks" /\ n <= Len(persist[t].tokens) /\ persist[t].engine \in open
  BY DEF WriteBlock, AloneInv, OpenOnly
<1>2. KvTypeOK /\ persist[t] \in PersistRecord /\ Len(persist[t].tokens) \in Nat /\ n \in Nat \ {0}
  BY <1>1, PersistType DEF StoreInv, PersistRecord
<1>3. n \in 1..Len(persist[t].tokens) /\ f \in FileName
  <2>1. n \in 1..Len(persist[t].tokens)
    BY <1>1, <1>2
  <2>. QED
    BY <1>1, <1>2, <2>1, PersistType
<1>4. CASE PersistStep(t, NoPersist) /\ UNCHANGED <<files, manifests, index, clock, kept>>
  BY <1>1, <1>4, AloneLeave
<1>5. CASE /\ PersistStep(t, next) /\ UNCHANGED <<manifests, index, clock, kept>>
           /\ \/ OnDisk(f) /\ UNCHANGED files
              \/ ~OnDisk(f) /\ files' = [files EXCEPT ![f] = PRows(t)]
  <2>1. NoDamage' /\ (\A g \in FileName : OnDisk(g) => files'[g] # Absent) /\ files'[f] # Absent
    <3>1. CASE OnDisk(f) /\ UNCHANGED files
      BY <3>1 DEF AloneInv, NoDamage, OnDisk
    <3>2. CASE files' = [files EXCEPT ![f] = PRows(t)]
      <4>. HIDE DEF f
      <4>. QED
        BY <1>1, <1>3, <3>2, AloneFileWritten
    <3>. QED
      BY <1>5, <3>1, <3>2
  <2>2. /\ next.at = "blocks" /\ next.next = n + 1
        /\ next.engine = persist[t].engine /\ next.tokens = persist[t].tokens
    BY <1>1, <1>2 DEF PersistRecord
  <2>3. persist' = [persist EXCEPT ![t] = next]
        /\ UNCHANGED <<manifests, index, kept, open, restore>>
    BY <1>5 DEF PersistStep
  <2>. HIDE DEF next
  <2>4. persist'[t] = next
    BY <1>2, <2>3 DEF KvTypeOK
  <2>5. ASSUME NEW k \in 1..(next.next - 1) PROVE files'[PBlock(t, k)'] # Absent
    <3>1. PBlock(t, k)' = PBlock(t, k)
      BY <2>2, <2>4 DEF PBlock, PModel
    <3>2. k \in 1..(n - 1) \/ k = n
      <4>. HIDE DEF n
      <4>. QED
        BY <1>2, <2>2
    <3>3. CASE k \in 1..(n - 1)
      <4>1. OnDisk(PBlock(t, k))
        BY <1>1, <3>3 DEF AloneInv, Wrote, Locking
      <4>2. k \in 1..Len(persist[t].tokens)
        <5>. HIDE DEF n
        <5>. QED
          BY <1>2, <1>3, <3>3
      <4>3. PBlock(t, k) \in FileName
        BY <1>1, <1>2, <4>2, PersistType
      <4>. QED
        BY <2>1, <3>1, <4>1, <4>3
    <3>4. CASE k = n
      BY <2>1, <3>1, <3>4
    <3>. QED
      BY <3>2, <3>3, <3>4
  <2>6. Wrote(t)'
    BY <2>2, <2>4, <2>5 DEF Wrote, AllWritten, OnDisk
  <2>. QED
    BY <1>1, <2>1, <2>2, <2>3, <2>6, AloneStep
<1>. QED
  BY <1>4, <1>5 DEF WriteBlock

LEMMA AloneWriteWindow ==
    ASSUME StoreInv, AloneInv, NEW t \in Thread, WriteWindow(t) PROVE AloneInv'
<1>. DEFINE p == persist[t]
            next == [p EXCEPT !.at = "manifest", !.staged = {}, !.last_used = clock']
            f == WindowFile(PModel(t), p.tokens)
            wrote == PSlid(t) /\ ~OnDisk(f)
<1>1. p.at = "blocks" /\ p.next > Len(p.tokens) /\ p.engine \in open
      /\ files' = IF wrote THEN [files EXCEPT ![f] = PRows(t)] ELSE files
  BY DEF WriteWindow, AloneInv, OpenOnly
<1>2. KvTypeOK /\ p \in PersistRecord /\ f \in FileName
      /\ Len(p.tokens) \in Nat /\ p.next \in Nat /\ p.next <= Len(p.tokens) + 1
  BY <1>1, PersistType DEF StoreInv, BlocksInOrder, PersistRecord
<1>3. NoDamage' /\ (\A g \in FileName : OnDisk(g) => files'[g] # Absent)
      /\ (PSlid(t) => files'[f] # Absent)
  <2>1. CASE ~wrote
    BY <1>1, <2>1 DEF AloneInv, NoDamage, OnDisk
  <2>2. CASE wrote
    <3>1. files' = [files EXCEPT ![f] = PRows(t)]
      BY <1>1, <2>2
    <3>. HIDE DEF f, wrote
    <3>. QED
      BY <1>1, <1>2, <3>1, AloneFileWritten
  <2>. QED
    BY <2>1, <2>2
<1>4. next.at = "manifest" /\ Same(p, next)
  BY <1>2 DEF PersistRecord, Same
<1>. HIDE DEF next
<1>5. persist' = [persist EXCEPT ![t] = next]
      /\ UNCHANGED <<manifests, index, kept, open, restore>>
  BY DEF WriteWindow, PersistStep, next
<1>6. persist'[t] = next
  BY <1>2, <1>5 DEF KvTypeOK
<1>7. /\ \A n : PBlock(t, n)' = PBlock(t, n)
      /\ Written(t)'.model = PModel(t) /\ Written(t)'.tokens = p.tokens
  BY <1>4, <1>6 DEF Same, PBlock, PModel, Written
<1>8. ASSUME NEW n \in 1..Len(p.tokens) PROVE files'[PBlock(t, n)] # Absent
  <2>1. n \in 1..(p.next - 1)
    BY <1>1, <1>2
  <2>2. OnDisk(PBlock(t, n))
    BY <1>1, <2>1 DEF AloneInv, Wrote, Locking
  <2>3. PBlock(t, n) \in FileName
    BY <1>1, <1>2, PersistType
  <2>. QED
    BY <1>3, <2>2, <2>3
<1>9. ASSUME NEW g \in Names(Written(t)') PROVE files'[g] # Absent
  <2>1. CASE g \in Blocks(Written(t)')
    <3>1. PICK q \in Prefixes(p.tokens) : g = KvFile(PModel(t), q)
      BY <1>7, <2>1 DEF Blocks
    <3>2. PICK n \in 1..Len(p.tokens) : q = SubSeq(p.tokens, 1, n)
      BY DEF Prefixes
    <3>3. g = PBlock(t, n)
      BY <3>1, <3>2 DEF PBlock
    <3>. QED
      BY <1>8, <3>3
  <2>2. CASE g \in WindowBlob(Written(t)')
    <3>1. PSlid(t) /\ g = f
      BY <1>7, <2>2 DEF WindowBlob, PSlid
    <3>. QED
      BY <1>3, <3>1
  <2>. QED
    BY <2>1, <2>2 DEF Names, Blocks
<1>10. Wrote(t)'
  <2>1. \A n \in 1..(next.next - 1) : files'[PBlock(t, n)'] # Absent
    <3>1. \A n \in 1..(p.next - 1) : n \in 1..Len(p.tokens)
      <4>. HIDE DEF p
      <4>. QED
        BY <1>2
    <3>. QED
      BY <1>4, <1>7, <1>8, <3>1 DEF Same
  <2>. QED
    BY <1>4, <1>6, <1>9, <2>1 DEF Wrote, OnDisk
<1>11. persist[t].at # "index" /\ next.engine \in open
  BY <1>1, <1>4 DEF Same
<1>. QED
  BY <1>3, <1>5, <1>10, <1>11, AloneStep

\* The steps of the persist that holds the lock, after its last file: no other
\* persist has anything to lose.
LEMMA AloneLater ==
    ASSUME StoreInv, AloneInv, NEW t \in Thread, persist[t].at \in AllWritten,
           NEW at \in AllWritten,
           persist' = [persist EXCEPT ![t] = [persist[t] EXCEPT !.at = at]],
           UNCHANGED <<files, open>>
    PROVE  /\ KvTypeOK /\ persist[t].engine \in open /\ persist[t].engine \in Engine
           /\ persist[t].at # "idle" /\ Written(t) \in Manifest /\ Written(t).tokens \in Prefix
           /\ Names(Written(t)) \subseteq FileName
           /\ \A f \in Names(Written(t)) : OnDisk(f)
           /\ persist'[t].at = at /\ Written(t)' = Written(t)
           /\ persist'[t].engine = persist[t].engine
           /\ \A u \in Thread \ {t} : persist[u].at \notin Locking /\ Wrote(u)'
           /\ \A n \in 1..(persist'[t].next - 1) : files'[PBlock(t, n)'] # Absent
           /\ NoDamage' /\ OneOpen'
           /\ \A u \in Thread : persist'[u].at # "idle" => persist'[u].engine \in open
<1>1. persist[t].at \in Locking /\ persist[t].at # "idle" /\ KvTypeOK
      /\ persist[t].engine \in open
  BY DEF AllWritten, Locking, StoreInv, AloneInv, OpenOnly
<1>2. persist[t] \in PersistRecord /\ Written(t) \in Manifest
      /\ persist[t].engine \in Engine
  BY <1>1, PersistType, WrittenType DEF PersistRecord
<1>3. Written(t).tokens \in Prefix /\ Names(Written(t)) \subseteq FileName
  BY <1>2, NamesType DEF Manifest
<1>. DEFINE next == [persist[t] EXCEPT !.at = at]
<1>4. next.at = at /\ Same(persist[t], next) /\ next.last_used = persist[t].last_used
  BY <1>2 DEF PersistRecord, Same
<1>. HIDE DEF next
<1>5. persist'[t] = next /\ \A u \in Thread \ {t} : persist'[u] = persist[u]
  BY <1>1 DEF KvTypeOK, next
<1>6. Written(t)' = Written(t) /\ (\A n : PBlock(t, n)' = PBlock(t, n))
      /\ persist'[t].engine = persist[t].engine
  BY <1>4, <1>5 DEF Written, PModel, PBlock, Same
<1>7. ASSUME NEW u \in Thread \ {t} PROVE persist[u].at \notin Locking /\ Wrote(u)'
  <2>1. persist[u].at \notin Locking
    BY <1>1, OnlyWriter
  <2>. QED
    BY <1>5, <2>1 DEF Wrote, Locking, AllWritten
<1>8. Wrote(t)
  BY DEF AloneInv
<1>9. \A n \in 1..(persist'[t].next - 1) : files'[PBlock(t, n)'] # Absent
  BY <1>1, <1>4, <1>5, <1>6, <1>8 DEF Wrote, Same, OnDisk
<1>10. NoDamage' /\ OneOpen'
  BY DEF AloneInv, NoDamage, OneOpen, OnDisk
<1>11. \A u \in Thread : persist'[u].at # "idle" => persist'[u].engine \in open
  BY <1>1, <1>4, <1>5 DEF AloneInv, OpenOnly, Same
<1>. QED
  BY <1>1, <1>2, <1>3, <1>4, <1>5, <1>6, <1>7, <1>8, <1>9, <1>10, <1>11 DEF Wrote

LEMMA AloneWriteManifest ==
    ASSUME StoreInv, AloneInv, NEW t \in Thread, WriteManifest(t) PROVE AloneInv'
<1>. DEFINE w == Written(t)
            rest == {mf \in manifests : ~SamePath(mf, w)}
<1>1. persist[t].at = "manifest" /\ persist[t].at \in AllWritten /\ "index" \in AllWritten
      /\ manifests' = rest \cup {w}
      /\ persist' = [persist EXCEPT ![t] = [persist[t] EXCEPT !.at = "index"]]
      /\ UNCHANGED <<files, index, kept, open, restore>>
  BY DEF WriteManifest, PersistStep, AllWritten
<1>2. /\ w \in Manifest /\ w.tokens \in Prefix
      /\ Names(w) \subseteq FileName /\ (\A f \in Names(w) : OnDisk(f))
      /\ persist'[t].at = "index" /\ Written(t)' = w
      /\ \A u \in Thread \ {t} : persist[u].at \notin Locking /\ Wrote(u)'
      /\ \A n \in 1..(persist'[t].next - 1) : files'[PBlock(t, n)'] # Absent
      /\ NoDamage' /\ OneOpen'
      /\ \A u \in Thread : persist'[u].at # "idle" => persist'[u].engine \in open
  BY <1>1, AloneLater
<1>. HIDE DEF w
<1>3. OpenOnly'
  BY <1>1, <1>2 DEF AloneInv, OpenOnly
<1>4. ManifestsIndexed'
  <2>. SUFFICES ASSUME NEW mf \in manifests', NEW e \in open
                PROVE  \/ \E x \in Items(index[e]) : ExtendedBy(x, mf)
                       \/ \E u \in Thread : /\ persist'[u].at = "index"
                                            /\ SamePath(mf, Written(u)')
    BY <1>1 DEF ManifestsIndexed
  <2>1. CASE mf = w
    <3>1. SamePath(mf, Written(t)')
      BY <1>2, <2>1 DEF SamePath
    <3>. QED
      BY <1>2, <3>1
  <2>2. CASE mf \in manifests
    <3>1. \A u \in Thread : persist[u].at # "index"
      BY <1>1, <1>2 DEF Locking
    <3>. QED
      BY <2>2, <3>1 DEF AloneInv, ManifestsIndexed
  <2>. QED
    BY <1>1, <2>1, <2>2
<1>5. \A mf \in manifests : \E a \in manifests' : SamePath(a, mf)
  BY <1>1 DEF SamePath
<1>6. IndexWritten'
  <2>. SUFFICES ASSUME NEW e \in open, NEW x \in Items(index[e])
                PROVE  \E mf \in manifests' : SamePath(mf, x)
    BY <1>1 DEF IndexWritten
  <2>1. PICK mf \in manifests : SamePath(mf, x)
    BY DEF AloneInv, IndexWritten
  <2>. QED
    BY <1>5, <2>1 DEF SamePath
<1>7. ManifestBlocks'
  <2>1. \A f \in Blocks(w) : OnDisk(f)
    BY <1>2, BlocksNamed
  <2>. QED
    BY <1>1, <2>1 DEF AloneInv, ManifestBlocks, OnDisk
<1>8. \A u \in Thread : Wrote(u)'
  <2>1. Wrote(t)'
    BY <1>1, <1>2 DEF Wrote, OnDisk
  <2>. QED
    BY <1>2, <2>1
<1>9. \A e \in Engine : Reads(e)'
  BY <1>1 DEF AloneInv, Reads, IndexBlocks
<1>10. KeptCovered'
  <2>1. \A mf, k : Covers(mf, k)' <=> Covers(mf, k)
    BY <1>1 DEF Covers, OnDisk
  <2>. SUFFICES ASSUME NEW k \in kept
                PROVE  /\ \E mf \in manifests' : Covers(mf, k)
                       /\ \A e \in open : \E x \in Items(index[e]) : Covers(x, k)
    BY <1>1, <2>1 DEF KeptCovered
  <2>2. PICK mf \in manifests : Covers(mf, k)
    BY DEF AloneInv, KeptCovered
  <2>3. PICK a \in manifests' : SamePath(a, mf)
    BY <1>5
  <2>. QED
    BY <2>2, <2>3, SamePathNames DEF AloneInv, KeptCovered
<1>. QED
  BY <1>2, <1>3, <1>4, <1>6, <1>7, <1>8, <1>9, <1>10 DEF AloneInv

LEMMA AloneEnterIndex ==
    ASSUME StoreInv, AloneInv, NEW t \in Thread, EnterIndex(t) PROVE AloneInv'
<1>. DEFINE w == Written(t)
<1>0. PICK e \in Engine : e = persist[t].engine
  <2>1. persist[t] \in PersistRecord
    BY PersistType DEF EnterIndex, StoreInv
  <2>. QED
    BY <2>1 DEF PersistRecord
<1>1. persist[t].at = "index" /\ persist[t].at \in AllWritten /\ "collect" \in AllWritten
      /\ persist' = [persist EXCEPT ![t] = [persist[t] EXCEPT !.at = "collect"]]
      /\ UNCHANGED <<files, manifests, kept, open, restore>>
  BY DEF EnterIndex, PersistStep, AllWritten
<1>2. /\ KvTypeOK /\ e \in open /\ e \in Engine
      /\ w \in Manifest /\ w.tokens \in Prefix
      /\ Names(w) \subseteq FileName /\ (\A f \in Names(w) : OnDisk(f))
      /\ persist'[t].at = "collect" /\ Written(t)' = w
      /\ persist'[t].engine = e
      /\ \A u \in Thread \ {t} : persist[u].at \notin Locking /\ Wrote(u)'
      /\ \A n \in 1..(persist'[t].next - 1) : files'[PBlock(t, n)'] # Absent
      /\ NoDamage' /\ OneOpen'
      /\ \A u \in Thread : persist'[u].at # "idle" => persist'[u].engine \in open
  BY <1>0, <1>1, AloneLater
<1>3. /\ \A g \in Engine : g # e => index'[g] = index[g]
      /\ Items(index'[e]) = {mf \in Items(index[e]) : ~ExtendedBy(w, mf)} \cup {w}
  BY <1>0, <1>2, EnteredIndex
<1>4. Wrote(t) /\ w \in manifests /\ \A g \in open : g = e
  BY <1>1, <1>2 DEF AloneInv, Wrote, OneOpen
<1>. HIDE DEF w
<1>5. OpenOnly'
  BY <1>1, <1>2 DEF AloneInv, OpenOnly
<1>6. \A x \in Items(index[e]) : \E y \in Items(index'[e]) : ExtendedBy(y, x) /\ (x = y \/ y = w)
  <2>1. \A x \in Items(index[e]) : x.tokens \in Prefix
    BY <1>2, ItemsType
  <2>2. \A x \in Items(index[e]) : ExtendedBy(x, x)
    BY <2>1, PrefixType DEF ExtendedBy
  <2>. QED
    BY <1>3, <2>2
<1>7. \A y \in Items(index'[e]) : y.tokens \in Prefix
  <2>1. \A x \in Items(index[e]) : x.tokens \in Prefix
    BY <1>2, ItemsType
  <2>. QED
    BY <1>2, <1>3, <2>1
<1>8. ManifestsIndexed'
  <2>. SUFFICES ASSUME NEW mf \in manifests
                PROVE  \E y \in Items(index'[e]) : ExtendedBy(y, mf)
    BY <1>1, <1>4 DEF ManifestsIndexed
  <2>1. CASE \E x \in Items(index[e]) : ExtendedBy(x, mf)
    <3>1. PICK x \in Items(index[e]) : ExtendedBy(x, mf)
      BY <2>1
    <3>2. PICK y \in Items(index'[e]) : ExtendedBy(y, x)
      BY <1>6
    <3>. QED
      BY <1>7, <3>1, <3>2, ExtendedBlocks
  <2>2. CASE \E u \in Thread : persist[u].at = "index" /\ SamePath(mf, Written(u))
    <3>1. PICK u \in Thread : persist[u].at = "index" /\ SamePath(mf, Written(u))
      BY <2>2
    <3>2. u = t
      BY <1>2, <3>1 DEF Locking
    <3>3. SamePath(w, mf)
      BY <3>1, <3>2 DEF SamePath, w
    <3>4. ExtendedBy(w, mf)
      BY <1>2, <3>3, SamePathNames
    <3>. QED
      BY <1>3, <3>4
  <2>. QED
    BY <1>2, <2>1, <2>2 DEF AloneInv, ManifestsIndexed
<1>9. IndexWritten'
  <2>1. \A x \in Items(index[e]) : \E mf \in manifests : SamePath(mf, x)
    BY <1>2 DEF AloneInv, IndexWritten
  <2>2. SamePath(w, w)
    BY DEF SamePath
  <2>3. \A x \in Items(index'[e]) : \E mf \in manifests : SamePath(mf, x)
    BY <1>3, <1>4, <2>1, <2>2
  <2>. QED
    BY <1>1, <1>4, <2>3 DEF IndexWritten
<1>10. ManifestBlocks'
  BY <1>1 DEF AloneInv, ManifestBlocks, OnDisk
<1>11. \A u \in Thread : Wrote(u)'
  <2>1. w \in Items(index'[e]) /\ SamePath(w, w)
    BY <1>3 DEF SamePath
  <2>2. Wrote(t)'
    BY <1>1, <1>2, <2>1 DEF Wrote, OnDisk
  <2>. QED
    BY <1>2, <2>2
<1>12. IndexBlocks(e) \subseteq IndexBlocks(e)'
  <2>. SUFFICES ASSUME NEW x \in Items(index[e]), NEW f \in Blocks(x)
                PROVE  \E y \in Items(index'[e]) : f \in Blocks(y)
    BY DEF IndexBlocks
  <2>1. PICK y \in Items(index'[e]) : ExtendedBy(y, x)
    BY <1>6
  <2>. QED
    BY <1>7, <2>1, ExtendedBlocks
<1>13. ASSUME NEW g \in Engine PROVE Reads(g)'
  <2>1. Reads(g) /\ restore'[g] = restore[g]
    BY <1>1 DEF AloneInv
  <2>2. CASE g = e
    BY <1>12, <2>1, <2>2 DEF Reads
  <2>3. CASE g # e
    <3>1. restore[g].at = "idle"
      BY <1>4, <2>3 DEF AloneInv, OpenOnly
    <3>. QED
      BY <2>1, <3>1 DEF Reads
  <2>. QED
    BY <2>2, <2>3
<1>14. KeptCovered'
  <2>1. \A mf, k : Covers(mf, k)' <=> Covers(mf, k)
    BY <1>1 DEF Covers, OnDisk
  <2>. SUFFICES ASSUME NEW k \in kept
                PROVE  /\ \E mf \in manifests : Covers(mf, k)
                       /\ \E x \in Items(index'[e]) : Covers(x, k)
    BY <1>1, <1>4, <2>1 DEF KeptCovered
  <2>2. PICK x \in Items(index[e]) : Covers(x, k)
    BY <1>2 DEF AloneInv, KeptCovered
  <2>3. PICK y \in Items(index'[e]) : ExtendedBy(y, x) /\ (x = y \/ y = w)
    BY <1>6
  <2>4. CASE y = w
    <3>1. w.model = k[1] /\ k[2] \in Prefixes(w.tokens)
      <4>1. w.tokens \in Seq(Nat)
        BY <1>2, PrefixType
      <4>2. x.model = w.model /\ x.tokens \in Prefixes(w.tokens)
        BY <2>3, <2>4 DEF ExtendedBy
      <4>3. Prefixes(x.tokens) \subseteq Prefixes(w.tokens)
        BY <4>1, <4>2, PrefixesOf
      <4>. QED
        BY <2>2, <4>2, <4>3 DEF Covers
    <3>2. Covers(w, k)
      BY <1>2, <3>1 DEF Covers
    <3>. QED
      BY <2>3, <2>4, <3>2 DEF AloneInv, KeptCovered
  <2>5. CASE x = y
    BY <2>2, <2>3, <2>5 DEF AloneInv, KeptCovered
  <2>. QED
    BY <2>3, <2>4, <2>5
<1>. QED
  BY <1>2, <1>5, <1>8, <1>9, <1>10, <1>11, <1>13, <1>14 DEF AloneInv

LEMMA AloneCollect ==
    ASSUME StoreInv, AloneInv, budget = 0, NEW t \in Thread, CollectGarbage(t)
    PROVE  AloneInv'
<1>1. KvTypeOK /\ persist[t].at = "collect"
  BY DEF StoreInv, CollectGarbage
<1>0. PICK e \in Engine : e = persist[t].engine
  BY <1>1, PersistType DEF PersistRecord
<1>. DEFINE named == FilesOf(Items(index[e]))
            new == <<PModel(t), persist[t].tokens>>
            D == Disturbed(FileName \ named, Engine \ {e})
<1>2. Keep(index[e]) = index[e]
  BY DEF Keep
<1>3. /\ index' = [index EXCEPT ![e] = index[e]]
      /\ manifests' = {mf \in manifests : \A d \in Items(index[e]) \ Items(index[e]) :
                            ~SamePath(mf, d)}
      /\ files' = [f \in FileName |-> IF f \in named THEN files[f] ELSE Absent]
      /\ persist'[t] = NoPersist
      /\ \A u \in Thread \ {t} : persist'[u] = D[u]
  BY <1>0, <1>1, <1>2, Collected
<1>4. index' = index /\ manifests' = manifests
  BY <1>1, <1>3 DEF KvTypeOK
<1>5. open' = open /\ restore' = restore /\ kept' = kept \cup {new}
  BY DEF CollectGarbage
<1>6. e \in open /\ (\A g \in open : g = e) /\ Wrote(t)
      /\ \A u \in Thread \ {t} : persist[u].at \notin Locking
  <2>1. persist[t].at \in Locking /\ persist[t].at # "idle"
    BY <1>1 DEF Locking
  <2>. QED
    BY <1>0, <2>1, OnlyWriter DEF AloneInv, OpenOnly, OneOpen
<1>7. \A u \in Thread \ {t} : D[u].at = persist[u].at
                              /\ (persist[u].at # "idle" => D[u].engine = persist[u].engine)
  <2>. DEFINE lost == FileName \ named
              others == Engine \ {e}
  <2>1. D = Disturbed(lost, others)
    OBVIOUS
  <2>. HIDE DEF lost, others, D
  <2>. QED
    BY <1>1, <2>1, DisturbedIs DEF Same
<1>. HIDE DEF D
<1>8. NoPersist.at = "idle"
  BY RecordOf
<1>9. \A x \in Items(index[e]) : Names(x) \subseteq named
  BY DEF FilesOf
<1>. HIDE DEF named
<1>10. \A x \in Items(index[e]) : \A f \in Names(x) : OnDisk(f) => files'[f] # Absent
  <2>1. \A x \in Items(index[e]) : Names(x) \subseteq FileName
    BY <1>1, ItemsType
  <2>. QED
    BY <1>3, <1>9, <2>1 DEF OnDisk
<1>11. OneOpen' /\ NoDamage' /\ IndexWritten'
  BY <1>3, <1>4, <1>5 DEF AloneInv, OneOpen, NoDamage, IndexWritten, OnDisk
<1>12. OpenOnly'
  <2>1. \A u \in Thread : persist'[u].at # "idle" => persist'[u].engine \in open
    BY <1>3, <1>7, <1>8 DEF AloneInv, OpenOnly
  <2>. QED
    BY <1>5, <2>1 DEF AloneInv, OpenOnly
<1>13. \A mf \in manifests : \E x \in Items(index[e]) : ExtendedBy(x, mf)
  <2>1. \A u \in Thread : persist[u].at # "index"
    BY <1>1, <1>6 DEF Locking
  <2>. QED
    BY <1>6, <2>1 DEF AloneInv, ManifestsIndexed
<1>14. ManifestsIndexed'
  BY <1>4, <1>5, <1>6, <1>13 DEF ManifestsIndexed
<1>15. ManifestBlocks'
  <2>. SUFFICES ASSUME NEW mf \in manifests, NEW f \in Blocks(mf)
                PROVE  files'[f] # Absent
    BY <1>4 DEF ManifestBlocks, OnDisk
  <2>1. OnDisk(f)
    BY DEF AloneInv, ManifestBlocks
  <2>2. PICK x \in Items(index[e]) : ExtendedBy(x, mf)
    BY <1>13
  <2>3. f \in Names(x)
    BY <1>1, <2>2, ItemsType, ExtendedBlocks, BlocksNamed
  <2>. QED
    BY <1>10, <2>1, <2>3
<1>16. ASSUME NEW u \in Thread PROVE Wrote(u)'
  <2>1. persist'[u].at \notin Locking
    BY <1>3, <1>6, <1>7, <1>8 DEF Locking
  <2>. QED
    BY <2>1 DEF Wrote, Locking, AllWritten
<1>17. \A g \in Engine : Reads(g)'
  BY <1>4, <1>5 DEF AloneInv, Reads, IndexBlocks
<1>18. \A x \in Items(index[e]) : \A k : Covers(x, k) => Covers(x, k)'
  BY <1>10 DEF Covers, OnDisk
<1>19. \A k \in kept' : \E x \in Items(index[e]) : Covers(x, k)
  <2>1. \A k \in kept : \E x \in Items(index[e]) : Covers(x, k)
    BY <1>6 DEF AloneInv, KeptCovered
  <2>2. \E x \in Items(index[e]) : Covers(x, new)
    <3>1. PICK x \in Items(index[e]) : SamePath(x, Written(t))
      BY <1>0, <1>1, <1>6 DEF Wrote
    <3>2. persist[t].tokens \in Prefixes(persist[t].tokens)
      BY <1>1, PersistType, PrefixType DEF PersistRecord
    <3>3. Written(t).model = PModel(t) /\ Written(t).tokens = persist[t].tokens
      BY DEF Written
    <3>4. Covers(Written(t), new)
      BY <1>1, <1>6, <3>2, <3>3 DEF Wrote, AllWritten, Covers
    <3>. QED
      BY <3>1, <3>4, SamePathNames
  <2>. QED
    BY <1>5, <2>1, <2>2
<1>20. KeptCovered'
  <2>. SUFFICES ASSUME NEW k \in kept'
                PROVE  /\ \E mf \in manifests : Covers(mf, k)'
                       /\ \E x \in Items(index[e]) : Covers(x, k)'
    BY <1>4, <1>5, <1>6 DEF KeptCovered
  <2>1. PICK x \in Items(index[e]) : Covers(x, k)
    BY <1>19
  <2>2. PICK mf \in manifests : SamePath(mf, x)
    BY <1>6 DEF AloneInv, IndexWritten
  <2>3. Covers(x, k)'
    BY <1>18, <2>1 DEF Covers
  <2>4. Covers(mf, k)'
    BY <2>2, <2>3 DEF SamePath, Covers, Names, WindowBlob
  <2>. QED
    BY <2>3, <2>4
<1>. QED
  BY <1>11, <1>12, <1>14, <1>15, <1>16, <1>17, <1>20 DEF AloneInv

LEMMA AloneBefore ==
    ASSUME KvTypeOK, [Next]_vars, Alone' PROVE Alone /\ ~Damage
<1>1. ~Damage
  BY DEF Damage, Alone, KvTypeOK
<1>. SUFFICES Alone
  BY <1>1
<1>2. CASE UNCHANGED vars
  BY <1>2 DEF vars, Alone
<1>3. CASE \E e \in Engine : Open(e)
  BY <1>3 DEF Open, Alone
<1>4. CASE \E e \in Engine : \E c \in Served[e] : Find(e, c)
  BY <1>4 DEF Find, Alone
<1>5. CASE \E e \in Engine : RestoreNext(e)
  <2>1. PICK e \in Engine : RestoreNext(e)
    BY <1>5
  <2>2. CASE Forget(e)
    BY <2>2 DEF Forget, Alone
  <2>3. CASE \E next : RestoreStep(e, next)
    BY <2>3 DEF RestoreStep, Alone
  <2>. QED
    BY <2>1, <2>2, <2>3 DEF RestoreNext, CheckWindow, ReadChain, ReadWindowName, ReadBlock,
       ReadWindow, Release
<1>6. CASE \E t \in Thread, e \in Engine : \E c \in Served[e] : Stage(t, e, c)
  BY <1>6 DEF Stage, Alone
<1>7. CASE \E t \in Thread : PersistNext(t)
  BY <1>7 DEF PersistNext, Lock, WriteBlock, WriteWindow, WriteManifest, WriteFails,
     EnterIndex, CollectGarbage, PersistStep, Alone
<1>8. CASE Restart
  BY <1>8 DEF Restart, Alone
<1>. QED
  BY <1>1, <1>2, <1>3, <1>4, <1>5, <1>6, <1>7, <1>8 DEF Next

LEMMA AloneNext ==
    ASSUME StoreInv, AloneInv, [Next]_vars, Alone' PROVE AloneInv'
<1>0. Alone /\ ~Damage
  BY AloneBefore DEF StoreInv
<1>1. CASE UNCHANGED vars
  BY <1>1 DEF vars, AloneInv, OneOpen, OpenOnly, NoDamage, ManifestsIndexed, IndexWritten,
     ManifestBlocks, Wrote, Reads, IndexBlocks, KeptCovered, Covers, OnDisk, PBlock,
     PModel, Written
<1>2. ASSUME NEW e \in Engine, Open(e) PROVE AloneInv'
  BY <1>2, AloneOpen DEF Alone
<1>3. ASSUME NEW e \in Engine, NEW c \in Served[e], Find(e, c) PROVE AloneInv'
  BY <1>3, AloneFind
<1>4. ASSUME NEW e \in Engine, RestoreNext(e) PROVE AloneInv'
  BY <1>4, AloneRestoreNext
<1>5. ASSUME NEW t \in Thread, NEW e \in Engine, NEW c \in Served[e], Stage(t, e, c)
      PROVE  AloneInv'
  BY <1>5, AloneStage
<1>6. ASSUME NEW t \in Thread, PersistNext(t) PROVE AloneInv'
  <2>1. WriteFails(t) => PersistStep(t, NoPersist) /\ persist[t].at # "index"
                         /\ UNCHANGED <<files, manifests, index, clock, kept>>
    BY DEF WriteFails
  <2>. QED
    BY <1>0, <1>6, <2>1, AloneLock, AloneWriteBlock, AloneWriteWindow, AloneWriteManifest,
       AloneLeave, AloneEnterIndex, AloneCollect DEF PersistNext, Alone
<1>. QED
  BY <1>0, <1>1, <1>2, <1>3, <1>4, <1>5, <1>6, AloneRestart DEF Next

\* Durable: while one store at a time has the directory, there is no limit and
\* no file goes bad, a restart at any step loses nothing that was persisted.
THEOREM KeptIsDurable == Spec => []Durable
<1>1. Init => (Alone => AloneInv)
  BY AloneInit
<1>2. StoreInv /\ (Alone => AloneInv) /\ [Next]_vars => (Alone => AloneInv)'
  BY AloneNext, AloneBefore DEF StoreInv
<1>3. StoreInv /\ (Alone => AloneInv) => Durable
  <2>. SUFFICES ASSUME StoreInv, ~shared, budget = 0, damages = 0, AloneInv, NEW k \in kept
                PROVE  LET C(mf) == /\ mf.model = k[1]
                                    /\ k[2] \in Prefixes(mf.tokens)
                                    /\ \A f \in Names(mf) : files[f] \in Rows
                       IN /\ \E mf \in manifests : C(mf)
                          /\ \A e \in open : \E mf \in Items(index[e]) : C(mf)
    BY DEF Durable, Alone
  <2>1. \A mf : mf.model \in Model /\ mf.tokens \in Prefix /\ Covers(mf, k) =>
            /\ mf.model = k[1] /\ k[2] \in Prefixes(mf.tokens)
            /\ \A f \in Names(mf) : files[f] \in Rows
    <3>. SUFFICES ASSUME NEW mf, mf.model \in Model, mf.tokens \in Prefix, Covers(mf, k)
                  PROVE  /\ mf.model = k[1] /\ k[2] \in Prefixes(mf.tokens)
                         /\ \A f \in Names(mf) : files[f] \in Rows
      OBVIOUS
    <3>1. Names(mf) \subseteq FileName
      BY NamesType
    <3>. QED
      BY <3>1 DEF Covers, AloneInv, NoDamage
  <2>2. KvTypeOK
    BY DEF StoreInv
  <2>3. \A mf \in manifests : mf.model \in Model /\ mf.tokens \in Prefix
    BY <2>2 DEF KvTypeOK, Manifest
  <2>4. \A e \in open : \A x \in Items(index[e]) : x.model \in Model /\ x.tokens \in Prefix
    BY <2>2, ItemsType DEF KvTypeOK
  <2>. QED
    BY <2>1, <2>3, <2>4 DEF AloneInv, KeptCovered
<1>. QED
  BY <1>1, <1>2, <1>3, StoreCorrect, PTL DEF Spec

-----------------------------------------------------------------------------
(* What is imported *)

\* The models whose side files and blocks the store tells apart: a model's
\* sequences have all slid out of its window or none has, and of two models
\* with one layout one at most has sequences that slide.
WindowsApart ==
    /\ \A m \in Model : \/ \A p \in Prefix : Slid(m, p)
                        \/ \A p \in Prefix : ~Slid(m, p)
    /\ \A m, n \in Model :
          LayoutOf[m] = LayoutOf[n] =>
             m = n \/ \A p \in Prefix : ~Slid(m, p) \/ ~Slid(n, p)

LEMMA UpToCount ==
    ASSUME NEW n \in Nat
    PROVE  IsFiniteSet(1..n) /\ Cardinality(1..n) = n
BY FS_Interval

\* The prefixes two sequences share are those up to their number.
LEMMA SharedPrefix ==
    ASSUME NEW c \in Seq(Nat), NEW d \in Seq(Nat),
           Cardinality(Prefixes(c) \cap Prefixes(d)) \in Nat \ {0}
    PROVE  LET k == Cardinality(Prefixes(c) \cap Prefixes(d))
           IN k \in 1..Len(c) /\ k \in 1..Len(d) /\ SubSeq(c, 1, k) = SubSeq(d, 1, k)
<1>. DEFINE m == Len(c)
            l == Len(d)
            A == {n \in 1..m : n \in 1..l /\ SubSeq(c, 1, n) = SubSeq(d, 1, n)}
            C == Prefixes(c) \cap Prefixes(d)
            k == Cardinality(C)
<1>1. m \in Nat /\ l \in Nat
  BY LenProperties
<1>2. ASSUME NEW n \in A, NEW i \in 1..n PROVE i \in A
  <2>1. i \in 1..m /\ i \in 1..l
    BY <1>1
  <2>2. SubSeq(SubSeq(c, 1, n), 1, i) = SubSeq(c, 1, i)
    BY PrefixAt
  <2>3. SubSeq(SubSeq(d, 1, n), 1, i) = SubSeq(d, 1, i)
    BY PrefixAt
  <2>. QED
    BY <2>1, <2>2, <2>3
<1>3. PICK b \in 1..(m + 1) : A = 1..(b - 1)
  <2>. DEFINE B == {n \in 1..(m + 1) : n \notin A}
  <2>1. B \subseteq Nat /\ m + 1 \in B
    BY <1>1
  <2>2. PICK b \in B : \A n \in B : b <= n
    <3>. HIDE DEF B
    <3>. QED
      BY <2>1, LeastOf
  <2>3. b \in 1..(m + 1) /\ b \notin A
    OBVIOUS
  <2>4. ASSUME NEW n \in 1..(b - 1) PROVE n \in A
    <3>1. n \in 1..(m + 1) /\ ~(b <= n)
      BY <1>1, <2>3
    <3>2. n \notin B
      <4>. HIDE DEF B
      <4>. QED
        BY <2>2, <3>1
    <3>. QED
      BY <3>1, <3>2
  <2>5. ASSUME NEW n \in A PROVE n \in 1..(b - 1)
    <3>1. n \in 1..m
      OBVIOUS
    <3>2. b \notin 1..n
      <4>. HIDE DEF A
      <4>. QED
        BY <1>2, <2>3
    <3>. QED
      BY <1>1, <2>3, <3>1, <3>2
  <2>. HIDE DEF A
  <2>6. A = 1..(b - 1)
    BY <2>4, <2>5
  <2>. QED
    BY <2>3, <2>6
<1>4. IsFiniteSet(A) /\ Cardinality(A) = b - 1
  <2>. HIDE DEF A, m
  <2>1. b - 1 \in Nat
    BY <1>1
  <2>2. IsFiniteSet(1..(b - 1)) /\ Cardinality(1..(b - 1)) = b - 1
    BY <2>1, UpToCount
  <2>. QED
    BY <1>3, <2>2
<1>5. k = Cardinality(A)
  <2>. DEFINE f == [n \in A |-> SubSeq(c, 1, n)]
  <2>1. \A n \in A : SubSeq(c, 1, n) \in C
    BY DEF Prefixes
  <2>2. \A n \in A : Len(SubSeq(c, 1, n)) = n
    BY PrefixAt
  <2>3. \A p \in C : \E n \in A : SubSeq(c, 1, n) = p
    <3>. SUFFICES ASSUME NEW p \in C PROVE \E n \in A : SubSeq(c, 1, n) = p
      OBVIOUS
    <3>1. PICK i \in 1..m : p = SubSeq(c, 1, i)
      BY DEF Prefixes
    <3>2. PICK j \in 1..l : p = SubSeq(d, 1, j)
      BY DEF Prefixes
    <3>3. Len(p) = i
      BY <3>1, PrefixAt
    <3>4. Len(p) = j
      BY <3>2, PrefixAt
    <3>. QED
      BY <3>1, <3>2, <3>3, <3>4
  <2>. HIDE DEF A, C
  <2>4. f \in Bijection(A, C)
    <3>1. f \in [A -> C]
      BY <2>1
    <3>2. \A i, j \in A : f[i] = f[j] => i = j
      BY <2>2
    <3>3. \A p \in C : \E n \in A : f[n] = p
      BY <2>3
    <3>. HIDE DEF f
    <3>. QED
      BY <3>1, <3>2, <3>3, Fun_IsBij
  <2>. HIDE DEF f
  <2>5. ExistsBijection(A, C)
    BY <2>4 DEF ExistsBijection
  <2>. QED
    BY <1>4, <2>5, FS_Bijection
<1>6. k \in A
  <2>. HIDE DEF A, C, m
  <2>1. k = b - 1 /\ k \in Nat \ {0}
    BY <1>4, <1>5 DEF C
  <2>2. k \in 1..(b - 1)
    BY <1>1, <2>1
  <2>. QED
    BY <1>3, <2>2
<1>. QED
  BY <1>6

LEMMA TakeChain ==
    ASSUME NEW m \in Model, NEW c \in Prefix, NEW k \in 1..Len(c)
    PROVE  /\ Take(Chain(m, c), k) = Chain(m, SubSeq(c, 1, k))
           /\ SubSeq(c, 1, k) \in Prefix /\ Len(SubSeq(c, 1, k)) = k
           /\ Len(Take(Chain(m, c), k)) = k
           /\ \A n \in 1..k : Take(Chain(m, c), k)[n] = KvFile(m, SubSeq(c, 1, n))
<1>1. c \in Seq(Nat) /\ Len(c) \in Nat /\ Prefixes(c) \subseteq Prefix
  BY PrefixType
<1>. DEFINE p == SubSeq(c, 1, k)
<1>2. p \in Prefix /\ Len(p) = k /\ \A n \in 1..k : SubSeq(p, 1, n) = SubSeq(c, 1, n)
  BY <1>1, PrefixAt DEF Prefixes
<1>. HIDE DEF p
<1>3. \A n \in 1..Len(c) : SubSeq(c, 1, n) \in Prefix
  BY <1>1 DEF Prefixes
<1>. DEFINE s == Chain(m, c)
            q == Chain(m, p)
<1>4. /\ s = [n \in 1..Len(c) |-> KvFile(m, SubSeq(c, 1, n))]
      /\ q = [n \in 1..k |-> KvFile(m, SubSeq(p, 1, n))]
  BY <1>2 DEF Chain
<1>5. /\ \A n \in 1..Len(c) : s[n] = KvFile(m, SubSeq(c, 1, n)) /\ s[n] \in FileName
      /\ s \in [1..Len(c) -> FileName]
  BY <1>3, <1>4 DEF FileName
<1>6. q = [n \in 1..k |-> KvFile(m, SubSeq(c, 1, n))]
  BY <1>2, <1>4
<1>. HIDE DEF s, q
<1>7. \A n \in 1..k : n \in 1..Len(c)
  BY <1>1
<1>8. /\ \A n \in 1..k : q[n] = s[n]
      /\ q \in [1..k -> FileName] /\ DOMAIN q = 1..k
  <2>1. \A n \in 1..k : q[n] = s[n] /\ q[n] \in FileName
    BY <1>5, <1>6, <1>7
  <2>2. DOMAIN q = 1..k /\ q = [n \in 1..k |-> q[n]]
    BY <1>6
  <2>. QED
    BY <2>1, <2>2
<1>9. s \in Seq(FileName) /\ q \in Seq(FileName) /\ Len(s) = Len(c) /\ Len(q) = k
  <2>1. s \in Seq(FileName) /\ q \in Seq(FileName)
    BY <1>1, <1>5, <1>8, SeqDef
  <2>2. DOMAIN s = 1..Len(c) /\ DOMAIN q = 1..k
    BY <1>5, <1>8
  <2>3. Len(s) \in Nat /\ DOMAIN s = 1..Len(s) /\ Len(q) \in Nat /\ DOMAIN q = 1..Len(q)
    BY <2>1, LenProperties
  <2>. DEFINE ls == Len(s)
              lq == Len(q)
              lc == Len(c)
  <2>4. ls \in Nat /\ lq \in Nat /\ lc \in Nat /\ k \in Nat /\ 1..ls = 1..lc /\ 1..lq = 1..k
    BY <1>1, <2>2, <2>3
  <2>. HIDE DEF ls, lq, lc
  <2>5. ls = lc /\ lq = k
    BY <2>4
  <2>. QED
    BY <2>1, <2>5 DEF ls, lq, lc
<1>10. Take(s, k) = q
  <2>1. CASE k < Len(s)
    <3>1. \A i \in 1..k : s[i] \in FileName
      BY <1>5, <1>7
    <3>2. /\ SubSeq(s, 1, k) \in Seq(FileName)
          /\ Len(SubSeq(s, 1, k)) = IF 1 <= k THEN k - 1 + 1 ELSE 0
          /\ \A i \in 1..(k - 1 + 1) : SubSeq(s, 1, k)[i] = s[1 + i - 1]
      BY <3>1, SubSeqProperties
    <3>3. Len(SubSeq(s, 1, k)) = k /\ \A i \in 1..k : SubSeq(s, 1, k)[i] = s[i]
      BY <3>2
    <3>4. SubSeq(s, 1, k) = q
      BY <1>8, <1>9, <3>2, <3>3, SeqEqual
    <3>. QED
      BY <2>1, <3>4 DEF Take
  <2>2. CASE ~(k < Len(s))
    <3>1. k = Len(c)
      <4>. DEFINE lc == Len(c)
      <4>1. lc \in Nat /\ k \in 1..lc /\ ~(k < lc)
        BY <1>1, <1>9, <2>2
      <4>. HIDE DEF lc
      <4>2. k = lc
        BY <4>1
      <4>. QED
        BY <4>2 DEF lc
    <3>2. s = q
      BY <1>8, <1>9, <3>1, SeqEqual
    <3>. QED
      BY <2>2, <3>2 DEF Take
  <2>. QED
    BY <2>1, <2>2
<1>. QED
  BY <1>2, <1>5, <1>7, <1>8, <1>9, <1>10 DEF p, q, s

\* Every block that can be read holds its model's rows, with the windowed
\* layers if they have not slid, and a side file those of the model that slid.
BlocksFaithful ==
    \A m \in Model, p \in Prefix :
        /\ files[KvFile(m, p)] \in Rows =>
             files[KvFile(m, p)] = Export(m, Slid(m, p))
        /\ (Slid(m, p) /\ files[WindowFile(m, p)] \in Rows) =>
             files[WindowFile(m, p)] = Export(m, TRUE)

\* A restore that has found its manifest at every look has taken from it what
\* it goes on with.
Shape(e, r) ==
    r.at # "idle" =>
        /\ r.chosen.model = ModelOf[e]
        /\ r.covered = SharedBlocks(r.chosen, r.prompt)
        /\ r.at \in {"chosen", "checked", "chain"} => r.rows = <<>>
        /\ r.still =>
            /\ r.at # "chosen" =>
                 WindowBlob(r.chosen) = {} \/ r.covered = Len(r.chosen.tokens)
            /\ r.at \notin {"chosen", "checked"} =>
                 r.chain = Take(Chain(r.chosen.model, r.chosen.tokens), r.covered)
            /\ r.at \in {"reading", "failed", "imported"} =>
                 r.window = WindowBlob(r.chosen)
            /\ \A n \in DOMAIN r.rows :
                 r.rows[n] = Export(ModelOf[e], Slid(ModelOf[e], r.chosen.tokens))

ImportInv == BlocksFaithful /\ \A e \in Engine : Shape(e, restore[e])

LEMMA ImportInit == Init => ImportInv
<1>. SUFFICES ASSUME Init PROVE ImportInv
  OBVIOUS
<1>1. \A e \in Engine : restore[e].at = "idle"
  BY RecordOf DEF Init
<1>2. \A m \in Model, p \in Prefix : KvFile(m, p) \in FileName /\ WindowFile(m, p) \in FileName
  BY DEF FileName
<1>3. Absent \notin Rows
  BY DEF Rows, Export, Absent
<1>4. BlocksFaithful
  BY <1>2, <1>3 DEF Init, BlocksFaithful
<1>. QED
  BY <1>1, <1>4 DEF ImportInv, Shape

\* What is not written stays faithful.
LEMMA FaithfulStays ==
    ASSUME BlocksFaithful,
           \A f \in FileName : files'[f] \in Rows => files'[f] = files[f]
    PROVE  BlocksFaithful'
<1>1. \A m \in Model, p \in Prefix : KvFile(m, p) \in FileName /\ WindowFile(m, p) \in FileName
  BY DEF FileName
<1>. QED
  BY <1>1 DEF BlocksFaithful

LEMMA NotRows ==
    Absent \notin Rows /\ Damaged \notin Rows
BY DEF Rows, Export, Absent, Damaged

LEMMA FilesFaithful ==
    ASSUME WindowsApart, StoreInv, BlocksFaithful, [Next]_vars
    PROVE  BlocksFaithful'
<1>0. KvTypeOK
  BY DEF StoreInv
<1>1. CASE UNCHANGED files
  BY <1>1, FaithfulStays
<1>2. CASE Damage
  <2>1. \A f \in FileName : files'[f] = files[f] \/ files'[f] = Damaged
    BY <1>0, <1>2 DEF Damage, KvTypeOK
  <2>. QED
    BY <2>1, NotRows, FaithfulStays
<1>3. CASE \E e \in Engine : Forget(e)
  <2>1. \A f \in FileName : files'[f] = files[f] \/ files'[f] = Absent
    BY <1>0, <1>3 DEF Forget, KvTypeOK
  <2>. QED
    BY <2>1, NotRows, FaithfulStays
<1>4. CASE \E t \in Thread : CollectGarbage(t)
  <2>1. \A f \in FileName : files'[f] = files[f] \/ files'[f] = Absent
    BY <1>4 DEF CollectGarbage
  <2>. QED
    BY <2>1, NotRows, FaithfulStays
<1>5. ASSUME NEW t \in Thread, WriteBlock(t) PROVE BlocksFaithful'
  <2>. DEFINE n == persist[t].next
              q == SubSeq(persist[t].tokens, 1, n)
              f == PBlock(t, n)
  <2>1. persist[t].at = "blocks" /\ n <= Len(persist[t].tokens)
    BY <1>5 DEF WriteBlock
  <2>2. n \in 1..Len(persist[t].tokens) /\ persist[t].tokens \in Prefix
    <3>1. n \in Nat \ {0} /\ Len(persist[t].tokens) \in Nat /\ persist[t].tokens \in Prefix
      BY <1>0, <2>1, PersistType DEF PersistRecord
    <3>. QED
      BY <2>1, <3>1
  <2>3. q \in Prefix /\ f \in FileName /\ PModel(t) \in Model
        /\ f = KvFile(PModel(t), q)
    BY <1>0, <2>1, <2>2, PersistType DEF PBlock
  <2>. HIDE DEF f, q, n
  <2>4. CASE files' = [files EXCEPT ![f] = PRows(t)]
    <3>1. \A g \in FileName : files'[g] = IF g = f THEN PRows(t) ELSE files[g]
      BY <1>0, <2>4 DEF KvTypeOK
    <3>2. PRows(t) = Export(PModel(t), Slid(PModel(t), q))
      <4>1. Slid(PModel(t), q) = Slid(PModel(t), persist[t].tokens)
        BY <2>2, <2>3 DEF WindowsApart, Slid
      <4>. QED
        BY <4>1 DEF PRows, PSlid
    <3>3. ASSUME NEW m \in Model, NEW p \in Prefix
          PROVE  /\ files'[KvFile(m, p)] \in Rows =>
                      files'[KvFile(m, p)] = Export(m, Slid(m, p))
                 /\ (Slid(m, p) /\ files'[WindowFile(m, p)] \in Rows) =>
                      files'[WindowFile(m, p)] = Export(m, TRUE)
      <4>1. KvFile(m, p) \in FileName /\ WindowFile(m, p) \in FileName
        BY DEF FileName
      <4>2. WindowFile(m, p) # f
        BY <2>3 DEF WindowFile, KvFile
      <4>3. KvFile(m, p) = f => m = PModel(t) /\ p = q
        BY <2>3 DEF KvFile
      <4>. QED
        BY <3>1, <3>2, <4>1, <4>2, <4>3 DEF BlocksFaithful
    <3>. QED
      BY <3>3 DEF BlocksFaithful
  <2>. QED
    BY <1>1, <1>5, <2>4 DEF WriteBlock, f, n
<1>6. ASSUME NEW t \in Thread, WriteWindow(t) PROVE BlocksFaithful'
  <2>. DEFINE q == persist[t].tokens
              f == WindowFile(PModel(t), q)
  <2>1. persist[t].at = "blocks"
    BY <1>6 DEF WriteWindow
  <2>2. q \in Prefix /\ f \in FileName /\ PModel(t) \in Model
    BY <1>0, <2>1, PersistType DEF PersistRecord
  <2>. HIDE DEF f
  <2>3. CASE PSlid(t) /\ files' = [files EXCEPT ![f] = PRows(t)]
    <3>1. \A g \in FileName : files'[g] = IF g = f THEN PRows(t) ELSE files[g]
      BY <1>0, <2>3 DEF KvTypeOK
    <3>2. Slid(PModel(t), q) /\ PRows(t) = Export(PModel(t), TRUE)
      <4>1. PSlid(t) = TRUE
        BY <2>3 DEF PSlid, Slid
      <4>. QED
        BY <2>3, <4>1 DEF PRows, PSlid
    <3>3. ASSUME NEW m \in Model, NEW p \in Prefix
          PROVE  /\ files'[KvFile(m, p)] \in Rows =>
                      files'[KvFile(m, p)] = Export(m, Slid(m, p))
                 /\ (Slid(m, p) /\ files'[WindowFile(m, p)] \in Rows) =>
                      files'[WindowFile(m, p)] = Export(m, TRUE)
      <4>1. KvFile(m, p) \in FileName /\ WindowFile(m, p) \in FileName
        BY DEF FileName
      <4>2. KvFile(m, p) # f
        BY DEF WindowFile, KvFile, f
      <4>3. WindowFile(m, p) = f => LayoutOf[m] = LayoutOf[PModel(t)] /\ p = q
        BY DEF WindowFile, f
      <4>4. WindowFile(m, p) = f /\ Slid(m, p) => m = PModel(t)
        BY <2>2, <3>2, <4>3 DEF WindowsApart
      <4>. QED
        BY <3>1, <3>2, <4>1, <4>2, <4>4 DEF BlocksFaithful
    <3>. QED
      BY <3>3 DEF BlocksFaithful
  <2>. QED
    BY <1>1, <1>6, <2>3 DEF WriteWindow, f
<1>7. CASE \E e \in Engine : RestoreNext(e) /\ ~Forget(e)
  <2>1. UNCHANGED files
    BY <1>7 DEF RestoreNext, RestoreStep, CheckWindow, ReadChain, ReadWindowName,
       ReadBlock, ReadWindow, Release
  <2>. QED
    BY <1>1, <2>1
<1>8. CASE \E t \in Thread : Lock(t) \/ WriteManifest(t) \/ WriteFails(t) \/ EnterIndex(t)
  <2>1. UNCHANGED files
    BY <1>8 DEF Lock, WriteManifest, WriteFails, EnterIndex
  <2>. QED
    BY <1>1, <2>1
<1>9. CASE \/ \E e \in Engine : Open(e)
           \/ \E e \in Engine : \E c \in Served[e] : Find(e, c)
           \/ \E t \in Thread, e \in Engine : \E c \in Served[e] : Stage(t, e, c)
           \/ Restart \/ UNCHANGED vars
  <2>1. UNCHANGED files
    BY <1>9 DEF Open, Find, Stage, Restart, vars
  <2>. QED
    BY <1>1, <2>1
<1>. QED
  BY <1>2, <1>3, <1>4, <1>5, <1>6, <1>7, <1>8, <1>9 DEF Next, PersistNext

\* A step of a restore to a record of its own shape.
LEMMA ShapeStep ==
    ASSUME StoreInv, \A f \in Engine : Shape(f, restore[f]), NEW e \in Engine, NEW next,
           restore' = [restore EXCEPT ![e] = next], Shape(e, next)
    PROVE  \A f \in Engine : Shape(f, restore'[f])
<1>1. \A f \in Engine : restore'[f] = IF f = e THEN next ELSE restore[f]
  BY DEF StoreInv, KvTypeOK
<1>. QED
  BY <1>1

LEMMA ShapeIdle == \A e : Shape(e, NoRestore)
BY RecordOf DEF Shape

LEMMA ShapeFind ==
    ASSUME StoreInv, ImportInv, NEW e \in Engine, NEW c \in Served[e], Find(e, c)
    PROVE  \A f \in Engine : Shape(f, restore'[f])
<1>1. PICK i \in Best(e, c) :
         restore' = [restore EXCEPT ![e] =
            [at |-> "chosen", prompt |-> c, mi |-> i,
             covered |-> SharedBlocks(index[e][i], c),
             chain |-> <<>>, window |-> {}, rows |-> <<>>,
             chosen |-> index[e][i], still |-> TRUE]]
  BY DEF Find
<1>. DEFINE next ==
         [at |-> "chosen", prompt |-> c, mi |-> i,
          covered |-> SharedBlocks(index[e][i], c),
          chain |-> <<>>, window |-> {}, rows |-> <<>>,
          chosen |-> index[e][i], still |-> TRUE]
<1>2. index[e][i].model = ModelOf[e]
  BY DEF Best
<1>3. /\ next.at = "chosen" /\ next.chosen = index[e][i] /\ next.prompt = c
      /\ next.covered = SharedBlocks(index[e][i], c) /\ next.rows = <<>>
      /\ restore' = [restore EXCEPT ![e] = next]
  BY <1>1
<1>. HIDE DEF next
<1>4. DOMAIN next.rows = {}
  BY <1>3
<1>5. Shape(e, next)
  BY <1>2, <1>3, <1>4 DEF Shape
<1>. QED
  BY <1>3, <1>5, ShapeStep DEF ImportInv

LEMMA ShapeNext ==
    ASSUME WindowsApart, StoreInv, ImportInv, NEW e \in Engine, RestoreNext(e)
    PROVE  \A f \in Engine : Shape(f, restore'[f])
<1>. DEFINE r == restore[e]
            c == r.chosen
<1>0. restore[e].at # "idle" /\ KvTypeOK
  BY DEF RestoreNext, CheckWindow, ReadChain, ReadWindowName, ReadBlock, ReadWindow,
     Release, Forget, StoreInv
<1>1. r \in RestoreRecord /\ c \in Manifest /\ (At(e) => Found(e) \in Manifest)
  BY <1>0, RestoreType DEF RestoreRecord
<1>2. ASSUME NEW next, restore' = [restore EXCEPT ![e] = next], Shape(e, next)
      PROVE  \A f \in Engine : Shape(f, restore'[f])
  BY <1>2, ShapeStep DEF ImportInv
<1>3. Shape(e, r) /\ Shape(e, NoRestore)
  BY ShapeIdle DEF ImportInv
<1>4. StillThere(e) =>
         /\ r.still /\ At(e) /\ Found(e).model = c.model /\ Found(e).tokens = c.tokens
         /\ WindowBlob(Found(e)) = WindowBlob(c)
  BY DEF StillThere, SamePath, WindowBlob
<1>5. r.still => c.model = ModelOf[e]
  BY <1>0, <1>3 DEF Shape
<1>6. StillThere(e) \in BOOLEAN
  BY <1>1 DEF StillThere, RestoreRecord
<1>. HIDE DEF r
<1>7. CASE CheckWindow(e)
  <2>. DEFINE next == [r EXCEPT !.at = "checked", !.still = StillThere(e)]
  <2>1. /\ next.at = "checked" /\ next.still = StillThere(e) /\ next.chosen = c
        /\ next.covered = r.covered /\ next.prompt = r.prompt /\ next.rows = r.rows
    BY <1>1 DEF RestoreRecord
  <2>2. r.at = "chosen"
        /\ RestoreStep(e, IF At(e) => \/ WindowBlob(Found(e)) = {}
                                     \/ r.covered = Len(Found(e).tokens)
                          THEN next ELSE NoRestore)
    BY <1>7 DEF CheckWindow, r
  <2>. HIDE DEF next, c
  <2>3. ASSUME At(e) => \/ WindowBlob(Found(e)) = {}
                        \/ r.covered = Len(Found(e).tokens)
        PROVE  Shape(e, next)
    <3>1. StillThere(e) => WindowBlob(c) = {} \/ r.covered = Len(c.tokens)
      BY <1>4, <2>3
    <3>. QED
      BY <1>3, <1>4, <2>1, <2>2, <3>1 DEF Shape, c
  <2>. QED
    BY <1>2, <1>3, <2>2, <2>3 DEF RestoreStep
<1>8. CASE ReadChain(e)
  <2>. DEFINE k == Take(Chain(Found(e).model, Found(e).tokens), r.covered)
              next == [r EXCEPT !.at = "chain", !.chain = k, !.still = StillThere(e)]
  <2>1. /\ next.at = "chain" /\ next.still = StillThere(e) /\ next.chosen = c
        /\ next.covered = r.covered /\ next.prompt = r.prompt /\ next.rows = r.rows
        /\ next.chain = k
    BY <1>1 DEF RestoreRecord
  <2>2. r.at = "checked" /\ RestoreStep(e, IF At(e) THEN next ELSE NoRestore)
    BY <1>8 DEF ReadChain, r
  <2>3. StillThere(e) => k = Take(Chain(c.model, c.tokens), r.covered)
    BY <1>4
  <2>. HIDE DEF next, k, c
  <2>4. Shape(e, next)
    BY <1>3, <1>4, <2>1, <2>2, <2>3 DEF Shape, c
  <2>. QED
    BY <1>2, <1>3, <2>2, <2>4 DEF RestoreStep
<1>9. CASE ReadWindowName(e)
  <2>. DEFINE w == IF At(e) THEN WindowBlob(Found(e)) ELSE {}
              next == [r EXCEPT !.at = "reading", !.window = w, !.still = StillThere(e)]
  <2>1. /\ next.at = "reading" /\ next.still = StillThere(e) /\ next.chosen = c
        /\ next.covered = r.covered /\ next.prompt = r.prompt /\ next.rows = r.rows
        /\ next.chain = r.chain /\ next.window = w
    BY <1>1 DEF RestoreRecord
  <2>2. r.at = "chain" /\ RestoreStep(e, next)
    BY <1>9 DEF ReadWindowName, r
  <2>3. StillThere(e) => w = WindowBlob(c)
    BY <1>4
  <2>. HIDE DEF next, w, c
  <2>4. Shape(e, next)
    BY <1>3, <1>4, <2>1, <2>2, <2>3 DEF Shape, c
  <2>. QED
    BY <1>2, <2>2, <2>4 DEF RestoreStep
<1>10. /\ c.tokens \in Prefix /\ c.model \in Model /\ Len(c.tokens) \in Nat /\ c.tokens \in Seq(Nat)
       /\ r.prompt \in Prefix /\ r.prompt \in Seq(Nat) /\ r.covered \in Nat \ {0}
       /\ Len(r.rows) \in Nat /\ DOMAIN r.rows = 1..Len(r.rows) /\ r.rows \in Seq(Rows)
       /\ Len(r.chain) \in Nat
  BY <1>1, PrefixType, LenProperties DEF RestoreRecord, Manifest
<1>11. r.covered \in 1..Len(c.tokens)
  <2>1. r.covered = Cardinality(Prefixes(c.tokens) \cap Prefixes(r.prompt))
    BY <1>0, <1>3 DEF Shape, SharedBlocks, r
  <2>. QED
    BY <1>10, <2>1, SharedPrefix
<1>. DEFINE row == Export(ModelOf[e], Slid(ModelOf[e], c.tokens))
<1>12. ASSUME NEW x \in Rows, r.still => (x = row /\ \A n \in DOMAIN r.rows : r.rows[n] = row)
       PROVE  r.still => \A n \in DOMAIN Append(r.rows, x) : Append(r.rows, x)[n] = row
  <2>1. /\ Append(r.rows, x) \in Seq(Rows) /\ Len(Append(r.rows, x)) = Len(r.rows) + 1
        /\ \A i \in 1..Len(r.rows) : Append(r.rows, x)[i] = r.rows[i]
        /\ Append(r.rows, x)[Len(r.rows) + 1] = x
    BY <1>10, AppendProperties
  <2>2. DOMAIN Append(r.rows, x) = 1..(Len(r.rows) + 1)
    BY <2>1, LenProperties
  <2>3. \A n \in 1..(Len(r.rows) + 1) : n \in 1..Len(r.rows) \/ n = Len(r.rows) + 1
    BY <1>10
  <2>. HIDE DEF row
  <2>. QED
    BY <1>10, <1>12, <2>1, <2>2, <2>3
<1>13. CASE ReadBlock(e)
  <2>. DEFINE f == NextBlock(e)
              n == Len(r.rows) + 1
  <2>1. r.at = "reading" /\ Len(r.rows) < Len(r.chain) /\ f = r.chain[n]
    BY <1>13 DEF ReadBlock, r, NextBlock
  <2>2. RestoreStep(e, IF files[f] \in Rows THEN [r EXCEPT !.rows = Append(@, files[f])]
                                            ELSE [r EXCEPT !.at = "failed"])
    BY <1>13 DEF ReadBlock, r
  <2>3. Shape(e, [r EXCEPT !.at = "failed"])
    <3>. DEFINE next == [r EXCEPT !.at = "failed"]
    <3>1. /\ next.at = "failed" /\ next.still = r.still /\ next.chosen = c
          /\ next.covered = r.covered /\ next.prompt = r.prompt /\ next.rows = r.rows
          /\ next.chain = r.chain /\ next.window = r.window
      BY <1>1 DEF RestoreRecord
    <3>. HIDE DEF next, c
    <3>2. Shape(e, next)
      BY <1>3, <2>1, <3>1 DEF Shape, c
    <3>. QED
      BY <3>2 DEF next
  <2>4. ASSUME files[f] \in Rows, r.still PROVE files[f] = row
    <3>1. r.chain = Take(Chain(c.model, c.tokens), r.covered) /\ c.model = ModelOf[e]
      BY <1>3, <1>5, <2>1, <2>4 DEF Shape
    <3>2. Len(r.chain) = r.covered
      BY <1>10, <1>11, <3>1, TakeChain
    <3>3. n \in 1..r.covered /\ n \in 1..Len(c.tokens)
      <4>. DEFINE l == Len(r.rows)
                  m == Len(c.tokens)
      <4>1. l \in Nat /\ m \in Nat /\ l < r.covered /\ r.covered \in 1..m
        BY <1>10, <1>11, <2>1, <3>2
      <4>. HIDE DEF l, m
      <4>2. l + 1 \in 1..r.covered /\ l + 1 \in 1..m
        BY <4>1
      <4>. QED
        BY <4>2 DEF l, m
    <3>. DEFINE q == SubSeq(c.tokens, 1, n)
    <3>4. f = KvFile(c.model, q)
      BY <1>10, <1>11, <2>1, <3>1, <3>3, TakeChain
    <3>5. q \in Prefix
      BY <1>10, <3>3, TakeChain
    <3>. HIDE DEF q, f, n, c
    <3>6. Slid(c.model, q) = Slid(c.model, c.tokens)
      BY <1>10, <3>5 DEF WindowsApart, Slid
    <3>7. files[f] = Export(c.model, Slid(c.model, q))
      BY <1>10, <2>4, <3>4, <3>5 DEF ImportInv, BlocksFaithful
    <3>. QED
      BY <3>1, <3>6, <3>7
  <2>5. ASSUME files[f] \in Rows PROVE Shape(e, [r EXCEPT !.rows = Append(@, files[f])])
    <3>. DEFINE next == [r EXCEPT !.rows = Append(@, files[f])]
    <3>1. /\ next.at = "reading" /\ next.still = r.still /\ next.chosen = c
          /\ next.covered = r.covered /\ next.prompt = r.prompt
          /\ next.rows = Append(r.rows, files[f])
          /\ next.chain = r.chain /\ next.window = r.window
      BY <1>1, <2>1 DEF RestoreRecord
    <3>2. r.still => \A i \in DOMAIN r.rows : r.rows[i] = row
      BY <1>3, <2>1 DEF Shape
    <3>. HIDE DEF next, c, row, f
    <3>3. r.still => \A i \in DOMAIN next.rows : next.rows[i] = row
      BY <1>12, <2>4, <2>5, <3>1, <3>2
    <3>4. Shape(e, next)
      BY <1>3, <2>1, <3>1, <3>3 DEF Shape, c, row
    <3>. QED
      BY <3>4 DEF next
  <2>. HIDE DEF f
  <2>. QED
    BY <1>2, <2>2, <2>3, <2>5 DEF RestoreStep
<1>14. CASE ReadWindow(e)
  <2>1. r.at = "reading"
    BY <1>14 DEF ReadWindow, r
  <2>2. CASE RestoreStep(e, [r EXCEPT !.at = "imported"])
    <3>. DEFINE next == [r EXCEPT !.at = "imported"]
    <3>1. /\ next.at = "imported" /\ next.still = r.still /\ next.chosen = c
          /\ next.covered = r.covered /\ next.prompt = r.prompt /\ next.rows = r.rows
          /\ next.chain = r.chain /\ next.window = r.window
      BY <1>1 DEF RestoreRecord
    <3>. HIDE DEF next, c
    <3>2. Shape(e, next)
      BY <1>3, <2>1, <3>1 DEF Shape, c
    <3>. QED
      BY <1>2, <2>2, <3>2 DEF RestoreStep, next
  <2>3. ASSUME NEW f \in r.window, files[f] \in Rows,
               RestoreStep(e, [r EXCEPT !.at = "imported", !.rows = Append(@, files[f])])
        PROVE  \A g \in Engine : Shape(g, restore'[g])
    <3>. DEFINE next == [r EXCEPT !.at = "imported", !.rows = Append(@, files[f])]
    <3>1. /\ next.at = "imported" /\ next.still = r.still /\ next.chosen = c
          /\ next.covered = r.covered /\ next.prompt = r.prompt
          /\ next.rows = Append(r.rows, files[f])
          /\ next.chain = r.chain /\ next.window = r.window
      BY <1>1 DEF RestoreRecord
    <3>2. r.still => \A i \in DOMAIN r.rows : r.rows[i] = row
      BY <1>3, <2>1 DEF Shape
    <3>3. ASSUME r.still PROVE files[f] = row
      <4>1. r.window = WindowBlob(c) /\ c.model = ModelOf[e]
        BY <1>3, <1>5, <2>1, <3>3 DEF Shape
      <4>2. Slid(c.model, c.tokens) /\ f = WindowFile(c.model, c.tokens)
        BY <4>1 DEF WindowBlob
      <4>3. Slid(c.model, c.tokens) = TRUE
        BY <4>2 DEF Slid
      <4>4. files[f] = Export(c.model, TRUE)
        BY <1>10, <2>3, <4>2 DEF ImportInv, BlocksFaithful
      <4>. QED
        BY <4>1, <4>3, <4>4
    <3>. HIDE DEF next, c, row
    <3>4. r.still => \A i \in DOMAIN next.rows : next.rows[i] = row
      BY <1>12, <2>3, <3>1, <3>2, <3>3
    <3>5. Shape(e, next)
      BY <1>3, <2>1, <3>1, <3>4 DEF Shape, c, row
    <3>. QED
      BY <1>2, <2>3, <3>5 DEF RestoreStep, next
  <2>4. CASE RestoreStep(e, NoRestore)
    BY <1>2, <1>3, <2>4 DEF RestoreStep
  <2>. QED
    BY <1>14, <2>2, <2>3, <2>4 DEF ReadWindow, r
<1>15. CASE Forget(e) \/ Release(e)
  BY <1>2, <1>3, <1>15 DEF Forget, Release, RestoreStep
<1>. QED
  BY <1>7, <1>8, <1>9, <1>13, <1>14, <1>15 DEF RestoreNext

LEMMA ImportNext ==
    ASSUME WindowsApart, StoreInv, ImportInv, [Next]_vars
    PROVE  ImportInv'
<1>0. KvTypeOK
  BY DEF StoreInv
<1>1. BlocksFaithful'
  BY FilesFaithful DEF ImportInv
<1>. SUFFICES \A f \in Engine : Shape(f, restore'[f])
  BY <1>1 DEF ImportInv, Shape
<1>2. CASE UNCHANGED restore
  BY <1>2 DEF ImportInv
<1>3. ASSUME NEW e \in Engine, NEW c \in Served[e], Find(e, c)
      PROVE  \A f \in Engine : Shape(f, restore'[f])
  BY <1>3, ShapeFind
<1>4. ASSUME NEW e \in Engine, RestoreNext(e)
      PROVE  \A f \in Engine : Shape(f, restore'[f])
  BY <1>4, ShapeNext
<1>5. CASE Restart
  BY <1>5, ShapeIdle DEF Restart
<1>6. CASE \E t \in Thread : PersistNext(t)
  <2>1. UNCHANGED restore
    BY <1>6 DEF PersistNext, Lock, WriteBlock, WriteWindow, WriteManifest, WriteFails,
       EnterIndex, CollectGarbage, PersistStep
  <2>. QED
    BY <1>2, <2>1
<1>7. CASE \/ \E e \in Engine : Open(e)
           \/ \E t \in Thread, e \in Engine : \E c \in Served[e] : Stage(t, e, c)
           \/ Damage \/ UNCHANGED vars
  <2>1. UNCHANGED restore
    BY <1>7 DEF Open, Stage, Damage, vars
  <2>. QED
    BY <1>2, <2>1
<1>. QED
  BY <1>3, <1>4, <1>5, <1>6, <1>7 DEF Next

LEMMA ShapeExact ==
    ASSUME WindowsApart, StoreInv, ImportInv, NEW e \in Engine,
           restore[e].at = "imported", restore[e].still
    PROVE  Exact(e)
<1>. DEFINE r == restore[e]
            c == r.chosen
            k == r.covered
            p == SubSeq(r.prompt, 1, k)
            m == ModelOf[e]
<1>1. r \in RestoreRecord /\ c \in Manifest
  BY RestoreType DEF StoreInv, RestoreRecord
<1>2. /\ c.tokens \in Prefix /\ c.model \in Model /\ c.tokens \in Seq(Nat)
      /\ Len(c.tokens) \in Nat
      /\ r.prompt \in Seq(Nat) /\ k \in Nat \ {0}
  BY <1>1, PrefixType DEF RestoreRecord, Manifest
<1>3. /\ c.model = m /\ k = SharedBlocks(c, r.prompt)
      /\ WindowBlob(c) = {} \/ k = Len(c.tokens)
      /\ r.chain = Take(Chain(c.model, c.tokens), k)
      /\ r.window = WindowBlob(c)
      /\ \A n \in DOMAIN r.rows : r.rows[n] = Export(m, Slid(m, c.tokens))
  BY DEF ImportInv, Shape
<1>4. k \in 1..Len(c.tokens) /\ p = SubSeq(c.tokens, 1, k)
  <2>1. k = Cardinality(Prefixes(c.tokens) \cap Prefixes(r.prompt))
    BY <1>3 DEF SharedBlocks
  <2>. HIDE DEF k, c, r
  <2>. QED
    BY <1>2, <2>1, SharedPrefix
<1>. HIDE DEF p, k, c, r, m
<1>5. p \in Prefix /\ r.chain = Chain(m, p)
  BY <1>2, <1>3, <1>4, TakeChain
<1>6. Slid(m, p) = Slid(m, c.tokens)
  BY <1>2, <1>3, <1>5 DEF WindowsApart, Slid
<1>7. r.window = IF Slid(m, p) THEN {WindowFile(m, p)} ELSE {}
  <2>1. CASE Slid(m, p)
    <3>1. WindowBlob(c) = {WindowFile(m, c.tokens)}
      BY <1>3, <1>6, <2>1 DEF WindowBlob
    <3>2. k = Len(c.tokens)
      BY <1>3, <3>1
    <3>3. p = c.tokens
      BY <1>2, <1>4, <3>2, SubSeqFull
    <3>. QED
      BY <1>3, <2>1, <3>1, <3>3
  <2>2. CASE ~Slid(m, p)
    BY <1>3, <1>6, <2>2 DEF WindowBlob
  <2>. QED
    BY <2>1, <2>2
<1>. QED
  BY <1>3, <1>5, <1>6, <1>7 DEF Exact, p, k, c, r, m

\* ImportFaithful: whatever crashes, damage, failed writes, collections and
\* persists come in between, a restore that found the manifest it chose at each
\* look imports exactly the rows its own model computes for the covered blocks
\* of its prompt, if the store tells the windowed layers of its models apart.
THEOREM ImportsAreFaithful == WindowsApart => (Spec => []ImportFaithful)
<1>. SUFFICES ASSUME WindowsApart PROVE Spec => []ImportFaithful
  OBVIOUS
<1>1. StoreInv /\ ImportInv => ImportFaithful
  BY ShapeExact DEF ImportFaithful
<1>2. StoreInv /\ ImportInv /\ [Next]_vars => ImportInv'
  BY ImportNext
<1>. QED
  BY <1>1, <1>2, ImportInit, StoreCorrect, PTL DEF Spec
==============================================================================
