---------------------------- MODULE PagedKvProofs ----------------------------
(* Proofs about the paged KV allocator, for every pool, block size and set of *)
(* prompts.                                                                   *)
EXTENDS PagedKv, FiniteSetTheorems, FunctionTheorems, WellFoundedInduction, TLAPS

-----------------------------------------------------------------------------
(* Sizes and hashes *)

\* A non-empty set of naturals has a least element.
LEMMA NatMin ==
    ASSUME NEW T \in SUBSET Nat, T # {}
    PROVE  \E m \in T : \A n \in T : m <= n
<1>1. IsWellFoundedOn(OpToRel(<, Nat), Nat)
  BY NatLessThanWellFounded
<1>2. PICK m \in T : \A n \in T : ~(<<n, m>> \in OpToRel(<, Nat))
  BY <1>1, WFMin
<1>3. \A n \in T : ~(n < m)
  <2>. SUFFICES ASSUME NEW n \in T, n < m
                PROVE  <<n, m>> \in OpToRel(<, Nat)
    BY <1>2
  <2>1. <<n, m>> \in Nat \X Nat /\ <<n, m>>[1] < <<n, m>>[2]
    OBVIOUS
  <2>. QED
    BY <2>1, Zenon DEF OpToRel
<1>. QED
  BY <1>3

\* blocks_for is a natural number and grows with its argument; the full blocks
\* of n tokens fit in them.
LEMMA SizeFacts ==
    /\ \A n \in Nat : BlocksFor(n) \in Nat
    /\ \A m, n \in Nat : m <= n => BlocksFor(m) <= BlocksFor(n)
    /\ \A n \in Nat : n \div BlockSize \in Nat
    /\ \A n \in Nat : (n \div BlockSize) * BlockSize <= n
    /\ \A n \in Nat : n \div BlockSize <= BlocksFor(n)
<1>. USE BlockSizeAssumption DEF BlocksFor
<1>1. \A n \in Nat : BlocksFor(n) \in Nat
  OBVIOUS
<1>2. \A m, n \in Nat : m <= n => BlocksFor(m) <= BlocksFor(n)
  OBVIOUS
<1>3. \A n \in Nat : n \div BlockSize \in Nat
  OBVIOUS
<1>4. \A n \in Nat : (n \div BlockSize) * BlockSize <= n
  OBVIOUS
<1>5. \A n \in Nat : n \div BlockSize <= BlocksFor(n)
  OBVIOUS
<1>. QED
  BY <1>1, <1>2, <1>3, <1>4, <1>5

\* A prompt has no more full blocks than blocks, and no more tokens in its
\* full blocks than tokens.
LEMMA FullBlocksFacts ==
    ASSUME NEW s \in SeqId
    PROVE  /\ Len(Prompt[s]) \in Nat
           /\ FullBlocks(s) \in Nat
           /\ FullBlocks(s) <= BlocksFor(Len(Prompt[s]))
           /\ FullBlocks(s) * BlockSize <= Len(Prompt[s])
<1>1. Len(Prompt[s]) \in Nat
  <2>1. Prompt[s] \in Seq(Token)
    BY PromptAssumption
  <2>. QED
    BY <2>1
<1>. QED
  BY <1>1, SizeFacts, Zenon DEF FullBlocks

\* Different blocks of one prompt have different hashes: the chained hash of
\* block_hashes stands for a prefix, and prefixes differ in length.
LEMMA HashFacts ==
    ASSUME NEW s \in SeqId, NEW i \in 1..FullBlocks(s)
    PROVE  /\ HashOf(s, i) \in Hash
           /\ \A j \in 1..FullBlocks(s) : HashOf(s, i) = HashOf(s, j) => i = j
<1>1. HashOf(s, i) \in Hash
  BY DEF Hash
<1>2. \A j \in 1..FullBlocks(s) : Len(HashOf(s, j)) = j * BlockSize
  <2>. SUFFICES ASSUME NEW j \in 1..FullBlocks(s)
                PROVE  Len(HashOf(s, j)) = j * BlockSize
    OBVIOUS
  <2>1. HashOf(s, j) = SubSeq(Prompt[s], 1, j * BlockSize)
    BY DEF HashOf, BlockHashes, FullBlocks
  <2>2. j * BlockSize <= FullBlocks(s) * BlockSize /\ j * BlockSize \in Nat
    BY FullBlocksFacts, BlockSizeAssumption
  <2>3. j * BlockSize <= Len(Prompt[s])
    BY <2>2, FullBlocksFacts, BlockSizeAssumption
  <2>. QED
    BY <2>1, <2>2, <2>3, PromptAssumption
<1>3. \A j \in 1..FullBlocks(s) : j * BlockSize = i * BlockSize => i = j
  BY FullBlocksFacts, BlockSizeAssumption
<1>. QED
  BY <1>1, <1>2, <1>3

-----------------------------------------------------------------------------
(* The prefix a new sequence shares *)

\* acquire_prefix matches leading full blocks only, and all of them are cached.
LEMMA AcquireFacts ==
    ASSUME NEW s \in SeqId
    PROVE  /\ AcquirePrefix(s) \in 0..FullBlocks(s)
           /\ \A i \in 1..AcquirePrefix(s) : HashOf(s, i) \in Cached
<1>. DEFINE Match(k) == /\ \A i \in 1..k : HashOf(s, i) \in Cached
                        /\ k < FullBlocks(s) => HashOf(s, k + 1) \notin Cached
            Gap == {j \in 1..FullBlocks(s) : HashOf(s, j) \notin Cached}
<1>1. FullBlocks(s) \in Nat
  BY FullBlocksFacts
<1>2. \E k \in 0..FullBlocks(s) : Match(k)
  <2>1. CASE Gap = {}
    <3>1. Match(FullBlocks(s))
      BY <1>1, <2>1
    <3>. QED
      BY <1>1, <3>1
  <2>2. CASE Gap # {}
    <3>1. Gap \in SUBSET Nat
      BY <1>1
    <3>2. PICK m \in Gap : \A n \in Gap : m <= n
      BY <2>2, <3>1, NatMin
    <3>3. m \in 1..FullBlocks(s) /\ HashOf(s, m) \notin Cached
      OBVIOUS
    <3>4. \A i \in 1..(m - 1) : HashOf(s, i) \in Cached
      BY <1>1, <3>2, <3>3
    <3>5. m - 1 \in 0..FullBlocks(s) /\ (m - 1) + 1 = m
      BY <1>1, <3>3
    <3>. QED
      BY <3>3, <3>4, <3>5
  <2>. QED
    BY <2>1, <2>2
<1>3. AcquirePrefix(s) = CHOOSE k \in 0..FullBlocks(s) : Match(k)
  BY DEF AcquirePrefix
<1>. QED
  BY <1>2, <1>3

\* What allocate_with_prefix keeps of the match is cached, and with the fresh
\* blocks it makes exactly the blocks the prompt needs.
LEMMA KeptFacts ==
    ASSUME NEW s \in SeqId
    PROVE  /\ KeptPrefix(s) \in 0..FullBlocks(s)
           /\ \A i \in 1..KeptPrefix(s) : HashOf(s, i) \in Cached
           /\ KeptHashes(s) \subseteq Cached
           /\ FreshNeed(s) \in Nat
           /\ KeptPrefix(s) + FreshNeed(s) = BlocksFor(Len(Prompt[s]))
<1>1. KeptPrefix(s) \in 0..AcquirePrefix(s)
  BY AcquireFacts, FullBlocksFacts DEF KeptPrefix
<1>2. KeptPrefix(s) \in 0..FullBlocks(s)
  BY <1>1, AcquireFacts, FullBlocksFacts
<1>3. \A i \in 1..KeptPrefix(s) : HashOf(s, i) \in Cached
  BY <1>1, AcquireFacts, FullBlocksFacts
<1>4. BlocksFor(Len(Prompt[s])) \in Nat
  BY SizeFacts, FullBlocksFacts
<1>5. FreshNeed(s) \in Nat /\ KeptPrefix(s) + FreshNeed(s) = BlocksFor(Len(Prompt[s]))
  BY <1>2, <1>4, FullBlocksFacts DEF FreshNeed
<1>. QED
  BY <1>2, <1>3, <1>5 DEF KeptHashes

\* What a call records as recently used are hashes.
LEMMA UsedType ==
    ASSUME KvTypeOK, NEW s \in SeqId, NEW from \in Nat \ {0},
           NEW to \in Nat, to <= FullBlocks(s)
    PROVE  Used(s, from, to) \subseteq Hash \X Hash
<1>1. \A i \in from..to : HashOf(s, i) \in Hash
  BY HashFacts, FullBlocksFacts
<1>2. {HashOf(s, i) : i \in from..to} \subseteq Hash
  BY <1>1
<1>. QED
  BY <1>2 DEF Used, Cached, KvTypeOK

-----------------------------------------------------------------------------
(* Eviction takes blocks nobody reads *)

\* Eviction moves blocks from the cache to the pool, loses none, and no live
\* sequence refers to what it took.
LEMMA EvictFacts ==
    ASSUME KvInv, NEW E \in SUBSET Idle,
           cache' = [h \in Hash |-> IF h \in E THEN NoBlock ELSE cache[h]]
    PROVE  /\ FreeAfter(E) \subseteq Block
           /\ Cached' = Cached \ E
           /\ \A h \in Cached' : cache'[h] = cache[h]
           /\ CachedBlocks' \subseteq CachedBlocks
           /\ FreeAfter(E) \cap CachedBlocks' = {}
           /\ FreeAfter(E) \cup CachedBlocks' = free \cup CachedBlocks
           /\ \A t \in live : Owned(t) \cap FreeAfter(E) = {}
           /\ \A t \in live, h \in E : ~Holds(t, h)
<1>. USE DEF KvInv
<1>1. E \subseteq Cached /\ Cached \subseteq Hash /\ \A h \in E : refs[h] = 0
  BY DEF Idle, Cached
<1>2. \A h \in Cached : cache[h] \in Block
  BY DEF KvTypeOK, Cached
<1>3. FreeAfter(E) \subseteq Block
  BY <1>1, <1>2 DEF FreeAfter, KvTypeOK
<1>4. Cached' = Cached \ E
  BY <1>1 DEF Cached
<1>5. \A h \in Cached' : cache'[h] = cache[h]
  BY <1>1, <1>4
<1>6. CachedBlocks' = {cache[h] : h \in Cached \ E}
  BY <1>4, <1>5 DEF CachedBlocks
<1>7. FreeAfter(E) \cap CachedBlocks' = {}
  BY <1>1, <1>6 DEF FreeAfter, NoDoubleUse, CachedBlocks
<1>8. FreeAfter(E) \cup CachedBlocks' = free \cup CachedBlocks
  BY <1>1, <1>6 DEF FreeAfter, CachedBlocks
<1>9. \A t \in live : Owned(t) \cap FreeAfter(E) = {}
  BY <1>1 DEF FreeAfter, NoDoubleUse, CachedBlocks
<1>10. ASSUME NEW t \in live, NEW h \in E PROVE ~Holds(t, h)
  <2>1. Cardinality({x \in live : Holds(x, h)}) = 0
    BY <1>1 DEF RefsExact
  <2>2. IsFiniteSet({x \in live : Holds(x, h)})
    BY SeqIdAssumption, FS_Subset DEF KvTypeOK
  <2>. QED
    BY <2>1, <2>2, FS_EmptySet
<1>. QED
  BY <1>3, <1>4, <1>5, <1>6, <1>7, <1>8, <1>9, <1>10 DEF CachedBlocks

-----------------------------------------------------------------------------
(* Each operation preserves the invariant *)

\* A new allocator has every block in the pool and nothing cached.
LEMMA InitInv == KvInit => KvInv
<1>. SUFFICES ASSUME KvInit PROVE KvInv
  OBVIOUS
<1>. USE DEF KvInit
<1>1. KvTypeOK
  BY DEF KvTypeOK
<1>2. Cached = {} /\ CachedBlocks = {}
  BY DEF Cached, CachedBlocks
<1>3. NoDoubleUse /\ NoLeak /\ TablesCover
  BY <1>2 DEF NoDoubleUse, NoLeak, TablesCover
<1>4. RefsExact
  BY FS_EmptySet DEF RefsExact
<1>. QED
  BY <1>1, <1>3, <1>4 DEF KvInv

\* Blocks popped off the pool are distinct blocks of the pool.
LEMMA FreshFacts ==
    ASSUME KvInv, NEW E \in SUBSET Idle, NEW n \in Nat, NEW fresh \in Popped(FreeAfter(E), n)
    PROVE  /\ fresh \in Seq(Block) /\ Len(fresh) = n
           /\ \A i \in 1..n : fresh[i] \in FreeAfter(E)
           /\ \A i, j \in 1..n : fresh[i] = fresh[j] => i = j
<1>1. FreeAfter(E) \subseteq Block
  BY DEF FreeAfter, KvInv, KvTypeOK, Idle, Cached
<1>2. fresh \in [1..n -> FreeAfter(E)]
  BY DEF Popped
<1>. QED
  BY <1>1, <1>2 DEF Popped

\* The cache managed part of a block table lies inside it.
LEMMA HeldInTable ==
    ASSUME KvInv, NEW s \in live
    PROVE  /\ s \in SeqId /\ held[s] \in Nat /\ len[s] \in Nat
           /\ table[s] \in Seq(Block) /\ Len(table[s]) \in Nat
           /\ FullBlocks(s) <= Len(table[s])
           /\ held[s] <= Len(table[s])
           /\ \A i \in 1..Len(table[s]) : table[s][i] \in Block
<1>1. s \in SeqId /\ held[s] \in Nat /\ len[s] \in Nat /\ table[s] \in Seq(Block)
  BY DEF KvInv, KvTypeOK
<1>2. Len(table[s]) = BlocksFor(len[s]) /\ held[s] <= FullBlocks(s) /\ Len(Prompt[s]) <= len[s]
  BY DEF KvInv, TablesCover
<1>3. BlocksFor(Len(Prompt[s])) <= BlocksFor(len[s]) /\ BlocksFor(len[s]) \in Nat
      /\ BlocksFor(Len(Prompt[s])) \in Nat
  BY <1>1, <1>2, SizeFacts, FullBlocksFacts
<1>4. FullBlocks(s) <= Len(table[s])
  BY <1>1, <1>2, <1>3, FullBlocksFacts
<1>. QED
  BY <1>1, <1>2, <1>3, <1>4, FullBlocksFacts

\* append gives a sequence blocks of its own and touches no other sequence.
LEMMA AppendInv ==
    ASSUME KvInv, NEW s \in SeqId, NEW n \in Nat, AppendTokens(s, n)
    PROVE  KvInv'
<1>. DEFINE g == Grow(s, n)
            tl == Len(table[s])
<1>1. s \in live /\ UNCHANGED <<live, held, refs>>
  BY DEF AppendTokens
<1>2. PICK E \in Victims(Idle, g - Cardinality(free), older) :
        /\ Evict(E, older)
        /\ \E fresh \in Popped(FreeAfter(E), g) :
              /\ free' = FreeAfter(E) \ {fresh[i] : i \in 1..g}
              /\ table' = [table EXCEPT ![s] = @ \o fresh]
  BY DEF AppendTokens
<1>3. PICK fresh \in Popped(FreeAfter(E), g) :
        /\ free' = FreeAfter(E) \ {fresh[i] : i \in 1..g}
        /\ table' = [table EXCEPT ![s] = table[s] \o fresh]
  BY <1>2
<1>4. E \in SUBSET Idle
  BY DEF Victims
<1>5. cache' = [h \in Hash |-> IF h \in E THEN NoBlock ELSE cache[h]]
      /\ older' = {p \in older : p[1] \notin E /\ p[2] \notin E}
  BY <1>2 DEF Evict
<1>6. len' = [len EXCEPT ![s] = len[s] + n]
  BY DEF AppendTokens
<1>7. /\ len[s] \in Nat /\ len[s] + n \in Nat
      /\ g \in Nat /\ tl \in Nat /\ tl + g = BlocksFor(len[s] + n)
  <2>1. len[s] \in Nat /\ len[s] + n \in Nat /\ len[s] <= len[s] + n
    BY <1>1, HeldInTable
  <2>2. BlocksFor(len[s]) <= BlocksFor(len[s] + n)
        /\ BlocksFor(len[s]) \in Nat /\ BlocksFor(len[s] + n) \in Nat
    BY <2>1, SizeFacts
  <2>3. tl = BlocksFor(len[s])
    BY <1>1 DEF KvInv, TablesCover
  <2>. QED
    BY <2>1, <2>2, <2>3 DEF Grow
<1>8. /\ fresh \in Seq(Block) /\ Len(fresh) = g
      /\ \A i \in 1..g : fresh[i] \in FreeAfter(E)
      /\ \A i, j \in 1..g : fresh[i] = fresh[j] => i = j
  BY <1>3, <1>4, <1>7, FreshFacts
<1>9. /\ FreeAfter(E) \subseteq Block
      /\ Cached' = Cached \ E
      /\ \A h \in Cached' : cache'[h] = cache[h]
      /\ CachedBlocks' \subseteq CachedBlocks
      /\ FreeAfter(E) \cap CachedBlocks' = {}
      /\ FreeAfter(E) \cup CachedBlocks' = free \cup CachedBlocks
      /\ \A t \in live : Owned(t) \cap FreeAfter(E) = {}
      /\ \A t \in live, h \in E : ~Holds(t, h)
  BY <1>4, <1>5, EvictFacts
<1>10. KvTypeOK /\ table[s] \in Seq(Block) /\ held[s] \in Nat /\ held[s] <= tl
  BY <1>1, HeldInTable DEF KvInv
<1>11. /\ table'[s] \in Seq(Block)
       /\ Len(table'[s]) = tl + g
       /\ \A i \in 1..tl : table'[s][i] = table[s][i]
       /\ \A i \in 1..g : table'[s][tl + i] = fresh[i]
       /\ \A t \in SeqId \ {s} : table'[t] = table[t]
  <2>1. table'[s] = table[s] \o fresh /\ \A t \in SeqId \ {s} : table'[t] = table[t]
    BY <1>3, <1>10 DEF KvTypeOK
  <2>2. /\ table[s] \o fresh \in Seq(Block)
        /\ Len(table[s] \o fresh) = tl + Len(fresh)
        /\ \A i \in 1..tl : (table[s] \o fresh)[i] = table[s][i]
        /\ \A i \in 1..Len(fresh) : (table[s] \o fresh)[tl + i] = fresh[i]
    <3>1. table[s] \in Seq(Block) /\ fresh \in Seq(Block)
      BY <1>8, <1>10
    <3>. QED
      BY <3>1
  <2>. QED
    BY <2>1, <2>2, <1>8
<1>12. KvTypeOK'
  BY <1>1, <1>3, <1>5, <1>6, <1>7, <1>8, <1>9, <1>10, <1>11 DEF KvTypeOK
<1>13. /\ \A i \in 1..g : tl + i \in (held[s] + 1)..(tl + g)
       /\ \A i \in (held[s] + 1)..tl : table'[s][i] = table[s][i] /\ i \in (held[s] + 1)..(tl + g)
       /\ \A i \in (held[s] + 1)..(tl + g) : i \in (held[s] + 1)..tl \/ \E j \in 1..g : i = tl + j
  <2>1. \A i \in 1..g : tl + i \in (held[s] + 1)..(tl + g)
    BY <1>7, <1>10
  <2>2. \A i \in (held[s] + 1)..tl : table'[s][i] = table[s][i] /\ i \in (held[s] + 1)..(tl + g)
    BY <1>7, <1>10, <1>11
  <2>3. \A i \in (held[s] + 1)..(tl + g) : i \in (held[s] + 1)..tl \/ \E j \in 1..g : i = tl + j
    <3>. SUFFICES ASSUME NEW i \in (held[s] + 1)..(tl + g), ~(i \in (held[s] + 1)..tl)
                  PROVE  i - tl \in 1..g /\ i = tl + (i - tl)
      OBVIOUS
    <3>. QED
      BY <1>7, <1>10
  <2>. QED
    BY <2>1, <2>2, <2>3
<1>14. /\ \A t \in live : t # s => OwnedAt(t)' = OwnedAt(t) /\ Owned(t)' = Owned(t)
       /\ OwnedAt(s)' = (held[s] + 1)..(tl + g)
       /\ Owned(s)' = Owned(s) \cup {fresh[i] : i \in 1..g}
  <2>1. \A t \in live : t # s => OwnedAt(t)' = OwnedAt(t) /\ Owned(t)' = Owned(t)
    BY <1>1, <1>10, <1>11 DEF OwnedAt, Owned, KvTypeOK
  <2>2. OwnedAt(s)' = (held[s] + 1)..(tl + g)
    BY <1>1, <1>11 DEF OwnedAt
  <2>3. OwnedAt(s) = (held[s] + 1)..tl
    BY DEF OwnedAt
  <2>4. \A x : x \in Owned(s)' <=> \E i \in (held[s] + 1)..(tl + g) : x = table'[s][i]
    BY <2>2 DEF Owned
  <2>8. Owned(s)' \subseteq Owned(s) \cup {fresh[i] : i \in 1..g}
    <3>. SUFFICES ASSUME NEW x \in Owned(s)'
                  PROVE  x \in Owned(s) \cup {fresh[i] : i \in 1..g}
      OBVIOUS
    <3>1. PICK i \in (held[s] + 1)..(tl + g) : x = table'[s][i]
      BY <2>4
    <3>2. CASE i \in (held[s] + 1)..tl
      BY <3>1, <3>2, <1>13, <2>3 DEF Owned
    <3>3. CASE \E j \in 1..g : i = tl + j
      BY <3>1, <3>3, <1>11
    <3>. QED
      BY <3>2, <3>3, <1>13
  <2>9. Owned(s) \cup {fresh[i] : i \in 1..g} \subseteq Owned(s)'
    <3>1. Owned(s) \subseteq Owned(s)'
      BY <1>13, <2>3, <2>4 DEF Owned
    <3>2. {fresh[i] : i \in 1..g} \subseteq Owned(s)'
      BY <1>11, <1>13, <2>4
    <3>. QED
      BY <3>1, <3>2
  <2>. QED
    BY <2>1, <2>2, <2>8, <2>9
<1>15. TablesCover'
  <2>. SUFFICES ASSUME NEW t \in live
                PROVE  /\ Len(table'[t]) = BlocksFor(len'[t])
                       /\ held[t] <= FullBlocks(t)
                       /\ Len(Prompt[t]) <= len'[t]
                       /\ \A i \in 1..held[t] : HashOf(t, i) \in Cached'
                                               /\ table'[t][i] = cache'[HashOf(t, i)]
    BY <1>1 DEF TablesCover
  <2>1. Len(table[t]) = BlocksFor(len[t]) /\ held[t] <= FullBlocks(t) /\ Len(Prompt[t]) <= len[t]
        /\ \A i \in 1..held[t] : HashOf(t, i) \in Cached /\ table[t][i] = cache[HashOf(t, i)]
    BY DEF KvInv, TablesCover
  <2>2. \A i \in 1..held[t] : HashOf(t, i) \in Cached'
    BY <2>1, <1>9 DEF Holds
  <2>3. \A i \in 1..held[t] : table'[t][i] = table[t][i]
    <3>1. \A i \in 1..held[s] : i \in 1..tl
      BY <1>7, <1>10
    <3>. QED
      BY <3>1, <1>10, <1>11 DEF KvTypeOK
  <2>4. Len(table'[t]) = BlocksFor(len'[t]) /\ Len(Prompt[t]) <= len'[t]
    BY <2>1, <1>6, <1>7, <1>10, <1>11, FullBlocksFacts, SMTT(30) DEF KvTypeOK
  <2>. QED
    BY <2>1, <2>2, <2>3, <2>4, <1>9
<1>16. NoDoubleUse'
  <2>1. \A g1, h1 \in Cached' : cache'[g1] = cache'[h1] => g1 = h1
    BY <1>9 DEF KvInv, NoDoubleUse
  <2>2. free' \cap CachedBlocks' = {}
    BY <1>3, <1>9
  <2>3. \A t \in live : Owned(t)' \cap (free' \cup CachedBlocks') = {}
    BY <1>3, <1>8, <1>9, <1>14 DEF KvInv, NoDoubleUse
  <2>4. \A t, u \in live : \A i \in OwnedAt(t)', j \in OwnedAt(u)' :
            table'[t][i] = table'[u][j] => t = u /\ i = j
    <3>1. \A t, u \in live : \A i \in OwnedAt(t), j \in OwnedAt(u) :
            table[t][i] = table[u][j] => t = u /\ i = j
      BY DEF KvInv, NoDoubleUse
    <3>2. \A i \in OwnedAt(s)' :
            \/ i \in OwnedAt(s) /\ table'[s][i] = table[s][i]
            \/ \E j \in 1..g : i = tl + j /\ table'[s][i] = fresh[j]
      <4>. SUFFICES ASSUME NEW i \in (held[s] + 1)..(tl + g)
                    PROVE  \/ i \in (held[s] + 1)..tl /\ table'[s][i] = table[s][i]
                           \/ \E j \in 1..g : i = tl + j /\ table'[s][i] = fresh[j]
        BY <1>14 DEF OwnedAt
      <4>1. CASE i \in (held[s] + 1)..tl
        BY <4>1, <1>13
      <4>2. CASE \E j \in 1..g : i = tl + j
        BY <4>2, <1>11
      <4>. QED
        BY <4>1, <4>2, <1>13
    <3>3. \A t \in live \ {s} : \A i \in OwnedAt(t)' : i \in OwnedAt(t) /\ table'[t][i] = table[t][i]
      BY <1>10, <1>11, <1>14 DEF KvTypeOK
    <3>4. \A t \in live : \A i \in OwnedAt(t) : table[t][i] \notin FreeAfter(E)
      BY <1>9 DEF Owned
    <3>5. \A i, j \in OwnedAt(s)' : table'[s][i] = table'[s][j] => i = j
      BY <1>1, <1>8, <3>1, <3>2, <3>4, SMTT(30)
    <3>6. \A u \in live \ {s} : \A i \in OwnedAt(s)', j \in OwnedAt(u)' :
            table'[s][i] # table'[u][j]
      BY <1>1, <1>8, <3>1, <3>2, <3>3, <3>4
    <3>7. \A t, u \in live \ {s} : \A i \in OwnedAt(t)', j \in OwnedAt(u)' :
            table'[t][i] = table'[u][j] => t = u /\ i = j
      BY <3>1, <3>3
    <3>. QED
      BY <3>5, <3>6, <3>7
  <2>. QED
    BY <1>1, <2>1, <2>2, <2>3, <2>4 DEF NoDoubleUse
<1>17. NoLeak'
  BY <1>1, <1>3, <1>8, <1>9, <1>14, SMTT(30) DEF KvInv, NoLeak
<1>18. RefsExact'
  BY <1>1 DEF KvInv, RefsExact, Holds
<1>. QED
  BY <1>12, <1>15, <1>16, <1>17, <1>18 DEF KvInv

\* allocate_with_prefix takes one reference on each shared block and fresh
\* blocks for the rest.
LEMMA AllocateInv ==
    ASSUME KvInv, NEW s \in SeqId, AllocateWithPrefix(s)
    PROVE  KvInv'
<1>. DEFINE k == KeptPrefix(s)
            g == FreshNeed(s)
            order == Used(s, 1, AcquirePrefix(s))
            pre == [i \in 1..k |-> cache[HashOf(s, i)]]
<1>1. s \notin live /\ live' = live \cup {s}
  BY DEF AllocateWithPrefix
<1>2. PICK E \in Victims(Idle \ KeptHashes(s), g - Cardinality(free), order) :
        /\ Evict(E, order)
        /\ \E fresh \in Popped(FreeAfter(E), g) :
              /\ free' = FreeAfter(E) \ {fresh[i] : i \in 1..g}
              /\ table' = [table EXCEPT ![s] = pre \o fresh]
        /\ len' = [len EXCEPT ![s] = Len(Prompt[s])]
        /\ held' = [held EXCEPT ![s] = k]
        /\ refs' = [h \in Hash |-> IF h \in KeptHashes(s) THEN refs[h] + 1 ELSE refs[h]]
  BY DEF AllocateWithPrefix
<1>3. PICK fresh \in Popped(FreeAfter(E), g) :
        /\ free' = FreeAfter(E) \ {fresh[i] : i \in 1..g}
        /\ table' = [table EXCEPT ![s] = pre \o fresh]
  BY <1>2
<1>4. E \in SUBSET Idle /\ E \cap KeptHashes(s) = {}
  BY DEF Victims
<1>5. cache' = [h \in Hash |-> IF h \in E THEN NoBlock ELSE cache[h]]
      /\ older' = {p \in order : p[1] \notin E /\ p[2] \notin E}
  BY <1>2 DEF Evict
<1>6. /\ k \in Nat /\ g \in Nat /\ k <= FullBlocks(s)
      /\ k + g = BlocksFor(Len(Prompt[s]))
      /\ \A i \in 1..k : HashOf(s, i) \in Cached
      /\ KeptHashes(s) \subseteq Cached
  BY KeptFacts, FullBlocksFacts
<1>7. /\ fresh \in Seq(Block) /\ Len(fresh) = g
      /\ \A i \in 1..g : fresh[i] \in FreeAfter(E)
      /\ \A i, j \in 1..g : fresh[i] = fresh[j] => i = j
  BY <1>3, <1>4, <1>6, FreshFacts
<1>8. /\ FreeAfter(E) \subseteq Block
      /\ Cached' = Cached \ E
      /\ \A h \in Cached' : cache'[h] = cache[h]
      /\ CachedBlocks' \subseteq CachedBlocks
      /\ FreeAfter(E) \cap CachedBlocks' = {}
      /\ FreeAfter(E) \cup CachedBlocks' = free \cup CachedBlocks
      /\ \A t \in live : Owned(t) \cap FreeAfter(E) = {}
      /\ \A t \in live, h \in E : ~Holds(t, h)
  BY <1>4, <1>5, EvictFacts
<1>9. KvTypeOK
  BY DEF KvInv
<1>10. pre \in Seq(Block) /\ Len(pre) = k
  <2>1. \A i \in 1..k : cache[HashOf(s, i)] \in Block
    BY <1>6, <1>9 DEF KvTypeOK, Cached
  <2>. QED
    BY <2>1, <1>6
<1>11. /\ table'[s] \in Seq(Block)
       /\ Len(table'[s]) = k + g
       /\ \A i \in 1..k : table'[s][i] = cache[HashOf(s, i)]
       /\ \A i \in 1..g : table'[s][k + i] = fresh[i]
       /\ \A t \in SeqId \ {s} : table'[t] = table[t]
  <2>1. table'[s] = pre \o fresh /\ \A t \in SeqId \ {s} : table'[t] = table[t]
    BY <1>3, <1>9 DEF KvTypeOK
  <2>2. \A i \in 1..k : pre[i] = cache[HashOf(s, i)]
    OBVIOUS
  <2>. HIDE DEF pre
  <2>3. fresh \in Seq(Block) /\ pre \in Seq(Block)
    BY <1>7, <1>10
  <2>4. /\ pre \o fresh \in Seq(Block)
        /\ Len(pre \o fresh) = Len(pre) + Len(fresh)
        /\ \A i \in 1..Len(pre) : (pre \o fresh)[i] = pre[i]
        /\ \A i \in 1..Len(fresh) : (pre \o fresh)[Len(pre) + i] = fresh[i]
    BY <2>3
  <2>. QED
    BY <2>1, <2>2, <2>4, <1>7, <1>10
<1>. HIDE DEF pre
<1>12. held'[s] = k /\ \A t \in SeqId \ {s} : held'[t] = held[t] /\ len'[t] = len[t]
  BY <1>2, <1>9 DEF KvTypeOK
<1>13. KvTypeOK'
  <2>1. order \subseteq Hash \X Hash
    BY <1>9, AcquireFacts, FullBlocksFacts, UsedType
  <2>2. free' \subseteq Block /\ live' \subseteq SeqId /\ older' \subseteq Hash \X Hash
    BY <1>1, <1>3, <1>5, <1>8, <1>9, <2>1 DEF KvTypeOK
  <2>3. len' \in [SeqId -> Nat] /\ held' \in [SeqId -> Nat] /\ refs' \in [Hash -> Nat]
    BY <1>2, <1>6, <1>9, FullBlocksFacts DEF KvTypeOK
  <2>4. table' \in [SeqId -> Seq(Block)] /\ cache' \in [Hash -> Block \cup {NoBlock}]
    BY <1>3, <1>5, <1>9, <1>11 DEF KvTypeOK
  <2>. QED
    BY <2>2, <2>3, <2>4 DEF KvTypeOK
<1>14. /\ \A t \in live : OwnedAt(t)' = OwnedAt(t) /\ Owned(t)' = Owned(t)
       /\ OwnedAt(s)' = (k + 1)..(k + g)
       /\ \A i \in OwnedAt(s)' : \E j \in 1..g : i = k + j /\ table'[s][i] = fresh[j]
       /\ Owned(s)' = {fresh[i] : i \in 1..g}
  <2>1. \A t \in live : OwnedAt(t)' = OwnedAt(t) /\ Owned(t)' = Owned(t)
    BY <1>1, <1>9, <1>11, <1>12, ZenonT(40) DEF OwnedAt, Owned, KvTypeOK
  <2>2. OwnedAt(s)' = (k + 1)..(k + g)
    BY <1>11, <1>12 DEF OwnedAt
  <2>3. ASSUME NEW i \in (k + 1)..(k + g)
        PROVE  \E j \in 1..g : i = k + j /\ table'[s][i] = fresh[j]
    <3>1. i - k \in 1..g /\ i = k + (i - k)
      BY <1>6
    <3>. QED
      BY <3>1, <1>11
  <2>4. \A j \in 1..g : k + j \in (k + 1)..(k + g)
    BY <1>6
  <2>5. Owned(s)' = {table'[s][i] : i \in (k + 1)..(k + g)}
    BY <2>2 DEF Owned
  <2>6. Owned(s)' = {fresh[i] : i \in 1..g}
    BY <2>3, <2>4, <2>5, <1>11
  <2>. QED
    BY <2>1, <2>2, <2>3, <2>6
<1>15. TablesCover'
  <2>. SUFFICES ASSUME NEW t \in live \cup {s}
                PROVE  /\ Len(table'[t]) = BlocksFor(len'[t])
                       /\ held'[t] <= FullBlocks(t)
                       /\ Len(Prompt[t]) <= len'[t]
                       /\ \A i \in 1..held'[t] : HashOf(t, i) \in Cached'
                                               /\ table'[t][i] = cache'[HashOf(t, i)]
    BY <1>1 DEF TablesCover
  <2>1. CASE t = s
    <3>1. \A i \in 1..k : HashOf(s, i) \in Cached'
      BY <1>4, <1>6, <1>8 DEF KeptHashes
    <3>2. len'[s] = Len(Prompt[s])
      BY <1>2, <1>9 DEF KvTypeOK
    <3>. QED
      BY <2>1, <3>1, <3>2, <1>6, <1>8, <1>11, <1>12, FullBlocksFacts
  <2>2. CASE t # s
    <3>1. t \in live /\ t \in SeqId
      BY <2>2, <1>9 DEF KvTypeOK
    <3>2. table'[t] = table[t] /\ held'[t] = held[t] /\ len'[t] = len[t]
      BY <2>2, <3>1, <1>11, <1>12
    <3>3. Len(table[t]) = BlocksFor(len[t]) /\ held[t] <= FullBlocks(t) /\ Len(Prompt[t]) <= len[t]
          /\ \A i \in 1..held[t] : HashOf(t, i) \in Cached /\ table[t][i] = cache[HashOf(t, i)]
      BY <3>1 DEF KvInv, TablesCover
    <3>4. \A i \in 1..held[t] : HashOf(t, i) \in Cached'
      BY <3>1, <3>3, <1>8 DEF Holds
    <3>. QED
      BY <3>2, <3>3, <3>4, <1>8
  <2>. QED
    BY <2>1, <2>2
<1>16. NoDoubleUse'
  <2>1. \A g1, h1 \in Cached' : cache'[g1] = cache'[h1] => g1 = h1
    BY <1>8 DEF KvInv, NoDoubleUse
  <2>2. free' \cap CachedBlocks' = {}
    BY <1>3, <1>8
  <2>3. \A t \in live \cup {s} : Owned(t)' \cap (free' \cup CachedBlocks') = {}
    BY <1>3, <1>7, <1>8, <1>14 DEF KvInv, NoDoubleUse
  <2>4. \A t, u \in live \cup {s} : \A i \in OwnedAt(t)', j \in OwnedAt(u)' :
            table'[t][i] = table'[u][j] => t = u /\ i = j
    <3>1. \A t, u \in live : \A i \in OwnedAt(t), j \in OwnedAt(u) :
            table[t][i] = table[u][j] => t = u /\ i = j
      BY DEF KvInv, NoDoubleUse
    <3>2. \A t \in live : \A i \in OwnedAt(t)' : i \in OwnedAt(t) /\ table'[t][i] = table[t][i]
      BY <1>1, <1>9, <1>11, <1>14 DEF KvTypeOK
    <3>3. \A t \in live : \A i \in OwnedAt(t) : table[t][i] \notin FreeAfter(E)
      BY <1>8 DEF Owned
    <3>4. \A i, j \in OwnedAt(s)' : table'[s][i] = table'[s][j] => i = j
      BY <1>7, <1>14
    <3>5. \A u \in live : \A i \in OwnedAt(s)', j \in OwnedAt(u)' : table'[s][i] # table'[u][j]
      BY <1>7, <1>14, <3>2, <3>3
    <3>6. \A t, u \in live : \A i \in OwnedAt(t)', j \in OwnedAt(u)' :
            table'[t][i] = table'[u][j] => t = u /\ i = j
      BY <3>1, <3>2
    <3>. QED
      BY <3>4, <3>5, <3>6
  <2>. QED
    BY <1>1, <2>1, <2>2, <2>3, <2>4 DEF NoDoubleUse
<1>17. NoLeak'
  BY <1>1, <1>3, <1>7, <1>8, <1>14 DEF KvInv, NoLeak
<1>18. RefsExact'
  <2>. SUFFICES ASSUME NEW h \in Hash
                PROVE  refs'[h] = Cardinality({t \in live' : Holds(t, h)'})
    BY DEF RefsExact
  <2>1. \A t \in live : Holds(t, h)' <=> Holds(t, h)
    BY <1>1, <1>9, <1>12 DEF Holds, KvTypeOK
  <2>2. Holds(s, h)' <=> h \in KeptHashes(s)
    BY <1>12 DEF Holds, KeptHashes
  <2>3. refs[h] = Cardinality({t \in live : Holds(t, h)})
    BY DEF KvInv, RefsExact
  <2>4. IsFiniteSet({t \in live : Holds(t, h)})
    BY <1>9, SeqIdAssumption, FS_Subset DEF KvTypeOK
  <2>5. CASE h \in KeptHashes(s)
    <3>1. {t \in live' : Holds(t, h)'} = {t \in live : Holds(t, h)} \cup {s}
      BY <1>1, <2>1, <2>2, <2>5
    <3>. QED
      BY <1>1, <1>2, <2>3, <2>4, <2>5, <3>1, FS_AddElement, ZenonT(40)
  <2>6. CASE h \notin KeptHashes(s)
    <3>1. {t \in live' : Holds(t, h)'} = {t \in live : Holds(t, h)}
      BY <1>1, <2>1, <2>2, <2>6
    <3>. QED
      BY <1>2, <2>3, <2>6, <3>1
  <2>. QED
    BY <2>5, <2>6
<1>. QED
  BY <1>13, <1>15, <1>16, <1>17, <1>18 DEF KvInv

\* A call that runs out of blocks has only evicted.
LEMMA EvictOnlyInv ==
    ASSUME KvInv, NEW E \in SUBSET Idle, NEW order \in SUBSET (Hash \X Hash),
           Evict(E, order), free' = FreeAfter(E), UNCHANGED <<seqVars, refs>>
    PROVE  KvInv'
<1>1. cache' = [h \in Hash |-> IF h \in E THEN NoBlock ELSE cache[h]]
      /\ older' \subseteq Hash \X Hash
  BY DEF Evict
<1>2. UNCHANGED <<live, table, len, held, refs>>
  BY DEF seqVars
<1>3. /\ FreeAfter(E) \subseteq Block
      /\ Cached' = Cached \ E
      /\ \A h \in Cached' : cache'[h] = cache[h]
      /\ CachedBlocks' \subseteq CachedBlocks
      /\ FreeAfter(E) \cap CachedBlocks' = {}
      /\ FreeAfter(E) \cup CachedBlocks' = free \cup CachedBlocks
      /\ \A t \in live : Owned(t) \cap FreeAfter(E) = {}
      /\ \A t \in live, h \in E : ~Holds(t, h)
  BY <1>1, EvictFacts
<1>4. \A t \in live : OwnedAt(t)' = OwnedAt(t) /\ Owned(t)' = Owned(t)
  BY <1>2 DEF OwnedAt, Owned
<1>5. KvTypeOK'
  BY <1>1, <1>2, <1>3 DEF KvInv, KvTypeOK
<1>6. NoDoubleUse'
  BY <1>2, <1>3, <1>4 DEF KvInv, NoDoubleUse
<1>7. NoLeak'
  BY <1>2, <1>3, <1>4 DEF KvInv, NoLeak
<1>8. RefsExact'
  BY <1>2 DEF KvInv, RefsExact, Holds
<1>9. TablesCover'
  BY <1>2, <1>3 DEF KvInv, TablesCover, Holds
<1>. QED
  BY <1>5, <1>6, <1>7, <1>8, <1>9 DEF KvInv

\* An allocation that runs out has given its references back and only evicted.
LEMMA AllocateFailsInv ==
    ASSUME KvInv, NEW s \in SeqId, AllocateFails(s)
    PROVE  KvInv'
<1>. DEFINE order == Used(s, 1, AcquirePrefix(s))
<1>1. PICK E \in Victims(Idle \ KeptHashes(s), FreshNeed(s) - Cardinality(free), order) :
        Evict(E, order) /\ free' = FreeAfter(E)
  BY DEF AllocateFails
<1>2. E \in SUBSET Idle
  BY DEF Victims
<1>3. order \in SUBSET (Hash \X Hash)
  BY AcquireFacts, FullBlocksFacts, UsedType DEF KvInv
<1>4. UNCHANGED <<seqVars, refs>>
  BY DEF AllocateFails
<1>. HIDE DEF order
<1>. QED
  BY <1>1, <1>2, <1>3, <1>4, EvictOnlyInv

\* An append that runs out has only evicted.
LEMMA AppendFailsInv ==
    ASSUME KvInv, NEW s \in SeqId, NEW n \in Nat, AppendFails(s, n)
    PROVE  KvInv'
<1>1. PICK E \in Victims(Idle, Grow(s, n) - Cardinality(free), older) :
        Evict(E, older) /\ free' = FreeAfter(E)
  BY DEF AppendFails
<1>2. E \in SUBSET Idle /\ older \in SUBSET (Hash \X Hash)
  BY DEF Victims, KvInv, KvTypeOK
<1>3. UNCHANGED <<seqVars, refs>>
  BY DEF AppendFails
<1>. QED
  BY <1>1, <1>2, <1>3, EvictOnlyInv

\* free gives back one reference per managed block and the other blocks.
LEMMA FreeInv ==
    ASSUME KvInv, NEW s \in SeqId, Free(s)
    PROVE  KvInv'
<1>1. /\ s \in live /\ live' = live \ {s}
      /\ free' = free \cup Owned(s)
      /\ refs' = Released(s)
      /\ UNCHANGED <<cache, older>>
      /\ table' = [table EXCEPT ![s] = <<>>]
      /\ len' = [len EXCEPT ![s] = 0]
      /\ held' = [held EXCEPT ![s] = 0]
  BY DEF Free
<1>2. KvTypeOK
  BY DEF KvInv
<1>3. \A t \in live' : /\ t \in live /\ t \in SeqId /\ t # s
                       /\ table'[t] = table[t] /\ len'[t] = len[t] /\ held'[t] = held[t]
  BY <1>1, <1>2 DEF KvTypeOK
<1>4. \A t \in live' : OwnedAt(t)' = OwnedAt(t) /\ Owned(t)' = Owned(t)
  BY <1>3 DEF OwnedAt, Owned
<1>5. Cached' = Cached /\ CachedBlocks' = CachedBlocks
  BY <1>1 DEF Cached, CachedBlocks
<1>6. Owned(s) \subseteq Block
  BY <1>1, HeldInTable DEF Owned, OwnedAt
<1>7. KvTypeOK'
  <2>1. refs' \in [Hash -> Nat]
    BY <1>1, <1>2 DEF KvTypeOK, Released
  <2>2. table' \in [SeqId -> Seq(Block)] /\ len' \in [SeqId -> Nat] /\ held' \in [SeqId -> Nat]
    BY <1>1, <1>2 DEF KvTypeOK
  <2>. QED
    BY <1>1, <1>2, <1>6, <2>1, <2>2 DEF KvTypeOK
<1>8. NoDoubleUse'
  <2>1. \A t \in live' : Owned(t) \cap Owned(s) = {}
    BY <1>1, <1>3 DEF KvInv, NoDoubleUse, Owned
  <2>2. \A t, u \in live' : \A i \in OwnedAt(t)', j \in OwnedAt(u)' :
            table'[t][i] = table'[u][j] => t = u /\ i = j
    BY <1>3, <1>4 DEF KvInv, NoDoubleUse
  <2>3. \A t \in live' : Owned(t)' \cap (free' \cup CachedBlocks') = {}
    BY <1>1, <1>3, <1>4, <1>5, <2>1 DEF KvInv, NoDoubleUse
  <2>4. free' \cap CachedBlocks' = {}
    BY <1>1, <1>5 DEF KvInv, NoDoubleUse
  <2>. QED
    BY <1>1, <1>5, <2>2, <2>3, <2>4 DEF KvInv, NoDoubleUse
<1>9. NoLeak'
  BY <1>1, <1>4, <1>5, <1>6 DEF KvInv, NoLeak
<1>10. TablesCover'
  BY <1>1, <1>3, <1>5 DEF KvInv, TablesCover
<1>11. RefsExact'
  <2>. SUFFICES ASSUME NEW h \in Hash
                PROVE  refs'[h] = Cardinality({t \in live' : Holds(t, h)'})
    BY DEF RefsExact
  <2>1. \A t \in live' : Holds(t, h)' <=> Holds(t, h)
    BY <1>3 DEF Holds
  <2>2. {t \in live' : Holds(t, h)'} = {t \in live : Holds(t, h)} \ {s}
    BY <1>1, <2>1
  <2>3. refs[h] = Cardinality({t \in live : Holds(t, h)}) /\ refs[h] \in Nat
    BY <1>2 DEF KvInv, RefsExact, KvTypeOK
  <2>4. IsFiniteSet({t \in live : Holds(t, h)})
    BY <1>2, SeqIdAssumption, FS_Subset DEF KvTypeOK
  <2>5. CASE Holds(s, h)
    <3>1. refs[h] # 0
      BY <1>1, <2>3, <2>4, <2>5, FS_EmptySet
    <3>2. refs'[h] = refs[h] - 1
      BY <1>1, <2>3, <2>5, <3>1 DEF Released
    <3>. QED
      BY <1>1, <2>2, <2>3, <2>4, <2>5, <3>2, FS_RemoveElement
  <2>6. CASE ~Holds(s, h)
    <3>1. refs'[h] = refs[h]
      BY <1>1, <2>6 DEF Released
    <3>. QED
      BY <2>2, <2>3, <2>4, <2>6, <3>1, FS_RemoveElement, ZenonT(40)
  <2>. QED
    BY <2>5, <2>6
<1>. QED
  BY <1>7, <1>8, <1>9, <1>10, <1>11 DEF KvInv

\* trim gives back blocks past the prompt only, which are the sequence's own.
LEMMA TrimInv ==
    ASSUME KvInv, NEW s \in SeqId, NEW n \in Nat, Trim(s, n)
    PROVE  KvInv'
<1>. DEFINE keep == BlocksFor(n)
            tl == Len(table[s])
<1>1. /\ s \in live
      /\ free' = free \cup {table[s][i] : i \in (keep + 1)..tl}
      /\ table' = [table EXCEPT ![s] = SubSeq(table[s], 1, keep)]
      /\ len' = [len EXCEPT ![s] = n]
      /\ UNCHANGED <<live, held, cache, refs, older>>
      /\ n \in Len(Prompt[s])..(len[s] - 1)
  BY DEF Trim
<1>2. /\ held[s] \in Nat /\ len[s] \in Nat /\ table[s] \in Seq(Block) /\ tl \in Nat
      /\ \A i \in 1..tl : table[s][i] \in Block
  BY <1>1, HeldInTable
<1>3. /\ keep \in Nat /\ held[s] <= keep /\ keep <= tl
      /\ Len(Prompt[s]) <= n /\ held[s] <= FullBlocks(s)
  <2>1. tl = BlocksFor(len[s]) /\ held[s] <= FullBlocks(s)
    BY <1>1 DEF KvInv, TablesCover
  <2>2. Len(Prompt[s]) \in Nat /\ Len(Prompt[s]) <= n /\ n <= len[s]
    BY <1>1, <1>2, FullBlocksFacts
  <2>3. BlocksFor(Len(Prompt[s])) <= keep /\ keep <= BlocksFor(len[s]) /\ keep \in Nat
        /\ BlocksFor(Len(Prompt[s])) \in Nat
    BY <1>2, <2>2, SizeFacts
  <2>. QED
    BY <1>2, <2>1, <2>2, <2>3, FullBlocksFacts
<1>4. KvTypeOK
  BY DEF KvInv
<1>5. /\ table'[s] \in Seq(Block)
      /\ Len(table'[s]) = keep
      /\ \A i \in 1..keep : table'[s][i] = table[s][i]
      /\ \A t \in SeqId \ {s} : table'[t] = table[t] /\ len'[t] = len[t]
      /\ len'[s] = n
  <2>1. table'[s] = SubSeq(table[s], 1, keep)
    BY <1>1, <1>4 DEF KvTypeOK
  <2>2. \A t \in SeqId \ {s} : table'[t] = table[t] /\ len'[t] = len[t]
    BY <1>1, <1>4 DEF KvTypeOK
  <2>3. len'[s] = n
    BY <1>1, <1>4 DEF KvTypeOK
  <2>. HIDE DEF keep
  <2>. QED
    BY <1>2, <1>3, <2>1, <2>2, <2>3
<1>. HIDE DEF keep
<1>6. Cached' = Cached /\ CachedBlocks' = CachedBlocks
  BY <1>1 DEF Cached, CachedBlocks
<1>7. /\ \A t \in live : t # s => OwnedAt(t)' = OwnedAt(t) /\ Owned(t)' = Owned(t)
      /\ OwnedAt(s)' = (held[s] + 1)..keep
      /\ \A i \in OwnedAt(s)' : i \in OwnedAt(s) /\ table'[s][i] = table[s][i]
      /\ Owned(s) = Owned(s)' \cup {table[s][i] : i \in (keep + 1)..tl}
      /\ Owned(s)' \cap {table[s][i] : i \in (keep + 1)..tl} = {}
  <2>1. \A t \in live : t # s => OwnedAt(t)' = OwnedAt(t) /\ Owned(t)' = Owned(t)
    BY <1>1, <1>4, <1>5 DEF OwnedAt, Owned, KvTypeOK
  <2>2. OwnedAt(s)' = (held[s] + 1)..keep /\ OwnedAt(s) = (held[s] + 1)..tl
    BY <1>1, <1>5 DEF OwnedAt
  <2>3. \A i \in (held[s] + 1)..keep : i \in (held[s] + 1)..tl /\ i \in 1..keep
                                       /\ i \notin (keep + 1)..tl
    BY <1>2, <1>3
  <2>4. \A i \in (held[s] + 1)..tl : i \in (held[s] + 1)..keep \/ i \in (keep + 1)..tl
    BY <1>2, <1>3
  <2>5. \A i \in (keep + 1)..tl : i \in (held[s] + 1)..tl
    BY <1>2, <1>3
  <2>6. Owned(s)' = {table[s][i] : i \in (held[s] + 1)..keep}
    BY <1>5, <2>2, <2>3, SMTT(30) DEF Owned
  <2>7. Owned(s) = Owned(s)' \cup {table[s][i] : i \in (keep + 1)..tl}
    BY <2>2, <2>3, <2>4, <2>5, <2>6 DEF Owned
  <2>8. \A i, j \in (held[s] + 1)..tl : table[s][i] = table[s][j] => i = j
    BY <1>1, <2>2 DEF KvInv, NoDoubleUse
  <2>9. Owned(s)' \cap {table[s][i] : i \in (keep + 1)..tl} = {}
    BY <2>3, <2>5, <2>6, <2>8
  <2>. QED
    BY <1>5, <2>1, <2>2, <2>3, <2>7, <2>9
<1>8. Owned(s) \subseteq Block
  BY <1>1, HeldInTable DEF Owned, OwnedAt
<1>9. KvTypeOK'
  BY <1>1, <1>4, <1>5, <1>7, <1>8 DEF KvTypeOK
<1>10. NoDoubleUse'
  <2>1. \A t \in live : t # s => Owned(t) \cap Owned(s) = {}
    BY <1>1 DEF KvInv, NoDoubleUse, Owned
  <2>2. \A t, u \in live : \A i \in OwnedAt(t)', j \in OwnedAt(u)' :
            table'[t][i] = table'[u][j] => t = u /\ i = j
    <3>1. \A t \in live : \A i \in OwnedAt(t)' : i \in OwnedAt(t) /\ table'[t][i] = table[t][i]
      BY <1>4, <1>5, <1>7 DEF KvTypeOK
    <3>. QED
      BY <3>1 DEF KvInv, NoDoubleUse
  <2>3. \A t \in live : Owned(t)' \cap (free' \cup CachedBlocks') = {}
    BY <1>1, <1>6, <1>7, <2>1 DEF KvInv, NoDoubleUse
  <2>4. free' \cap CachedBlocks' = {}
    BY <1>1, <1>6, <1>7 DEF KvInv, NoDoubleUse
  <2>. QED
    BY <1>1, <1>6, <2>2, <2>3, <2>4 DEF KvInv, NoDoubleUse
<1>11. NoLeak'
  BY <1>1, <1>6, <1>7 DEF KvInv, NoLeak
<1>12. RefsExact'
  BY <1>1 DEF KvInv, RefsExact, Holds
<1>13. TablesCover'
  <2>. SUFFICES ASSUME NEW t \in live
                PROVE  /\ Len(table'[t]) = BlocksFor(len'[t])
                       /\ held[t] <= FullBlocks(t)
                       /\ Len(Prompt[t]) <= len'[t]
                       /\ \A i \in 1..held[t] : HashOf(t, i) \in Cached
                                               /\ table'[t][i] = cache[HashOf(t, i)]
    BY <1>1, <1>6, ZenonT(40) DEF TablesCover
  <2>1. Len(table[t]) = BlocksFor(len[t]) /\ held[t] <= FullBlocks(t) /\ Len(Prompt[t]) <= len[t]
        /\ \A i \in 1..held[t] : HashOf(t, i) \in Cached /\ table[t][i] = cache[HashOf(t, i)]
    BY DEF KvInv, TablesCover
  <2>2. CASE t = s
    <3>1. \A i \in 1..held[s] : table'[s][i] = table[s][i]
      <4>1. \A i \in 1..held[s] : i \in 1..keep
        BY <1>2, <1>3
      <4>. QED
        BY <4>1, <1>5
    <3>2. Len(table'[s]) = BlocksFor(len'[s])
      BY <1>5 DEF keep
    <3>. QED
      BY <2>1, <2>2, <3>1, <3>2, <1>3, <1>5
  <2>3. CASE t # s
    <3>1. table'[t] = table[t] /\ len'[t] = len[t]
      BY <2>3, <1>4, <1>5 DEF KvTypeOK
    <3>. QED
      BY <2>1, <3>1
  <2>. QED
    BY <2>2, <2>3
<1>. QED
  BY <1>9, <1>10, <1>11, <1>12, <1>13 DEF KvInv

\* Publishing the prompt: a block that wins goes from its owner to the cache, one
\* that loses goes back to the pool.
LEMMA CommitInv ==
    ASSUME KvInv, NEW s \in SeqId, CommitPrefix(s)
    PROVE  KvInv'
<1>. DEFINE F == FullBlocks(s)
            tl == Len(table[s])
            Gain == {table[s][i] : i \in Won(s)}
<1>1. /\ s \in live
      /\ free' = free \cup Duplicates(s)
      /\ older' = Used(s, held[s] + 1, F)
      /\ held' = [held EXCEPT ![s] = F]
      /\ UNCHANGED <<live, len>>
  BY DEF CommitPrefix
<1>2. table' = [table EXCEPT ![s] =
         [i \in 1..tl |-> IF i \in Lost(s) THEN cache[HashOf(s, i)] ELSE table[s][i]]]
  BY DEF CommitPrefix
<1>3. cache' = [h \in Hash |->
         IF \E i \in Won(s) : HashOf(s, i) = h
         THEN table[s][CHOOSE i \in Won(s) : HashOf(s, i) = h]
         ELSE cache[h]]
  BY DEF CommitPrefix
<1>4. refs' = [h \in Hash |->
         IF \E i \in Unpublished(s) : HashOf(s, i) = h THEN refs[h] + 1 ELSE refs[h]]
  BY DEF CommitPrefix
<1>5. /\ KvTypeOK /\ F \in Nat
      /\ held[s] \in Nat /\ held[s] <= F /\ F <= tl /\ tl \in Nat /\ table[s] \in Seq(Block)
      /\ \A i \in 1..tl : table[s][i] \in Block
  <2>1. held[s] <= F
    BY <1>1 DEF KvInv, TablesCover
  <2>. QED
    BY <1>1, <2>1, HeldInTable, FullBlocksFacts DEF KvInv
<1>6. /\ Unpublished(s) = (held[s] + 1)..F
      /\ Won(s) \cup Lost(s) = Unpublished(s) /\ Won(s) \cap Lost(s) = {}
      /\ \A i \in Lost(s) : HashOf(s, i) \in Cached
      /\ \A i \in Won(s) : HashOf(s, i) \notin Cached
  BY DEF Unpublished, Won, Lost
<1>7. /\ \A i \in Unpublished(s) : i \in 1..F /\ i \in 1..tl /\ i \in (held[s] + 1)..tl
                                   /\ i \notin 1..held[s] /\ i \notin (F + 1)..tl
      /\ \A i \in (held[s] + 1)..tl : i \in Unpublished(s) \/ i \in (F + 1)..tl
      /\ \A i \in (F + 1)..tl : i \in (held[s] + 1)..tl /\ i \in 1..tl
      /\ \A i \in 1..F : i \in 1..held[s] \/ i \in Unpublished(s)
      /\ \A i \in 1..held[s] : i \in 1..F /\ i \in 1..tl
  <2>1. \A i \in (held[s] + 1)..F : i \in 1..F /\ i \in 1..tl /\ i \in (held[s] + 1)..tl
                                   /\ i \notin 1..held[s] /\ i \notin (F + 1)..tl
    BY <1>5
  <2>2. \A i \in (held[s] + 1)..tl : i \in (held[s] + 1)..F \/ i \in (F + 1)..tl
    BY <1>5
  <2>3. \A i \in (F + 1)..tl : i \in (held[s] + 1)..tl /\ i \in 1..tl
    BY <1>5
  <2>4. \A i \in 1..F : i \in 1..held[s] \/ i \in (held[s] + 1)..F
    BY <1>5
  <2>5. \A i \in 1..held[s] : i \in 1..F /\ i \in 1..tl
    BY <1>5
  <2>. QED
    BY <1>6, <2>1, <2>2, <2>3, <2>4, <2>5
<1>8. /\ \A i \in 1..F : HashOf(s, i) \in Hash
      /\ \A i, j \in 1..F : HashOf(s, i) = HashOf(s, j) => i = j
  BY HashFacts
<1>. HIDE DEF F, tl
<1>9. \A i \in Unpublished(s) : HashOf(s, i) \in Hash
  BY <1>7, <1>8
<1>10. /\ \A h \in Cached : cache'[h] = cache[h]
       /\ \A i \in Won(s) : cache'[HashOf(s, i)] = table[s][i]
       /\ \A h \in Hash : (\A i \in Won(s) : HashOf(s, i) # h) => cache'[h] = cache[h]
  <2>1. \A h \in Hash : (\A i \in Won(s) : HashOf(s, i) # h) => cache'[h] = cache[h]
    BY <1>3
  <2>2. \A h \in Cached : cache'[h] = cache[h]
    BY <1>6, <2>1 DEF Cached
  <2>3. ASSUME NEW i \in Won(s)
        PROVE  cache'[HashOf(s, i)] = table[s][i]
    <3>1. HashOf(s, i) \in Hash
      BY <1>6, <1>9
    <3>2. \A j \in Won(s) : HashOf(s, j) = HashOf(s, i) => j = i
      BY <1>6, <1>7, <1>8
    <3>3. (CHOOSE j \in Won(s) : HashOf(s, j) = HashOf(s, i)) = i
      BY <3>2
    <3>. QED
      BY <1>3, <3>1, <3>3
  <2>. QED
    BY <2>1, <2>2, <2>3
<1>11. Cached' = Cached \cup {HashOf(s, i) : i \in Won(s)}
  <2>1. \A i \in Won(s) : HashOf(s, i) \in Hash /\ table[s][i] # NoBlock
    BY <1>5, <1>6, <1>7, <1>9, BlockAssumption
  <2>. QED
    BY <1>10, <2>1 DEF Cached
<1>12. CachedBlocks' = CachedBlocks \cup Gain
  BY <1>10, <1>11 DEF CachedBlocks
<1>13. /\ table'[s] \in Seq(Block) /\ Len(table'[s]) = tl
       /\ \A i \in Lost(s) : table'[s][i] = cache[HashOf(s, i)]
       /\ \A i \in 1..tl : i \notin Lost(s) => table'[s][i] = table[s][i]
       /\ \A t \in SeqId \ {s} : table'[t] = table[t] /\ held'[t] = held[t]
       /\ held'[s] = F
  <2>. DEFINE new == [i \in 1..tl |-> IF i \in Lost(s) THEN cache[HashOf(s, i)] ELSE table[s][i]]
  <2>1. table'[s] = new /\ \A t \in SeqId \ {s} : table'[t] = table[t] /\ held'[t] = held[t]
    BY <1>1, <1>2, <1>5 DEF KvTypeOK
  <2>2. held'[s] = F
    BY <1>1, <1>5 DEF KvTypeOK
  <2>3. \A i \in Lost(s) : cache[HashOf(s, i)] \in Block
    BY <1>5, <1>6 DEF KvTypeOK, Cached
  <2>4. new \in [1..tl -> Block]
    BY <1>5, <2>3
  <2>5. new \in Seq(Block) /\ Len(new) = tl
    BY <1>5, <2>4
  <2>6. /\ \A i \in Lost(s) : new[i] = cache[HashOf(s, i)]
        /\ \A i \in 1..tl : i \notin Lost(s) => new[i] = table[s][i]
    BY <1>6, <1>7
  <2>. HIDE DEF new
  <2>. QED
    BY <2>1, <2>2, <2>5, <2>6
<1>14. /\ \A t \in live : t # s => OwnedAt(t)' = OwnedAt(t) /\ Owned(t)' = Owned(t)
       /\ OwnedAt(s) = (held[s] + 1)..tl
       /\ OwnedAt(s)' = (F + 1)..tl
       /\ \A i \in (F + 1)..tl : table'[s][i] = table[s][i]
       /\ Owned(s)' = {table[s][i] : i \in (F + 1)..tl}
  <2>1. \A t \in live : t # s => OwnedAt(t)' = OwnedAt(t) /\ Owned(t)' = Owned(t)
    BY <1>5, <1>13 DEF OwnedAt, Owned, KvTypeOK
  <2>2. OwnedAt(s) = (held[s] + 1)..tl /\ OwnedAt(s)' = (F + 1)..tl
    BY <1>13 DEF OwnedAt, tl
  <2>3. \A i \in (F + 1)..tl : table'[s][i] = table[s][i]
    BY <1>6, <1>7, <1>13
  <2>. QED
    BY <2>1, <2>2, <2>3 DEF Owned
<1>15. /\ \A i, j \in OwnedAt(s) : table[s][i] = table[s][j] => i = j
       /\ \A i \in Unpublished(s) : i \in OwnedAt(s)
       /\ \A i \in (F + 1)..tl : i \in OwnedAt(s) /\ i \notin Unpublished(s)
  <2>1. \A i, j \in OwnedAt(s) : table[s][i] = table[s][j] => i = j
    BY <1>1 DEF KvInv, NoDoubleUse
  <2>2. OwnedAt(s) = (held[s] + 1)..tl
    BY <1>14
  <2>. QED
    BY <1>7, <2>1, <2>2
<1>16. /\ Owned(s) = Owned(s)' \cup Gain \cup Duplicates(s)
       /\ Gain \cap Duplicates(s) = {}
       /\ Owned(s)' \cap Gain = {}
       /\ Owned(s)' \cap Duplicates(s) = {}
  <2>1. Owned(s) = {table[s][i] : i \in OwnedAt(s)}
    BY DEF Owned
  <2>2. Owned(s) = Owned(s)' \cup Gain \cup Duplicates(s)
    BY <1>6, <1>7, <1>14, <1>15, <2>1 DEF Duplicates
  <2>3. Gain \cap Duplicates(s) = {}
    BY <1>6, <1>15 DEF Duplicates
  <2>4. Owned(s)' \cap Gain = {} /\ Owned(s)' \cap Duplicates(s) = {}
    BY <1>6, <1>14, <1>15 DEF Duplicates
  <2>. QED
    BY <2>2, <2>3, <2>4
<1>. HIDE DEF Gain
<1>17. Owned(s) \subseteq Block
  BY <1>1, HeldInTable DEF Owned, OwnedAt
<1>18. /\ Owned(s) \cap free = {} /\ Owned(s) \cap CachedBlocks = {} /\ free \cap CachedBlocks = {}
       /\ \A t \in live : t # s => Owned(t) \cap Owned(s) = {}
       /\ \A t \in live : Owned(t) \cap (free \cup CachedBlocks) = {}
  <2>1. \A t \in live : t # s => Owned(t) \cap Owned(s) = {}
    BY <1>1 DEF KvInv, NoDoubleUse, Owned
  <2>. QED
    BY <1>1, <2>1 DEF KvInv, NoDoubleUse
<1>19. KvTypeOK'
  <2>1. older' \subseteq Hash \X Hash
    <3>1. held[s] + 1 \in Nat \ {0} /\ F \in Nat /\ F <= FullBlocks(s)
      BY <1>5 DEF F
    <3>. QED
      BY <1>1, <1>5, <3>1, UsedType
  <2>2. cache' \in [Hash -> Block \cup {NoBlock}]
    <3>1. ASSUME NEW h \in Hash PROVE cache'[h] \in Block \cup {NoBlock}
      <4>1. CASE \E i \in Won(s) : HashOf(s, i) = h
        BY <4>1, <1>5, <1>6, <1>7, <1>10
      <4>2. CASE ~\E i \in Won(s) : HashOf(s, i) = h
        BY <4>2, <1>5, <1>10 DEF KvTypeOK
      <4>. QED
        BY <4>1, <4>2
    <3>. QED
      BY <1>3, <3>1
  <2>3. refs' \in [Hash -> Nat]
    BY <1>4, <1>5 DEF KvTypeOK
  <2>4. table' \in [SeqId -> Seq(Block)] /\ held' \in [SeqId -> Nat]
    BY <1>1, <1>2, <1>5, <1>13 DEF KvTypeOK
  <2>5. free' \subseteq Block
    BY <1>1, <1>5, <1>16, <1>17 DEF KvTypeOK
  <2>. QED
    BY <1>1, <1>5, <2>1, <2>2, <2>3, <2>4, <2>5 DEF KvTypeOK
<1>20. NoDoubleUse'
  <2>1. \A t, u \in live : \A i \in OwnedAt(t)', j \in OwnedAt(u)' :
            table'[t][i] = table'[u][j] => t = u /\ i = j
    <3>1. \A t \in live : \A i \in OwnedAt(t)' : i \in OwnedAt(t) /\ table'[t][i] = table[t][i]
      BY <1>5, <1>13, <1>14, <1>15 DEF KvTypeOK
    <3>. QED
      BY <3>1 DEF KvInv, NoDoubleUse
  <2>2. ASSUME NEW g \in Cached', NEW h \in Cached', cache'[g] = cache'[h]
        PROVE  g = h
    <3>1. \A i \in Won(s) : cache'[HashOf(s, i)] = table[s][i] /\ table[s][i] \in Owned(s)
      BY <1>6, <1>10, <1>15 DEF Owned
    <3>2. \A x \in Cached : cache'[x] = cache[x] /\ cache[x] \in CachedBlocks
      BY <1>10 DEF CachedBlocks
    <3>3. CASE g \in Cached /\ h \in Cached
      BY <2>2, <3>2, <3>3 DEF KvInv, NoDoubleUse
    <3>4. CASE g \in Cached /\ h \notin Cached
      BY <2>2, <3>1, <3>2, <3>4, <1>11, <1>18
    <3>5. CASE g \notin Cached /\ h \in Cached
      BY <2>2, <3>1, <3>2, <3>5, <1>11, <1>18
    <3>6. CASE g \notin Cached /\ h \notin Cached
      <4>1. PICK i \in Won(s) : g = HashOf(s, i)
        BY <3>6, <1>11
      <4>2. PICK j \in Won(s) : h = HashOf(s, j)
        BY <3>6, <1>11
      <4>3. table[s][i] = table[s][j]
        BY <2>2, <3>1, <4>1, <4>2
      <4>4. i = j
        BY <4>3, <1>6, <1>15
      <4>. QED
        BY <4>1, <4>2, <4>4
    <3>. QED
      BY <3>3, <3>4, <3>5, <3>6
  <2>3. free' \cap CachedBlocks' = {}
    BY <1>1, <1>12, <1>16, <1>18
  <2>4. \A t \in live : Owned(t)' \cap (free' \cup CachedBlocks') = {}
    BY <1>1, <1>12, <1>14, <1>16, <1>18
  <2>. QED
    BY <1>1, <2>1, <2>2, <2>3, <2>4 DEF NoDoubleUse
<1>21. NoLeak'
  BY <1>1, <1>12, <1>14, <1>16 DEF KvInv, NoLeak
<1>22. TablesCover'
  <2>. SUFFICES ASSUME NEW t \in live
                PROVE  /\ Len(table'[t]) = BlocksFor(len[t])
                       /\ held'[t] <= FullBlocks(t)
                       /\ Len(Prompt[t]) <= len[t]
                       /\ \A i \in 1..held'[t] : HashOf(t, i) \in Cached'
                                               /\ table'[t][i] = cache'[HashOf(t, i)]
    BY <1>1 DEF TablesCover
  <2>1. Len(table[t]) = BlocksFor(len[t]) /\ held[t] <= FullBlocks(t) /\ Len(Prompt[t]) <= len[t]
        /\ \A i \in 1..held[t] : HashOf(t, i) \in Cached /\ table[t][i] = cache[HashOf(t, i)]
    BY DEF KvInv, TablesCover
  <2>2. CASE t = s
    <3>1. ASSUME NEW i \in 1..F
          PROVE  HashOf(s, i) \in Cached' /\ table'[s][i] = cache'[HashOf(s, i)]
      <4>1. CASE i \in 1..held[s]
        BY <4>1, <2>1, <2>2, <1>6, <1>7, <1>10, <1>11, <1>13
      <4>2. CASE i \in Won(s)
        BY <4>2, <1>6, <1>7, <1>10, <1>11, <1>13
      <4>3. CASE i \in Lost(s)
        BY <4>3, <1>6, <1>10, <1>11, <1>13
      <4>. QED
        BY <4>1, <4>2, <4>3, <1>6, <1>7
    <3>2. Len(table'[s]) = BlocksFor(len[s])
      BY <2>1, <2>2, <1>13 DEF tl
    <3>3. F <= FullBlocks(s)
      BY <1>5 DEF F
    <3>. QED
      BY <2>1, <2>2, <3>1, <3>2, <3>3, <1>13
  <2>3. CASE t # s
    <3>1. table'[t] = table[t] /\ held'[t] = held[t]
      BY <2>3, <1>5, <1>13 DEF KvTypeOK
    <3>. QED
      BY <2>1, <3>1, <1>10, <1>11
  <2>. QED
    BY <2>2, <2>3
<1>23. RefsExact'
  <2>. SUFFICES ASSUME NEW h \in Hash
                PROVE  refs'[h] = Cardinality({t \in live : Holds(t, h)'})
    BY <1>1 DEF RefsExact
  <2>1. \A t \in live : t # s => (Holds(t, h)' <=> Holds(t, h))
    BY <1>5, <1>13 DEF Holds, KvTypeOK
  <2>2. Holds(s, h)' <=> Holds(s, h) \/ \E i \in Unpublished(s) : HashOf(s, i) = h
    <3>1. Holds(s, h)' <=> \E i \in 1..F : HashOf(s, i) = h
      BY <1>13 DEF Holds
    <3>. QED
      BY <3>1, <1>7 DEF Holds
  <2>3. refs[h] = Cardinality({t \in live : Holds(t, h)})
    BY DEF KvInv, RefsExact
  <2>4. IsFiniteSet({t \in live : Holds(t, h)})
    BY <1>5, SeqIdAssumption, FS_Subset DEF KvTypeOK
  <2>5. CASE \E i \in Unpublished(s) : HashOf(s, i) = h
    <3>1. ~Holds(s, h)
      BY <2>5, <1>7, <1>8 DEF Holds
    <3>2. {t \in live : Holds(t, h)'} = {t \in live : Holds(t, h)} \cup {s}
      BY <1>1, <2>1, <2>2, <2>5
    <3>3. refs'[h] = refs[h] + 1
      BY <1>4, <2>5
    <3>. QED
      BY <2>3, <2>4, <3>1, <3>2, <3>3, FS_AddElement
  <2>6. CASE ~\E i \in Unpublished(s) : HashOf(s, i) = h
    <3>1. {t \in live : Holds(t, h)'} = {t \in live : Holds(t, h)}
      BY <2>1, <2>2, <2>6
    <3>. QED
      BY <1>4, <2>3, <2>6, <3>1
  <2>. QED
    BY <2>5, <2>6
<1>. QED
  BY <1>19, <1>20, <1>21, <1>22, <1>23 DEF KvInv

\* A step that changes no variable of the allocator preserves the invariant.
LEMMA StutterInv == KvInv /\ UNCHANGED kvVars => KvInv'
<1>. SUFFICES ASSUME KvInv, UNCHANGED kvVars PROVE KvInv'
  OBVIOUS
<1>. USE DEF kvVars
<1>1. Cached' = Cached /\ CachedBlocks' = CachedBlocks
  BY DEF Cached, CachedBlocks
<1>2. \A s : OwnedAt(s)' = OwnedAt(s) /\ Owned(s)' = Owned(s)
  BY DEF OwnedAt, Owned
<1>3. KvTypeOK' /\ NoDoubleUse' /\ NoLeak'
  BY <1>1, <1>2 DEF KvInv, KvTypeOK, NoDoubleUse, NoLeak
<1>4. RefsExact' /\ TablesCover'
  BY <1>1 DEF KvInv, RefsExact, Holds, TablesCover
<1>. QED
  BY <1>3, <1>4 DEF KvInv

\* Every operation of the allocator, failing ones included, preserves KvInv.
LEMMA KvStep == KvInv /\ [KvNext]_kvVars => KvInv'
<1>. SUFFICES ASSUME KvInv, [KvNext]_kvVars PROVE KvInv'
  OBVIOUS
<1>1. ASSUME NEW s \in SeqId, AllocateWithPrefix(s) PROVE KvInv'
  BY <1>1, AllocateInv
<1>2. ASSUME NEW s \in SeqId, AllocateFails(s) PROVE KvInv'
  BY <1>2, AllocateFailsInv
<1>3. ASSUME NEW s \in SeqId, NEW n \in 1..(MaxLen - len[s]), AppendTokens(s, n) PROVE KvInv'
  <2>1. n \in Nat
    BY MaxLenAssumption DEF KvInv, KvTypeOK
  <2>. QED
    BY <1>3, <2>1, AppendInv
<1>4. ASSUME NEW s \in SeqId, NEW n \in 1..(MaxLen - len[s]), AppendFails(s, n) PROVE KvInv'
  <2>1. n \in Nat
    BY MaxLenAssumption DEF KvInv, KvTypeOK
  <2>. QED
    BY <1>4, <2>1, AppendFailsInv
<1>5. ASSUME NEW s \in SeqId, CommitPrefix(s) PROVE KvInv'
  BY <1>5, CommitInv
<1>6. ASSUME NEW s \in SeqId, NEW n \in 0..MaxLen, Trim(s, n) PROVE KvInv'
  <2>1. n \in Nat
    BY MaxLenAssumption
  <2>. QED
    BY <1>6, <2>1, TrimInv
<1>7. ASSUME NEW s \in SeqId, Free(s) PROVE KvInv'
  BY <1>7, FreeInv
<1>8. CASE UNCHANGED kvVars
  BY <1>8, StutterInv
<1>. QED
  BY <1>1, <1>2, <1>3, <1>4, <1>5, <1>6, <1>7, <1>8 DEF KvNext

-----------------------------------------------------------------------------
(* The theorems *)

\* The inductive invariant holds of the allocator for every pool, block size and
\* set of prompts.
THEOREM KvInvariant == KvSpec => []KvInv
  BY InitInv, KvStep, PTL DEF KvSpec

\* The state stays well typed.
THEOREM KvTypeCorrect == KvSpec => []KvTypeOK
<1>1. KvInv => KvTypeOK
  BY DEF KvInv
<1>. QED
  BY <1>1, KvInvariant, PTL

\* paged_kv.rs never has two uses for one physical block.
THEOREM KvNoDoubleUse == KvSpec => []NoDoubleUse
<1>1. KvInv => NoDoubleUse
  BY DEF KvInv
<1>. QED
  BY <1>1, KvInvariant, PTL

\* paged_kv.rs never loses a physical block.
THEOREM KvNoLeak == KvSpec => []NoLeak
<1>1. KvInv => NoLeak
  BY DEF KvInv
<1>. QED
  BY <1>1, KvInvariant, PTL

\* The reference counts of the prefix cache are exact.
THEOREM KvRefsExact == KvSpec => []RefsExact
<1>1. KvInv => RefsExact
  BY DEF KvInv
<1>. QED
  BY <1>1, KvInvariant, PTL

\* A block table covers its tokens and starts with the cached prefix of its own
\* prompt.
THEOREM KvTablesCover == KvSpec => []TablesCover
<1>1. KvInv => TablesCover
  BY DEF KvInv
<1>. QED
  BY <1>1, KvInvariant, PTL

\* The prefix a new sequence shares has at most as many hashes as blocks.
LEMMA KeptHashesBound ==
    ASSUME NEW s \in SeqId
    PROVE  IsFiniteSet(KeptHashes(s)) /\ Cardinality(KeptHashes(s)) <= KeptPrefix(s)
<1>. DEFINE f == [i \in 1..KeptPrefix(s) |-> HashOf(s, i)]
<1>1. KeptPrefix(s) \in Nat
  BY KeptFacts, FullBlocksFacts
<1>2. f \in Surjection(1..KeptPrefix(s), KeptHashes(s))
  BY Fun_IsSurj DEF KeptHashes
<1>3. IsFiniteSet(1..KeptPrefix(s)) /\ Cardinality(1..KeptPrefix(s)) = KeptPrefix(s)
  BY <1>1, FS_Interval
<1>. HIDE DEF f
<1>. QED
  BY <1>2, <1>3, FS_Surjection

\* Distinct cached hashes have distinct blocks, so they are finitely many.
LEMMA CachedFinite == ASSUME KvInv PROVE IsFiniteSet(Cached)
<1>. DEFINE f == [h \in Cached |-> cache[h]]
<1>1. f \in [Cached -> Block]
  BY DEF KvInv, KvTypeOK, Cached
<1>2. \A g, h \in Cached : f[g] = f[h] => g = h
  BY DEF KvInv, NoDoubleUse
<1>. HIDE DEF f
<1>3. f \in Injection(Cached, Block)
  BY <1>1, <1>2, Fun_IsInj
<1>. QED
  BY <1>3, BlockAssumption, FS_Injection

\* can_append counted the idle blocks of the shared prefix among those it can
\* reclaim; pinning them saves as many fresh ones.
LEMMA CanAppendHolds == KvInv => CanAppendCovers
<1>. SUFFICES ASSUME KvInv, NEW s \in SeqId \ live, NEW n \in 0..MaxLen,
                     CanAppend(0, Len(Prompt[s]) + n)
              PROVE  AllocateFits(s)
  BY DEF CanAppendCovers
<1>. DEFINE pl == Len(Prompt[s])
<1>1. n \in Nat /\ pl \in Nat
  BY MaxLenAssumption, FullBlocksFacts
<1>2. BlocksFor(0) = 0
  BY BlockSizeAssumption DEF BlocksFor
<1>3. BlocksFor(pl) <= BlocksFor(pl + n) /\ BlocksFor(pl) \in Nat /\ BlocksFor(pl + n) \in Nat
  <2>. HIDE DEF pl
  <2>1. pl \in Nat /\ pl + n \in Nat /\ pl <= pl + n
    BY <1>1
  <2>. QED
    BY <2>1, SizeFacts
<1>4. BlocksFor(pl + n) - 0 <= Cardinality(free) + Cardinality(Idle)
  <2>1. \A x, y \in Nat : 0 + (x + y) = x + y
    OBVIOUS
  <2>. QED
    BY <1>1, <1>2, <2>1 DEF CanAppend, Reclaimable
<1>5. IsFiniteSet(Idle) /\ IsFiniteSet(free)
  <2>1. Idle \in SUBSET Cached /\ free \in SUBSET Block
    BY DEF Idle, KvInv, KvTypeOK
  <2>. QED
    BY <2>1, CachedFinite, BlockAssumption, FS_Subset
<1>6. /\ Cardinality(Idle \ KeptHashes(s)) = Cardinality(Idle) - Cardinality(Idle \cap KeptHashes(s))
      /\ Cardinality(Idle \cap KeptHashes(s)) <= Cardinality(KeptHashes(s))
      /\ IsFiniteSet(Idle \ KeptHashes(s)) /\ IsFiniteSet(Idle \cap KeptHashes(s))
  <2>1. /\ IsFiniteSet(Idle \ KeptHashes(s))
        /\ Cardinality(Idle \ KeptHashes(s)) = Cardinality(Idle) - Cardinality(Idle \cap KeptHashes(s))
    BY <1>5, FS_Difference
  <2>2. /\ IsFiniteSet(Idle \cap KeptHashes(s))
        /\ Cardinality(Idle \cap KeptHashes(s)) <= Cardinality(KeptHashes(s))
    BY KeptHashesBound, FS_Intersection
  <2>. QED
    BY <2>1, <2>2
<1>7. /\ Cardinality(free) \in Nat /\ Cardinality(Idle) \in Nat
      /\ Cardinality(Idle \cap KeptHashes(s)) \in Nat /\ Cardinality(KeptHashes(s)) \in Nat
  BY <1>5, <1>6, KeptHashesBound, FS_CardinalityType
<1>8. /\ Cardinality(KeptHashes(s)) <= KeptPrefix(s) /\ KeptPrefix(s) \in Nat
      /\ FreshNeed(s) = BlocksFor(pl) - KeptPrefix(s)
  BY KeptHashesBound, KeptFacts, FullBlocksFacts DEF FreshNeed
<1>. HIDE DEF pl
<1>. QED
  BY <1>3, <1>4, <1>6, <1>7, <1>8 DEF AllocateFits

\* What can_append promised beyond the prompt is still there after the prompt
\* has been allocated: fresh blocks and pinned ones together are no more than
\* the blocks of the prompt.
LEMMA AllocateLeavesRoom ==
    ASSUME KvInv, NEW s \in SeqId, NEW n \in Nat, AllocateWithPrefix(s),
           CanAppend(0, Len(Prompt[s]) + n)
    PROVE  AppendFits(s, n)'
<1>. DEFINE k == KeptPrefix(s)
            g == FreshNeed(s)
            pl == Len(Prompt[s])
            order == Used(s, 1, AcquirePrefix(s))
<1>1. PICK E \in Victims(Idle \ KeptHashes(s), g - Cardinality(free), order) :
        /\ Evict(E, order)
        /\ \E fresh \in Popped(FreeAfter(E), g) :
              free' = FreeAfter(E) \ {fresh[i] : i \in 1..g}
        /\ len' = [len EXCEPT ![s] = pl]
        /\ refs' = [h \in Hash |-> IF h \in KeptHashes(s) THEN refs[h] + 1 ELSE refs[h]]
  BY DEF AllocateWithPrefix
<1>2. PICK fresh \in Popped(FreeAfter(E), g) : free' = FreeAfter(E) \ {fresh[i] : i \in 1..g}
  BY <1>1
<1>3. E \in SUBSET Idle /\ E \cap KeptHashes(s) = {}
  BY DEF Victims
<1>4. cache' = [h \in Hash |-> IF h \in E THEN NoBlock ELSE cache[h]]
  BY <1>1 DEF Evict
<1>5. KvTypeOK
  BY DEF KvInv
<1>6. k \in Nat /\ g \in Nat /\ pl \in Nat /\ k + g = BlocksFor(pl) /\ KeptHashes(s) \subseteq Cached
  BY KeptFacts, FullBlocksFacts
<1>7. IsFiniteSet(Idle) /\ IsFiniteSet(free) /\ IsFiniteSet(E)
  <2>1. Idle \in SUBSET Cached /\ free \in SUBSET Block
    BY <1>5 DEF Idle, KvTypeOK
  <2>. QED
    BY <2>1, <1>3, CachedFinite, BlockAssumption, FS_Subset
\* Evicted blocks join the free list one for one.
<1>8. /\ IsFiniteSet(FreeAfter(E))
      /\ Cardinality(FreeAfter(E)) = Cardinality(free) + Cardinality(E)
  <2>. DEFINE f == [h \in E |-> cache[h]]
              V == {cache[h] : h \in E}
  <2>1. E \subseteq Cached
    BY <1>3 DEF Idle
  <2>2. f \in Bijection(E, V)
    <3>1. f \in [E -> V]
      OBVIOUS
    <3>2. \A a, b \in E : f[a] = f[b] => a = b
      BY <2>1 DEF KvInv, NoDoubleUse
    <3>3. \A v \in V : \E a \in E : f[a] = v
      OBVIOUS
    <3>. HIDE DEF f, V
    <3>. QED
      BY <3>1, <3>2, <3>3, Fun_IsBij
  <2>3. IsFiniteSet(V) /\ Cardinality(V) = Cardinality(E)
    <3>. HIDE DEF f, V
    <3>. QED
      BY <2>2, <1>7, FS_Bijection DEF ExistsBijection
  <2>4. free \cap V = {}
    BY <2>1 DEF KvInv, NoDoubleUse, CachedBlocks
  <2>. HIDE DEF f, V
  <2>5. /\ IsFiniteSet(free \cup V)
        /\ Cardinality(free \cup V) = Cardinality(free) + Cardinality(V) - Cardinality(free \cap V)
    BY <2>3, <1>7, FS_Union
  <2>6. Cardinality(free \cap V) = 0
    BY <2>4, FS_EmptySet
  <2>7. Cardinality(free) \in Nat /\ Cardinality(V) \in Nat
    BY <2>3, <1>7, FS_CardinalityType
  <2>8. FreeAfter(E) = free \cup V
    BY DEF FreeAfter, V
  <2>. QED
    BY <2>3, <2>5, <2>6, <2>7, <2>8
<1>9. /\ IsFiniteSet(free')
      /\ Cardinality(free') + g >= Cardinality(free) + Cardinality(E)
  <2>. DEFINE R == {fresh[i] : i \in 1..g}
              f == [i \in 1..g |-> fresh[i]]
  <2>1. IsFiniteSet(R) /\ Cardinality(R) <= g
    <3>1. f \in Surjection(1..g, R)
      BY Fun_IsSurj
    <3>2. IsFiniteSet(1..g) /\ Cardinality(1..g) = g
      BY <1>6, FS_Interval
    <3>. HIDE DEF f, R
    <3>. QED
      BY <3>1, <3>2, FS_Surjection
  <2>. HIDE DEF R
  <2>2. /\ IsFiniteSet(FreeAfter(E) \ R)
        /\ Cardinality(FreeAfter(E) \ R) = Cardinality(FreeAfter(E)) - Cardinality(FreeAfter(E) \cap R)
    BY <1>8, FS_Difference
  <2>3. IsFiniteSet(FreeAfter(E) \cap R) /\ Cardinality(FreeAfter(E) \cap R) <= Cardinality(R)
    BY <1>8, <2>1, FS_Intersection
  <2>4. Cardinality(FreeAfter(E) \cap R) \in Nat /\ Cardinality(R) \in Nat
        /\ Cardinality(FreeAfter(E)) \in Nat
    BY <1>8, <2>1, <2>3, FS_CardinalityType
  <2>5. free' = FreeAfter(E) \ R
    BY <1>2 DEF R
  <2>. QED
    BY <1>6, <1>8, <2>1, <2>2, <2>3, <2>4, <2>5
\* Of the idle hashes only those evicted and those pinned are lost.
<1>10. /\ IsFiniteSet(Idle')
       /\ Cardinality(Idle') + Cardinality(E) + k >= Cardinality(Idle)
  <2>1. Idle' = (Idle \ E) \ KeptHashes(s)
    <3>1. Cached' = Cached \ E
      BY <1>3, <1>4, EvictFacts
    <3>2. \A h \in Cached : refs[h] \in Nat /\ (refs'[h] = 0 <=> h \notin KeptHashes(s) /\ refs[h] = 0)
      BY <1>1, <1>5 DEF Cached, KvTypeOK
    <3>. QED
      BY <3>1, <3>2 DEF Idle
  <2>2. /\ IsFiniteSet(Idle \ E)
        /\ Cardinality(Idle \ E) = Cardinality(Idle) - Cardinality(Idle \cap E)
    BY <1>7, FS_Difference
  <2>3. Idle \cap E = E
    BY <1>3
  <2>4. /\ IsFiniteSet((Idle \ E) \ KeptHashes(s))
        /\ Cardinality((Idle \ E) \ KeptHashes(s))
             = Cardinality(Idle \ E) - Cardinality((Idle \ E) \cap KeptHashes(s))
    BY <2>2, FS_Difference
  <2>5. /\ IsFiniteSet((Idle \ E) \cap KeptHashes(s))
        /\ Cardinality((Idle \ E) \cap KeptHashes(s)) <= Cardinality(KeptHashes(s))
    BY <2>2, KeptHashesBound, FS_Intersection
  <2>6. Cardinality(KeptHashes(s)) <= k /\ Cardinality(KeptHashes(s)) \in Nat
    BY KeptHashesBound, FS_CardinalityType
  <2>7. /\ Cardinality(Idle) \in Nat /\ Cardinality(E) \in Nat
        /\ Cardinality(Idle \ E) \in Nat
        /\ Cardinality((Idle \ E) \cap KeptHashes(s)) \in Nat
    BY <1>7, <2>2, <2>5, FS_CardinalityType
  <2>8. IsFiniteSet(Idle')
    BY <2>1, <2>4
  <2>9. Cardinality(Idle') = Cardinality((Idle \ E) \ KeptHashes(s))
    BY <2>1
  <2>10. Cardinality(Idle \ E) = Cardinality(Idle) - Cardinality(E)
    BY <2>2, <2>3
  <2>11. \A i, e, d, b, h, j, l \in Nat :
            d = i - e /\ j = d - b /\ b <= h /\ h <= l => j + e + l >= i
    OBVIOUS
  <2>12. Cardinality(Idle') \in Nat
    BY <2>8, FS_CardinalityType
  <2>. HIDE DEF k
  <2>. QED
    BY <1>6, <2>4, <2>5, <2>6, <2>7, <2>8, <2>9, <2>10, <2>11, <2>12, SMTT(30)
<1>11. BlocksFor(pl + n) <= Cardinality(free) + Cardinality(Idle)
  <2>1. BlocksFor(0) = 0
    BY BlockSizeAssumption DEF BlocksFor
  <2>2. BlocksFor(0 + (pl + n)) - BlocksFor(0) <= Cardinality(free) + Cardinality(Idle)
    BY DEF CanAppend, Reclaimable
  <2>3. 0 + (pl + n) = pl + n /\ pl + n \in Nat
    BY <1>6
  <2>4. BlocksFor(pl + n) \in Nat
    BY <2>3, SizeFacts
  <2>. HIDE DEF pl
  <2>. QED
    BY <2>1, <2>2, <2>3, <2>4
<1>12. len'[s] = pl
  BY <1>1, <1>5 DEF KvTypeOK
<1>13. /\ Cardinality(free) \in Nat /\ Cardinality(Idle) \in Nat /\ Cardinality(E) \in Nat
       /\ Cardinality(free') \in Nat /\ Cardinality(Idle') \in Nat
  BY <1>7, <1>9, <1>10, FS_CardinalityType
<1>14. BlocksFor(pl + n) \in Nat /\ BlocksFor(pl) \in Nat
  <2>1. pl + n \in Nat
    BY <1>6
  <2>. QED
    BY <2>1, <1>6, SizeFacts
<1>. HIDE DEF k, g, pl
<1>15. BlocksFor(pl + n) - BlocksFor(pl) <= Cardinality(free') + Cardinality(Idle')
  BY <1>6, <1>9, <1>10, <1>11, <1>13, <1>14, SMTT(30)
<1>16. BlocksFor(len[s] + n)' - BlocksFor(len[s])' <= Reclaimable'
  BY <1>12, <1>15 DEF Reclaimable, BlocksFor
<1>. QED
  BY <1>16 DEF AppendFits, Grow

\* Whatever the scheduler learns from can_append, allocate_with_prefix keeps: the
\* prefix it pins is exactly what it need not take from the pool.
THEOREM KvCanAppendCovers == KvSpec => []CanAppendCovers
  BY CanAppendHolds, KvInvariant, PTL
=============================================================================
