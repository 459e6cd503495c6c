------------------------------- MODULE PagedKv -------------------------------
(***************************************************************************)
(* The paged KV block allocator and its automatic prefix cache             *)
(* (src/inference/cache/paged_kv.rs).                                      *)
(*                                                                         *)
(* A pool of physical blocks of BlockSize tokens is shared by sequences.   *)
(* A block is free, owned by one sequence, or managed by the prefix cache, *)
(* where any number of sequences read it.  The cache is content addressed: *)
(* the key of a block is a hash chained over all the tokens up to its end. *)
(*                                                                         *)
(* Abstractions.  A chained hash is the token prefix it is computed from   *)
(* (64-bit FNV-1a collisions are left out).  The free list is a set: which *)
(* free block is handed out is a free choice, where the code takes the one *)
(* freed last.  The LRU tick of a cached block is the order the ticks give.*)
(***************************************************************************)
EXTENDS Integers, Sequences, FiniteSets

CONSTANTS
    Block,      \* the physical blocks of the pool
    BlockSize,  \* tokens per block
    SeqId,      \* the sequences that ever ask for blocks
    Token,      \* token ids
    Prompt,     \* the prompt of each sequence
    NoBlock     \* no block cached under a hash

ASSUME BlockAssumption == IsFiniteSet(Block) /\ NoBlock \notin Block
ASSUME BlockSizeAssumption == BlockSize \in Nat \ {0}
ASSUME PromptAssumption == Prompt \in [SeqId -> Seq(Token) \ {<<>>}]
ASSUME SeqIdAssumption == IsFiniteSet(SeqId)

VARIABLES
    free,   \* blocks on the free list
    live,   \* sequences with an entry in seqs
    table,  \* block table of a sequence: logical to physical
    len,    \* tokens a sequence stores
    held,   \* how many leading blocks of its table the cache manages
    cache,  \* hash -> the cached block, or NoBlock
    refs,   \* hash -> live sequences on the cached block
    older   \* <<g, h>>: cached hash g was last used before cached hash h

seqVars == <<live, table, len, held>>
kvVars == <<free, live, table, len, held, cache, refs, older>>

-----------------------------------------------------------------------------
(* Hashes and sizes *)

BlocksFor(tokens) == (tokens + BlockSize - 1) \div BlockSize

\* Seeded fault: a hash of the block alone, not chained to what precedes it.
BlockHashesUnchained(tokens) ==
    [i \in 1..(Len(tokens) \div BlockSize) |->
        SubSeq(tokens, (i - 1) * BlockSize + 1, i * BlockSize)]

\* Only full blocks are hashed, each with everything before it.
BlockHashes(tokens) ==
    [i \in 1..(Len(tokens) \div BlockSize) |-> SubSeq(tokens, 1, i * BlockSize)]

FullBlocks(s) == Len(Prompt[s]) \div BlockSize
HashOf(s, i) == BlockHashes(Prompt[s])[i]
Hash == UNION {{HashOf(s, i) : i \in 1..FullBlocks(s)} : s \in SeqId}

-----------------------------------------------------------------------------
(* The prefix cache *)

Cached == {h \in Hash : cache[h] # NoBlock}
Idle == {h \in Cached : refs[h] = 0}

\* acquire_prefix matches contiguously: it stops at the first uncached block.
AcquirePrefix(s) ==
    CHOOSE k \in 0..FullBlocks(s) :
        /\ \A i \in 1..k : HashOf(s, i) \in Cached
        /\ k < FullBlocks(s) => HashOf(s, k + 1) \notin Cached

\* The cached blocks a new sequence keeps: never the whole prompt, whose last
\* token the prefill has to compute.
KeptPrefix(s) ==
    LET k == AcquirePrefix(s)
    IN IF k > 0 /\ k * BlockSize >= Len(Prompt[s]) THEN k - 1 ELSE k

\* The order of use once blocks from..to of s's prompt have been used in order.
Used(s, from, to) ==
    LET now == {HashOf(s, i) : i \in from..to}
        rest == Cached \ now
    IN {p \in older : p[1] \in rest /\ p[2] \in rest}
         \cup (rest \X now)
         \cup {p \in now \X now : Len(p[1]) < Len(p[2])}

\* evict_one, repeated by ensure_free: the least recently used of the idle
\* hashes, as many as it takes, or all of them.
Victims(idle, need, order) ==
    {E \in SUBSET idle :
        /\ IF need <= 0 THEN E = {}
           ELSE IF need >= Cardinality(idle) THEN E = idle
           ELSE Cardinality(E) = need
        /\ \A e \in E, h \in idle \ E : <<e, h>> \in order}

\* The pool after ensure_free evicted the hashes E.
FreeAfter(E) == free \cup {cache[h] : h \in E}

Evict(E, order) ==
    /\ cache' = [h \in Hash |-> IF h \in E THEN NoBlock ELSE cache[h]]
    /\ older' = {p \in order : p[1] \notin E /\ p[2] \notin E}

\* The ways to pop n blocks off the pool.
Popped(pool, n) ==
    {f \in [1..n -> pool] : \A i, j \in 1..n : f[i] = f[j] => i = j}

-----------------------------------------------------------------------------
(* The allocator *)

KvInit ==
    /\ free = Block
    /\ live = {}
    /\ table = [s \in SeqId |-> <<>>]
    /\ len = [s \in SeqId |-> 0]
    /\ held = [s \in SeqId |-> 0]
    /\ cache = [h \in Hash |-> NoBlock]
    /\ refs = [h \in Hash |-> 0]
    /\ older = {}

\* Seeded fault: cached blocks that are being read count as reclaimable.
ReclaimableAllCached == Cardinality(free) + Cardinality(Cached)

\* Idle cached blocks count towards the capacity: they are evicted on demand.
Reclaimable == Cardinality(free) + Cardinality(Idle)
CanAppend(seqLen, add) == BlocksFor(seqLen + add) - BlocksFor(seqLen) <= Reclaimable

\* Blocks a new sequence takes from the pool beyond the prefix it shares.
FreshNeed(s) == BlocksFor(Len(Prompt[s])) - KeptPrefix(s)
KeptHashes(s) == {HashOf(s, i) : i \in 1..KeptPrefix(s)}

AllocateWithPrefix(s) ==
    /\ s \notin live
    /\ LET k == KeptPrefix(s)
           order == Used(s, 1, AcquirePrefix(s))
       IN \E E \in Victims(Idle \ KeptHashes(s), FreshNeed(s) - Cardinality(free), order) :
            /\ Evict(E, order)
            /\ \E fresh \in Popped(FreeAfter(E), FreshNeed(s)) :
                 /\ free' = FreeAfter(E) \ {fresh[i] : i \in 1..FreshNeed(s)}
                 /\ table' = [table EXCEPT ![s] =
                        [i \in 1..k |-> cache[HashOf(s, i)]] \o fresh]
            /\ live' = live \cup {s}
            /\ len' = [len EXCEPT ![s] = Len(Prompt[s])]
            /\ held' = [held EXCEPT ![s] = k]
            /\ refs' = [h \in Hash |-> IF h \in KeptHashes(s) THEN refs[h] + 1 ELSE refs[h]]

\* OutOfBlocks: the references taken are given back; what was evicted to make
\* room stays evicted.
AllocateFits(s) == FreshNeed(s) <= Cardinality(free) + Cardinality(Idle \ KeptHashes(s))
AllocateFails(s) ==
    /\ s \notin live
    /\ ~AllocateFits(s)
    /\ LET order == Used(s, 1, AcquirePrefix(s))
       IN \E E \in Victims(Idle \ KeptHashes(s), FreshNeed(s) - Cardinality(free), order) :
            /\ Evict(E, order)
            /\ free' = FreeAfter(E)
    /\ UNCHANGED <<seqVars, refs>>

\* Seeded fault: the tokens appended are counted in blocks of their own.
GrowApart(s, add) == BlocksFor(add)

\* Blocks a sequence gains with `add' more tokens.
Grow(s, add) == BlocksFor(len[s] + add) - BlocksFor(len[s])

AppendTokens(s, add) ==
    /\ s \in live
    /\ \E E \in Victims(Idle, Grow(s, add) - Cardinality(free), older) :
         /\ Evict(E, older)
         /\ \E fresh \in Popped(FreeAfter(E), Grow(s, add)) :
              /\ free' = FreeAfter(E) \ {fresh[i] : i \in 1..Grow(s, add)}
              /\ table' = [table EXCEPT ![s] = @ \o fresh]
    /\ len' = [len EXCEPT ![s] = @ + add]
    /\ UNCHANGED <<live, held, refs>>

\* OutOfBlocks: the sequence is left as it was, never half grown.
AppendFits(s, add) == Grow(s, add) <= Reclaimable
AppendFails(s, add) ==
    /\ s \in live
    /\ ~AppendFits(s, add)
    /\ \E E \in Victims(Idle, Grow(s, add) - Cardinality(free), older) :
         /\ Evict(E, older)
         /\ free' = FreeAfter(E)
    /\ UNCHANGED <<seqVars, refs>>

\* Full prompt blocks of s that the cache does not manage for it yet, and those
\* among them that another sequence has published in the meantime.
Unpublished(s) == (held[s] + 1)..FullBlocks(s)
Lost(s) == {i \in Unpublished(s) : HashOf(s, i) \in Cached}
Won(s) == Unpublished(s) \ Lost(s)

\* Seeded fault: the blocks that lost an insert race are forgotten.
DuplicatesForgotten(s) == {}

Duplicates(s) == {table[s][i] : i \in Lost(s)}

\* The full prompt blocks are published under their hashes.  Where another
\* sequence was first, s adopts the cached block and gives its own back.
CommitPrefix(s) ==
    /\ s \in live
    /\ cache' = [h \in Hash |->
         IF \E i \in Won(s) : HashOf(s, i) = h
         THEN table[s][CHOOSE i \in Won(s) : HashOf(s, i) = h]
         ELSE cache[h]]
    /\ refs' = [h \in Hash |->
         IF \E i \in Unpublished(s) : HashOf(s, i) = h THEN refs[h] + 1 ELSE refs[h]]
    /\ free' = free \cup Duplicates(s)
    /\ table' = [table EXCEPT ![s] =
         [i \in 1..Len(@) |-> IF i \in Lost(s) THEN cache[HashOf(s, i)] ELSE @[i]]]
    /\ held' = [held EXCEPT ![s] = FullBlocks(s)]
    /\ older' = Used(s, held[s] + 1, FullBlocks(s))
    /\ UNCHANGED <<live, len>>

\* A rollback stays at or above the prompt, as the scheduler asks for it, so it
\* returns only blocks the sequence owns.
Trim(s, newLen) ==
    /\ s \in live
    /\ newLen \in Len(Prompt[s])..(len[s] - 1)
    /\ free' = free \cup {table[s][i] : i \in (BlocksFor(newLen) + 1)..Len(table[s])}
    /\ table' = [table EXCEPT ![s] = SubSeq(@, 1, BlocksFor(newLen))]
    /\ len' = [len EXCEPT ![s] = newLen]
    /\ UNCHANGED <<live, held, cache, refs, older>>

Holds(s, h) == \E i \in 1..held[s] : HashOf(s, i) = h
OwnedAt(s) == (held[s] + 1)..Len(table[s])

\* Seeded fault: the whole block table counts as the sequence's own.
OwnedWholeTable(s) == {table[s][i] : i \in 1..Len(table[s])}

Owned(s) == {table[s][i] : i \in OwnedAt(s)}

\* Seeded fault: a finished sequence keeps its references.
ReleasedNever(s) == refs

Released(s) ==
    [h \in Hash |-> IF Holds(s, h) /\ refs[h] > 0 THEN refs[h] - 1 ELSE refs[h]]

\* The cache managed blocks stay resident, with one reader less; the blocks the
\* sequence owns go back to the pool.
Free(s) ==
    /\ s \in live
    /\ free' = free \cup Owned(s)
    /\ refs' = Released(s)
    /\ live' = live \ {s}
    /\ table' = [table EXCEPT ![s] = <<>>]
    /\ len' = [len EXCEPT ![s] = 0]
    /\ held' = [held EXCEPT ![s] = 0]
    /\ UNCHANGED <<cache, older>>

-----------------------------------------------------------------------------
(* The allocator under any caller that keeps its contract *)

CONSTANT MaxLen   \* bound: the longest sequence a caller grows
ASSUME MaxLenAssumption == MaxLen \in Nat

KvNext ==
    \E s \in SeqId :
        \/ AllocateWithPrefix(s)
        \/ AllocateFails(s)
        \/ \E n \in 1..(MaxLen - len[s]) : AppendTokens(s, n) \/ AppendFails(s, n)
        \/ CommitPrefix(s)
        \/ \E n \in 0..MaxLen : Trim(s, n)
        \/ Free(s)

KvSpec == KvInit /\ [][KvNext]_kvVars

-----------------------------------------------------------------------------
(* Properties *)

KvTypeOK ==
    /\ free \subseteq Block
    /\ live \subseteq SeqId
    /\ table \in [SeqId -> Seq(Block)]
    /\ len \in [SeqId -> Nat]
    /\ held \in [SeqId -> Nat]
    /\ cache \in [Hash -> Block \cup {NoBlock}]
    /\ refs \in [Hash -> Nat]
    /\ older \subseteq Hash \X Hash

CachedBlocks == {cache[h] : h \in Cached}

\* No physical block has two uses (paged_kv.rs: a block is on the free list, in
\* the tail of one block table, or managed by the cache under one hash).  A
\* block handed out twice lets one request overwrite another's KV.
NoDoubleUse ==
    /\ \A s, t \in live : \A i \in OwnedAt(s), j \in OwnedAt(t) :
         table[s][i] = table[t][j] => s = t /\ i = j
    /\ \A g, h \in Cached : cache[g] = cache[h] => g = h
    /\ free \cap CachedBlocks = {}
    /\ \A s \in live : Owned(s) \cap (free \cup CachedBlocks) = {}

\* No physical block is lost: allocation, an insert race in commit_prefix, a
\* rollback and free give back every block that is not in use.
NoLeak == Block = free \cup CachedBlocks \cup UNION {Owned(s) : s \in live}

\* The reference count of a cached block is the number of live sequences that
\* hold it, so an idle block is one nobody reads and eviction is safe.
RefsExact ==
    \A h \in Hash : refs[h] = Cardinality({s \in live : Holds(s, h)})

\* A block table covers exactly the tokens stored, and its cache managed part
\* is the cached prefix of the sequence's own prompt.
TablesCover ==
    \A s \in live :
        /\ Len(table[s]) = BlocksFor(len[s])
        /\ held[s] <= FullBlocks(s)
        /\ Len(Prompt[s]) <= len[s]
        /\ \A i \in 1..held[s] : HashOf(s, i) \in Cached /\ table[s][i] = cache[HashOf(s, i)]

\* The inductive invariant the proofs rest on.
KvInv == KvTypeOK /\ NoDoubleUse /\ NoLeak /\ RefsExact /\ TablesCover

\* What can_append promises the scheduler: if the blocks of a whole prompt and
\* more are reclaimable, allocate_with_prefix does not run out, although the
\* prefix it shares stops being evictable before the rest is taken.
CanAppendCovers ==
    \A s \in SeqId \ live : \A n \in 0..MaxLen :
        CanAppend(0, Len(Prompt[s]) + n) => AllocateFits(s)

=============================================================================
