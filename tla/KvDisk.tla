------------------------------ MODULE KvDisk ------------------------------
(***************************************************************************)
(* The disk tier under the KV snapshots (src/inference/cache/kv_disk.rs)   *)
(* and the engine code that drives it (llm_engine/load.rs).  A sequence is *)
(* written as block files named by a hash chained over the model and the   *)
(* tokens, with a side file for the windowed layers, and a manifest naming *)
(* them.  Every engine opens a store of its own, with its own in-memory    *)
(* index, over the one configured directory.                               *)
(*                                                                         *)
(* A restore runs under the model lock; a persist copies the rows out      *)
(* under that lock and writes them later, on its own thread, under the     *)
(* store's persist lock.  A step is a critical section of the index lock   *)
(* or one file operation.  Tokens are counted in blocks, and a hash is the *)
(* thing hashed: collisions are left out.                                  *)
(***************************************************************************)
EXTENDS Integers, Sequences, FiniteSets

CONSTANTS
    Engine, Model,
    ModelOf,        \* the model each engine has loaded
    LayoutOf,       \* kv_layout_id: layer count, heads, head size
    Window,         \* blocks a windowed layer holds before it slides
    Served,         \* the token sequences each engine serves, in blocks
    Thread,         \* persist threads
    Budgets,        \* kv_disk_budget in files; 0 is no limit
    MaxRequests,    \* bound: restores and persists begun
    MaxClock,       \* bound: seconds that pass
    MaxFaults       \* bound: files damaged and restarts of the process

Conversation == UNION {Served[e] : e \in Engine}
Prefixes(s) == {SubSeq(s, 1, n) : n \in 1..Len(s)}
Prefix == UNION {Prefixes(c) : c \in Conversation}

ASSUME ConversationAssumption ==
    /\ IsFiniteSet(Conversation)
    /\ \A c \in Conversation : c \in Seq(Nat) /\ c # <<>>
ASSUME EngineAssumption ==
    /\ ModelOf \in [Engine -> Model]
    /\ LayoutOf \in [Model -> Nat]
    /\ Window \in [Model -> Nat]
    /\ Budgets \subseteq Nat
ASSUME BoundAssumption ==
    {MaxRequests, MaxClock, MaxFaults} \subseteq Nat

VARIABLES
    files,          \* blocks/: what each file holds
    manifests,      \* manifests/: one file per last block hash
    budget,
    open,           \* engines whose store is open
    index,          \* each store's manifests, in memory
    restore,        \* the restore an engine runs under its model lock
    persist,        \* the persist each thread runs
    requests, clock, damages, restarts,
    shared,         \* history: two stores have been open at once
    kept            \* history: sequences whose persist returned

vars == <<files, manifests, budget, open, index, restore, persist,
          requests, clock, damages, restarts, shared, kept>>

-----------------------------------------------------------------------------
\* The windowed layers of a sequence longer than the window have slid: their
\* rows are not in its blocks but in its side file.
Slid(m, p) == Len(p) > Window[m]

\* block_chain hashes the model into every block; the side file's name is
\* hashed from the layout and the tokens alone.
KvFile(m, p) == <<"kv", m, p>>
WindowFile(m, p) == <<"window", LayoutOf[m], p>>
FileName ==
    {KvFile(m, p) : m \in Model, p \in Prefix}
        \cup {WindowFile(m, p) : m \in Model, p \in Prefix}

Chain(m, p) == [n \in 1..Len(p) |-> KvFile(m, SubSeq(p, 1, n))]

\* The rows a model exports, with or without those of its windowed layers.
Export(m, slid) == <<"rows", m, slid>>
Rows == {Export(m, slid) : m \in Model, slid \in BOOLEAN}
Absent == <<"absent">>
Damaged == <<"damaged">>
Content == Rows \cup {Absent, Damaged}
OnDisk(f) == files[f] # Absent

Manifest == [model : Model, tokens : Prefix, last_used : 0..MaxClock]

\* manifest_path: two manifests with one last block share their file.
SamePath(a, b) == a.model = b.model /\ a.tokens = b.tokens

WindowBlob(mf) ==
    IF Slid(mf.model, mf.tokens) THEN {WindowFile(mf.model, mf.tokens)} ELSE {}
Names(mf) ==
    {KvFile(mf.model, p) : p \in Prefixes(mf.tokens)} \cup WindowBlob(mf)
Items(s) == {s[i] : i \in DOMAIN s}

\* The entries of s at the positions DOMAIN upto, in the order in which upto
\* gives each position the ones up to it.
Arranged(s, upto) ==
    [k \in 1..Cardinality(DOMAIN upto) |->
        s[CHOOSE i \in DOMAIN upto : Cardinality(upto[i]) = k]]

\* retain: what is left of s, in its order.
Without(s, gone) ==
    LET left == {i \in DOMAIN s : s[i] \notin gone}
    IN Arranged(s, [i \in left |-> {j \in left : j <= i}])

Take(s, n) == IF n < Len(s) THEN SubSeq(s, 1, n) ELSE s

-----------------------------------------------------------------------------
NoRestore == [at |-> "idle"]
NoPersist == [at |-> "idle"]

RestoreState ==
    {NoRestore} \cup
    [at : {"chosen", "checked", "chain", "reading", "failed", "imported"},
     prompt : Conversation, mi : Nat \ {0}, covered : Nat \ {0},
     chain : Seq(FileName), window : SUBSET FileName, rows : Seq(Rows),
     chosen : Manifest, still : BOOLEAN]    \* history: what best() found, and
                                            \* whether it was there each time
PersistState ==
    {NoPersist} \cup
    [at : {"staged", "blocks", "manifest", "index", "collect"},
     engine : Engine, tokens : Prefix, staged : SUBSET Nat, next : Nat \ {0},
     last_used : 0..MaxClock,
     disturbed : BOOLEAN]   \* history: someone else lost it a block

\* The state variables have the types the store's structures give them.
KvTypeOK ==
    /\ files \in [FileName -> Content]
    /\ manifests \subseteq Manifest
    /\ budget \in Budgets
    /\ open \subseteq Engine
    /\ index \in [Engine -> Seq(Manifest)]
    /\ restore \in [Engine -> RestoreState]
    /\ persist \in [Thread -> PersistState]
    /\ requests \in 0..MaxRequests
    /\ clock \in 0..MaxClock
    /\ damages \in Nat /\ restarts \in Nat
    /\ damages + restarts <= MaxFaults
    /\ shared \in BOOLEAN
    /\ kept \subseteq Model \X Prefix
    /\ \A a, b \in manifests : SamePath(a, b) => a = b
    /\ \A e \in Engine : \A i, j \in DOMAIN index[e] :
           SamePath(index[e][i], index[e][j]) => i = j

Init ==
    /\ files = [f \in FileName |-> Absent]
    /\ manifests = {}
    /\ budget \in Budgets
    /\ open = {}
    /\ index = [e \in Engine |-> <<>>]
    /\ restore = [e \in Engine |-> NoRestore]
    /\ persist = [t \in Thread |-> NoPersist]
    /\ requests = 0 /\ clock = 0 /\ damages = 0 /\ restarts = 0
    /\ shared = FALSE
    /\ kept = {}

-----------------------------------------------------------------------------
\* KvDiskStore::open, when an engine is created: every readable manifest, in
\* the order the directory lists them.
Open(e) ==
    /\ e \notin open
    /\ open' = open \cup {e}
    /\ \E order \in [1..Cardinality(manifests) -> manifests] :
          /\ Items(order) = manifests
          /\ index' = [index EXCEPT ![e] = order]
    /\ shared' = (shared \/ open # {})
    /\ UNCHANGED <<requests, files, manifests, budget, restore, persist,
                   clock, damages, restarts, kept>>

\* The process stops at any step; what was on its threads and in its memory
\* is gone, and the directory stays as the last file operation left it.
Restart ==
    /\ damages + restarts < MaxFaults
    /\ restarts' = restarts + 1
    /\ open' = {}
    /\ index' = [e \in Engine |-> <<>>]
    /\ restore' = [e \in Engine |-> NoRestore]
    /\ persist' = [t \in Thread |-> NoPersist]
    /\ UNCHANGED <<requests, files, manifests, budget, clock, damages,
                   shared, kept>>

\* What the removal or damage of files does to the persists under way.
Disturbed(lost, others) ==
    [t \in Thread |->
        IF /\ persist[t].at # "idle"
           /\ persist[t].engine \in others
           /\ \E p \in Prefixes(persist[t].tokens) :
                 KvFile(ModelOf[persist[t].engine], p) \in lost
        THEN [persist[t] EXCEPT !.disturbed = TRUE]
        ELSE persist[t]]

\* A file goes bad on the disk: a block, or a manifest, which no later open
\* can read (and removes).
Damage ==
    /\ damages + restarts < MaxFaults
    /\ damages' = damages + 1
    /\ \/ \E f \in FileName :
            /\ OnDisk(f)
            /\ files' = [files EXCEPT ![f] = Damaged]
            /\ UNCHANGED manifests
       \/ \E mf \in manifests :
            /\ manifests' = manifests \ {mf}
            /\ UNCHANGED files
    /\ UNCHANGED <<requests, budget, open, index, restore, persist, clock,
                   restarts, shared, kept>>

-----------------------------------------------------------------------------
SharedBlocks(mf, prompt) ==
    Cardinality(Prefixes(mf.tokens) \cap Prefixes(prompt))

\* best(): the longest shared chain among the model's manifests, the last of
\* equals, by its position.
Best(e, c) ==
    LET fits == {i \in DOMAIN index[e] :
                    /\ index[e][i].model = ModelOf[e]
                    /\ SharedBlocks(index[e][i], c) > 0}
    IN {i \in fits : \A j \in fits :
            LET si == SharedBlocks(index[e][i], c)
                sj == SharedBlocks(index[e][j], c)
            IN sj < si \/ (sj = si /\ j <= i)}

\* A prompt of which memory covers less: the model lock is taken for the
\* whole restore.
Find(e, c) ==
    /\ e \in open /\ restore[e].at = "idle"
    /\ requests < MaxRequests
    /\ requests' = requests + 1
    /\ \E i \in Best(e, c) :
         restore' = [restore EXCEPT ![e] =
            [at |-> "chosen", prompt |-> c, mi |-> i,
             covered |-> SharedBlocks(index[e][i], c),
             chain |-> <<>>, window |-> {}, rows |-> <<>>,
             chosen |-> index[e][i], still |-> TRUE]]
    /\ UNCHANGED <<files, manifests, budget, open, index, persist, clock,
                   damages, restarts, shared, kept>>

RestoreStep(e, next) ==
    /\ restore' = [restore EXCEPT ![e] = next]
    /\ UNCHANGED <<requests, files, manifests, budget, open, index, persist,
                   clock, damages, restarts, shared, kept>>

At(e) == restore[e].mi \in DOMAIN index[e]
Found(e) == index[e][restore[e].mi]
StillThere(e) ==
    restore[e].still /\ At(e) /\ SamePath(Found(e), restore[e].chosen)

\* Seeded fault: the side file is taken for any shared prefix.
CheckNothing(e) ==
    /\ restore[e].at = "chosen"
    /\ RestoreStep(e, [restore[e] EXCEPT !.at = "checked"])

\* windowed_ok: a side file is reused only with the whole prefix it was
\* written for.  manifest_windowed and manifest_covered lock the index one
\* after the other; a change between them is one between them and load().
CheckWindow(e) ==
    /\ restore[e].at = "chosen"
    /\ RestoreStep(e,
         IF At(e) => \/ WindowBlob(Found(e)) = {}
                    \/ restore[e].covered = Len(Found(e).tokens)
         THEN [restore[e] EXCEPT !.at = "checked", !.still = StillThere(e)]
         ELSE NoRestore)

\* load() copies the chain of the manifest now at that position ...
ReadChain(e) ==
    /\ restore[e].at = "checked"
    /\ RestoreStep(e,
         IF At(e)
         THEN [restore[e] EXCEPT
                 !.at = "chain",
                 !.chain = Take(Chain(Found(e).model, Found(e).tokens),
                                restore[e].covered),
                 !.still = StillThere(e)]
         ELSE NoRestore)

\* ... and the name of its side file, under the lock a second time.
ReadWindowName(e) ==
    /\ restore[e].at = "chain"
    /\ RestoreStep(e, [restore[e] EXCEPT
            !.at = "reading",
            !.window = IF At(e) THEN WindowBlob(Found(e)) ELSE {},
            !.still = StillThere(e)])

NextBlock(e) == restore[e].chain[Len(restore[e].rows) + 1]

\* read_block of the next block of the chain.
ReadBlock(e) ==
    /\ restore[e].at = "reading"
    /\ Len(restore[e].rows) < Len(restore[e].chain)
    /\ RestoreStep(e,
         IF files[NextBlock(e)] \in Rows
         THEN [restore[e] EXCEPT !.rows = Append(@, files[NextBlock(e)])]
         ELSE [restore[e] EXCEPT !.at = "failed"])

\* The side file fills the layers the blocks left out, and the rows become
\* the resident KV of the prompt's covered blocks.  A side file that cannot
\* be read fails the load, and nothing is forgotten.
ReadWindow(e) ==
    /\ restore[e].at = "reading"
    /\ Len(restore[e].rows) = Len(restore[e].chain)
    /\ \/ /\ restore[e].window = {}
          /\ RestoreStep(e, [restore[e] EXCEPT !.at = "imported"])
       \/ \E f \in restore[e].window :
            RestoreStep(e,
              IF files[f] \in Rows
              THEN [restore[e] EXCEPT !.at = "imported",
                                      !.rows = Append(@, files[f])]
              ELSE NoRestore)

\* forget_block: the file, every manifest of this index that names it, and
\* their files.
Forget(e) ==
    /\ restore[e].at = "failed"
    /\ LET f == NextBlock(e)
           gone == {mf \in Items(index[e]) : f \in Names(mf)}
       IN /\ files' = [files EXCEPT ![f] = Absent]
          /\ index' = [index EXCEPT ![e] = Without(@, gone)]
          /\ manifests' = {mf \in manifests : \A g \in gone : ~SamePath(mf, g)}
          /\ persist' = Disturbed({f}, Engine)
    /\ restore' = [restore EXCEPT ![e] = NoRestore]
    /\ UNCHANGED <<requests, budget, open, clock, damages, restarts, shared,
                   kept>>

\* The generation over the imported KV ends and the model lock is released.
Release(e) ==
    /\ restore[e].at = "imported"
    /\ RestoreStep(e, NoRestore)

-----------------------------------------------------------------------------
\* The model a persist writes for, and the block it is at.
PModel(t) == ModelOf[persist[t].engine]
PBlock(t, n) == KvFile(PModel(t), SubSeq(persist[t].tokens, 1, n))
PSlid(t) == Slid(PModel(t), persist[t].tokens)
PRows(t) == Export(PModel(t), PSlid(t))

\* spawn_persist after a response: under the model lock, the rows of the
\* blocks not on disk are copied out.
Stage(t, e, c) ==
    /\ e \in open /\ restore[e].at = "idle" /\ persist[t].at = "idle"
    /\ requests < MaxRequests
    /\ requests' = requests + 1
    /\ persist' = [persist EXCEPT ![t] =
         [at |-> "staged", engine |-> e, tokens |-> c,
          staged |-> {n \in 1..Len(c) : ~OnDisk(Chain(ModelOf[e], c)[n])},
          next |-> 1, last_used |-> 0, disturbed |-> FALSE]]
    /\ UNCHANGED <<files, manifests, budget, open, index, restore, clock,
                   damages, restarts, shared, kept>>

PersistStep(t, next) ==
    /\ persist' = [persist EXCEPT ![t] = next]
    /\ UNCHANGED <<budget, open, restore, requests, damages, restarts,
                   shared>>

Locked(e) == \E t \in Thread :
    /\ persist[t].at \in {"blocks", "manifest", "index", "collect"}
    /\ persist[t].engine = e

\* Seeded fault: persists of one store run side by side.
LockShared(t) ==
    /\ persist[t].at = "staged"
    /\ PersistStep(t, [persist[t] EXCEPT !.at = "blocks"])
    /\ UNCHANGED <<files, manifests, index, clock, kept>>

\* persist() takes the store's persist_lock.
Lock(t) ==
    /\ persist[t].at = "staged"
    /\ ~Locked(persist[t].engine)
    /\ PersistStep(t, [persist[t] EXCEPT !.at = "blocks"])
    /\ UNCHANGED <<files, manifests, index, clock, kept>>

\* The next block: left alone when its file is there, written when it was
\* staged; a block gone since the staging fails the persist, and what it
\* wrote stays behind.
WriteBlock(t) ==
    /\ persist[t].at = "blocks"
    /\ persist[t].next <= Len(persist[t].tokens)
    /\ LET f == PBlock(t, persist[t].next)
       IN \/ /\ OnDisk(f)
             /\ PersistStep(t, [persist[t] EXCEPT !.next = @ + 1])
             /\ UNCHANGED files
          \/ /\ ~OnDisk(f) /\ persist[t].next \in persist[t].staged
             /\ files' = [files EXCEPT ![f] = PRows(t)]
             /\ PersistStep(t, [persist[t] EXCEPT !.next = @ + 1])
          \/ /\ ~OnDisk(f) /\ persist[t].next \notin persist[t].staged
             /\ PersistStep(t, NoPersist)
             /\ UNCHANGED files
    /\ UNCHANGED <<manifests, index, clock, kept>>

\* The side file of layers that have slid, left alone when it is there, and
\* then the second the manifest is stamped with.  Nothing else reads the
\* clock: the time that has passed is chosen here.
WriteWindow(t) ==
    /\ persist[t].at = "blocks"
    /\ persist[t].next > Len(persist[t].tokens)
    /\ LET f == WindowFile(PModel(t), persist[t].tokens)
       IN files' = IF PSlid(t) /\ ~OnDisk(f)
                   THEN [files EXCEPT ![f] = PRows(t)] ELSE files
    /\ clock' \in clock..MaxClock
    /\ PersistStep(t, [persist[t] EXCEPT
            !.at = "manifest", !.staged = {}, !.last_used = clock'])
    /\ UNCHANGED <<manifests, index, kept>>

Written(t) == [model |-> PModel(t), tokens |-> persist[t].tokens,
               last_used |-> persist[t].last_used]

\* The manifest's file, by a rename over what was there.
WriteManifest(t) ==
    /\ persist[t].at = "manifest"
    /\ manifests' =
         {mf \in manifests : ~SamePath(mf, Written(t))} \cup {Written(t)}
    /\ PersistStep(t, [persist[t] EXCEPT !.at = "index"])
    /\ UNCHANGED <<files, index, clock, kept>>

\* A write fails, with the disk full for one: the persist returns, with
\* neither undo nor collection.
WriteFails(t) ==
    /\ \/ persist[t].at = "manifest"
       \/ /\ persist[t].at = "blocks"
          /\ IF persist[t].next <= Len(persist[t].tokens)
             THEN ~OnDisk(PBlock(t, persist[t].next))
             ELSE PSlid(t) /\ ~OnDisk(WindowFile(PModel(t), persist[t].tokens))
    /\ PersistStep(t, NoPersist)
    /\ UNCHANGED <<files, manifests, index, clock, kept>>

\* Seeded fault: starts_with the wrong way round.
ExtendsNew(new, mf) ==
    mf.model = new.model /\ new.tokens \in Prefixes(mf.tokens)

\* A manifest of the same conversation, a turn earlier.
ExtendedBy(new, mf) ==
    mf.model = new.model /\ mf.tokens \in Prefixes(new.tokens)

\* The new manifest enters the index in place of those it extends, whose
\* files stay in the directory.
EnterIndex(t) ==
    /\ persist[t].at = "index"
    /\ LET old == {mf \in Items(index[persist[t].engine]) :
                      ExtendedBy(Written(t), mf)}
       IN index' = [index EXCEPT ![persist[t].engine] =
                        Append(Without(@, old), Written(t))]
    /\ PersistStep(t, [persist[t] EXCEPT !.at = "collect"])
    /\ UNCHANGED <<files, manifests, clock, kept>>

\* sort_by_key(Reverse(last_used)), which is stable.
NewestFirst(s) ==
    Arranged(s, [i \in DOMAIN s |-> {j \in DOMAIN s :
                        \/ s[j].last_used > s[i].last_used
                        \/ s[j].last_used = s[i].last_used /\ j <= i}])

\* Seeded fault: the budget is not applied.
KeepAll(s) == s

\* The files on disk that a manifest adds to those of the ones before it, kept
\* or dropped.
Fresh(s, k) ==
    {f \in Names(s[k]) \ UNION {Names(s[j]) : j \in 1..(k - 1)} : OnDisk(f)}

\* One manifest after another is charged its fresh files and kept if they fit;
\* the first always is.
Walk(s) ==
    LET walk[k \in 0..Len(s)] ==
            IF k = 0 THEN [total |-> 0, keep |-> <<>>]
            ELSE LET total == walk[k - 1].total + Cardinality(Fresh(s, k))
                 IN IF total > budget /\ walk[k - 1].keep # <<>>
                    THEN walk[k - 1]
                    ELSE [total |-> total, keep |-> Append(walk[k - 1].keep, s[k])]
    IN walk

\* The manifests that fit the budget, newest first.
Keep(s) ==
    IF budget = 0 THEN s
    ELSE Walk(NewestFirst(s))[Len(s)].keep

\* collect_garbage, under the index lock: manifests over the budget go with
\* their files, then every block file this index does not name.
CollectGarbage(t) ==
    /\ persist[t].at = "collect"
    /\ LET e == persist[t].engine
           keep == Keep(index[e])
           dropped == Items(index[e]) \ Items(keep)
           named == UNION {Names(mf) : mf \in Items(keep)}
       IN /\ index' = [index EXCEPT ![e] = keep]
          /\ manifests' =
               {mf \in manifests : \A d \in dropped : ~SamePath(mf, d)}
          /\ files' =
               [f \in FileName |-> IF f \in named THEN files[f] ELSE Absent]
          /\ persist' = [Disturbed(FileName \ named, Engine \ {e})
                            EXCEPT ![t] = NoPersist]
    /\ kept' = kept \cup {<<PModel(t), persist[t].tokens>>}
    /\ UNCHANGED <<requests, budget, open, restore, clock, damages, restarts,
                   shared>>

-----------------------------------------------------------------------------
RestoreNext(e) ==
    \/ CheckWindow(e) \/ ReadChain(e) \/ ReadWindowName(e)
    \/ ReadBlock(e) \/ ReadWindow(e) \/ Forget(e) \/ Release(e)

PersistNext(t) ==
    \/ Lock(t) \/ WriteBlock(t) \/ WriteWindow(t) \/ WriteManifest(t)
    \/ WriteFails(t) \/ EnterIndex(t) \/ CollectGarbage(t)

Next ==
    \/ \E e \in Engine : Open(e)
    \/ \E e \in Engine : \E c \in Served[e] : Find(e, c)
    \/ \E e \in Engine : RestoreNext(e)
    \/ \E t \in Thread, e \in Engine : \E c \in Served[e] : Stage(t, e, c)
    \/ \E t \in Thread : PersistNext(t)
    \/ Damage \/ Restart

Spec == Init /\ [][Next]_vars

-----------------------------------------------------------------------------
\* The rows an engine imports are the KV its own model computes for the
\* prompt's covered blocks: the chain is the prompt's, the windowed layers
\* are in the blocks or in the side file and never in both or neither, and
\* no block of another model or another length came in.
Exact(e) ==
    LET r == restore[e]
        p == SubSeq(r.prompt, 1, r.covered)
        slid == Slid(ModelOf[e], p)
    IN /\ r.chain = Chain(ModelOf[e], p)
       /\ r.window = IF slid THEN {WindowFile(ModelOf[e], p)} ELSE {}
       /\ \A n \in DOMAIN r.rows : r.rows[n] = Export(ModelOf[e], slid)

\* Whatever crashes, damage, failed writes, collections by other stores and
\* persists of its own came in between, a restore that found the manifest
\* best() chose at its position each time it looked there imports exactly the
\* prompt's KV.
ImportFaithful ==
    \A e \in Engine :
        restore[e].at = "imported" /\ restore[e].still => Exact(e)

\* persist_lock does its work: no collection of the store's own takes a
\* block from under the persist that wrote it or counted on it.
SweepSparesWriter ==
    /\ KvTypeOK
    /\ \A t \in Thread :
        (persist[t].at \notin {"idle", "staged"} /\ ~persist[t].disturbed)
            => \A n \in 1..(persist[t].next - 1) : OnDisk(PBlock(t, n))

\* While one store at a time has the directory, there is no limit and no
\* file goes bad, a crash at any step costs nothing that was persisted: the
\* directory always names a manifest that covers it, with all its blocks,
\* and so does the index of the store that is open.
Durable ==
    (~shared /\ budget = 0 /\ damages = 0) =>
        \A k \in kept :
            LET Covers(mf) == /\ mf.model = k[1]
                              /\ k[2] \in Prefixes(mf.tokens)
                              /\ \A f \in Names(mf) : files[f] \in Rows
            IN /\ \E mf \in manifests : Covers(mf)
               /\ \A e \in open : \E mf \in Items(index[e]) : Covers(mf)

\* A collection leaves no file its index does not name, and what it keeps
\* fits the budget, but for the first manifest and for the blocks a dropped
\* manifest had already been charged for.
CollectionFits ==
    [][\A t \in Thread :
        (budget > 0 /\ CollectGarbage(t)) =>
            LET e == persist[t].engine
                dropped == UNION {Names(mf) :
                                    mf \in Items(index[e]) \ Items(index'[e])}
                left == {f \in FileName : files'[f] # Absent}
            IN \/ Len(index'[e]) = 1
               \/ Cardinality(left \ dropped) <= budget]_vars
=============================================================================
