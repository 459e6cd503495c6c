--------------------------- MODULE ContinuousBatch ---------------------------
(***************************************************************************)
(* Continuous batching: the iteration-level scheduler                      *)
(* (serve/scheduler.rs), the batch engine (serve/continuous_batch.rs) and  *)
(* the worker thread that owns them (serve/continuous_serve.rs), over the  *)
(* paged KV allocator of PagedKv.                                          *)
(*                                                                         *)
(* Clients submit requests through a channel and read a stream of          *)
(* messages.  The worker is one thread: it takes in what was submitted,    *)
(* schedules a step (grow the running sequences oldest first, preempting   *)
(* the newest under block pressure, then admit waiting ones), runs the     *)
(* model, publishes new prefixes, finishes sequences and sends the tokens. *)
(* One action is one iteration of one of its loops; `pc' is where it is.   *)
(*                                                                         *)
(* The KV a slot holds is the token sequence it was computed from: a       *)
(* forward reads the KV of the position before through the block table and *)
(* extends it, so reading a wrong or unwritten slot shows.  A generated    *)
(* token is <<s, n>>, the n-th of sequence s.                              *)
(***************************************************************************)
EXTENDS PagedKv

CONSTANTS
    MaxRunning,        \* sequences decoded in one step
    MaxPrefillTokens,  \* prompt tokens one step admits
    MaxNew             \* generation budget of each request

ASSUME SchedulerAssumption ==
    /\ MaxRunning \in Nat \ {0}
    /\ MaxPrefillTokens \in Nat
    /\ MaxNew \in [SeqId -> Nat \ {0}]

\* MaxLen bounds the allocator's callers; the budgets of these requests stay
\* below it.  The token a request ends on is never stored.
ASSUME LengthAssumption == \A s \in SeqId : Len(Prompt[s]) + MaxNew[s] <= MaxLen + 1

MaxFails == 3   \* consecutive step errors that stop the worker

VARIABLES
    inbox,      \* the submission channel
    connected,  \* the server handle still holds the sending end
    arrival,    \* arrival number of a sequence, 0 before the worker took it in
    waiting,    \* Scheduler.waiting, front first
    running,    \* Scheduler.running
    gen,        \* Sequence.generated
    reqs,       \* the requests the engine keeps state for
    tokens,     \* ReqState.generated
    admitted,   \* requests whose prompt a step has started
    notices,    \* admissions not yet reported
    plan,       \* the BatchPlan of this step
    ends,       \* sequences that sampled an end token this step
    done,       \* sequences finished this step, with the reason
    kv,         \* block, offset -> the tokens the KV there was computed from
    out,        \* messages sent to the client of a request
    fails,      \* consecutive step errors
    pc,         \* where the worker is
    at,         \* index of the loop it is in
    budget      \* prefill tokens left in this step

schedVars == <<arrival, waiting, running, gen>>
engineVars == <<reqs, tokens, admitted, notices>>
stepVars == <<plan, ends, done, budget>>
clientVars == <<inbox, connected, out>>
vars == <<kvVars, schedVars, engineVars, stepVars, clientVars, kv, fails, pc, at>>

Members(q) == {q[i] : i \in 1..Len(q)}
RemoveIndex(q, i) == [j \in 1..(Len(q) - 1) |-> IF j < i THEN q[j] ELSE q[j + 1]]

NoPlan == [prefills |-> <<>>, decodes |-> <<>>]
Prefilled == {p.seq : p \in Members(plan.prefills)}
Decoded == {d.seq : d \in Members(plan.decodes)}

History(s) == Prompt[s] \o tokens[s]

\* Seeded fault: what a preempted sequence generated is not recomputed.
CtxLenPromptOnly(s) == Len(Prompt[s])

CtxLen(s) == Len(Prompt[s]) + gen[s]

\* The physical slot of the 0-based position pos under block table t.
SlotAt(t, pos) == <<t[(pos \div BlockSize) + 1], pos % BlockSize>>
KvAt(slot) == kv[slot[1]][slot[2]]

-----------------------------------------------------------------------------
Init ==
    /\ KvInit
    /\ inbox = <<>> /\ connected = TRUE
    /\ arrival = [s \in SeqId |-> 0]
    /\ waiting = <<>> /\ running = <<>>
    /\ gen = [s \in SeqId |-> 0]
    /\ reqs = {} /\ admitted = {} /\ notices = {}
    /\ tokens = [s \in SeqId |-> <<>>]
    /\ plan = NoPlan /\ ends = {} /\ done = {}
    /\ kv = [b \in Block |-> [o \in 0..(BlockSize - 1) |-> <<>>]]
    /\ out = [s \in SeqId |-> <<>>]
    /\ fails = 0 /\ pc = "drain" /\ at = 1 /\ budget = 0

-----------------------------------------------------------------------------
(* Clients *)

Submit(s) ==
    /\ connected
    /\ arrival[s] = 0 /\ s \notin Members(inbox)
    /\ inbox' = Append(inbox, s)
    /\ UNCHANGED <<kvVars, schedVars, engineVars, stepVars, connected, out, kv, fails, pc, at>>

\* ContinuousServer::stop drops the sending end and joins the worker.
Stop ==
    /\ connected
    /\ connected' = FALSE
    /\ UNCHANGED <<kvVars, schedVars, engineVars, stepVars, inbox, out, kv, fails, pc, at>>

-----------------------------------------------------------------------------
(* The worker between steps *)

IsIdle == waiting = <<>> /\ running = <<>>

Receive ==
    /\ pc = "drain" /\ inbox # <<>>
    /\ LET s == Head(inbox)
       IN /\ arrival' = [arrival EXCEPT ![s] = 1 + Cardinality({t \in SeqId : arrival[t] > 0})]
          /\ waiting' = Append(waiting, s)
          /\ reqs' = reqs \cup {s}
    /\ inbox' = Tail(inbox)
    /\ UNCHANGED <<kvVars, running, gen, tokens, admitted, notices, stepVars, connected,
                   out, kv, fails, pc, at>>

Exit ==
    /\ pc = "drain" /\ inbox = <<>> /\ ~connected /\ IsIdle
    /\ pc' = "stopped"
    /\ UNCHANGED <<kvVars, schedVars, engineVars, stepVars, clientVars, kv, fails, at>>

ByArrival(q) ==
    [i \in 1..Len(q) |->
        CHOOSE s \in Members(q) :
            Cardinality({t \in Members(q) : arrival[t] < arrival[s]}) = i - 1]

BeginStep ==
    /\ pc = "drain" /\ inbox = <<>> /\ ~IsIdle
    /\ running' = ByArrival(running)
    /\ plan' = NoPlan
    /\ pc' = "grow" /\ at' = 1
    /\ UNCHANGED <<kvVars, arrival, waiting, gen, engineVars, ends, done, budget,
                   clientVars, kv, fails>>

-----------------------------------------------------------------------------
(* Scheduler::schedule, first part: grow the running sequences *)

Panic ==
    /\ pc' = "panicked"
    /\ UNCHANGED <<schedVars, engineVars, stepVars, clientVars, kv, fails, at>>

GrowOne ==
    /\ pc = "grow" /\ at <= Len(running)
    /\ LET s == running[at]
       IN /\ CanAppend(len[s], 1)
          /\ IF AppendFits(s, 1)
             THEN /\ AppendTokens(s, 1)
                  /\ plan' = [plan EXCEPT !.decodes = Append(@,
                        [seq |-> s, slot |-> SlotAt(table'[s], len[s]), table |-> table'[s]])]
                  /\ at' = at + 1
                  /\ UNCHANGED <<schedVars, engineVars, ends, done, budget, clientVars, kv, fails, pc>>
             ELSE AppendFails(s, 1) /\ Panic

\* Seeded fault: a preempted sequence queues at the back.
RequeueBack(v) == Append(waiting, v)

Newest == Len(running)
Requeue(v) == <<v>> \o waiting

\* The newest running sequence gives its blocks up and goes to the front of the
\* queue, to be recomputed; it may be the very one that could not grow.
Preempt ==
    /\ pc = "grow" /\ at <= Len(running)
    /\ ~CanAppend(len[running[at]], 1)
    /\ Free(running[Newest])
    /\ running' = RemoveIndex(running, Newest)
    /\ waiting' = Requeue(running[Newest])
    /\ UNCHANGED <<arrival, gen, engineVars, stepVars, clientVars, kv, fails, pc, at>>

GrowDone ==
    /\ pc = "grow" /\ at > Len(running)
    /\ pc' = "admit" /\ budget' = MaxPrefillTokens
    /\ UNCHANGED <<kvVars, schedVars, engineVars, plan, ends, done, clientVars, kv, fails, at>>

-----------------------------------------------------------------------------
(* Scheduler::schedule, second part: admit waiting sequences *)

\* Seeded fault: a prompt over the budget waits even for a step of its own.
AdmissibleInBudget ==
    /\ Len(running) < MaxRunning
    /\ waiting # <<>>
    /\ CtxLen(Head(waiting)) <= budget
    /\ CanAppend(0, CtxLen(Head(waiting)))

\* The front of the queue fits this step: width, token budget and blocks.
Admissible ==
    /\ Len(running) < MaxRunning
    /\ waiting # <<>>
    /\ LET need == CtxLen(Head(waiting))
       IN /\ need <= budget \/ plan.prefills = <<>>
          /\ CanAppend(0, need)

BudgetLess(need) == IF need > budget THEN 0 ELSE budget - need

Admit ==
    /\ pc = "admit" /\ Admissible
    /\ LET s == Head(waiting)
       IN IF AllocateFits(s)
          THEN /\ AllocateWithPrefix(s)
               /\ pc' = "extend"
               /\ UNCHANGED <<schedVars, engineVars, stepVars, clientVars, kv, fails, at>>
          ELSE AllocateFails(s) /\ Panic

\* A sequence that was preempted prefills the tokens it generated as well.
Extend ==
    /\ pc = "extend"
    /\ LET s == Head(waiting)
           cached == held[s] * BlockSize
       IN IF AppendFits(s, gen[s])
          THEN /\ IF gen[s] > 0 THEN AppendTokens(s, gen[s]) ELSE UNCHANGED kvVars
               /\ plan' = [plan EXCEPT !.prefills = Append(@,
                    [seq |-> s, cached |-> cached, table |-> table'[s],
                     slots |-> [i \in 1..(CtxLen(s) - cached) |-> SlotAt(table'[s], cached + i - 1)]])]
               /\ budget' = BudgetLess(CtxLen(s))
               /\ waiting' = Tail(waiting)
               /\ running' = Append(running, s)
               /\ pc' = "admit"
               /\ UNCHANGED <<arrival, gen, engineVars, ends, done, clientVars, kv, fails, at>>
          ELSE AppendFails(s, gen[s]) /\ Panic

\* Seeded fault: a recomputed sequence is announced again.
NewlyStartedEachPrefill == Prefilled

NewlyStarted == Prefilled \ admitted

\* An empty plan ends the step; otherwise the model inputs are built.
AdmitDone ==
    /\ pc = "admit" /\ ~Admissible
    /\ IF plan = NoPlan
       THEN /\ pc' = "drain" /\ fails' = 0 /\ notices' = {}
            /\ UNCHANGED admitted
       ELSE /\ pc' = "forward"
            /\ admitted' = admitted \cup Prefilled
            /\ notices' = notices \cup NewlyStarted
            /\ UNCHANGED fails
    /\ UNCHANGED <<kvVars, schedVars, reqs, tokens, stepVars, clientVars, kv, at>>

-----------------------------------------------------------------------------
(* The batched forward *)

\* What a prefill item computes at its j-th slot, and a decode item at its slot.
PrefillKv(p, j) ==
    LET base == IF p.cached = 0 THEN <<>> ELSE KvAt(SlotAt(p.table, p.cached - 1))
    IN base \o SubSeq(History(p.seq), p.cached + 1, p.cached + j)

DecodeKv(d) ==
    LET pos == len[d.seq] - 1
        last == tokens[d.seq][Len(tokens[d.seq])]
    IN Append(KvAt(SlotAt(d.table, pos - 1)), last)

StepSlots ==
    (UNION {Members(p.slots) : p \in Members(plan.prefills)})
      \cup {d.slot : d \in Members(plan.decodes)}

Computed(slot) ==
    LET fromPrefill == {PrefillKv(x[1], x[2]) :
            x \in {y \in Members(plan.prefills) \X (1..MaxLen) :
                     y[2] \in 1..Len(y[1].slots) /\ y[1].slots[y[2]] = slot}}
        fromDecode == {DecodeKv(d) : d \in {e \in Members(plan.decodes) : e.slot = slot}}
    IN CHOOSE c \in fromPrefill \cup fromDecode : TRUE

Written(content) ==
    [b \in Block |-> [o \in 0..(BlockSize - 1) |->
        IF <<b, o>> \in StepSlots THEN content[<<b, o>>] ELSE kv[b][o]]]

ForwardOk ==
    /\ pc = "forward"
    /\ kv' = Written([slot \in StepSlots |-> Computed(slot)])
    /\ ends' \in SUBSET (Prefilled \cup Decoded)
    /\ pc' = "publish" /\ at' = 1
    /\ UNCHANGED <<kvVars, schedVars, engineVars, plan, done, budget, clientVars, fails>>

\* A failed step may have written any part of its slots: what they hold is taken
\* for garbage, the KV of no sequence.
ForwardErr ==
    /\ pc = "forward"
    /\ kv' = Written([slot \in StepSlots |-> <<>>])
    /\ fails' = fails + 1
    /\ pc' = "abort"
    /\ UNCHANGED <<kvVars, schedVars, engineVars, stepVars, clientVars, at>>

-----------------------------------------------------------------------------
(* After the forward *)

Publish ==
    /\ pc = "publish" /\ at <= Len(plan.prefills)
    /\ CommitPrefix(plan.prefills[at].seq)
    /\ at' = at + 1
    /\ UNCHANGED <<schedVars, engineVars, stepVars, clientVars, kv, fails, pc>>

Record ==
    /\ pc = "publish" /\ at > Len(plan.prefills)
    /\ tokens' = [s \in SeqId |->
         IF s \in Prefilled \cup Decoded
         THEN Append(tokens[s], <<s, Len(tokens[s]) + 1>>) ELSE tokens[s]]
    /\ pc' = "finish" /\ at' = 1
    /\ UNCHANGED <<kvVars, schedVars, reqs, admitted, notices, stepVars, clientVars, kv, fails>>

\* Seeded fault: the budget is passed by one token.
OutcomeOneMore(s) ==
    IF s \in ends THEN "Eos" ELSE IF gen[s] >= MaxNew[s] THEN "Length" ELSE "Runs"

\* Scheduler::on_step_done, one running sequence at a time.
Outcome(s) ==
    IF s \in ends THEN "Eos" ELSE IF gen[s] + 1 >= MaxNew[s] THEN "Length" ELSE "Runs"

Finish ==
    /\ pc = "finish" /\ at <= Len(running)
    /\ LET s == running[at]
       IN /\ gen' = [gen EXCEPT ![s] = @ + 1]
          /\ IF Outcome(s) = "Runs"
             THEN /\ at' = at + 1
                  /\ UNCHANGED <<kvVars, running, reqs, done>>
             ELSE /\ Free(s)
                  /\ running' = RemoveIndex(running, at)
                  /\ reqs' = reqs \ {s}
                  /\ done' = done \cup {<<s, Outcome(s)>>}
                  /\ UNCHANGED at
    /\ UNCHANGED <<arrival, waiting, tokens, admitted, notices, plan, ends, budget,
                   clientVars, kv, fails, pc>>

\* The messages of one step to the client of s, in the order they are sent.
\* The token a sequence ended on is no content.
StepMessages(s) ==
    (IF s \in notices THEN <<[type |-> "Admitted"]>> ELSE <<>>)
      \o (IF s \in (Prefilled \cup Decoded) /\ <<s, "Eos">> \notin done
          THEN <<[type |-> "Tok", tok |-> tokens[s][Len(tokens[s])]]>> ELSE <<>>)
      \o (IF \E d \in done : d[1] = s
          THEN <<[type |-> "Done", reason |-> (CHOOSE d \in done : d[1] = s)[2]]>> ELSE <<>>)

IsDone(s) == \E i \in 1..Len(out[s]) : out[s][i].type = "Done"
Open == {s \in SeqId : arrival[s] > 0 /\ ~IsDone(s)}

Emit ==
    /\ pc = "finish" /\ at > Len(running)
    /\ out' = [s \in SeqId |-> IF s \in Open THEN out[s] \o StepMessages(s) ELSE out[s]]
    /\ fails' = 0 /\ notices' = {}
    /\ plan' = NoPlan /\ ends' = {} /\ done' = {}
    /\ pc' = "drain" /\ at' = 1
    /\ UNCHANGED <<kvVars, schedVars, reqs, tokens, admitted, budget, inbox, connected, kv>>

\* abort_all after a step error: free what runs, then drop the queues and tell
\* the clients.  The worker gives up after MaxFails errors in a row.
\* Seeded fault: the sequences are dropped with their blocks.
AbortOneLeaking ==
    /\ pc = "abort" /\ running # <<>>
    /\ running' = Tail(running)
    /\ UNCHANGED <<kvVars, arrival, waiting, gen, engineVars, stepVars, clientVars, kv, fails,
                   pc, at>>

AbortOne ==
    /\ pc = "abort" /\ running # <<>>
    /\ Free(Head(running))
    /\ running' = Tail(running)
    /\ UNCHANGED <<arrival, waiting, gen, engineVars, stepVars, clientVars, kv, fails, pc, at>>

AbortDone ==
    /\ pc = "abort" /\ running = <<>>
    /\ waiting' = <<>> /\ reqs' = {}
    /\ out' = [s \in SeqId |->
         IF s \in Open /\ (s \in reqs \/ fails >= MaxFails)
         THEN Append(out[s], [type |-> "Done", reason |-> "Stop"]) ELSE out[s]]
    /\ pc' = IF fails >= MaxFails THEN "stopped" ELSE "drain"
    /\ plan' = NoPlan /\ at' = 1
    /\ UNCHANGED <<kvVars, arrival, running, gen, tokens, admitted, notices, ends, done, budget,
                   inbox, connected, kv, fails>>

-----------------------------------------------------------------------------
Worker ==
    \/ Receive \/ Exit \/ BeginStep
    \/ GrowOne \/ Preempt \/ GrowDone
    \/ Admit \/ Extend \/ AdmitDone
    \/ ForwardOk \/ ForwardErr
    \/ Publish \/ Record \/ Finish \/ Emit
    \/ AbortOne \/ AbortDone

Next == Stop \/ Worker \/ \E s \in SeqId : Submit(s)

Spec == Init /\ [][Next]_vars

\* The worker is a thread that runs until it returns.
FairSpec == Spec /\ WF_vars(Worker)

-----------------------------------------------------------------------------
(* Properties *)

Slot == Block \X (0..(BlockSize - 1))
GenToken == SeqId \X Nat
Message == [type : {"Admitted"}] \cup [type : {"Tok"}, tok : GenToken]
             \cup [type : {"Done"}, reason : {"Eos", "Length", "Stop"}]

TypeOK ==
    /\ KvTypeOK
    /\ inbox \in Seq(SeqId) /\ connected \in BOOLEAN
    /\ arrival \in [SeqId -> Nat]
    /\ waiting \in Seq(SeqId) /\ running \in Seq(SeqId)
    /\ gen \in [SeqId -> Nat]
    /\ reqs \subseteq SeqId /\ admitted \subseteq SeqId /\ notices \subseteq SeqId
    /\ tokens \in [SeqId -> Seq(GenToken)]
    /\ plan.prefills \in
         Seq([seq : SeqId, cached : Nat, table : Seq(Block), slots : Seq(Slot)])
    /\ plan.decodes \in Seq([seq : SeqId, slot : Slot, table : Seq(Block)])
    /\ ends \subseteq SeqId
    /\ done \subseteq SeqId \X {"Eos", "Length"}
    /\ kv \in [Block -> [0..(BlockSize - 1) -> Seq(Token \cup GenToken)]]
    /\ out \in [SeqId -> Seq(Message)]
    /\ fails \in 0..MaxFails
    /\ pc \in {"drain", "grow", "admit", "extend", "forward", "publish", "finish",
               "abort", "stopped", "panicked"}
    /\ at \in Nat \ {0} /\ budget \in 0..MaxPrefillTokens

\* No `expect' of the scheduler fires: what can_append promised before a
\* sequence is grown or admitted, the allocator then delivers, although the
\* admission first takes references that make idle blocks unevictable.
NoPanic == pc # "panicked"

\* The KV a sequence reads through its block table is that of its own prompt
\* and its own tokens, position by position, whatever was shared, evicted,
\* preempted, recomputed or half written by a failed step; only the slots the
\* step in progress is to write are exempt.
SequenceKvFaithful ==
    \A s \in Members(running) : \A p \in 0..(len[s] - 1) :
        LET slot == SlotAt(table[s], p)
        IN \/ KvAt(slot) = SubSeq(History(s), 1, p + 1)
           \/ pc \in {"grow", "admit", "extend", "forward", "abort"} /\ slot \in StepSlots

\* A block in the prefix cache holds the KV of exactly the tokens its hash
\* stands for, from the moment it is published until it is evicted.
CachedKvFaithful ==
    \A h \in Cached : \A o \in 0..(BlockSize - 1) :
        KvAt(<<cache[h], o>>) = SubSeq(h, 1, Len(h) - BlockSize + o + 1)

StepCoversRunning ==
    pc = "forward" =>
        /\ Members(running) = Prefilled \cup Decoded
        /\ Prefilled \cap Decoded = {}
        /\ Len(running) = Len(plan.prefills) + Len(plan.decodes)

\* First come, first served through every preemption: the queue is in arrival
\* order and everything that runs arrived before everything that waits.
FirstComeFirstServed ==
    /\ \A i, j \in 1..Len(waiting) : i < j => arrival[waiting[i]] < arrival[waiting[j]]
    /\ \A s \in Members(running), t \in Members(waiting) : arrival[s] < arrival[t]

\* The stream of a request, across preemptions and recomputation: it opens with
\* Admitted, then come its tokens, none lost and none twice, and Done closes
\* it; a stream that ended on its budget holds exactly the budget.
StreamFaithful ==
    \A s \in SeqId :
        LET m == out[s]
            toks == {i \in 1..Len(m) : m[i].type = "Tok"}
        IN /\ \A i \in 1..Len(m) :
                /\ m[i].type = "Admitted" <=> i = 1 /\ m[1].type # "Done"
                /\ m[i].type = "Done" => i = Len(m)
                /\ i \in toks => m[i].tok = <<s, i - 1>>
           /\ (m # <<>> /\ m[Len(m)] = [type |-> "Done", reason |-> "Length"])
                => Cardinality(toks) = MaxNew[s]

HoldersRun ==
    /\ pc # "extend" => live = Members(running)
    /\ pc \in {"drain", "stopped"} /\ running = <<>> =>
         Cardinality(free) + Cardinality(Idle) = Cardinality(Block)

\* The scheduler, the engine and the allocator agree on who runs.  When the
\* model runs, every running sequence is in the step exactly once, since
\* on_step_done advances each of them by one token on that ground; KV is held
\* only for running sequences, so an idle or stopped worker holds none, and
\* what is not free is idle in the cache.  The state keeps its types with it.
RunningAgreed == TypeOK /\ StepCoversRunning /\ HoldersRun

\* Every request the worker can hold ends: its stream is closed by Done, or the
\* worker has stopped and the channel with it.
EveryRequestEnds ==
    \A s \in SeqId : (s \in Members(inbox)) ~> (IsDone(s) \/ pc = "stopped")

\* A server told to stop stops, once the sequences it serves have finished.
StopEnds == ~connected ~> pc = "stopped"
=============================================================================
