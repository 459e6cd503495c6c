---------------------------- MODULE RequestGate ----------------------------
(***************************************************************************)
(* The priority gate in front of a model that serves one request at a      *)
(* time (src/api/gate.rs).  max_in_flight permits; a request that finds    *)
(* none queues, and a finished request hands its permit straight to the    *)
(* best waiter through a one-shot channel, so in_flight counts permits     *)
(* held AND permits on their way.                                          *)
(*                                                                         *)
(* The gate's state is behind an async mutex no critical section awaits    *)
(* under: each is one action.  What is not atomic is what lies between     *)
(* two of them: a waiter sees its permit or its deadline first and locks   *)
(* the gate later; a guard dropped while the lock is taken releases from a *)
(* spawned task; and a handler whose client went away is dropped at any    *)
(* await.                                                                  *)
(***************************************************************************)
EXTENDS Integers, FiniteSets

CONSTANTS
    Request,            \* calls of acquire_with_info_timeout, each its own req_id
    Priority,           \* 0 batch, 1 interactive, 2 fill-in-the-middle
    MaxInFlight,
    CancelWithPermit    \* whether a handler may be dropped with a permit it
                        \* has been sent and has not yet turned into a guard

ASSUME PriorityAssumption == Priority \in [Request -> 0..2]
ASSUME MaxAssumption == MaxInFlight \in Nat \ {0}
ASSUME RequestAssumption == IsFiniteSet(Request)

VARIABLES
    in_flight,
    waiters,        \* the heap, as the set of the requests with an entry in it
    seq,            \* the entry's place in the arrival order
    seq_counter,
    tracked,        \* what /api/inflight shows of each request
    rx,             \* the one-shot channel the request waits on
    pc              \* where the request stands between two critical sections

gateVars == <<in_flight, waiters, seq, seq_counter, tracked, rx, pc>>

TrackedState == {"absent", "Queued", "Running"}
ChannelState == {"none", "empty", "sent", "closed"}
Phase == {"new",        \* has not locked the gate yet
          "waiting",    \* in select!: the permit or the deadline
          "woken",      \* took the permit from the channel, awaits the lock
          "expired",    \* the deadline fired, awaits the lock
          "holding",    \* has its RequestGuard
          "dropped",    \* guard dropped while the lock was taken
          "done"}

GateTypeOK ==
    /\ in_flight \in 0..MaxInFlight
    /\ waiters \subseteq Request
    /\ seq \in [Request -> Nat]
    /\ seq_counter \in Nat
    /\ tracked \in [Request -> TrackedState]
    /\ rx \in [Request -> ChannelState]
    /\ pc \in [Request -> Phase]

GateInit ==
    /\ in_flight = 0
    /\ waiters = {}
    /\ seq = [r \in Request |-> 0]
    /\ seq_counter = 0
    /\ tracked = [r \in Request |-> "absent"]
    /\ rx = [r \in Request |-> "none"]
    /\ pc = [r \in Request |-> "new"]

-----------------------------------------------------------------------------
PrecedesFifo(r, s) == seq[r] < seq[s]

\* The heap order: higher priority first, first come first within one.
Precedes(r, s) ==
    \/ Priority[r] > Priority[s]
    \/ Priority[r] = Priority[s] /\ seq[r] < seq[s]

ListeningAll(ws, ch) == ws

\* A send reaches a receiver that still exists.
Listening(ws, ch) == {w \in ws : ch[w] # "closed"}

\* What a send does to the channel: nothing, once the receiver is gone.
Delivered(ch, w) == [ch EXCEPT ![w] = IF @ = "closed" THEN @ ELSE "sent"]

Forgotten(ws, tr) == [r \in Request |-> IF r \in ws THEN "absent" ELSE tr[r]]

ReleaseOnce(ws, tr, ch) ==
    \/ \E next \in ws :
         /\ \A w \in ws \ {next} : Precedes(next, w)
         /\ waiters' = ws \ {next}
         /\ tracked' = IF ch[next] = "closed" THEN Forgotten({next}, tr) ELSE tr
         /\ rx' = Delivered(ch, next)
         /\ in_flight' = IF ch[next] = "closed" THEN in_flight - 1 ELSE in_flight
    \/ /\ ws = {}
       /\ UNCHANGED waiters
       /\ tracked' = tr
       /\ rx' = ch
       /\ in_flight' = in_flight - 1

\* Pop waiters until a send lands; the dead ones on the way lose their entry.
\* Only when the queue is empty is the permit given back.
Release(ws, tr, ch) ==
    LET live == Listening(ws, ch)
    IN \/ \E next \in live :
            /\ \A w \in live \ {next} : Precedes(next, w)
            /\ LET popped == {w \in ws : w # next /\ Precedes(w, next)}
               IN /\ waiters' = (ws \ popped) \ {next}
                  /\ tracked' = Forgotten(popped, tr)
            /\ rx' = Delivered(ch, next)
            /\ UNCHANGED in_flight
       \/ /\ live = {}
          /\ waiters' = {}
          /\ tracked' = Forgotten(ws, tr)
          /\ rx' = ch
          /\ in_flight' = IF in_flight > 0 THEN in_flight - 1 ELSE 0

-----------------------------------------------------------------------------
\* acquire_with_info_timeout finds a permit free.
AcquireNow(r) ==
    /\ pc[r] = "new"
    /\ in_flight < MaxInFlight
    /\ in_flight' = in_flight + 1
    /\ tracked' = [tracked EXCEPT ![r] = "Running"]
    /\ pc' = [pc EXCEPT ![r] = "holding"]
    /\ UNCHANGED <<waiters, seq, seq_counter, rx>>

\* It finds none, and queues.
Enqueue(r) ==
    /\ pc[r] = "new"
    /\ in_flight >= MaxInFlight
    /\ waiters' = waiters \cup {r}
    /\ seq' = [seq EXCEPT ![r] = seq_counter]
    /\ seq_counter' = seq_counter + 1
    /\ tracked' = [tracked EXCEPT ![r] = "Queued"]
    /\ rx' = [rx EXCEPT ![r] = "empty"]
    /\ pc' = [pc EXCEPT ![r] = "waiting"]
    /\ UNCHANGED in_flight

\* select! takes the permit out of the channel ...
Wake(r) ==
    /\ pc[r] = "waiting"
    /\ rx[r] = "sent"
    /\ rx' = [rx EXCEPT ![r] = "closed"]
    /\ pc' = [pc EXCEPT ![r] = "woken"]
    /\ UNCHANGED <<in_flight, waiters, seq, seq_counter, tracked>>

\* ... or the deadline, even when the permit has landed too.
Expire(r) ==
    /\ pc[r] = "waiting"
    /\ pc' = [pc EXCEPT ![r] = "expired"]
    /\ UNCHANGED <<in_flight, waiters, seq, seq_counter, tracked, rx>>

StartUnmarked(r) ==
    /\ pc[r] = "woken"
    /\ pc' = [pc EXCEPT ![r] = "holding"]
    /\ UNCHANGED <<in_flight, waiters, seq, seq_counter, tracked, rx>>

\* A woken request locks the gate to mark itself running, and has its guard.
Start(r) ==
    /\ pc[r] = "woken"
    /\ tracked' = [tracked EXCEPT ![r] = IF @ = "absent" THEN @ ELSE "Running"]
    /\ pc' = [pc EXCEPT ![r] = "holding"]
    /\ UNCHANGED <<in_flight, waiters, seq, seq_counter, rx>>

GiveUpKeepingPermit(r) ==
    /\ pc[r] = "expired"
    /\ waiters' = waiters \ {r}
    /\ tracked' = Forgotten({r}, tracked)
    /\ rx' = [rx EXCEPT ![r] = "closed"]
    /\ pc' = [pc EXCEPT ![r] = "done"]
    /\ UNCHANGED <<in_flight, seq, seq_counter>>

\* An expired request locks the gate to leave it, and passes on the permit
\* that reached it between its deadline and the lock.
GiveUp(r) ==
    /\ pc[r] = "expired"
    /\ LET tr == Forgotten({r}, tracked)
           ch == [rx EXCEPT ![r] = "closed"]
       IN \/ /\ r \notin waiters /\ rx[r] = "sent"
             /\ Release(waiters, tr, ch)
          \/ /\ r \in waiters \/ rx[r] # "sent"
             /\ waiters' = waiters \ {r}
             /\ tracked' = tr
             /\ rx' = ch
             /\ UNCHANGED in_flight
    /\ pc' = [pc EXCEPT ![r] = "done"]
    /\ UNCHANGED <<seq, seq_counter>>

\* The guard's drop cannot take the lock at once: a task will release.
DropBusy(r) ==
    /\ pc[r] = "holding"
    /\ pc' = [pc EXCEPT ![r] = "dropped"]
    /\ UNCHANGED <<in_flight, waiters, seq, seq_counter, tracked, rx>>

\* The guard's drop, or that task, with the lock.
Drop(r) ==
    /\ pc[r] \in {"holding", "dropped"}
    /\ Release(waiters, Forgotten({r}, tracked), rx)
    /\ pc' = [pc EXCEPT ![r] = "done"]
    /\ UNCHANGED <<seq, seq_counter>>

\* The receiver goes with the handler; what the gate holds of the request
\* stays.
Abandon(r) ==
    /\ rx' = [rx EXCEPT ![r] = "closed"]
    /\ pc' = [pc EXCEPT ![r] = "done"]
    /\ UNCHANGED <<in_flight, waiters, seq, seq_counter, tracked>>

\* The client goes away: axum drops the handler at its await.
Cancel(r) ==
    /\ pc[r] \in {"waiting", "woken", "expired"}
    /\ \/ pc[r] # "woken" /\ rx[r] = "empty"
       \/ CancelWithPermit
    /\ Abandon(r)

-----------------------------------------------------------------------------
GateNext ==
    \E r \in Request :
        \/ AcquireNow(r) \/ Enqueue(r)
        \/ Wake(r) \/ Expire(r) \/ Start(r) \/ GiveUp(r)
        \/ DropBusy(r) \/ Drop(r)
        \/ Cancel(r)

GateSpec == GateInit /\ [][GateNext]_gateVars

\* Tasks the runtime polls get on, and a generation ends.  The deadline is
\* not relied on, nor that a client goes away.
GateFairness ==
    \A r \in Request :
        /\ WF_gateVars(Wake(r)) /\ WF_gateVars(Start(r))
        /\ WF_gateVars(GiveUp(r)) /\ WF_gateVars(Drop(r))

GateLiveSpec == GateSpec /\ GateFairness

-----------------------------------------------------------------------------
\* The requests that own a permit: with a guard, with a release pending, or
\* with the permit somewhere between release()'s send and their guard.
HasGuard == {r \in Request : pc[r] \in {"holding", "dropped"}}
InTransit == {r \in Request : pc[r] = "woken" \/ rx[r] = "sent"}
Owners == HasGuard \cup InTransit

\* Every permit counted in flight is owned by exactly one request that will
\* use it or give it back: release() and the timeout path neither lose a
\* permit nor hand it out twice, whatever falls between a send and its
\* receipt, and at most max_in_flight generations run at a time.
PermitsOwned ==
    /\ GateTypeOK
    /\ in_flight = Cardinality(Owners)
    /\ in_flight <= MaxInFlight
    /\ HasGuard \cap InTransit = {}

\* While a permit is free nobody queues: a newcomer that takes it at once in
\* acquire_with_info_timeout goes past no waiter, live or dead.
NoIdlePermit == in_flight < MaxInFlight => waiters = {}

\* A step that makes a request the owner of a permit, whether it comes to a
\* gate with a permit free or is the waiter release() sends one to, leaves
\* nobody listening in the queue whom it should not pass: whoever still waits
\* is of a lower priority, or of the same and arrived later.
NoOvertaking ==
    [][\A s \in Owners' \ Owners, r \in Listening(waiters, rx') :
          r # s => /\ s \in waiters
                   /\ Priority[r] <= Priority[s]
                   /\ Priority[r] = Priority[s] => seq[s] < seq[r]]_gateVars

\* /api/inflight tells the truth: Running is a guard not yet released,
\* Queued a heap entry or a permit on its way, and nothing else is listed.
TrackedFaithful ==
    \A r \in Request :
        /\ tracked[r] = "Running" <=> r \in HasGuard
        /\ tracked[r] = "Queued" <=> r \in waiters \cup InTransit

\* A queued request is served or leaves once the generations before it end,
\* whatever becomes of the waiters in front of it.
QueuedIsServed ==
    \A r \in Request : pc[r] = "waiting" ~> pc[r] \in {"holding", "done"}

\* "no slot is ever leaked": once nobody is at the gate, no permit is out.
NoSlotLeaked ==
    (\A r \in Request : pc[r] \in {"new", "done"}) => in_flight = 0
=============================================================================
