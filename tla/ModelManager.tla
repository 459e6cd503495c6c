---------------------------- MODULE ModelManager ----------------------------
(***************************************************************************)
(* The list of loaded language models (src/api/handlers/model_manager.rs,  *)
(* the loader of mod.rs and load_for_request of admission.rs).  A request  *)
(* loads its model if it is not there, may reload it with a wider window,  *)
(* takes the engine from the list, sets the keep-alive timer anew and only *)
(* then is counted on the engine.  Timers, clients that unload, loads that *)
(* need the room and the mover of idle models take entries out of the list *)
(* meanwhile; and a handler whose client leaves is dropped at any await.   *)
(*                                                                         *)
(* The list is behind an async read-write lock; each hold of it is one     *)
(* action, except the timer's, which keeps it while the model unloads.  A  *)
(* timer is a task of its own: it is spawned before its handle is put in   *)
(* the list, dropping the handle does not end it, and an abort that finds  *)
(* it between its sleep and the lock only ends it at its next await.       *)
(* Sizes, placements and the order of use are abstracted to free choices;  *)
(* every model has one copy.                                               *)
(***************************************************************************)
EXTENDS Integers, FiniteSets, Sequences, SequencesExt

CONSTANTS
    Model,
    Request,
    Wanted,         \* the model each request names
    Keep,           \* its keep_alive: "period", or "never" to expire
    Wide,           \* the requests with a num_ctx above the configured context
    Client,         \* clients that unload a model (keep_alive 0, no prompt)
    Unwanted,       \* the model each of them names
    Mover,          \* the pass of migrate_idle_models
    Left,           \* the models an earlier request may have left in the list
    MaxMoves,       \* bound on the models it moves
    MaxTimers,      \* timers at a time
    MaxEngines      \* engines somebody holds at a time

ASSUME WantedAssumption == Wanted \in [Request -> Model] /\ Unwanted \in [Client -> Model]
ASSUME KeepAssumption == Keep \in [Request -> {"period", "never"}]
ASSUME WideAssumption == Wide \subseteq Request /\ Left \subseteq Model
ASSUME BoundsAssumption == MaxMoves \in Nat /\ {MaxTimers, MaxEngines} \subseteq Nat \ {0}

Actor == Request \cup Client \cup {Mover}
Nobody == "nobody"

ASSUME ActorAssumption ==
    /\ Request \cap Client = {} /\ Mover \notin Request \cup Client
    /\ Nobody \notin Actor

VARIABLES
    engines,        \* APIServer::engines, in the order of the list
    writer,         \* the timer that holds the list while it unloads
    loading_locks,  \* who holds the loading lock of each model
    timers,         \* the keep-alive tasks
    at,             \* where an actor stands
    job,            \* the model and the keep-alive it is at work for
    hand,           \* the engine it has loaded, and the timer spawned for it
    eng,            \* the engine it got from the list
    tried,          \* the models a load has evicted
    moves,
    kept            \* history: the requests whose reset found their engine's entry

workVars == <<job, hand, eng, tried, moves>>
vars == <<engines, writer, loading_locks, timers, at, workVars, kept>>

NoTimer == 0
NoEngine == 0
EmptyHand == [engine |-> NoEngine, timer |-> NoTimer]
Spare == [st |-> "none"]

\* A keep-alive task: "set" when it is spawned, "stray" once it is left without
\* an entry, "late" when it was aborted past its sleep.
Asleep(m, more) == [st |-> "asleep", kind |-> "set", model |-> m, after |-> more]
NoJob == [model |-> "none", keep |-> "never"]

Phase == {"out", "lock", "recheck", "room", "loaded",           \* ensure_loaded
          "widen", "narrow", "unloaded", "widened", "restored",
          "lookup", "found", "ready", "running", "done",
          "scan", "chosen", "fast"}                             \* the mover

ManagerTypeOK ==
    /\ \A i \in DOMAIN engines :
         /\ engines[i].model \in Model /\ engines[i].engine \in 1..MaxEngines
         /\ engines[i].timer \in 0..MaxTimers
    /\ writer \in 0..MaxTimers
    /\ loading_locks \in [Model -> Actor \cup {Nobody}]
    /\ at \in [Actor -> Phase]
    /\ hand \in [Actor -> [engine : 0..MaxEngines, timer : 0..MaxTimers]]
    /\ eng \in [Actor -> 0..MaxEngines]
    /\ moves \in 0..MaxMoves
    /\ kept \subseteq Request

\* Earlier requests have left one model, to stay or with its timer, or none.
Init ==
    /\ \E list \in {<<>>} \cup {<<[model |-> m, engine |-> 1, keep |-> k, wide |-> FALSE,
                                 timer |-> IF k = "period" THEN 1 ELSE NoTimer]>> :
                                 m \in Left, k \in {"period", "never"}} :
         /\ engines = list
         /\ timers = [t \in 1..MaxTimers |->
                         IF \E i \in DOMAIN list : list[i].timer = t
                         THEN Asleep(list[1].model, {}) ELSE Spare]
    /\ writer = NoTimer
    /\ loading_locks = [m \in Model |-> Nobody]
    /\ at = [a \in Actor |-> "out"]
    /\ job = [a \in Actor |->
                CASE a \in Request -> [model |-> Wanted[a], keep |-> Keep[a]]
                  [] a \in Client -> [model |-> Unwanted[a], keep |-> "never"]
                  [] a = Mover -> NoJob]
    /\ hand = [a \in Actor |-> EmptyHand] /\ eng = [a \in Actor |-> NoEngine]
    /\ tried = [a \in Actor |-> {}]
    /\ moves = 0
    /\ kept = {}

-----------------------------------------------------------------------------
Of(m) == {i \in DOMAIN engines : engines[i].model = m}
Listed(m) == Of(m) # {}
First(m) == CHOOSE i \in Of(m) : \A j \in Of(m) : i <= j
Entry(m) == engines[First(m)]

ListFree == writer = NoTimer
Goto(a, p) == at' = [at EXCEPT ![a] = p]
InFlight(e) == {r \in Request : at[r] = "running" /\ eng[r] = e}

\* An engine nobody refers to, for the next load; the same for timers, whose
\* handle a list entry or a loader may keep past their end.  A step that needs one waits
\* until there is one: the bounds MaxEngines and MaxTimers.
FreeEngines ==
    {e \in 1..MaxEngines :
        /\ \A i \in DOMAIN engines : engines[i].engine # e
        /\ \A a \in Actor : hand[a].engine # e /\ eng[a] # e
        /\ \A t \in 1..MaxTimers : timers[t].st = "unloading" => timers[t].engine # e}
FreshEngine == CHOOSE e \in FreeEngines : TRUE
FreeTimers ==
    {t \in 1..MaxTimers :
        /\ timers[t] = Spare
        /\ \A i \in DOMAIN engines : engines[i].timer # t
        /\ \A a \in Actor : hand[a].timer # t}
FreshTimer == CHOOSE t \in FreeTimers : TRUE

\* JoinHandle::abort: the timer is gone, or the abort is late: the timer is past
\* its sleep and the runtime is polling it, or gets there before release_named,
\* which has let the list go by then, aborts it.
Aborts(ts, t) ==
    IF t = NoTimer \/ ts[t] = Spare THEN {ts}
    ELSE {[ts EXCEPT ![t] = Spare], [ts EXCEPT ![t].kind = "late"]}

\* schedule_expiration.  The period outlasts the admission of a request that
\* has reset the timer: it begins after the resets of these.
Scheduled(ts, t, m, more) ==
    [ts EXCEPT ![t] = Asleep(m, more \cup {r \in Request : at[r] = "ready" /\ job[r].model = m})]

\* The handle of a timer is dropped, if there is one: the timer lives on.
Detach(t) ==
    \/ t # NoTimer /\ timers' = [timers EXCEPT ![t].kind = "stray"]
    \/ t = NoTimer /\ UNCHANGED timers

\* The request is past its reset.
Settled(r) ==
    [t \in 1..MaxTimers |-> IF timers[t].st = "asleep"
                           THEN [timers[t] EXCEPT !.after = @ \ {r}] ELSE timers[t]]

-----------------------------------------------------------------------------
(* Taking a model out: release_named.  Nothing in the list refers to the   *)
(* engine any more, so the unload that follows is no step of its own.      *)

\* Seeded fault: an entry that leaves the list leaves its timer behind.
TakeOutKeepingTimer(m) ==
    /\ ListFree
    /\ engines' = IF Listed(m) THEN RemoveAt(engines, First(m)) ELSE engines
    /\ UNCHANGED timers

\* The first entry of the name, if there is one, leaves the list, and its timer
\* is aborted.
TakeOut(m) ==
    /\ ListFree
    /\ \/ /\ Listed(m)
          /\ engines' = RemoveAt(engines, First(m))
          /\ timers' \in Aborts(timers, Entry(m).timer)
       \/ /\ ~Listed(m)
          /\ UNCHANGED <<engines, timers>>

\* A pass of the mover begins, unless one is under way.
Woken(pcs) == [pcs EXCEPT ![Mover] = IF @ = "out" /\ moves < MaxMoves THEN "scan" ELSE @]

\* A client asks for a model to be unloaded.  The mover follows in a task of
\* its own, unless the unload fails or the client leaves during it.
Unload(c) ==
    /\ at[c] = "out"
    /\ TakeOut(job[c].model)
    /\ LET left == [at EXCEPT ![c] = "done"] IN at' \in {left, Woken(left)}
    /\ UNCHANGED <<writer, loading_locks, workVars, kept>>

-----------------------------------------------------------------------------
(* ensure_loaded_with_window *)

\* What follows once the model is there.
Served(a) == CASE a = Mover -> "scan" [] a \in Wide -> "widen" [] OTHER -> "lookup"

FastPath(a) ==
    /\ \/ a \in Request /\ at[a] = "out"
       \/ a = Mover /\ at[a] = "fast"
    /\ ListFree
    /\ Goto(a, IF Listed(job[a].model) THEN Served(a) ELSE "lock")
    /\ UNCHANGED <<engines, writer, loading_locks, timers, workVars, kept>>

TakeLock(a) ==
    /\ at[a] = "lock" /\ loading_locks[job[a].model] = Nobody
    /\ loading_locks' = [loading_locks EXCEPT ![job[a].model] = a]
    /\ Goto(a, "recheck")
    /\ UNCHANGED <<engines, writer, timers, workVars, kept>>

Unlock(a) == loading_locks' = [loading_locks EXCEPT ![job[a].model] = Nobody]

\* Seeded fault: no second look at the list under the loading lock.
RecheckNothing(a) ==
    /\ at[a] = "recheck" /\ ListFree
    /\ Goto(a, "room")
    /\ UNCHANGED <<engines, writer, loading_locks, timers, workVars, kept>>

\* Another request may have loaded the model while this one waited.
Recheck(a) ==
    /\ at[a] = "recheck" /\ ListFree
    /\ \/ Listed(job[a].model) /\ Unlock(a) /\ Goto(a, Served(a))
       \/ ~Listed(job[a].model) /\ Goto(a, "room") /\ UNCHANGED loading_locks
    /\ UNCHANGED <<engines, writer, timers, workVars, kept>>

\* evict_to_make_room, and evict_idle_llm when the load runs out of memory:
\* another model gives way, each at most once, whether or not it is in use.
Evict(a) ==
    /\ at[a] = "room"
    /\ \E m \in Model \ ({job[a].model} \cup tried[a]) :
         /\ Listed(m)
         /\ TakeOut(m)
         /\ tried' = [tried EXCEPT ![a] = @ \cup {m}]
    /\ UNCHANGED <<writer, loading_locks, at, job, hand, eng, moves, kept>>

\* A new engine is loaded and is in hand, with the timer spawned for it unless
\* it is to stay.
Loads(a, p) ==
    /\ FreeEngines # {}
    /\ \/ /\ job[a].keep = "period" /\ FreeTimers # {}
          /\ hand' = [hand EXCEPT ![a] = [engine |-> FreshEngine, timer |-> FreshTimer]]
          /\ timers' = Scheduled(timers, FreshTimer, job[a].model, {})
       \/ /\ job[a].keep = "never"
          /\ hand' = [hand EXCEPT ![a] = [engine |-> FreshEngine, timer |-> NoTimer]]
          /\ UNCHANGED timers
    /\ Goto(a, p)

Load(a) ==
    /\ at[a] = "room"
    /\ tried' = [tried EXCEPT ![a] = {}]
    /\ \/ Loads(a, "loaded") /\ UNCHANGED loading_locks
       \/ /\ Unlock(a)
          /\ Goto(a, IF a = Mover THEN "scan" ELSE "done")
          /\ UNCHANGED <<hand, timers>>
    /\ UNCHANGED <<engines, writer, job, eng, moves, kept>>

\* The entry a new engine gets.
NewEntry(a, wide) ==
    [model |-> job[a].model, engine |-> hand[a].engine, keep |-> job[a].keep,
     wide |-> wide, timer |-> hand[a].timer]

\* The entry goes in, unless there is one by now: then the engine is dropped.
Push(a) ==
    /\ at[a] = "loaded" /\ ListFree
    /\ \/ /\ ~Listed(job[a].model)
          /\ engines' = Append(engines, NewEntry(a, a \in Wide))
          /\ UNCHANGED timers
       \/ /\ Listed(job[a].model)
          /\ Detach(hand[a].timer)
          /\ UNCHANGED engines
    /\ hand' = [hand EXCEPT ![a] = EmptyHand]
    /\ Unlock(a)
    /\ Goto(a, Served(a))
    /\ UNCHANGED <<writer, job, eng, tried, moves, kept>>

-----------------------------------------------------------------------------
(* ensure_engine_context: no loading lock, and no second look at the list *)

WidenRead(a) ==
    /\ at[a] = "widen" /\ ListFree
    /\ \/ /\ Listed(job[a].model) /\ ~Entry(job[a].model).wide
          /\ job' = [job EXCEPT ![a].keep = Entry(job[a].model).keep]
          /\ Goto(a, "narrow")
       \/ /\ Listed(job[a].model) => Entry(job[a].model).wide
          /\ Goto(a, "lookup")
          /\ UNCHANGED job
    /\ UNCHANGED <<engines, writer, loading_locks, timers, hand, eng, tried, moves,
                   kept>>

WidenUnload(a) ==
    /\ at[a] = "narrow"
    /\ TakeOut(job[a].model)
    /\ Goto(a, "unloaded")
    /\ UNCHANGED <<writer, loading_locks, workVars, kept>>

\* The wide load, else the window there was, else nothing is left.
WidenLoad(a) ==
    /\ at[a] = "unloaded"
    /\ \/ Loads(a, "widened") \/ Loads(a, "restored")
       \/ Goto(a, "done") /\ UNCHANGED <<hand, timers>>
    /\ UNCHANGED <<engines, writer, loading_locks, job, eng, tried, moves,
                   kept>>

WidenPush(a) ==
    /\ at[a] \in {"widened", "restored"} /\ ListFree
    /\ engines' = Append(engines, NewEntry(a, at[a] = "widened"))
    /\ hand' = [hand EXCEPT ![a] = EmptyHand]
    /\ Goto(a, IF at[a] = "widened" THEN "lookup" ELSE "done")
    /\ UNCHANGED <<writer, loading_locks, timers, job, eng, tried, moves,
                   kept>>

-----------------------------------------------------------------------------
(* The rest of load_for_request, and the generation *)

\* get_engine: the engine, or "not loaded after loading it".
GetEngine(r) ==
    /\ at[r] = "lookup" /\ ListFree
    /\ \/ /\ Listed(job[r].model)
          /\ eng' = [eng EXCEPT ![r] = Entry(job[r].model).engine]
          /\ Goto(r, "found")
       \/ ~Listed(job[r].model) /\ Goto(r, "done") /\ UNCHANGED eng
    /\ UNCHANGED <<engines, writer, loading_locks, timers, job, hand, tried, moves,
                   kept>>

\* The request's engine has an entry to be kept by, or it has not.
Kept(r) ==
    \/ /\ Listed(job[r].model) /\ Entry(job[r].model).engine = eng[r]
       /\ kept' = kept \cup {r}
    \/ /\ ~(Listed(job[r].model) /\ Entry(job[r].model).engine = eng[r])
       /\ UNCHANGED kept

\* Seeded fault: the new timer is set beside the old one.
ResetBeside(r) ==
    /\ at[r] = "found" /\ ListFree
    /\ LET m == job[r].model
           t == FreshTimer
       IN \/ /\ Listed(m) /\ Entry(m).keep = "period"
             /\ FreeTimers # {}
             /\ engines' = [engines EXCEPT ![First(m)].timer = t]
             /\ timers' = Scheduled(timers, t, m, {r})
          \/ /\ Listed(m) => Entry(m).keep = "never"
             /\ UNCHANGED <<engines, timers>>
    /\ Kept(r)
    /\ Goto(r, "ready")
    /\ UNCHANGED <<writer, loading_locks, workVars>>


\* reset_expiration: the entry's timer is aborted and a new one set.  The new
\* one takes the name of the old when that is gone for good.
ResetExpiration(r) ==
    /\ at[r] = "found" /\ ListFree
    /\ LET m == job[r].model
           old == Entry(m).timer
       IN \/ /\ Listed(m) /\ Entry(m).keep = "period"
             /\ \E ended \in Aborts(timers, old) :
                  LET gone == old # NoTimer /\ ended[old] = Spare
                      t == IF gone THEN old ELSE FreshTimer
                  IN /\ gone \/ FreeTimers # {}
                     /\ engines' = [engines EXCEPT ![First(m)].timer = t]
                     /\ timers' = Scheduled(ended, t, m, {r})
          \/ /\ Listed(m) => Entry(m).keep = "never"
             /\ UNCHANGED <<engines, timers>>
    /\ Kept(r)
    /\ Goto(r, "ready")
    /\ UNCHANGED <<writer, loading_locks, workVars>>

\* ActiveRequest::enter: from here on the request is counted on its engine.
Admit(r) ==
    /\ at[r] = "ready"
    /\ Goto(r, "running")
    /\ timers' = Settled(r)
    /\ UNCHANGED <<engines, writer, loading_locks, workVars, kept>>

\* The request is over for the engine it had.
Release(r) ==
    /\ eng' = [eng EXCEPT ![r] = NoEngine]
    /\ kept' = kept \ {r}

\* The generation ends, or fails for want of the model.
Finish(r) ==
    /\ at[r] = "running"
    /\ Goto(r, "done")
    /\ Release(r)
    /\ UNCHANGED <<engines, writer, loading_locks, timers, job, hand, tried, moves>>

\* A task ends at an await: the loading lock and the engine in hand go with it,
\* the timer spawned for the engine does not.
Abandons(a) ==
    /\ loading_locks' = [m \in Model |-> IF loading_locks[m] = a THEN Nobody
                                                              ELSE loading_locks[m]]
    /\ hand' = [hand EXCEPT ![a] = EmptyHand]
    /\ tried' = [tried EXCEPT ![a] = {}]

\* The client leaves, and its handler is dropped.
Drop(r) ==
    /\ at[r] \notin {"out", "running", "done"}
    /\ Goto(r, "done")
    /\ Abandons(r)
    /\ \/ at[r] = "ready" /\ timers' = Settled(r)
       \/ at[r] # "ready" /\ Detach(hand[r].timer)
    /\ Release(r)
    /\ UNCHANGED <<engines, writer, job, moves>>

-----------------------------------------------------------------------------
(* schedule_expiration's task: wait_until_idle, unload, let the mover in *)

\* The sleep is over and the timer has the list.  The period outlasts the
\* admission of the requests it began after, and the way of the engine it was
\* set for into the list.
Looks(t) ==
    /\ timers[t].st = "asleep" /\ timers[t].after = {}
    /\ \A a \in Actor : hand[a].timer # t
    /\ ListFree

\* A timer looks at every entry of the name.
Busy(m) == \E i \in Of(m) : InFlight(engines[i].engine) # {}

\* An aborted timer ends at its next await.
Cancelled(t) ==
    /\ timers[t].st = "asleep" /\ timers[t].kind = "late"
    /\ timers' = [timers EXCEPT ![t] = Spare]
    /\ UNCHANGED <<engines, writer, loading_locks, at, workVars, kept>>

\* The timer of the entry a stray or a late one removes is a stray in its turn.
Orphans(t, u) ==
    {x \in {u} \ {NoTimer} : timers[t].kind # "set" /\ timers[x].st = "asleep"}

\* Nothing runs: the first entry is removed, whoever's timer it has, and the
\* list is kept until the model is unloaded.
Expire(t) ==
    /\ Looks(t)
    /\ LET m == timers[t].model
       IN /\ Listed(m) /\ ~Busy(m)
          /\ engines' = RemoveAt(engines, First(m))
          /\ timers' = [x \in 1..MaxTimers |->
               CASE x = t -> [st |-> "unloading", kind |-> timers[t].kind,
                              engine |-> Entry(m).engine]
                 [] x \in Orphans(t, Entry(m).timer) -> [timers[x] EXCEPT !.kind = "stray"]
                 [] OTHER -> timers[x]]
    /\ writer' = t
    /\ UNCHANGED <<loading_locks, at, workVars, kept>>

\* The task goes on as the mover, if there is none.  One that was aborted may
\* stop before that.
LetMoverIn(t) ==
    \/ at' = Woken(at)
    \/ timers[t].kind = "late" /\ UNCHANGED at

ExpireUnload(t) ==
    /\ writer = t
    /\ timers' = [timers EXCEPT ![t] = Spare]
    /\ writer' = NoTimer
    /\ LetMoverIn(t)
    /\ UNCHANGED <<engines, loading_locks, workVars, kept>>

\* The timer of a model that is no longer there.
ExpireNothing(t) ==
    /\ Looks(t) /\ ~Listed(timers[t].model)
    /\ timers' = [timers EXCEPT ![t] = Spare]
    /\ LetMoverIn(t)
    /\ UNCHANGED <<engines, writer, loading_locks, workVars, kept>>

\* A request runs: the period begins anew, unless the timer was aborted.
ExpireLater(t) ==
    /\ Looks(t) /\ Busy(timers[t].model)
    /\ timers[t].kind # "late"
    /\ timers' = [timers EXCEPT ![t].after =
                     {r \in Request : at[r] = "ready" /\ job[r].model = timers[t].model}]
    /\ UNCHANGED <<engines, writer, loading_locks, at, workVars, kept>>

-----------------------------------------------------------------------------
(* migrate_idle_models *)

\* An idle model would run faster elsewhere ...
Choose ==
    /\ at[Mover] = "scan" /\ ListFree /\ moves < MaxMoves
    /\ \E i \in DOMAIN engines :
         /\ InFlight(engines[i].engine) = {}
         /\ job' = [job EXCEPT ![Mover] = [model |-> engines[i].model, keep |-> engines[i].keep]]
         /\ eng' = [eng EXCEPT ![Mover] = engines[i].engine]
    /\ moves' = moves + 1
    /\ Goto(Mover, "chosen")
    /\ UNCHANGED <<engines, writer, loading_locks, timers, hand, tried, kept>>

\* ... and still is: it is unloaded, and loaded again like any cold model.
Move ==
    /\ at[Mover] = "chosen"
    /\ \/ /\ InFlight(eng[Mover]) = {}
          /\ TakeOut(job[Mover].model)
          /\ Goto(Mover, "fast")
       \/ /\ InFlight(eng[Mover]) # {}
          /\ Goto(Mover, "scan")
          /\ UNCHANGED <<engines, timers>>
    /\ eng' = [eng EXCEPT ![Mover] = NoEngine]
    /\ UNCHANGED <<writer, loading_locks, job, hand, tried, moves, kept>>

PassOver ==
    /\ Goto(Mover, "out")
    /\ job' = [job EXCEPT ![Mover] = NoJob]

EndPass ==
    /\ at[Mover] = "scan"
    /\ PassOver
    /\ UNCHANGED <<engines, writer, loading_locks, timers, hand, eng, tried, moves,
                   kept>>

\* The pass is in the task of a timer: one that was aborted late ends at an
\* await of it.  Whose task it is is left open.
CutShort ==
    /\ at[Mover] # "out"
    /\ PassOver
    /\ Abandons(Mover)
    /\ eng' = [eng EXCEPT ![Mover] = NoEngine]
    /\ Detach(hand[Mover].timer)
    /\ UNCHANGED <<engines, writer, moves, kept>>

-----------------------------------------------------------------------------
Loading(a) ==
    \/ FastPath(a) \/ TakeLock(a) \/ Recheck(a) \/ Evict(a) \/ Load(a) \/ Push(a)

Serving(r) ==
    \/ WidenRead(r) \/ WidenUnload(r) \/ WidenLoad(r) \/ WidenPush(r)
    \/ GetEngine(r) \/ ResetExpiration(r) \/ Admit(r) \/ Finish(r)

Timer(t) ==
    \/ Cancelled(t) \/ Expire(t) \/ ExpireUnload(t)
    \/ ExpireNothing(t) \/ ExpireLater(t)

Moving == Choose \/ Move \/ EndPass

ManagerNext ==
    \/ \E a \in Actor : Loading(a)
    \/ \E r \in Request : Serving(r) \/ Drop(r)
    \/ \E c \in Client : Unload(c)
    \/ \E t \in 1..MaxTimers : Timer(t)
    \/ Moving \/ CutShort

ManagerSpec == Init /\ [][ManagerNext]_vars

\* Tasks that can run do, timers fire and generations end.  No request or
\* client has to come, or to leave early.
ManagerFairness ==
    /\ \A a \in Actor : WF_vars(at[a] # "out" /\ Loading(a))
    /\ \A r \in Request : WF_vars(Serving(r))
    /\ \A t \in 1..MaxTimers : WF_vars(Timer(t))
    /\ WF_vars(Moving)

ManagerLiveSpec == ManagerSpec /\ ManagerFairness

-----------------------------------------------------------------------------
\* The models no request reloads with a wider window: ensure_engine_context
\* takes no loading lock, and two of its reloads list a model twice.
Plain == Model \ {Wanted[r] : r \in Wide}

\* "no double-engine on race": through requests, clients, timers, evictions
\* and moves that meet, a model is in the list once, or is loading once, or
\* neither.
OneEngine ==
    \A m \in Plain :
        Cardinality(Of(m)) + Cardinality({a \in Actor : at[a] = "loaded" /\ job[a].model = m}) <= 1

\* The keep-alive timer never takes the model from a request that has reset it
\* on its engine's entry, counted or not yet.  Only a stray can, left by a
\* handler dropped between the spawn of the timer and the push of its entry or by
\* another stray, and an aborted timer that was past its sleep.
KeepAliveHolds ==
    \A t \in 1..MaxTimers : timers[t].st = "unloading" /\ timers[t].kind = "set" =>
        \A r \in kept : Wanted[r] \in Plain => eng[r] # timers[t].engine

\* No other timer outlives the entry it was set for, to end a later load before
\* its time: whatever takes an entry out of the list ends its timer.
TimersAccounted ==
    /\ ManagerTypeOK
    /\ \A t \in 1..MaxTimers :
         timers[t].st = "asleep" /\ timers[t].kind = "set" /\ timers[t].model \in Plain =>
            \/ \E i \in DOMAIN engines : engines[i].timer = t
            \/ \E a \in Actor : hand[a].timer = t

=============================================================================
