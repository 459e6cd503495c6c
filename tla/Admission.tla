----------------------------- MODULE Admission -----------------------------
(***************************************************************************)
(* Getting a generation onto a model that can serve one request at a time  *)
(* or batch them (src/api/handlers/admission.rs, batching.rs, stream.rs    *)
(* and load.rs of the LLM engine).  A request is counted, tells the        *)
(* batching signal whether it found others, skips the gate of RequestGate  *)
(* if the model batches and takes it otherwise, may move the model into    *)
(* its batch worker, hands over its media, and decodes: in the worker, or  *)
(* on a thread of its own that takes the model lock one step at a time.    *)
(*                                                                         *)
(* Every read of the mode is under the model lock and every use of what    *)
(* was read comes after it is let go.  A streamed answer owns the gate     *)
(* slot through the response, not through the thread: a client that goes   *)
(* away frees the slot, and the thread finds out at its next token.        *)
(***************************************************************************)
EXTENDS RequestGate

CONSTANTS
    SwitchAfter,    \* SWITCH_AFTER: arrivals of one kind that switch the mode
    Constrained,    \* requests with a grammar or token rules
    Workers,        \* the batch workers the model may have, see worker
    ClientsLeave    \* whether a client may go away during a serial answer

ASSUME SwitchAssumption == SwitchAfter \in Nat \ {0}
ASSUME ConstrainedAssumption == Constrained \subseteq Request
ASSUME WorkersAssumption == Workers \subseteq {"paged", "kept"}

VARIABLES
    worker,     \* its batch worker: "paged" hands the model back, "kept" does not
    mode,       \* the backend: "serial", "batched", or "taken" (lost in a swap)
    active,     \* LlmEngine::active
    signal,     \* BatchingSignal
    step,       \* where a request stands in admit() and generate_stream()
    found,      \* what it found on arrival: others running, the model batching
    wants,      \* ActiveRequest::wants_batched
    media,      \* whose images and clips the model holds
    thread      \* whether the request's serial decode thread is alive

admVars == <<worker, mode, active, signal, step, found, wants, media, thread>>
vars == <<gateVars, admVars>>

Nobody == [others |-> FALSE, batched |-> FALSE]

Step == {"out", "counted", "arriving", "demoting", "deciding", "gate", "moving",
         "rechecking", "media", "ready", "submitting", "answering", "finished",
         "gone"}

AdmTypeOK ==
    /\ GateTypeOK
    /\ worker \in {"paged", "kept"}
    /\ mode \in {"serial", "batched", "taken"}
    /\ active \in 0..Cardinality(Request)
    /\ signal \in [overlapping : Nat, lone : Nat, cannot_batch : BOOLEAN]
    /\ step \in [Request -> Step]
    /\ found \in [Request -> [others : BOOLEAN, batched : BOOLEAN]]
    /\ wants \in [Request -> BOOLEAN]
    /\ media \subseteq Request /\ Cardinality(media) <= 1
    /\ thread \in [Request -> BOOLEAN]

AdmInit ==
    /\ GateInit
    /\ worker \in Workers
    /\ mode = "serial"
    /\ active = 0
    /\ signal = [overlapping |-> 0, lone |-> 0, cannot_batch |-> FALSE]
    /\ step = [r \in Request |-> "out"]
    /\ found = [r \in Request |-> Nobody]
    /\ wants = [r \in Request |-> FALSE]
    /\ media = {}
    /\ thread = [r \in Request |-> FALSE]

Goto(r, s) == step' = [step EXCEPT ![r] = s]

\* The sequential path decodes a constrained request under the model lock.
ModelFree == \A r \in Constrained : ~thread[r]

IsContinuous == mode = "batched"

-----------------------------------------------------------------------------
\* ActiveRequest::enter.
Enter(r) ==
    /\ step[r] = "out"
    /\ active' = active + 1
    /\ found' = [found EXCEPT ![r].others = active > 0]
    /\ Goto(r, "counted")
    /\ UNCHANGED <<gateVars, worker, mode, signal, wants, media, thread>>

\* admit_request asks is_continuous ...
ReadMode(r) ==
    /\ step[r] = "counted"
    /\ ModelFree
    /\ found' = [found EXCEPT ![r].batched = IsContinuous]
    /\ Goto(r, "arriving")
    /\ UNCHANGED <<gateVars, worker, mode, active, signal, wants, media, thread>>

Counted(others) ==
    IF others THEN [signal EXCEPT !.overlapping = @ + 1, !.lone = 0]
              ELSE [signal EXCEPT !.lone = @ + 1, !.overlapping = 0]

ToBatched(sig, batched) ==
    ~batched /\ ~sig.cannot_batch /\ sig.overlapping >= SwitchAfter

ToSerial(sig, batched) == batched /\ sig.lone >= SwitchAfter

\* ... and records the arrival, on the mode it read and the count it found.
\* (What it found is forgotten here: nothing reads it again.)
Arrive(r) ==
    /\ step[r] = "arriving"
    /\ LET sig == Counted(found[r].others)
       IN \/ /\ ToBatched(sig, found[r].batched)
             /\ signal' = [sig EXCEPT !.overlapping = 0]
             /\ wants' = [wants EXCEPT ![r] = TRUE]
             /\ Goto(r, "deciding")
          \/ /\ ToSerial(sig, found[r].batched)
             /\ signal' = [sig EXCEPT !.lone = 0]
             /\ Goto(r, "demoting")
             /\ UNCHANGED wants
          \/ /\ ~ToBatched(sig, found[r].batched) /\ ~ToSerial(sig, found[r].batched)
             /\ signal' = sig
             /\ Goto(r, "deciding")
             /\ UNCHANGED wants
    /\ found' = [found EXCEPT ![r] = Nobody]
    /\ UNCHANGED <<gateVars, worker, mode, active, media, thread>>

\* demote_to_serial: a worker that hands its model back, and that no request
\* is submitting to, is stopped once its sequences end; one that panicked
\* takes the model with it.
Demote(r) ==
    /\ step[r] = "demoting"
    /\ ModelFree
    /\ \/ /\ mode = "batched" /\ worker = "paged"
          /\ \A s \in Request : step[s] # "submitting"
          /\ mode' \in {"serial", "taken"}
       \/ /\ \/ mode # "batched" \/ worker # "paged"
             \/ \E s \in Request : step[s] = "submitting"
          /\ UNCHANGED mode
    /\ Goto(r, "deciding")
    /\ UNCHANGED <<gateVars, worker, active, signal, found, wants, media, thread>>

DecideMovingFirst(r) ==
    /\ step[r] = "deciding"
    /\ ModelFree
    /\ Goto(r, IF IsContinuous THEN "media" ELSE IF wants[r] THEN "moving" ELSE "gate")
    /\ UNCHANGED <<gateVars, worker, mode, active, signal, found, wants, media, thread>>

\* admit() skips the gate of a model that batches.
Decide(r) ==
    /\ step[r] = "deciding"
    /\ ModelFree
    /\ Goto(r, IF IsContinuous THEN "media" ELSE "gate")
    /\ UNCHANGED <<gateVars, worker, mode, active, signal, found, wants, media, thread>>

-----------------------------------------------------------------------------
\* acquire_gate up to its guard.
AtGate(r) ==
    /\ step[r] = "gate"
    /\ \/ Enqueue(r) \/ Wake(r) \/ Expire(r)
    /\ UNCHANGED admVars

AfterGate(r) == IF wants[r] THEN "moving" ELSE "rechecking"

ThroughGate(r) ==
    /\ step[r] = "gate"
    /\ AcquireNow(r) \/ Start(r)
    /\ Goto(r, AfterGate(r))
    /\ UNCHANGED <<worker, mode, active, signal, found, wants, media, thread>>

\* serve_batched, under the serial gate.
Promote(r) ==
    /\ step[r] = "moving"
    /\ ModelFree
    /\ \/ /\ mode # "taken"
          /\ mode' = "batched"
          /\ UNCHANGED signal
       \/ /\ mode # "batched"
          /\ signal' = [signal EXCEPT !.cannot_batch = TRUE]
          /\ UNCHANGED mode
    /\ Goto(r, "rechecking")
    /\ UNCHANGED <<gateVars, worker, active, found, wants, media, thread>>

DropGuardSilently(r) ==
    /\ pc' = [pc EXCEPT ![r] = "done"]
    /\ UNCHANGED <<in_flight, waiters, seq, seq_counter, tracked, rx>>

\* The guard drops with the lock or, when that is taken, later.
DropGuard(r) == Drop(r) \/ DropBusy(r)

RecheckKeeping(r) ==
    /\ step[r] = "rechecking"
    /\ ModelFree
    /\ Goto(r, "media")
    /\ UNCHANGED <<gateVars, worker, mode, active, signal, found, wants, media, thread>>

\* The gate is given up if the model batches by now.
Recheck(r) ==
    /\ step[r] = "rechecking"
    /\ ModelFree
    /\ \/ IsContinuous /\ DropGuard(r)
       \/ ~IsContinuous /\ UNCHANGED gateVars
    /\ Goto(r, "media")
    /\ UNCHANGED <<worker, mode, active, signal, found, wants, media, thread>>

SetMediaIfAny(r) ==
    /\ step[r] = "media"
    /\ ModelFree
    /\ media' \in {media, {r}}
    /\ Goto(r, "ready")
    /\ UNCHANGED <<gateVars, worker, mode, active, signal, found, wants, thread>>

\* set_images, or clear_images for a request without any.
SetMedia(r) ==
    /\ step[r] = "media"
    /\ ModelFree
    /\ media' = {r}
    /\ Goto(r, "ready")
    /\ UNCHANGED <<gateVars, worker, mode, active, signal, found, wants, thread>>

-----------------------------------------------------------------------------
\* generate_stream_once takes the path the mode calls for now: the worker,
\* whose handle it holds until the request is submitted ...
GenerateBatched(r) ==
    /\ step[r] = "ready"
    /\ ModelFree
    /\ r \notin Constrained
    /\ IsContinuous
    /\ Goto(r, "submitting")
    /\ UNCHANGED <<gateVars, worker, mode, active, signal, found, wants, media, thread>>

SubmitCb(r) ==
    /\ step[r] = "submitting"
    /\ Goto(r, "answering")
    /\ UNCHANGED <<gateVars, worker, mode, active, signal, found, wants, media, thread>>

\* ... or a decode thread; a constrained request has one whatever the mode.
GenerateSerial(r) ==
    /\ step[r] = "ready"
    /\ ModelFree
    /\ r \in Constrained \/ ~IsContinuous
    /\ thread' = [thread EXCEPT ![r] = TRUE]
    /\ Goto(r, "answering")
    /\ UNCHANGED <<gateVars, worker, mode, active, signal, found, wants, media>>

\* The decode thread ends: its answer is complete, a forward failed, or it
\* found nobody listening.
ThreadEnds(r) ==
    /\ thread[r]
    /\ thread' = [thread EXCEPT ![r] = FALSE]
    /\ Goto(r, IF step[r] = "answering" THEN "finished" ELSE step[r])
    /\ UNCHANGED <<gateVars, worker, mode, active, signal, found, wants, media>>

Uncount(r) ==
    /\ active' = active - 1
    /\ Goto(r, "gone")
    /\ found' = [found EXCEPT ![r] = Nobody]
    /\ UNCHANGED <<worker, mode, signal, wants, media, thread>>

\* The answer, an error or the client ends the request: its guards drop.
Leave(r) ==
    /\ step[r] \notin {"out", "gone", "submitting"}
    /\ step[r] = "answering" /\ thread[r] => ClientsLeave
    /\ step[r] = "gate" => pc[r] = "new"
    /\ \/ pc[r] = "holding" /\ DropGuard(r)
       \/ pc[r] # "holding" /\ UNCHANGED gateVars
    /\ Uncount(r)

\* The 503 of a request that waited too long, or whose client left the queue.
LeaveGate(r) ==
    /\ step[r] = "gate"
    /\ GiveUp(r) \/ Cancel(r)
    /\ Uncount(r)

\* The task a busy guard drop spawned.
LateDrop(r) ==
    /\ pc[r] = "dropped"
    /\ Drop(r)
    /\ UNCHANGED admVars

-----------------------------------------------------------------------------
Advance(r) ==
    \/ ReadMode(r) \/ Arrive(r) \/ Demote(r) \/ Decide(r)
    \/ AtGate(r) \/ ThroughGate(r) \/ LeaveGate(r)
    \/ Promote(r) \/ Recheck(r) \/ SetMedia(r)
    \/ GenerateBatched(r) \/ SubmitCb(r) \/ GenerateSerial(r)
    \/ LateDrop(r)

Next == \E r \in Request : Enter(r) \/ Advance(r) \/ ThreadEnds(r) \/ Leave(r)

AdmSpec == AdmInit /\ [][Next]_vars

-----------------------------------------------------------------------------
\* A serial answer somebody still reads.
Attended(r) == step[r] = "answering" /\ thread[r]

\* Of a model its worker keeps, admit() says rightly who needs the gate.  An
\* answer decoded while the model serves serially holds the gate to its end,
\* and the model is never moved into its worker under a running answer, which
\* would lose the model to its decode thread.  (A constrained request decodes
\* on a thread in either mode.)
OneWayServes ==
    /\ AdmTypeOK
    /\ worker = "kept" =>
        \A r \in Request :
            Attended(r) => IF mode = "batched" THEN r \in Constrained
                           ELSE pc[r] = "holding"

\* On such a model, a request about to decode serially finds its own images
\* and clips, not what another one left there since.
OneWayMediaOwn ==
    worker = "kept" =>
        \A r \in Request : step[r] = "ready" /\ mode # "batched" => media = {r}

\* A request answered by the worker does not sit on the serial gate: the
\* requests queued behind it reach the worker.
StreamHoldsNoGate ==
    \A r \in Request :
        step[r] = "submitting" \/ (step[r] = "answering" /\ ~thread[r])
            => pc[r] # "holding"
=============================================================================
