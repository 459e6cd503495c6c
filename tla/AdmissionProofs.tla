-------------------------- MODULE AdmissionProofs --------------------------
(* Proofs about admission: that it uses the gate only as the gate allows,   *)
(* for every set of requests; and, for a model with one permit, what its    *)
(* answers may count on once they decode.                                   *)
EXTENDS Admission, RequestGateProofs

-----------------------------------------------------------------------------
(* The gate *)

\* An action of the gate is a step of the gate.
LEMMA GateActions ==
    ASSUME NEW r \in Request,
           \/ AcquireNow(r) \/ Enqueue(r) \/ Wake(r) \/ Expire(r) \/ Start(r)
           \/ GiveUp(r) \/ DropBusy(r) \/ Drop(r) \/ Cancel(r)
    PROVE  GateNext
BY DEF GateNext

\* Every step of admission is a step of the gate or leaves it alone.
LEMMA AdmissionStepsGate == [Next]_vars => [GateNext]_gateVars
<1>. SUFFICES ASSUME [Next]_vars PROVE [GateNext]_gateVars
  OBVIOUS
<1>1. CASE UNCHANGED vars
  BY <1>1 DEF vars
<1>2. ASSUME NEW r \in Request, Enter(r) \/ ThreadEnds(r) PROVE UNCHANGED gateVars
  BY <1>2 DEF Enter, ThreadEnds
<1>3. ASSUME NEW r \in Request, Leave(r) PROVE [GateNext]_gateVars
  BY <1>3, GateActions DEF Leave, DropGuard
<1>4. ASSUME NEW r \in Request,
             \/ ReadMode(r) \/ Arrive(r) \/ Demote(r) \/ Decide(r) \/ Promote(r)
             \/ SetMedia(r) \/ GenerateBatched(r) \/ SubmitCb(r) \/ GenerateSerial(r)
      PROVE UNCHANGED gateVars
  BY <1>4 DEF ReadMode, Arrive, Demote, Decide, Promote, SetMedia, GenerateBatched,
              SubmitCb, GenerateSerial
<1>5. ASSUME NEW r \in Request,
             \/ AtGate(r) \/ ThroughGate(r) \/ LeaveGate(r) \/ Recheck(r) \/ LateDrop(r)
      PROVE [GateNext]_gateVars
  <2>1. CASE AtGate(r)
    BY <2>1, GateActions DEF AtGate
  <2>2. CASE ThroughGate(r)
    BY <2>2, GateActions DEF ThroughGate
  <2>3. CASE LeaveGate(r)
    BY <2>3, GateActions DEF LeaveGate
  <2>4. CASE Recheck(r)
    BY <2>4, GateActions DEF Recheck, DropGuard
  <2>5. CASE LateDrop(r)
    BY <2>5, GateActions DEF LateDrop
  <2>. QED
    BY <1>5, <2>1, <2>2, <2>3, <2>4, <2>5
<1>. QED
  BY <1>1, <1>2, <1>3, <1>4, <1>5 DEF Next, Advance

\* Admission implements the gate: whatever requests, clients and decode
\* threads do, the gate sees one of its own steps or none.
THEOREM AdmissionImplementsGate == AdmSpec => GateSpec
<1>1. AdmInit => GateInit
  BY DEF AdmInit
<1>. QED
  BY <1>1, AdmissionStepsGate, PTL DEF AdmSpec, GateSpec

-----------------------------------------------------------------------------
(* The answers, on a model with one permit *)

Before == {"out", "counted", "arriving", "demoting", "deciding"}
Placed == {"media", "ready", "submitting", "answering", "finished"}

\* Where a request stands in admission, against where it stands at the gate.
AtItsPlace(r) ==
    /\ step[r] \in Before => pc[r] = "new"
    /\ step[r] \in {"moving", "rechecking"} => pc[r] = "holding"
    /\ step[r] = "gate" => pc[r] # "holding"
    /\ step[r] = "gone" => pc[r] # "holding"
    /\ thread[r] => step[r] \in {"answering", "gone"}

\* A request past the gate that keeps its guard stands on a serial model, and
\* one the worker answers has none.
SerialHolds(r) ==
    /\ step[r] \in Placed /\ pc[r] = "holding" => mode # "batched"
    /\ step[r] = "submitting" => pc[r] # "holding"
    /\ step[r] = "answering" /\ ~thread[r] => pc[r] # "holding"

\* On a model its worker keeps, whoever is past the gate and will decode, or
\* decodes, serially has its guard and its media.
OneWayHolds(r) ==
    worker = "kept" =>
        /\ mode # "taken"
        /\ step[r] \in {"media", "ready"} /\ mode # "batched" => pc[r] = "holding"
        /\ step[r] = "ready" /\ mode # "batched" => media = {r}
        /\ Attended(r) => IF mode = "batched" THEN r \in Constrained
                          ELSE pc[r] = "holding"

Inside == {r \in Request : step[r] \notin {"out", "gone"}}

AdmTypes ==
    /\ worker \in {"paged", "kept"}
    /\ mode \in {"serial", "batched", "taken"}
    /\ signal \in [overlapping : Nat, lone : Nat, cannot_batch : BOOLEAN]
    /\ step \in [Request -> Step]
    /\ found \in [Request -> [others : BOOLEAN, batched : BOOLEAN]]
    /\ wants \in [Request -> BOOLEAN]
    /\ media \in {{}} \cup {{r} : r \in Request}
    /\ thread \in [Request -> BOOLEAN]

AdmIInv ==
    /\ AdmTypes
    /\ active = Cardinality(Inside)
    /\ \A r \in Request : AtItsPlace(r) /\ SerialHolds(r) /\ OneWayHolds(r)

\* With one permit, two requests never hold guards at once.
LEMMA OneGuard ==
    ASSUME GateIInv, MaxInFlight = 1, NEW r \in Request, NEW s \in Request,
           pc[r] = "holding", pc[s] = "holding"
    PROVE  r = s
<1>1. Cardinality(Owners) <= 1
  BY DEF GateIInv, PermitsOwned
<1>2. r \in Owners /\ s \in Owners
  BY DEF Owners, HasGuard
<1>3. IsFiniteSet(Owners) /\ Cardinality(Owners) \in Nat
  BY OwnersFinite
<1>4. CASE r # s
  <2>1. {r, s} = {s} \cup {r} /\ r \notin {s}
    BY <1>4
  <2>2. IsFiniteSet({s}) /\ Cardinality({s}) = 1
    BY FS_Singleton
  <2>3. Cardinality({r, s}) = 2
    BY <2>1, <2>2, FS_AddElement
  <2>4. Cardinality({r, s}) <= Cardinality(Owners)
    BY <1>2, <1>3, FS_Subset
  <2>. QED
    BY <1>1, <1>3, <2>3, <2>4
<1>. QED
  BY <1>4

\* An action of the gate moves one request there, and gives it its guard only
\* when it finds a permit free or wakes with one.
LEMMA GateMoves ==
    ASSUME GateIInv, NEW r \in Request
    PROVE  /\ pc \in [Request -> Phase]
           /\ AcquireNow(r) \/ Start(r) => pc' = [pc EXCEPT ![r] = "holding"]
           /\ Enqueue(r) => pc' = [pc EXCEPT ![r] = "waiting"]
           /\ Wake(r) => pc' = [pc EXCEPT ![r] = "woken"]
           /\ Expire(r) => pc' = [pc EXCEPT ![r] = "expired"]
           /\ GiveUp(r) \/ Cancel(r) \/ Drop(r) => pc' = [pc EXCEPT ![r] = "done"]
           /\ DropBusy(r) => pc' = [pc EXCEPT ![r] = "dropped"]
BY DEF GateIInv, PermitsOwned, GateTypeOK, AcquireNow, Start, Enqueue, Wake, Expire,
       GiveUp, Cancel, Abandon, Drop, DropBusy

\* A request that comes is one more inside, one that goes one fewer.
LEMMA InsideCounts ==
    ASSUME step \in [Request -> Step], NEW r \in Request, NEW to \in Step, Goto(r, to)
    PROVE  /\ IsFiniteSet(Inside) /\ Cardinality(Inside) \in Nat
           /\ step' \in [Request -> Step] /\ step'[r] = to
           /\ \A s \in Request \ {r} : step'[s] = step[s]
           /\ step[r] = "out" /\ to \notin {"out", "gone"} =>
                Cardinality(Inside') = Cardinality(Inside) + 1
           /\ step[r] \notin {"out", "gone"} /\ to = "gone" =>
                Cardinality(Inside') = Cardinality(Inside) - 1
           /\ step[r] \notin {"out", "gone"} /\ to \notin {"out", "gone"} => Inside' = Inside
           /\ to = step[r] => Inside' = Inside
<1>1. Inside \in SUBSET Request
  BY DEF Inside
<1>2. IsFiniteSet(Inside)
  BY <1>1, RequestAssumption, FS_Subset
<1>3. step' \in [Request -> Step] /\ step'[r] = to /\ \A s \in Request \ {r} : step'[s] = step[s]
  BY DEF Goto
<1>4. step[r] = "out" /\ to \notin {"out", "gone"} => Inside' = Inside \cup {r} /\ r \notin Inside
  BY <1>3 DEF Inside
<1>5. step[r] \notin {"out", "gone"} /\ to = "gone" => Inside' = Inside \ {r} /\ r \in Inside
  BY <1>3 DEF Inside
<1>6. step[r] \notin {"out", "gone"} /\ to \notin {"out", "gone"} => Inside' = Inside
  BY <1>3 DEF Inside
<1>7. to = step[r] => Inside' = Inside
  BY <1>3 DEF Inside
<1>. QED
  BY <1>2, <1>3, <1>4, <1>5, <1>6, <1>7, FS_CardinalityType, FS_AddElement, FS_RemoveElement

-----------------------------------------------------------------------------
(* The steps that leave the gate and the mode alone *)

\* What an unmoved gate and mode mean for everybody but r.
LEMMA OthersStay ==
    ASSUME AdmIInv, NEW r \in Request,
           worker' = worker, mode' = mode, media' = media,
           \A s \in Request \ {r} : step'[s] = step[s] /\ thread'[s] = thread[s]
                                    /\ pc'[s] = pc[s]
    PROVE  \A s \in Request \ {r} :
             AtItsPlace(s)' /\ SerialHolds(s)' /\ OneWayHolds(s)'
BY DEF AdmIInv, AtItsPlace, SerialHolds, OneWayHolds, Attended

\* A request that comes, reads the mode, is counted or decides.
LEMMA ArrivalKeeps ==
    ASSUME AdmIInv, NEW r \in Request, Enter(r) \/ ReadMode(r) \/ Arrive(r) \/ Decide(r)
    PROVE  AdmIInv'
<1>1. /\ step \in [Request -> Step] /\ pc' = pc /\ worker' = worker /\ mode' = mode
      /\ media' = media /\ thread' = thread
  BY DEF Enter, ReadMode, Arrive, Decide, gateVars, AdmIInv, AdmTypes
<1>2. /\ active' = Cardinality(Inside')
      /\ step' \in [Request -> Step] /\ \A s \in Request \ {r} : step'[s] = step[s]
      /\ \/ step[r] \in Before /\ step'[r] \in Before \cup {"gate"}
         \/ step[r] \in Before /\ mode = "batched" /\ step'[r] = "media"
  <2>1. CASE Enter(r)
    BY <1>1, <2>1, InsideCounts DEF Enter, AdmIInv, Step, Before
  <2>2. CASE ReadMode(r)
    BY <1>1, <2>2, InsideCounts DEF ReadMode, AdmIInv, Step, Before
  <2>3. CASE Arrive(r)
    BY <1>1, <2>3, InsideCounts DEF Arrive, AdmIInv, Step, Before
  <2>4. CASE Decide(r)
    BY <1>1, <2>4, InsideCounts DEF Decide, IsContinuous, AdmIInv, Step, Before
  <2>. QED
    BY <2>1, <2>2, <2>3, <2>4
<1>3. AdmTypes'
  <2>1. found' \in [Request -> [others : BOOLEAN, batched : BOOLEAN]]
    <3>1. \A b \in BOOLEAN : [found[r] EXCEPT !.others = b] \in [others : BOOLEAN, batched : BOOLEAN]
      BY DEF AdmIInv, AdmTypes
    <3>2. \A b \in BOOLEAN : [found[r] EXCEPT !.batched = b] \in [others : BOOLEAN, batched : BOOLEAN]
      BY DEF AdmIInv, AdmTypes
    <3>3. Nobody \in [others : BOOLEAN, batched : BOOLEAN]
      BY DEF Nobody
    <3>4. CASE Enter(r)
      <4>1. (active > 0) \in BOOLEAN
        OBVIOUS
      <4>2. [found[r] EXCEPT !.others = active > 0] \in [others : BOOLEAN, batched : BOOLEAN]
        BY <3>1, <4>1, Zenon
      <4>3. found' = [found EXCEPT ![r] = [found[r] EXCEPT !.others = active > 0]]
        BY <3>4, Zenon DEF Enter
      <4>. QED
        BY <4>2, <4>3, Zenon DEF AdmIInv, AdmTypes
    <3>5. CASE ReadMode(r)
      <4>1. IsContinuous \in BOOLEAN
        BY DEF IsContinuous
      <4>2. [found[r] EXCEPT !.batched = IsContinuous] \in [others : BOOLEAN, batched : BOOLEAN]
        BY <3>2, <4>1, Zenon
      <4>3. found' = [found EXCEPT ![r] = [found[r] EXCEPT !.batched = IsContinuous]]
        BY <3>5, Zenon DEF ReadMode
      <4>. QED
        BY <4>2, <4>3, Zenon DEF AdmIInv, AdmTypes
    <3>6. CASE Arrive(r)
      BY <3>3, <3>6, Zenon DEF Arrive, AdmIInv, AdmTypes
    <3>7. CASE Decide(r)
      BY <3>7 DEF Decide, AdmIInv, AdmTypes
    <3>. QED
      BY <3>4, <3>5, <3>6, <3>7
  <2>2. wants' \in [Request -> BOOLEAN]
    BY DEF Enter, ReadMode, Arrive, Decide, AdmIInv, AdmTypes
  <2>3. signal' \in [overlapping : Nat, lone : Nat, cannot_batch : BOOLEAN]
    <3>1. signal \in [overlapping : Nat, lone : Nat, cannot_batch : BOOLEAN]
      BY DEF AdmIInv, AdmTypes
    <3>2. \A others \in BOOLEAN : Counted(others) \in [overlapping : Nat, lone : Nat, cannot_batch : BOOLEAN]
      <4>1. \A n \in Nat : /\ [signal EXCEPT !.overlapping = n, !.lone = 0]
                                 \in [overlapping : Nat, lone : Nat, cannot_batch : BOOLEAN]
                           /\ [signal EXCEPT !.lone = n, !.overlapping = 0]
                                 \in [overlapping : Nat, lone : Nat, cannot_batch : BOOLEAN]
        BY <3>1
      <4>2. signal.overlapping + 1 \in Nat /\ signal.lone + 1 \in Nat
        BY <3>1
      <4>3. /\ [signal EXCEPT !.overlapping = @ + 1, !.lone = 0]
                 \in [overlapping : Nat, lone : Nat, cannot_batch : BOOLEAN]
            /\ [signal EXCEPT !.lone = @ + 1, !.overlapping = 0]
                 \in [overlapping : Nat, lone : Nat, cannot_batch : BOOLEAN]
        BY <4>1, <4>2, Zenon
      <4>4. /\ Counted(TRUE) \in [overlapping : Nat, lone : Nat, cannot_batch : BOOLEAN]
            /\ Counted(FALSE) \in [overlapping : Nat, lone : Nat, cannot_batch : BOOLEAN]
        BY <4>3 DEF Counted
      <4>. QED
        BY <4>4
    <3>4. CASE Arrive(r)
      <4>. DEFINE sig == Counted(found[r].others)
      <4>1. \/ signal' = sig
            \/ signal' = [sig EXCEPT !.overlapping = 0]
            \/ signal' = [sig EXCEPT !.lone = 0]
        BY <3>4, Zenon DEF Arrive
      <4>2. sig \in [overlapping : Nat, lone : Nat, cannot_batch : BOOLEAN]
        BY <3>2 DEF AdmIInv, AdmTypes
      <4>. HIDE DEF sig
      <4>. QED
        BY <4>1, <4>2
    <3>5. CASE Enter(r) \/ ReadMode(r) \/ Decide(r)
      BY <3>1, <3>5 DEF Enter, ReadMode, Decide
    <3>. QED
      BY <3>4, <3>5
  <2>. QED
    BY <1>1, <1>2, <2>1, <2>2, <2>3 DEF AdmIInv, AdmTypes
<1>4. AtItsPlace(r)' /\ SerialHolds(r)' /\ OneWayHolds(r)'
  BY <1>1, <1>2 DEF AdmIInv, AtItsPlace, SerialHolds, OneWayHolds, Attended, Before, Placed
<1>5. \A s \in Request \ {r} : AtItsPlace(s)' /\ SerialHolds(s)' /\ OneWayHolds(s)'
  BY <1>1, <1>2, OthersStay
<1>. QED
  BY <1>2, <1>3, <1>4, <1>5 DEF AdmIInv

\* A lone arrival stops the worker, if that hands its model back.
LEMMA DemoteKeeps ==
    ASSUME AdmIInv, NEW r \in Request, Demote(r)
    PROVE  AdmIInv'
<1>1. /\ step \in [Request -> Step] /\ step[r] = "demoting" /\ Goto(r, "deciding")
      /\ UNCHANGED <<gateVars, worker, active, signal, found, wants, media, thread>>
      /\ \/ mode' = mode
         \/ worker = "paged" /\ mode' \in {"serial", "taken"}
  BY DEF Demote, AdmIInv, AdmTypes
<1>2. /\ active' = Cardinality(Inside') /\ step' \in [Request -> Step]
      /\ step'[r] = "deciding" /\ \A s \in Request \ {r} : step'[s] = step[s]
  BY <1>1, InsideCounts DEF AdmIInv, Step
<1>3. AdmTypes'
  BY <1>1, <1>2 DEF AdmIInv, AdmTypes
<1>4. \A s \in Request : AtItsPlace(s)' /\ SerialHolds(s)' /\ OneWayHolds(s)'
  BY <1>1, <1>2 DEF AdmIInv, AtItsPlace, SerialHolds, OneWayHolds, Attended, Before, Placed,
                    gateVars
<1>. QED
  BY <1>2, <1>3, <1>4 DEF AdmIInv

-----------------------------------------------------------------------------
(* The steps at the gate *)

\* A request queues, wakes, times out, goes on with its guard, or leaves; or
\* the task of a late drop runs.
LEMMA GateKeeps ==
    ASSUME AdmIInv, GateIInv, NEW r \in Request,
           AtGate(r) \/ ThroughGate(r) \/ LeaveGate(r) \/ LateDrop(r)
    PROVE  AdmIInv'
<1>1. /\ step \in [Request -> Step] /\ pc \in [Request -> Phase]
      /\ worker' = worker /\ mode' = mode /\ media' = media /\ thread' = thread
      /\ signal' = signal /\ wants' = wants
      /\ step[r] = "gate" => r \in Inside
  BY GateMoves DEF AtGate, ThroughGate, LeaveGate, LateDrop, Uncount, admVars, AdmIInv, AdmTypes,
                   Inside
<1>2. CASE AtGate(r) \/ LateDrop(r)
  <2>1. /\ step' = step /\ active' = active /\ found' = found
        /\ \A s \in Request \ {r} : pc'[s] = pc[s]
        /\ \/ step[r] = "gate" /\ pc'[r] \in {"waiting", "woken", "expired"}
           \/ pc[r] = "dropped" /\ pc'[r] = "done"
    BY <1>1, <1>2, GateMoves DEF AtGate, LateDrop, admVars
  <2>2. Inside' = Inside
    BY <2>1 DEF Inside
  <2>3. AtItsPlace(r)' /\ SerialHolds(r)' /\ OneWayHolds(r)'
    BY <1>1, <2>1 DEF AdmIInv, AtItsPlace, SerialHolds, OneWayHolds, Attended, Before, Placed
  <2>. QED
    BY <1>1, <2>1, <2>2, <2>3, OthersStay DEF AdmIInv, AdmTypes
<1>3. CASE ThroughGate(r)
  <2>1. /\ Goto(r, AfterGate(r)) /\ AfterGate(r) \in {"moving", "rechecking"}
        /\ step[r] = "gate" /\ active' = active /\ found' = found
        /\ pc' = [pc EXCEPT ![r] = "holding"]
    BY <1>3, GateMoves DEF ThroughGate, AfterGate
  <2>2. /\ active' = Cardinality(Inside') /\ step' \in [Request -> Step]
        /\ step'[r] \in {"moving", "rechecking"}
        /\ \A s \in Request \ {r} : step'[s] = step[s]
    BY <1>1, <2>1, InsideCounts DEF AdmIInv, Step
  <2>3. AtItsPlace(r)' /\ SerialHolds(r)' /\ OneWayHolds(r)'
    BY <1>1, <2>1, <2>2 DEF AdmIInv, AtItsPlace, SerialHolds, OneWayHolds, Attended, Before, Placed
  <2>. QED
    BY <1>1, <2>1, <2>2, <2>3, OthersStay DEF AdmIInv, AdmTypes
<1>4. CASE LeaveGate(r)
  <2>1. /\ Goto(r, "gone") /\ step[r] = "gate" /\ active' = active - 1
        /\ found' = [found EXCEPT ![r] = Nobody]
        /\ pc' = [pc EXCEPT ![r] = "done"]
    BY <1>4, GateMoves DEF LeaveGate, Uncount
  <2>2. /\ active' = Cardinality(Inside') /\ step' \in [Request -> Step]
        /\ step'[r] = "gone" /\ \A s \in Request \ {r} : step'[s] = step[s]
    BY <1>1, <2>1, InsideCounts DEF AdmIInv, Step
  <2>3. AtItsPlace(r)' /\ SerialHolds(r)' /\ OneWayHolds(r)'
    BY <1>1, <2>1, <2>2 DEF AdmIInv, AtItsPlace, SerialHolds, OneWayHolds, Attended, Before, Placed
  <2>4. found' \in [Request -> [others : BOOLEAN, batched : BOOLEAN]]
    BY <2>1 DEF AdmIInv, AdmTypes, Nobody
  <2>. QED
    BY <1>1, <2>1, <2>2, <2>3, <2>4, OthersStay DEF AdmIInv, AdmTypes
<1>. QED
  BY <1>2, <1>3, <1>4

-----------------------------------------------------------------------------
(* From the gate to the answer *)

\* The model is moved into its worker, by the one request that has a guard.
LEMMA PromoteKeeps ==
    ASSUME AdmIInv, GateIInv, MaxInFlight = 1, NEW r \in Request, Promote(r)
    PROVE  AdmIInv'
<1>1. /\ step \in [Request -> Step] /\ step[r] = "moving" /\ Goto(r, "rechecking")
      /\ UNCHANGED <<gateVars, worker, active, found, wants, media, thread>>
      /\ mode' = mode \/ (mode' = "batched" /\ mode # "taken")
      /\ signal' \in {signal, [signal EXCEPT !.cannot_batch = TRUE]}
  BY DEF Promote, AdmIInv, AdmTypes
<1>2. /\ active' = Cardinality(Inside') /\ step' \in [Request -> Step]
      /\ step'[r] = "rechecking" /\ \A s \in Request \ {r} : step'[s] = step[s]
  BY <1>1, InsideCounts DEF AdmIInv, Step
<1>3. AdmTypes'
  <2>1. [signal EXCEPT !.cannot_batch = TRUE]
          \in [overlapping : Nat, lone : Nat, cannot_batch : BOOLEAN]
    BY DEF AdmIInv, AdmTypes
  <2>. QED
    BY <1>1, <1>2, <2>1 DEF AdmIInv, AdmTypes
<1>4. pc' = pc /\ pc[r] = "holding" /\ \A s \in Request \ {r} : pc[s] # "holding"
  BY <1>1, OneGuard DEF AdmIInv, AtItsPlace, gateVars
<1>5. ASSUME NEW s \in Request PROVE AtItsPlace(s)' /\ SerialHolds(s)' /\ OneWayHolds(s)'
  BY <1>1, <1>2, <1>4 DEF AdmIInv, AtItsPlace, SerialHolds, OneWayHolds, Attended, Before, Placed
<1>. QED
  BY <1>2, <1>3, <1>5 DEF AdmIInv

\* The guard is kept on a serial model, and given up on one that batches.
LEMMA RecheckKeeps ==
    ASSUME AdmIInv, GateIInv, NEW r \in Request, Recheck(r)
    PROVE  AdmIInv'
<1>1. /\ step \in [Request -> Step] /\ step[r] = "rechecking" /\ Goto(r, "media")
      /\ UNCHANGED <<worker, mode, active, signal, found, wants, media, thread>>
      /\ pc \in [Request -> Phase]
      /\ \/ mode = "batched" /\ pc' \in {[pc EXCEPT ![r] = "done"], [pc EXCEPT ![r] = "dropped"]}
         \/ mode # "batched" /\ pc' = pc
  BY GateMoves DEF Recheck, DropGuard, IsContinuous, gateVars, AdmIInv, AdmTypes
<1>2. /\ active' = Cardinality(Inside') /\ step' \in [Request -> Step]
      /\ step'[r] = "media" /\ \A s \in Request \ {r} : step'[s] = step[s]
  BY <1>1, InsideCounts DEF AdmIInv, Step
<1>3. AtItsPlace(r)' /\ SerialHolds(r)' /\ OneWayHolds(r)'
  BY <1>1, <1>2 DEF AdmIInv, AtItsPlace, SerialHolds, OneWayHolds, Attended, Before, Placed
<1>4. \A s \in Request \ {r} : AtItsPlace(s)' /\ SerialHolds(s)' /\ OneWayHolds(s)'
  <2>1. \A s \in Request \ {r} : pc'[s] = pc[s]
    BY <1>1
  <2>. QED
    BY <1>1, <1>2, <2>1, OthersStay
<1>. QED
  BY <1>1, <1>2, <1>3, <1>4 DEF AdmIInv, AdmTypes

\* A request leaves its media in the model.  Of two that are to decode serially
\* both would hold the gate.
LEMMA SetMediaKeeps ==
    ASSUME AdmIInv, GateIInv, MaxInFlight = 1, NEW r \in Request, SetMedia(r)
    PROVE  AdmIInv'
<1>1. /\ step \in [Request -> Step] /\ step[r] = "media" /\ Goto(r, "ready")
      /\ UNCHANGED <<gateVars, worker, mode, active, signal, found, wants, thread>>
      /\ media' = {r}
  BY DEF SetMedia, AdmIInv, AdmTypes
<1>2. /\ active' = Cardinality(Inside') /\ step' \in [Request -> Step]
      /\ step'[r] = "ready" /\ \A s \in Request \ {r} : step'[s] = step[s]
  BY <1>1, InsideCounts DEF AdmIInv, Step
<1>3. AtItsPlace(r)' /\ SerialHolds(r)' /\ OneWayHolds(r)'
  BY <1>1, <1>2 DEF AdmIInv, AtItsPlace, SerialHolds, OneWayHolds, Attended, Before, Placed,
                    gateVars
<1>4. ASSUME NEW s \in Request \ {r} PROVE AtItsPlace(s)' /\ SerialHolds(s)' /\ OneWayHolds(s)'
  <2>1. worker = "kept" /\ mode # "batched" => step[s] # "ready"
    BY <1>1, OneGuard DEF AdmIInv, OneWayHolds
  <2>. QED
    BY <1>1, <1>2, <2>1 DEF AdmIInv, AtItsPlace, SerialHolds, OneWayHolds, Attended, Before,
                            Placed, gateVars
<1>. QED
  BY <1>1, <1>2, <1>3, <1>4 DEF AdmIInv, AdmTypes

\* The answer begins, on the worker or on a thread, and a thread ends.
LEMMA GenerationKeeps ==
    ASSUME AdmIInv, NEW r \in Request,
           GenerateBatched(r) \/ SubmitCb(r) \/ GenerateSerial(r) \/ ThreadEnds(r)
    PROVE  AdmIInv'
<1>1. /\ step \in [Request -> Step] /\ thread \in [Request -> BOOLEAN]
      /\ UNCHANGED <<gateVars, worker, mode, active, signal, found, wants, media>>
      /\ pc' = pc
  BY DEF GenerateBatched, SubmitCb, GenerateSerial, ThreadEnds, gateVars, AdmIInv, AdmTypes
<1>2. /\ active' = Cardinality(Inside')
      /\ step' \in [Request -> Step] /\ \A s \in Request \ {r} : step'[s] = step[s]
  <2>1. CASE GenerateBatched(r)
    BY <1>1, <2>1, InsideCounts DEF GenerateBatched, AdmIInv, Step
  <2>2. CASE SubmitCb(r)
    BY <1>1, <2>2, InsideCounts DEF SubmitCb, AdmIInv, Step
  <2>3. CASE GenerateSerial(r)
    BY <1>1, <2>3, InsideCounts DEF GenerateSerial, AdmIInv, Step
  <2>4. CASE ThreadEnds(r)
    <3>1. CASE step[r] = "answering"
      <4>1. Goto(r, "finished")
        BY <2>4, <3>1 DEF ThreadEnds
      <4>. QED
        BY <1>1, <3>1, <4>1, InsideCounts DEF AdmIInv, Step
    <3>2. CASE step[r] # "answering"
      <4>1. Goto(r, step[r])
        BY <2>4, <3>2 DEF ThreadEnds
      <4>2. step' = step
        BY <1>1, <4>1 DEF Goto
      <4>3. Inside' = Inside
        BY <4>2 DEF Inside
      <4>. QED
        BY <1>1, <4>2, <4>3 DEF AdmIInv
    <3>. QED
      BY <3>1, <3>2
  <2>. QED
    BY <2>1, <2>2, <2>3, <2>4
<1>3. /\ thread' \in [Request -> BOOLEAN] /\ \A s \in Request \ {r} : thread'[s] = thread[s]
      /\ \/ /\ step[r] = "ready" /\ mode = "batched" /\ step'[r] = "submitting"
            /\ thread'[r] = thread[r]
         \/ /\ step[r] = "submitting" /\ step'[r] = "answering" /\ thread'[r] = thread[r]
         \/ /\ step[r] = "ready" /\ (r \in Constrained \/ mode # "batched")
            /\ step'[r] = "answering" /\ thread'[r]
         \/ /\ thread[r] /\ ~thread'[r] /\ step[r] = "answering" /\ step'[r] = "finished"
         \/ /\ thread[r] /\ ~thread'[r] /\ step[r] # "answering" /\ step'[r] = step[r]
  BY <1>1 DEF GenerateBatched, SubmitCb, GenerateSerial, ThreadEnds, Goto, IsContinuous
<1>4. AtItsPlace(r)' /\ SerialHolds(r)' /\ OneWayHolds(r)'
  BY <1>1, <1>3 DEF AdmIInv, AtItsPlace, SerialHolds, OneWayHolds, Attended, Before, Placed
<1>5. \A s \in Request \ {r} : AtItsPlace(s)' /\ SerialHolds(s)' /\ OneWayHolds(s)'
  BY <1>1, <1>2, <1>3, OthersStay
<1>. QED
  BY <1>1, <1>2, <1>3, <1>4, <1>5 DEF AdmIInv, AdmTypes

\* A request ends, and its guards drop.
LEMMA LeaveKeepsAdmission ==
    ASSUME AdmIInv, GateIInv, NEW r \in Request, Leave(r)
    PROVE  AdmIInv'
<1>1. /\ step \in [Request -> Step] /\ pc \in [Request -> Phase]
      /\ step[r] \notin {"out", "gone"}
      /\ Goto(r, "gone") /\ active' = active - 1 /\ found' = [found EXCEPT ![r] = Nobody]
      /\ UNCHANGED <<worker, mode, signal, wants, media, thread>>
      /\ \/ pc' \in {[pc EXCEPT ![r] = "done"], [pc EXCEPT ![r] = "dropped"]}
         \/ pc[r] # "holding" /\ pc' = pc
      /\ thread[r] => step[r] = "answering"
  BY GateMoves DEF Leave, Uncount, DropGuard, gateVars, AdmIInv, AdmTypes, AtItsPlace
<1>2. /\ active' = Cardinality(Inside') /\ step' \in [Request -> Step]
      /\ step'[r] = "gone" /\ \A s \in Request \ {r} : step'[s] = step[s]
  BY <1>1, InsideCounts DEF AdmIInv, Step
<1>3. found' \in [Request -> [others : BOOLEAN, batched : BOOLEAN]]
  BY <1>1 DEF AdmIInv, AdmTypes, Nobody
<1>4. AtItsPlace(r)' /\ SerialHolds(r)' /\ OneWayHolds(r)'
  BY <1>1, <1>2 DEF AdmIInv, AtItsPlace, SerialHolds, OneWayHolds, Attended, Before, Placed
<1>5. \A s \in Request \ {r} : AtItsPlace(s)' /\ SerialHolds(s)' /\ OneWayHolds(s)'
  <2>1. \A s \in Request \ {r} : pc'[s] = pc[s]
    BY <1>1
  <2>. QED
    BY <1>1, <1>2, <2>1, OthersStay
<1>. QED
  BY <1>1, <1>2, <1>3, <1>4, <1>5 DEF AdmIInv, AdmTypes

-----------------------------------------------------------------------------
(* The invariant of admission, and what follows from it *)

\* Before any request nobody is inside.
LEMMA AdmInitEstablishes == AdmInit => AdmIInv
<1>. SUFFICES ASSUME AdmInit PROVE AdmIInv
  OBVIOUS
<1>1. Inside = {}
  BY DEF Inside, AdmInit
<1>2. active = Cardinality(Inside)
  BY <1>1, FS_EmptySet DEF AdmInit
<1>3. AdmTypes
  <2>1. Nobody \in [others : BOOLEAN, batched : BOOLEAN]
    BY DEF Nobody
  <2>. QED
    BY <2>1, WorkersAssumption DEF AdmInit, AdmTypes, Step
<1>. QED
  BY <1>2, <1>3 DEF AdmIInv, AdmInit, GateInit, AtItsPlace, SerialHolds, OneWayHolds, Attended,
                    Before, Placed

\* Every step keeps it.
LEMMA AdmStepKeeps ==
    ASSUME AdmIInv, GateIInv, MaxInFlight = 1, [Next]_vars
    PROVE  AdmIInv'
<1>1. CASE UNCHANGED vars
  BY <1>1 DEF vars, admVars, gateVars, AdmIInv, AdmTypes, Inside, AtItsPlace, SerialHolds,
              OneWayHolds, Attended
<1>2. ASSUME NEW r \in Request, Enter(r) \/ Advance(r) \/ ThreadEnds(r) \/ Leave(r)
      PROVE  AdmIInv'
  BY <1>2, ArrivalKeeps, DemoteKeeps, GateKeeps, PromoteKeeps, RecheckKeeps, SetMediaKeeps,
     GenerationKeeps, LeaveKeepsAdmission DEF Advance
<1>. QED
  BY <1>1, <1>2 DEF Next

\* The invariant holds throughout, over the gate's own.
LEMMA AdmInvariant ==
    ASSUME MaxInFlight = 1, CancelWithPermit = FALSE
    PROVE  AdmSpec => []AdmIInv
<1>1. AdmIInv /\ GateIInv /\ [Next]_vars => AdmIInv'
  BY AdmStepKeeps
<1>2. AdmSpec => []GateIInv
  BY AdmissionImplementsGate, GateInvariant, PTL
<1>. QED
  BY <1>1, <1>2, AdmInitEstablishes, PTL DEF AdmSpec

\* The types of admission and of the gate.
LEMMA AdmTypeCorrect == AdmIInv /\ GateIInv => AdmTypeOK
<1>. SUFFICES ASSUME AdmIInv, GateIInv PROVE AdmTypeOK
  OBVIOUS
<1>1. active \in 0..Cardinality(Request)
  <2>1. Inside \in SUBSET Request
    BY DEF Inside
  <2>2. /\ IsFiniteSet(Inside) /\ Cardinality(Inside) <= Cardinality(Request)
        /\ Cardinality(Inside) \in Nat /\ Cardinality(Request) \in Nat
    BY <2>1, RequestAssumption, FS_Subset, FS_CardinalityType
  <2>. QED
    BY <2>2 DEF AdmIInv
<1>2. media \subseteq Request /\ Cardinality(media) <= 1
  <2>1. CASE media = {}
    BY <2>1, FS_EmptySet
  <2>2. ASSUME NEW r \in Request, media = {r} PROVE media \subseteq Request /\ Cardinality(media) <= 1
    <3>1. Cardinality(media) = 1
      BY <2>2, FS_Singleton
    <3>. QED
      BY <2>2, <3>1
  <2>. QED
    BY <2>1, <2>2 DEF AdmIInv, AdmTypes
<1>. QED
  BY <1>1, <1>2 DEF AdmTypeOK, AdmIInv, AdmTypes, GateIInv, PermitsOwned

\* Of a model its worker keeps, a serial answer somebody reads holds the gate
\* to its end, and the model is not moved under it.
THEOREM AdmissionOneWayServes ==
    ASSUME MaxInFlight = 1, CancelWithPermit = FALSE
    PROVE  AdmSpec => []OneWayServes
<1>1. AdmIInv /\ GateIInv => OneWayServes
  BY AdmTypeCorrect DEF OneWayServes, AdmIInv, OneWayHolds
<1>2. AdmSpec => []GateIInv
  BY AdmissionImplementsGate, GateInvariant, PTL
<1>. QED
  BY <1>1, <1>2, AdmInvariant, PTL

\* A request about to decode serially on such a model finds its own media.
THEOREM AdmissionOneWayMediaOwn ==
    ASSUME MaxInFlight = 1, CancelWithPermit = FALSE
    PROVE  AdmSpec => []OneWayMediaOwn
<1>1. AdmIInv => OneWayMediaOwn
  BY DEF OneWayMediaOwn, AdmIInv, OneWayHolds
<1>. QED
  BY <1>1, AdmInvariant, PTL

\* Whoever the worker answers holds no guard, whichever worker it is.
THEOREM AdmissionStreamHoldsNoGate ==
    ASSUME MaxInFlight = 1, CancelWithPermit = FALSE
    PROVE  AdmSpec => []StreamHoldsNoGate
<1>1. AdmIInv => StreamHoldsNoGate
  BY DEF StreamHoldsNoGate, AdmIInv, SerialHolds
<1>. QED
  BY <1>1, AdmInvariant, PTL
=============================================================================
