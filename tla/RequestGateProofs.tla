------------------------- MODULE RequestGateProofs -------------------------
(* Proofs about the request gate, for every set of requests, every number of *)
(* permits and every assignment of priorities, when no handler is dropped    *)
(* with a permit it has been sent (CancelWithPermit = FALSE).                *)
EXTENDS RequestGate, FiniteSetTheorems, TLAPS

\* Where a request stands, against its channel and its heap entry.
Standing ==
    \A r \in Request :
        /\ rx[r] = "none" => pc[r] \in {"new", "holding", "dropped", "done"}
        /\ rx[r] \in {"empty", "sent"} <=> pc[r] \in {"waiting", "expired"}
        /\ pc[r] \in {"new", "woken"} => rx[r] = IF pc[r] = "new" THEN "none" ELSE "closed"
        /\ rx[r] = "empty" => r \in waiters
        /\ r \in waiters => rx[r] = "empty" \/ (rx[r] = "closed" /\ pc[r] = "done")

\* Whoever queued did so before the counter stood where it is.
Numbered == \A r \in waiters \cup InTransit : seq[r] < seq_counter

GateIInv ==
    /\ PermitsOwned /\ Standing /\ Numbered
    /\ NoIdlePermit /\ TrackedFaithful

-----------------------------------------------------------------------------
\* The owners of permits are finitely many, and one more or one fewer of them
\* counts as such.
LEMMA OwnersFinite ==
    /\ IsFiniteSet(Owners) /\ Cardinality(Owners) \in Nat
    /\ \A r : Cardinality(Owners \cup {r}) =
                IF r \in Owners THEN Cardinality(Owners) ELSE Cardinality(Owners) + 1
    /\ \A r : /\ IsFiniteSet(Owners \ {r})
              /\ Cardinality(Owners \ {r}) =
                   IF r \in Owners THEN Cardinality(Owners) - 1 ELSE Cardinality(Owners)
<1>1. Owners \in SUBSET Request
  BY DEF Owners, HasGuard, InTransit
<1>2. IsFiniteSet(Owners)
  BY <1>1, RequestAssumption, FS_Subset
<1>. QED
  BY <1>2, FS_CardinalityType, FS_AddElement, FS_RemoveElement

\* An owner that hands its permit to another leaves as many owners.
LEMMA HandOver ==
    ASSUME NEW r \in Owners, NEW next, next \notin Owners
    PROVE  Cardinality((Owners \ {r}) \cup {next}) = Cardinality(Owners)
<1>1. IsFiniteSet(Owners \ {r}) /\ Cardinality(Owners \ {r}) = Cardinality(Owners) - 1
  BY OwnersFinite
<1>2. Cardinality((Owners \ {r}) \cup {next}) = Cardinality(Owners \ {r}) + 1
  BY <1>1, FS_AddElement
<1>. QED
  BY <1>1, <1>2, OwnersFinite

\* What Release does to a queue whose waiters listen or are gone: it passes the
\* permit to one that listens and that precedes all others that do, and drops
\* dead entries only; or nobody listens, all entries go and so does the permit.
LEMMA ReleaseCases ==
    ASSUME GateIInv,
           NEW tr \in [Request -> TrackedState],
           NEW ch \in [Request -> ChannelState],
           \A w \in waiters : ch[w] = rx[w],
           in_flight > 0,
           Release(waiters, tr, ch)
    PROVE  \/ \E next \in waiters :
                /\ rx[next] = "empty"
                /\ \A w \in waiters \ {next} : rx[w] = "empty" => Precedes(next, w)
                /\ \E popped \in SUBSET (waiters \ {next}) :
                     /\ \A w \in popped : rx[w] = "closed"
                     /\ waiters' = (waiters \ popped) \ {next}
                     /\ tracked' = Forgotten(popped, tr)
                /\ rx' = [ch EXCEPT ![next] = "sent"]
                /\ in_flight' = in_flight
           \/ /\ \A w \in waiters : rx[w] = "closed"
              /\ waiters' = {}
              /\ tracked' = Forgotten(waiters, tr)
              /\ rx' = ch
              /\ in_flight' = in_flight - 1
<1>. DEFINE live == Listening(waiters, ch)
<1>1. /\ waiters \subseteq Request /\ seq \in [Request -> Nat]
      /\ \A w \in waiters : rx[w] \in {"empty", "closed"}
  BY DEF GateIInv, PermitsOwned, GateTypeOK, Standing
<1>2. live = {w \in waiters : rx[w] = "empty"}
  BY <1>1 DEF Listening
<1>3. CASE \E next \in live :
            /\ \A w \in live \ {next} : Precedes(next, w)
            /\ LET popped == {w \in waiters : w # next /\ Precedes(w, next)}
               IN /\ waiters' = (waiters \ popped) \ {next}
                  /\ tracked' = Forgotten(popped, tr)
            /\ rx' = Delivered(ch, next)
            /\ UNCHANGED in_flight
  <2>. PICK next \in live :
            /\ \A w \in live \ {next} : Precedes(next, w)
            /\ LET popped == {w \in waiters : w # next /\ Precedes(w, next)}
               IN /\ waiters' = (waiters \ popped) \ {next}
                  /\ tracked' = Forgotten(popped, tr)
            /\ rx' = Delivered(ch, next)
            /\ UNCHANGED in_flight
    BY <1>3
  <2>. DEFINE popped == {w \in waiters : w # next /\ Precedes(w, next)}
  <2>1. next \in waiters /\ rx[next] = "empty" /\ ch[next] = "empty"
    BY <1>2
  <2>2. \A w \in popped : rx[w] = "closed"
    <3>. SUFFICES ASSUME NEW w \in popped, rx[w] = "empty"
                  PROVE  FALSE
      BY <1>1
    <3>1. Precedes(next, w) /\ Precedes(w, next)
      BY <1>2
    <3>2. Priority[w] \in Int /\ Priority[next] \in Int /\ seq[w] \in Int /\ seq[next] \in Int
      BY <1>1, <2>1, PriorityAssumption
    <3>. QED
      BY <3>1, <3>2 DEF Precedes
  <2>3. rx' = [ch EXCEPT ![next] = "sent"]
    BY <2>1 DEF Delivered
  <2>4. popped \in SUBSET (waiters \ {next})
    OBVIOUS
  <2>5. \A w \in waiters \ {next} : rx[w] = "empty" => Precedes(next, w)
    BY <1>2
  <2>. QED
    BY <2>1, <2>2, <2>3, <2>4, <2>5
<1>4. CASE /\ live = {}
           /\ waiters' = {}
           /\ tracked' = Forgotten(waiters, tr)
           /\ rx' = ch
           /\ in_flight' = IF in_flight > 0 THEN in_flight - 1 ELSE 0
  BY <1>1, <1>2, <1>4
<1>. QED
  BY <1>3, <1>4 DEF Release

-----------------------------------------------------------------------------
\* An owner that is done releases its permit and keeps every invariant: the
\* step of a guard's drop and of a late give-up.
LEMMA LeaveKeeps ==
    ASSUME GateIInv,
           NEW r \in Owners, pc[r] # "woken",
           NEW ch \in [Request -> ChannelState],
           ch = [rx EXCEPT ![r] = ch[r]],
           ch[r] = IF rx[r] = "sent" THEN "closed" ELSE rx[r],
           Release(waiters, Forgotten({r}, tracked), ch),
           pc' = [pc EXCEPT ![r] = "done"],
           UNCHANGED <<seq, seq_counter>>
    PROVE  GateIInv'
<1>. DEFINE tr == Forgotten({r}, tracked)
<1>1. /\ waiters \subseteq Request /\ seq \in [Request -> Nat] /\ seq_counter \in Nat
      /\ rx \in [Request -> ChannelState] /\ pc \in [Request -> Phase]
      /\ tracked \in [Request -> TrackedState] /\ in_flight \in 0..MaxInFlight
      /\ in_flight = Cardinality(Owners) /\ r \in Request
  BY DEF GateIInv, PermitsOwned, GateTypeOK, Owners, HasGuard, InTransit
<1>2. /\ Standing /\ r \notin waiters /\ in_flight > 0
      /\ pc[r] \in {"waiting", "expired", "holding", "dropped"}
      /\ \A w \in waiters : ch[w] = rx[w]
  <2>1. Standing /\ r \notin waiters
    BY <1>1 DEF GateIInv, Standing, Owners, HasGuard, InTransit
  <2>2. pc[r] \in {"waiting", "expired", "holding", "dropped"}
    BY <1>1, <2>1 DEF Standing, Owners, HasGuard, InTransit
  <2>3. in_flight > 0
    BY <1>1, OwnersFinite, FS_EmptySet
  <2>. QED
    BY <1>1, <2>1, <2>2, <2>3
<1>3. tr \in [Request -> TrackedState]
  BY <1>1 DEF Forgotten, TrackedState
<1>4. HasGuard' = HasGuard \ {r}
  BY <1>1 DEF HasGuard, Phase
<1>5. CASE \E next \in waiters :
                /\ rx[next] = "empty"
                /\ \A w \in waiters \ {next} : rx[w] = "empty" => Precedes(next, w)
                /\ \E popped \in SUBSET (waiters \ {next}) :
                     /\ \A w \in popped : rx[w] = "closed"
                     /\ waiters' = (waiters \ popped) \ {next}
                     /\ tracked' = Forgotten(popped, tr)
                /\ rx' = [ch EXCEPT ![next] = "sent"]
                /\ in_flight' = in_flight
  <2>. PICK next \in waiters :
                /\ rx[next] = "empty"
                /\ \A w \in waiters \ {next} : rx[w] = "empty" => Precedes(next, w)
                /\ \E popped \in SUBSET (waiters \ {next}) :
                     /\ \A w \in popped : rx[w] = "closed"
                     /\ waiters' = (waiters \ popped) \ {next}
                     /\ tracked' = Forgotten(popped, tr)
                /\ rx' = [ch EXCEPT ![next] = "sent"]
                /\ in_flight' = in_flight
    BY <1>5
  <2>. PICK popped \in SUBSET (waiters \ {next}) :
                     /\ \A w \in popped : rx[w] = "closed"
                     /\ waiters' = (waiters \ popped) \ {next}
                     /\ tracked' = Forgotten(popped, tr)
    OBVIOUS
  <2>1. next \in Request /\ next # r /\ pc[next] \in {"waiting", "expired"}
    BY <1>1, <1>2 DEF Standing
  <2>2. rx' = [q \in Request |-> IF q = next THEN "sent" ELSE IF q = r THEN ch[r] ELSE rx[q]]
    BY <1>1, <2>1
  <2>3. InTransit' = (InTransit \ {r}) \cup {next}
    BY <1>1, <1>2, <2>1, <2>2 DEF InTransit, Phase
  <2>4. Owners' = (Owners \ {r}) \cup {next} /\ next \notin Owners
    BY <1>4, <2>1, <2>3, <1>2 DEF Owners, HasGuard, InTransit
  <2>5. in_flight' = Cardinality(Owners')
    BY <1>1, <2>4, HandOver
  <2>6. Standing'
    BY <1>1, <1>2, <2>1, <2>2 DEF Standing, Phase, ChannelState
  <2>7. GateTypeOK'
    BY <1>1, <1>3, <2>2 DEF GateTypeOK, Forgotten, TrackedState, ChannelState, Phase
  <2>8. PermitsOwned'
    BY <2>5, <2>7, <2>6, <1>4, <2>3, <2>1, <1>1
       DEF PermitsOwned, GateIInv, HasGuard, InTransit
  <2>9. Numbered'
    BY <2>3 DEF GateIInv, Numbered
  <2>10. NoIdlePermit'
    BY DEF GateIInv, NoIdlePermit
  <2>12. TrackedFaithful'
    <3>1. tracked' = [q \in Request |-> IF q \in popped \/ q = r THEN "absent" ELSE tracked[q]]
      BY DEF Forgotten
    <3>2. popped \cap Owners = {}
      BY <1>1, <1>2 DEF Standing, Owners, HasGuard, InTransit
    <3>3. r \notin HasGuard' /\ r \notin (waiters \cup InTransit)'
      BY <1>2, <1>4, <2>1, <2>3
    <3>. QED
      BY <1>1, <1>4, <2>1, <2>3, <3>1, <3>2, <3>3 DEF GateIInv, TrackedFaithful, Owners
  <2>. QED
    BY <2>6, <2>8, <2>9, <2>10, <2>12 DEF GateIInv
<1>6. CASE /\ \A w \in waiters : rx[w] = "closed"
           /\ waiters' = {}
           /\ tracked' = Forgotten(waiters, tr)
           /\ rx' = ch
           /\ in_flight' = in_flight - 1
  <2>1. rx' = [q \in Request |-> IF q = r THEN ch[r] ELSE rx[q]]
    BY <1>1, <1>6
  <2>2. InTransit' = InTransit \ {r}
    BY <1>1, <1>2, <2>1 DEF InTransit, Phase
  <2>3. Owners' = Owners \ {r}
    BY <1>4, <2>2 DEF Owners
  <2>4. in_flight' = Cardinality(Owners')
    BY <1>1, <1>6, <2>3, OwnersFinite
  <2>5. Standing'
    BY <1>1, <1>2, <1>6, <2>1 DEF Standing, Phase, ChannelState
  <2>6. GateTypeOK'
    BY <1>1, <1>2, <1>3, <1>6, <2>1, MaxAssumption
       DEF GateTypeOK, Forgotten, TrackedState, ChannelState, Phase
  <2>7. PermitsOwned'
    BY <2>4, <2>6, <1>4, <2>2, <1>1 DEF PermitsOwned, GateIInv, GateTypeOK
  <2>8. Numbered' /\ NoIdlePermit'
    BY <1>6, <2>2 DEF GateIInv, Numbered, NoIdlePermit
  <2>9. TrackedFaithful'
    <3>1. tracked' = [q \in Request |-> IF q \in waiters \/ q = r THEN "absent" ELSE tracked[q]]
      BY <1>6 DEF Forgotten
    <3>2. waiters \cap Owners = {}
      BY <1>1, <1>2, <1>6 DEF Standing, Owners, HasGuard, InTransit
    <3>. QED
      BY <1>1, <1>4, <1>6, <2>2, <3>1, <3>2 DEF GateIInv, TrackedFaithful, Owners
  <2>. QED
    BY <2>5, <2>7, <2>8, <2>9 DEF GateIInv
<1>. HIDE DEF tr
<1>7. Release(waiters, tr, ch)
  BY DEF tr
<1>. QED
  BY <1>2, <1>3, <1>5, <1>6, <1>7, ReleaseCases

-----------------------------------------------------------------------------
\* An idle gate satisfies the invariant.
LEMMA GateInitEstablishes == GateInit => GateIInv
<1>. SUFFICES ASSUME GateInit PROVE GateIInv
  OBVIOUS
<1>1. Owners = {} /\ HasGuard = {} /\ InTransit = {} /\ waiters = {}
  BY DEF GateInit, Owners, HasGuard, InTransit
<1>2. GateTypeOK
  BY MaxAssumption DEF GateInit, GateTypeOK, TrackedState, ChannelState, Phase
<1>3. PermitsOwned
  BY <1>1, <1>2, FS_EmptySet, MaxAssumption DEF PermitsOwned, GateInit
<1>4. Standing
  BY DEF GateInit, Standing
<1>. QED
  BY <1>1, <1>3, <1>4
     DEF GateInit, GateIInv, Numbered, NoIdlePermit, TrackedFaithful

\* Every step of the gate keeps the invariant, handlers that go away without
\* a permit included.
LEMMA GateStepKeeps ==
    ASSUME CancelWithPermit = FALSE, GateIInv, [GateNext]_gateVars
    PROVE  GateIInv'
<1>1. /\ waiters \subseteq Request /\ seq \in [Request -> Nat] /\ seq_counter \in Nat
      /\ rx \in [Request -> ChannelState] /\ pc \in [Request -> Phase]
      /\ tracked \in [Request -> TrackedState] /\ in_flight \in 0..MaxInFlight
      /\ in_flight = Cardinality(Owners) /\ MaxInFlight \in Nat
      /\ Standing
  BY MaxAssumption DEF GateIInv, PermitsOwned, GateTypeOK
<1>2. CASE UNCHANGED gateVars
  <2>1. /\ HasGuard' = HasGuard /\ InTransit' = InTransit /\ Owners' = Owners
    BY <1>2 DEF gateVars, HasGuard, InTransit, Owners
  <2>. QED
    BY <1>2, <2>1 DEF gateVars, GateIInv, PermitsOwned, GateTypeOK, Standing, Numbered,
       NoIdlePermit, TrackedFaithful
<1>3. ASSUME NEW r \in Request, AcquireNow(r) PROVE GateIInv'
  <2>. USE <1>3 DEF AcquireNow
  <2>1. HasGuard' = HasGuard \cup {r} /\ InTransit' = InTransit
    BY <1>1 DEF HasGuard, InTransit, Phase
  <2>2. Owners' = Owners \cup {r} /\ r \notin Owners /\ waiters = {}
    BY <1>1, <2>1 DEF Owners, HasGuard, InTransit, Standing, GateIInv, NoIdlePermit
  <2>3. in_flight' = Cardinality(Owners')
    BY <1>1, <2>2, OwnersFinite
  <2>4. GateTypeOK' /\ Standing'
    BY <1>1 DEF GateTypeOK, Standing, TrackedState, Phase
  <2>5. PermitsOwned'
    BY <1>1, <2>1, <2>2, <2>3, <2>4 DEF PermitsOwned, GateTypeOK, GateIInv, Owners
  <2>6. TrackedFaithful'
    BY <1>1, <2>1, <2>2 DEF GateIInv, TrackedFaithful, Owners
  <2>7. Numbered' /\ NoIdlePermit'
    BY <2>1, <2>2 DEF GateIInv, Numbered, NoIdlePermit
  <2>. QED
    BY <2>4, <2>5, <2>6, <2>7 DEF GateIInv
<1>4. ASSUME NEW r \in Request, Enqueue(r) PROVE GateIInv'
  <2>. USE <1>4 DEF Enqueue
  <2>1. HasGuard' = HasGuard /\ InTransit' = InTransit /\ Owners' = Owners
    BY <1>1 DEF HasGuard, InTransit, Owners, Phase, Standing
  <2>2. r \notin Owners /\ r \notin waiters
    BY <1>1 DEF Owners, HasGuard, InTransit, Standing
  <2>3. GateTypeOK' /\ Standing'
    BY <1>1 DEF GateTypeOK, Standing, TrackedState, ChannelState, Phase
  <2>4. PermitsOwned'
    BY <1>1, <2>1, <2>3 DEF PermitsOwned, GateIInv
  <2>5. TrackedFaithful'
    BY <1>1, <2>1, <2>2 DEF GateIInv, TrackedFaithful, Owners
  <2>6. InTransit \subseteq Request
    BY DEF InTransit
  <2>7. Numbered'
    BY <1>1, <2>1, <2>2, <2>6 DEF GateIInv, Numbered, Owners
  <2>8. NoIdlePermit'
    BY <1>1 DEF NoIdlePermit
  <2>. QED
    BY <2>3, <2>4, <2>5, <2>7, <2>8 DEF GateIInv
<1>5. ASSUME NEW r \in Request, Wake(r) PROVE GateIInv'
  <2>. USE <1>5 DEF Wake
  <2>1. HasGuard' = HasGuard /\ InTransit' = InTransit /\ Owners' = Owners
    BY <1>1 DEF HasGuard, InTransit, Owners, Phase
  <2>2. GateTypeOK' /\ Standing'
    BY <1>1 DEF GateTypeOK, Standing, ChannelState, Phase
  <2>3. Listening(waiters, rx)' \subseteq Listening(waiters, rx)
    BY <1>1 DEF Listening
  <2>. QED
    BY <1>1, <2>1, <2>2, <2>3
       DEF GateIInv, PermitsOwned, Numbered, NoIdlePermit, TrackedFaithful
<1>6. ASSUME NEW r \in Request, Expire(r) PROVE GateIInv'
  <2>. USE <1>6 DEF Expire
  <2>1. HasGuard' = HasGuard /\ InTransit' = InTransit /\ Owners' = Owners
    BY <1>1 DEF HasGuard, InTransit, Owners, Phase
  <2>2. GateTypeOK' /\ Standing'
    BY <1>1 DEF GateTypeOK, Standing, Phase
  <2>. QED
    BY <1>1, <2>1, <2>2 DEF GateIInv, PermitsOwned, Numbered, NoIdlePermit,
       TrackedFaithful
<1>7. ASSUME NEW r \in Request, Start(r) PROVE GateIInv'
  <2>. USE <1>7 DEF Start
  <2>1. HasGuard' = HasGuard \cup {r} /\ InTransit' = InTransit \ {r}
    BY <1>1 DEF HasGuard, InTransit, Phase, Standing
  <2>2. r \in InTransit /\ Owners' = Owners /\ r \notin waiters
    BY <1>1, <2>1 DEF Owners, InTransit, Standing
  <2>3. GateTypeOK' /\ Standing'
    BY <1>1 DEF GateTypeOK, Standing, TrackedState, Phase
  <2>4. PermitsOwned'
    BY <1>1, <2>1, <2>2, <2>3 DEF PermitsOwned, GateIInv
  <2>5. tracked[r] = "Queued"
    BY <2>2 DEF GateIInv, TrackedFaithful
  <2>6. TrackedFaithful'
    BY <1>1, <2>1, <2>2, <2>5 DEF GateIInv, TrackedFaithful
  <2>7. Numbered' /\ NoIdlePermit'
    BY <2>1, <2>2 DEF GateIInv, Numbered, NoIdlePermit
  <2>. QED
    BY <2>3, <2>4, <2>6, <2>7 DEF GateIInv
<1>8. ASSUME NEW r \in Request, GiveUp(r) PROVE GateIInv'
  <2>. DEFINE ch == [rx EXCEPT ![r] = "closed"]
  <2>1. pc[r] = "expired" /\ pc' = [pc EXCEPT ![r] = "done"] /\ UNCHANGED <<seq, seq_counter>>
    BY <1>8 DEF GiveUp
  <2>2. ch \in [Request -> ChannelState] /\ ch = [rx EXCEPT ![r] = ch[r]] /\ ch[r] = "closed"
    BY <1>1 DEF ChannelState
  <2>3. CASE r \notin waiters /\ rx[r] = "sent"
    <3>1. Release(waiters, Forgotten({r}, tracked), ch)
      BY <1>8, <2>3 DEF GiveUp
    <3>2. r \in Owners
      BY <2>3 DEF Owners, InTransit
    <3>. QED
      BY <2>1, <2>2, <2>3, <3>1, <3>2, LeaveKeeps
  <2>4. CASE r \in waiters \/ rx[r] # "sent"
    <3>1. /\ waiters' = waiters \ {r} /\ tracked' = Forgotten({r}, tracked)
          /\ rx' = ch /\ in_flight' = in_flight
      BY <1>8, <2>4 DEF GiveUp
    <3>2. rx[r] = "empty" /\ r \in waiters /\ r \notin Owners
      BY <1>1, <2>1, <2>4 DEF Standing, Owners, HasGuard, InTransit
    <3>3. HasGuard' = HasGuard /\ InTransit' = InTransit /\ Owners' = Owners
      BY <1>1, <2>1, <3>1, <3>2 DEF HasGuard, InTransit, Owners, Phase
    <3>4. GateTypeOK' /\ Standing'
      BY <1>1, <2>1, <2>2, <3>1, <3>2
         DEF GateTypeOK, Standing, Forgotten, TrackedState, ChannelState, Phase
    <3>5. PermitsOwned'
      BY <1>1, <3>1, <3>3, <3>4 DEF PermitsOwned, GateIInv
    <3>6. Listening(waiters, rx)' \subseteq Listening(waiters, rx)
      BY <1>1, <3>1 DEF Listening
    <3>7. TrackedFaithful'
      BY <1>1, <3>1, <3>2, <3>3 DEF GateIInv, TrackedFaithful, Forgotten, Owners
    <3>8. Numbered' /\ NoIdlePermit'
      BY <2>1, <3>1, <3>3, <3>6 DEF GateIInv, Numbered, NoIdlePermit
    <3>. QED
      BY <3>4, <3>5, <3>7, <3>8 DEF GateIInv
  <2>. QED
    BY <2>3, <2>4
<1>9. ASSUME NEW r \in Request, DropBusy(r) PROVE GateIInv'
  <2>. USE <1>9 DEF DropBusy
  <2>1. HasGuard' = HasGuard /\ InTransit' = InTransit /\ Owners' = Owners
    BY <1>1 DEF HasGuard, InTransit, Owners, Phase
  <2>2. GateTypeOK' /\ Standing'
    BY <1>1 DEF GateTypeOK, Standing, Phase
  <2>. QED
    BY <1>1, <2>1, <2>2 DEF GateIInv, PermitsOwned, Numbered, NoIdlePermit,
       TrackedFaithful
<1>10. ASSUME NEW r \in Request, Drop(r) PROVE GateIInv'
  <2>1. r \in Owners /\ pc[r] # "woken" /\ rx[r] # "sent"
    BY <1>1, <1>10 DEF Drop, Owners, HasGuard, Standing
  <2>2. /\ Release(waiters, Forgotten({r}, tracked), rx)
        /\ pc' = [pc EXCEPT ![r] = "done"] /\ UNCHANGED <<seq, seq_counter>>
    BY <1>10 DEF Drop
  <2>3. rx = [rx EXCEPT ![r] = rx[r]]
    BY <1>1
  <2>. QED
    BY <1>1, <2>1, <2>2, <2>3, LeaveKeeps
<1>11. ASSUME NEW r \in Request, Cancel(r), CancelWithPermit = FALSE PROVE GateIInv'
  <2>1. /\ rx[r] = "empty" /\ rx' = [rx EXCEPT ![r] = "closed"]
        /\ pc' = [pc EXCEPT ![r] = "done"]
        /\ UNCHANGED <<in_flight, waiters, seq, seq_counter, tracked>>
    BY <1>11 DEF Cancel, Abandon
  <2>2. pc[r] \in {"waiting", "expired"}
    BY <1>1, <2>1 DEF Standing
  <2>3. HasGuard' = HasGuard /\ InTransit' = InTransit /\ Owners' = Owners
    BY <1>1, <2>1, <2>2 DEF HasGuard, InTransit, Owners, Phase
  <2>4. GateTypeOK' /\ Standing'
    BY <1>1, <2>1, <2>2 DEF GateTypeOK, Standing, ChannelState, Phase
  <2>5. Listening(waiters, rx)' \subseteq Listening(waiters, rx)
    BY <1>1, <2>1 DEF Listening
  <2>. QED
    BY <1>1, <2>1, <2>3, <2>4, <2>5
       DEF GateIInv, PermitsOwned, Numbered, NoIdlePermit, TrackedFaithful
<1>. QED
  BY <1>2, <1>3, <1>4, <1>5, <1>6, <1>7, <1>8, <1>9, <1>10, <1>11 DEF GateNext

\* The invariant holds throughout, when no waiter is cancelled with a permit.
LEMMA GateInvariant ==
    ASSUME CancelWithPermit = FALSE
    PROVE  GateSpec => []GateIInv
<1>1. GateInit => GateIInv
  BY GateInitEstablishes
<1>2. GateIInv /\ [GateNext]_gateVars => GateIInv'
  BY GateStepKeeps
<1>. QED
  BY <1>1, <1>2, PTL DEF GateSpec

-----------------------------------------------------------------------------
\* The gate neither loses a permit nor hands one out twice: every permit in
\* flight has one owner, and no more are out than max_in_flight.
THEOREM GatePermitsOwned ==
    ASSUME CancelWithPermit = FALSE
    PROVE  GateSpec => []PermitsOwned
<1>1. GateIInv => PermitsOwned
  BY DEF GateIInv
<1>. QED
  BY <1>1, GateInvariant, PTL

\* While a permit is free nobody queues.
THEOREM GateNoIdlePermit ==
    ASSUME CancelWithPermit = FALSE
    PROVE  GateSpec => []NoIdlePermit
<1>1. GateIInv => NoIdlePermit
  BY DEF GateIInv
<1>. QED
  BY <1>1, GateInvariant, PTL

\* Whom a release makes an owner: the waiter it sends the permit to, and that
\* one precedes every waiter that still listens.
LEMMA ReleaseOrder ==
    ASSUME GateIInv,
           NEW r \in Owners,
           NEW tr \in [Request -> TrackedState],
           NEW ch \in [Request -> ChannelState],
           \A w \in Request \ {r} : ch[w] = rx[w],
           r \notin waiters, pc[r] # "woken",
           rx[r] # "sent" => ch[r] # "sent",
           Release(waiters, tr, ch),
           pc' = [pc EXCEPT ![r] = "done"],
           UNCHANGED seq,
           NEW s \in Owners' \ Owners, NEW q \in Listening(waiters, rx'), q # s
    PROVE  /\ s \in waiters
           /\ Priority[q] <= Priority[s]
           /\ Priority[q] = Priority[s] => seq[s] < seq[q]
<1>1. /\ waiters \subseteq Request /\ seq \in [Request -> Nat]
      /\ rx \in [Request -> ChannelState] /\ pc \in [Request -> Phase]
      /\ r \in Request /\ s \in Request /\ q \in waiters /\ rx'[q] # "closed"
      /\ Standing /\ in_flight \in Nat /\ in_flight = Cardinality(Owners)
  BY DEF GateIInv, PermitsOwned, GateTypeOK, Owners, HasGuard, InTransit, Listening
<1>2. in_flight > 0
  BY <1>1, OwnersFinite, FS_EmptySet
<1>3. \A w \in waiters : ch[w] = rx[w]
  BY <1>1
<1>4. rx'[s] = "sent" /\ rx[s] # "sent" /\ s # r
  <2>1. pc'[s] \notin {"holding", "dropped", "woken"} /\ rx'[s] = "sent" /\ rx[s] # "sent"
    BY <1>1 DEF Owners, HasGuard, InTransit
  <2>. QED
    BY <2>1 DEF Owners
<1>5. CASE \E next \in waiters :
                /\ rx[next] = "empty"
                /\ \A w \in waiters \ {next} : rx[w] = "empty" => Precedes(next, w)
                /\ rx' = [ch EXCEPT ![next] = "sent"]
  <2>. PICK next \in waiters :
                /\ rx[next] = "empty"
                /\ \A w \in waiters \ {next} : rx[w] = "empty" => Precedes(next, w)
                /\ rx' = [ch EXCEPT ![next] = "sent"]
    BY <1>5
  <2>1. s = next
    BY <1>1, <1>4
  <2>2. rx[q] = "empty"
    BY <1>1, <1>3, <2>1 DEF Standing
  <2>3. Precedes(s, q) /\ Priority[s] \in Int /\ Priority[q] \in Int
        /\ seq[s] \in Int /\ seq[q] \in Int
    BY <1>1, <2>1, <2>2, PriorityAssumption
  <2>. QED
    BY <2>1, <2>3 DEF Precedes
<1>6. CASE rx' = ch
  BY <1>1, <1>4, <1>6
<1>. QED
  BY <1>2, <1>3, <1>5, <1>6, ReleaseCases

\* Who gets a permit passes nobody that listens and that is of a higher
\* priority, or of the same and came first.
THEOREM GateNoOvertaking ==
    ASSUME CancelWithPermit = FALSE
    PROVE  GateSpec => NoOvertaking
<1>. DEFINE Orderly ==
       \A s \in Owners' \ Owners, r \in Listening(waiters, rx') :
          r # s => /\ s \in waiters
                   /\ Priority[r] <= Priority[s]
                   /\ Priority[r] = Priority[s] => seq[s] < seq[r]
<1>1. ASSUME GateIInv, [GateNext]_gateVars
      PROVE  [Orderly]_gateVars
  <2>. SUFFICES ASSUME GateNext, NEW s \in Owners' \ Owners,
                       NEW q \in Listening(waiters, rx'), q # s
                PROVE  /\ s \in waiters
                       /\ Priority[q] <= Priority[s]
                       /\ Priority[q] = Priority[s] => seq[s] < seq[q]
    BY <1>1
  <2>1. /\ rx \in [Request -> ChannelState] /\ pc \in [Request -> Phase] /\ Standing
        /\ tracked \in [Request -> TrackedState]
    BY <1>1 DEF GateIInv, PermitsOwned, GateTypeOK
  <2>2. q \in waiters
    BY DEF Listening
  <2>3. ASSUME NEW r \in Request, AcquireNow(r) PROVE FALSE
    BY <1>1, <2>2, <2>3 DEF AcquireNow, GateIInv, NoIdlePermit
  <2>4. ASSUME NEW r \in Request,
               \/ Enqueue(r) \/ Wake(r) \/ Expire(r) \/ Start(r) \/ DropBusy(r) \/ Cancel(r)
        PROVE  Owners' \subseteq Owners
    BY <2>1, <2>4 DEF Enqueue, Wake, Expire, Start, DropBusy, Cancel, Abandon,
       Owners, HasGuard, InTransit
  <2>5. ASSUME NEW r \in Request, GiveUp(r)
        PROVE  /\ s \in waiters /\ Priority[q] <= Priority[s]
               /\ Priority[q] = Priority[s] => seq[s] < seq[q]
    <3>. DEFINE ch == [rx EXCEPT ![r] = "closed"]
    <3>1. CASE r \notin waiters /\ rx[r] = "sent"
      <4>1. /\ Release(waiters, Forgotten({r}, tracked), ch)
            /\ pc[r] = "expired" /\ pc' = [pc EXCEPT ![r] = "done"] /\ UNCHANGED seq
        BY <2>5, <3>1 DEF GiveUp
      <4>2. r \in Owners /\ ch \in [Request -> ChannelState]
            /\ Forgotten({r}, tracked) \in [Request -> TrackedState]
            /\ \A w \in Request \ {r} : ch[w] = rx[w]
        BY <2>1, <3>1 DEF Owners, InTransit, ChannelState, Forgotten, TrackedState
      <4>. QED
        BY <1>1, <3>1, <4>1, <4>2, ReleaseOrder
    <3>2. CASE r \in waiters \/ rx[r] # "sent"
      <4>1. rx' = ch /\ pc' = [pc EXCEPT ![r] = "done"]
        BY <2>5, <3>2 DEF GiveUp
      <4>. QED
        BY <2>1, <4>1 DEF Owners, HasGuard, InTransit
    <3>. QED
      BY <3>1, <3>2
  <2>6. ASSUME NEW r \in Request, Drop(r)
        PROVE  /\ s \in waiters /\ Priority[q] <= Priority[s]
               /\ Priority[q] = Priority[s] => seq[s] < seq[q]
    <3>1. r \in Owners /\ pc[r] # "woken" /\ rx[r] # "sent" /\ r \notin waiters
      BY <2>1, <2>6 DEF Drop, Owners, HasGuard, Standing
    <3>2. /\ Release(waiters, Forgotten({r}, tracked), rx)
          /\ pc' = [pc EXCEPT ![r] = "done"] /\ UNCHANGED seq
          /\ Forgotten({r}, tracked) \in [Request -> TrackedState]
      BY <2>1, <2>6 DEF Drop, Forgotten, TrackedState
    <3>. QED
      BY <1>1, <2>1, <3>1, <3>2, ReleaseOrder
  <2>. QED
    BY <2>3, <2>4, <2>5, <2>6 DEF GateNext
<1>. QED
  BY <1>1, GateInvariant, PTL DEF GateSpec, NoOvertaking

\* What /api/inflight lists is who runs and who waits.
THEOREM GateTrackedFaithful ==
    ASSUME CancelWithPermit = FALSE
    PROVE  GateSpec => []TrackedFaithful
<1>1. GateIInv => TrackedFaithful
  BY DEF GateIInv
<1>. QED
  BY <1>1, GateInvariant, PTL
=============================================================================
