------------------------- MODULE ModelManagerProofs -------------------------
(* Proofs about the model manager, for every set of models, requests and      *)
(* clients: a model is never there twice, a keep-alive timer takes no engine   *)
(* from a request that has reset it, and a timer sleeps only while an entry,   *)
(* or the load it was spawned for, has it; but for strays and late aborts.     *)
EXTENDS ModelManager, FiniteSetTheorems, SequenceTheorems, WellFoundedInduction, TLAPS

USE DEF workVars

Record(e) ==
    /\ {"model", "keep"} \subseteq DOMAIN e
    /\ e.model \in Model /\ e.keep \in {"period", "never"}

Entries(list) == list \in Seq(Range(list)) /\ \A i \in DOMAIN list : Record(list[i])

Alone(m) == \A i, j \in Of(m) : i = j

Job == [model : Model \cup {"none"}, keep : {"period", "never"}]
Idle == {"out", "scan", "done"}
Locked == {"recheck", "room", "loaded"}
Widening == {"widen", "narrow", "unloaded", "widened", "restored"}

\* Where an actor stands, against the locks and the list.
Stands(a) ==
    /\ at[a] \notin Idle => job[a].model \in Model
    /\ at[a] \in Widening => a \in Wide
    /\ a \in Client => at[a] \in {"out", "done"}
    /\ a \in Request => job[a].model = Wanted[a]
    /\ at[a] \in Locked => loading_locks[job[a].model] = a
    /\ at[a] \in {"room", "loaded"} /\ job[a].model \in Plain => ~Listed(job[a].model)

Control ==
    /\ at \in [Actor -> Phase] /\ job \in [Actor -> Job]
    /\ loading_locks \in [Model -> Actor \cup {Nobody}]

\* Who may list a model holds its loading lock, from its second look at the list
\* until the new engine is in it.
ManagerIInv ==
    /\ Entries(engines) /\ Control
    /\ \A a \in Actor : Stands(a)
    /\ \A m \in Plain : Alone(m)

-----------------------------------------------------------------------------
(* Lists *)

\* The first entry of a model that is listed is one of its entries.
LEMMA FirstIsListed ==
    ASSUME Entries(engines), NEW m, Listed(m)
    PROVE  First(m) \in Of(m)
<1>1. Of(m) \subseteq Nat /\ Of(m) # {}
  <2>0. engines \in Seq(Range(engines))
    BY DEF Entries
  <2>1. DOMAIN engines = 1..Len(engines) /\ Len(engines) \in Nat
    BY <2>0, LenProperties
  <2>2. \A i \in 1..Len(engines) : i \in Nat
    BY <2>1
  <2>. QED
    BY <2>1, <2>2 DEF Of, Listed
<1>2. PICK i \in Of(m) : \A j \in Of(m) : ~(<<j, i>> \in OpToRel(<, Nat))
  BY <1>1, NatLessThanWellFounded, WFMin
<1>3. \A j \in Of(m) : ~(j < i)
  <2>. SUFFICES ASSUME NEW j \in Of(m), j < i
                PROVE  <<j, i>> \in OpToRel(<, Nat)
    BY <1>2
  <2>1. <<j, i>> \in Nat \X Nat /\ <<j, i>>[1] < <<j, i>>[2]
    BY <1>1
  <2>. QED
    BY <2>1, Zenon DEF OpToRel
<1>4. \A j \in Of(m) : i <= j
  BY <1>1, <1>3
<1>. QED
  BY <1>4 DEF First

\* Every entry of the new list was one of the old: no model comes in.
Fewer ==
    /\ Entries(engines')
    /\ \E from \in [DOMAIN engines' -> DOMAIN engines] :
         /\ \A i \in DOMAIN engines' : engines'[i].model = engines[from[i]].model
         /\ \A i, j \in DOMAIN engines' : from[i] = from[j] => i = j

LEMMA FewerKeeps ==
    ASSUME Fewer, NEW m
    PROVE  /\ Listed(m)' => Listed(m)
           /\ Alone(m) => Alone(m)'
<1>1. PICK from \in [DOMAIN engines' -> DOMAIN engines] :
         /\ \A i \in DOMAIN engines' : engines'[i].model = engines[from[i]].model
         /\ \A i, j \in DOMAIN engines' : from[i] = from[j] => i = j
  BY DEF Fewer
<1>2. \A i \in Of(m)' : from[i] \in Of(m)
  BY <1>1 DEF Of
<1>3. Listed(m)' => Listed(m)
  BY <1>2 DEF Listed
<1>4. Alone(m) => Alone(m)'
  <2>. SUFFICES ASSUME Alone(m), NEW i \in Of(m)', NEW j \in Of(m)' PROVE i = j
    BY DEF Alone
  <2>1. from[i] = from[j]
    BY <1>2 DEF Alone
  <2>. QED
    BY <1>1, <2>1 DEF Of
<1>. QED
  BY <1>3, <1>4

LEMMA SameIsFewer ==
    ASSUME Entries(engines), engines' = engines
    PROVE  Fewer
<1>. DEFINE from == [i \in DOMAIN engines |-> i]
<1>1. from \in [DOMAIN engines' -> DOMAIN engines]
  OBVIOUS
<1>2. /\ \A i \in DOMAIN engines' : engines'[i].model = engines[from[i]].model
      /\ \A i, j \in DOMAIN engines' : from[i] = from[j] => i = j
  OBVIOUS
<1>. HIDE DEF from
<1>. QED
  BY <1>1, <1>2 DEF Fewer

\* One entry is out, and the others are there.
Removed(k) ==
    /\ engines' \in Seq(Range(engines'))
    /\ \E from \in [DOMAIN engines' -> DOMAIN engines] :
         /\ \A i \in DOMAIN engines' : engines'[i] = engines[from[i]] /\ from[i] # k
         /\ \A i, j \in DOMAIN engines' : from[i] = from[j] => i = j
         /\ \A j \in DOMAIN engines : j # k => \E i \in DOMAIN engines' : from[i] = j

LEMMA RemovedEntry ==
    ASSUME Entries(engines), NEW k \in DOMAIN engines, engines' = RemoveAt(engines, k)
    PROVE  Removed(k)
<1>. DEFINE R == Range(engines)
            front == SubSeq(engines, 1, k - 1)
            back == SubSeq(engines, k + 1, Len(engines))
<1>1. /\ engines \in Seq(R) /\ Len(engines) \in Nat /\ DOMAIN engines = 1..Len(engines)
      /\ \A i \in 1..Len(engines) : engines[i] \in R
  BY LenProperties DEF Entries, Range
<1>2. k \in Nat /\ 1 <= k /\ k <= Len(engines)
  BY <1>1
<1>3. /\ front \in Seq(R) /\ Len(front) = k - 1
      /\ \A i \in 1..(k - 1) : front[i] = engines[i]
  <2>1. \A i \in 1..(k - 1) : engines[i] \in R
    BY <1>1, <1>2
  <2>2. /\ front \in Seq(R)
        /\ Len(front) = IF 1 <= k - 1 THEN (k - 1) - 1 + 1 ELSE 0
        /\ \A i \in 1..((k - 1) - 1 + 1) : front[i] = engines[1 + i - 1]
    <3>. HIDE DEF R
    <3>. QED
      BY <1>2, <2>1, SubSeqProperties
  <2>. HIDE DEF R, front
  <2>. QED
    BY <1>2, <2>2
<1>4. /\ back \in Seq(R) /\ Len(back) = Len(engines) - k
      /\ \A i \in 1..(Len(engines) - k) : back[i] = engines[k + i]
  <2>1. \A i \in (k + 1)..Len(engines) : engines[i] \in R
    BY <1>1, <1>2
  <2>2. /\ back \in Seq(R)
        /\ Len(back) = IF k + 1 <= Len(engines) THEN Len(engines) - (k + 1) + 1 ELSE 0
        /\ \A i \in 1..(Len(engines) - (k + 1) + 1) : back[i] = engines[(k + 1) + i - 1]
    <3>. HIDE DEF R
    <3>. QED
      BY <1>1, <1>2, <2>1, SubSeqProperties
  <2>. HIDE DEF R, back
  <2>3. /\ Len(back) = Len(engines) - k
        /\ Len(engines) - (k + 1) + 1 = Len(engines) - k
    BY <1>1, <1>2, <2>2
  <2>4. \A i \in 1..(Len(engines) - k) : (k + 1) + i - 1 = k + i
    BY <1>1, <1>2
  <2>. QED
    BY <2>2, <2>3, <2>4
<1>5. engines' = front \o back
  BY DEF RemoveAt
<1>. DEFINE from == [i \in DOMAIN engines' |-> IF i < k THEN i ELSE i + 1]
<1>6. /\ engines' \in Seq(R) /\ Len(engines') = Len(engines) - 1
      /\ DOMAIN engines' = 1..(Len(engines) - 1)
      /\ \A i \in 1..(Len(engines) - 1) :
           engines'[i] = IF i < k THEN engines[i] ELSE engines[i + 1]
  <2>. HIDE DEF R, front, back
  <2>1. /\ front \o back \in Seq(R) /\ Len(front \o back) = Len(front) + Len(back)
        /\ \A i \in 1..(Len(front) + Len(back)) :
             (front \o back)[i] = IF i <= Len(front) THEN front[i] ELSE back[i - Len(front)]
    BY <1>3, <1>4, ConcatProperties
  <2>2. Len(front) + Len(back) = Len(engines) - 1
    BY <1>1, <1>2, <1>3, <1>4
  <2>3. ASSUME NEW i \in 1..(Len(engines) - 1)
        PROVE  engines'[i] = IF i < k THEN engines[i] ELSE engines[i + 1]
    <3>1. CASE i < k
      <4>1. i \in 1..(k - 1) /\ i <= Len(front)
        BY <1>2, <1>3, <3>1
      <4>. QED
        BY <1>3, <1>5, <2>1, <2>2, <3>1, <4>1
    <3>2. CASE ~(i < k)
      <4>1. /\ ~(i <= Len(front)) /\ i - Len(front) = i - k + 1
            /\ i - k + 1 \in 1..(Len(engines) - k) /\ k + (i - k + 1) = i + 1
        BY <1>1, <1>2, <1>3, <3>2
      <4>. QED
        BY <1>4, <1>5, <2>1, <2>2, <3>2, <4>1
    <3>. QED
      BY <3>1, <3>2
  <2>4. DOMAIN engines' = 1..(Len(engines) - 1)
    <3>1. DOMAIN (front \o back) = 1..Len(front \o back)
      BY <2>1, LenProperties
    <3>. QED
      BY <1>5, <2>1, <2>2, <3>1
  <2>. QED
    BY <1>5, <2>1, <2>2, <2>3, <2>4
<1>. HIDE DEF R, front, back
<1>7. /\ from \in [DOMAIN engines' -> DOMAIN engines]
      /\ \A i \in DOMAIN engines' : engines'[i] = engines[from[i]] /\ from[i] # k
      /\ \A i, j \in DOMAIN engines' : from[i] = from[j] => i = j
  <2>1. ASSUME NEW i \in 1..(Len(engines) - 1)
        PROVE  /\ (IF i < k THEN i ELSE i + 1) \in 1..Len(engines)
               /\ (IF i < k THEN i ELSE i + 1) # k
    BY <1>1, <1>2
  <2>2. \A i, j \in 1..(Len(engines) - 1) :
           (IF i < k THEN i ELSE i + 1) = (IF j < k THEN j ELSE j + 1) => i = j
    BY <1>1, <1>2
  <2>. QED
    BY <1>1, <1>6, <2>1, <2>2
<1>8. ASSUME NEW j \in DOMAIN engines, j # k
      PROVE  \E i \in DOMAIN engines' : from[i] = j
  <2>1. CASE j < k
    <3>1. j \in 1..(Len(engines) - 1)
      BY <1>1, <1>2, <2>1
    <3>. QED
      BY <1>6, <2>1, <3>1
  <2>2. CASE ~(j < k)
    <3>1. j - 1 \in 1..(Len(engines) - 1) /\ ~(j - 1 < k) /\ (j - 1) + 1 = j
      BY <1>1, <1>2, <1>8, <2>2
    <3>. QED
      BY <1>6, <3>1
  <2>. QED
    BY <2>1, <2>2
<1>9. engines' \in Seq(Range(engines'))
  BY <1>6, SeqOfRange
<1>. HIDE DEF from
<1>. QED
  BY <1>7, <1>8, <1>9 DEF Removed

LEMMA RemovedIsFewer ==
    ASSUME Entries(engines), NEW k \in DOMAIN engines, engines' = RemoveAt(engines, k)
    PROVE  Fewer
<1>1. Removed(k)
  BY RemovedEntry
<1>2. \A i \in DOMAIN engines' : \E j \in DOMAIN engines : engines'[i] = engines[j]
  BY <1>1 DEF Removed
<1>3. Entries(engines')
  BY <1>1, <1>2 DEF Entries, Removed
<1>. QED
  BY <1>1, <1>3 DEF Fewer, Removed

LEMMA TakeOutIsFewer ==
    ASSUME Entries(engines), NEW m, TakeOut(m)
    PROVE  Fewer
<1>1. CASE Listed(m) /\ engines' = RemoveAt(engines, First(m))
  <2>1. First(m) \in DOMAIN engines
    BY <1>1, FirstIsListed DEF Of
  <2>. QED
    BY <1>1, <2>1, RemovedIsFewer
<1>2. CASE engines' = engines
  BY <1>2, SameIsFewer
<1>. QED
  BY <1>1, <1>2 DEF TakeOut

\* A new timer in an entry is no new entry.
LEMMA RetimedIsFewer ==
    ASSUME Entries(engines), NEW k \in DOMAIN engines, NEW t,
           engines' = [engines EXCEPT ![k].timer = t]
    PROVE  Fewer
<1>. DEFINE R == Range(engines)
            e == [engines[k] EXCEPT !.timer = t]
<1>1. /\ engines \in Seq(R) /\ Len(engines) \in Nat /\ DOMAIN engines = 1..Len(engines)
      /\ k \in 1..Len(engines)
  BY LenProperties DEF Entries
<1>2. Record(e) /\ e.model = engines[k].model
  <2>1. Record(engines[k])
    BY DEF Entries
  <2>. QED
    BY <2>1 DEF Record
<1>3. engines' = [engines EXCEPT ![k] = e]
  OBVIOUS
<1>. HIDE DEF e
<1>4. engines \in Seq(R \cup {e})
  BY <1>1, SeqMonotonic
<1>. HIDE DEF R
<1>5. /\ engines' \in Seq(R \cup {e}) /\ Len(engines') = Len(engines)
      /\ \A i \in 1..Len(engines) : engines'[i] = IF i = k THEN e ELSE engines[i]
  BY <1>1, <1>3, <1>4, ExceptSeq
<1>6. DOMAIN engines' = DOMAIN engines
  BY <1>1, <1>5, LenProperties
<1>7. engines' \in Seq(Range(engines'))
  BY <1>5, SeqOfRange
<1>8. \A i \in DOMAIN engines' : Record(engines'[i]) /\ engines'[i].model = engines[i].model
  BY <1>1, <1>2, <1>5, <1>6 DEF Entries
<1>. DEFINE from == [i \in DOMAIN engines |-> i]
<1>9. /\ from \in [DOMAIN engines' -> DOMAIN engines]
      /\ \A i \in DOMAIN engines' : engines'[i].model = engines[from[i]].model
      /\ \A i, j \in DOMAIN engines' : from[i] = from[j] => i = j
  BY <1>6, <1>8
<1>. HIDE DEF from
<1>. QED
  BY <1>7, <1>8, <1>9 DEF Fewer, Entries

\* An entry that comes in lists its model, and no other.
LEMMA PushedEntry ==
    ASSUME Entries(engines), NEW e, Record(e), engines' = Append(engines, e)
    PROVE  /\ Entries(engines')
           /\ \A m : m # e.model => /\ Listed(m)' => Listed(m)
                                    /\ Alone(m) => Alone(m)'
           /\ ~Listed(e.model) => Alone(e.model)'
<1>. DEFINE R == Range(engines) \cup {e}
<1>1. /\ engines \in Seq(R) /\ Len(engines) \in Nat /\ DOMAIN engines = 1..Len(engines)
  BY LenProperties, SeqMonotonic DEF Entries
<1>2. e \in R
  OBVIOUS
<1>. HIDE DEF R
<1>3. /\ engines' \in Seq(R) /\ Len(engines') = Len(engines) + 1
      /\ \A i \in 1..Len(engines) : engines'[i] = engines[i]
      /\ engines'[Len(engines) + 1] = e
  BY <1>1, <1>2, AppendProperties
<1>4. DOMAIN engines' = 1..(Len(engines) + 1)
  BY <1>3, LenProperties
<1>5. \A i \in DOMAIN engines' : i \in DOMAIN engines \/ i = Len(engines) + 1
  BY <1>1, <1>4
<1>6. Entries(engines')
  <2>1. engines' \in Seq(Range(engines'))
    BY <1>3, SeqOfRange
  <2>. QED
    BY <1>1, <1>3, <1>5, <2>1 DEF Entries
<1>7. \A m : m # e.model => Of(m)' = Of(m)
  BY <1>1, <1>3, <1>4, <1>5 DEF Of
<1>8. ~Listed(e.model) => Of(e.model)' \subseteq {Len(engines) + 1}
  BY <1>1, <1>3, <1>5 DEF Of, Listed
<1>. QED
  BY <1>6, <1>7, <1>8 DEF Listed, Alone
-----------------------------------------------------------------------------
(* The steps *)

\* A step that lists no new model, leaves the locks alone and moves one actor
\* among the places where it holds what it held before.
LEMMA SteadyStep ==
    ASSUME ManagerIInv, Fewer, Control',
           \A b \in Actor :
              /\ job'[b].model = job[b].model \/ at'[b] \in Idle
              /\ at'[b] \notin Idle => job'[b].model \in Model
              /\ at'[b] \in Widening => b \in Wide
              /\ b \in Client => at'[b] \in {"out", "done"}
              /\ b \in Request => job'[b].model = Wanted[b]
              /\ at'[b] \in Locked =>
                   at[b] \in Locked /\ loading_locks'[job'[b].model] = loading_locks[job[b].model]
              /\ at'[b] \in {"room", "loaded"} =>
                   at[b] \in {"room", "loaded"} \/ ~Listed(job[b].model)
    PROVE  ManagerIInv'
<1>1. \A m : (Listed(m)' => Listed(m)) /\ (Alone(m) => Alone(m)')
  BY FewerKeeps
<1>2. ASSUME NEW b \in Actor PROVE Stands(b)'
  BY <1>1, <1>2 DEF ManagerIInv, Stands, Idle, Locked, Plain
<1>. QED
  BY <1>1, <1>2 DEF ManagerIInv, Fewer, Plain

LEMMA ActorKinds ==
    /\ Request \subseteq Actor /\ Client \subseteq Actor /\ Mover \in Actor
    /\ \A a \in Actor : a \notin Client => a \in Request \/ a = Mover
    /\ \A a \in Request : a \notin Client /\ a # Mover
    /\ \A a \in Client : a # Mover
    /\ \A r \in Request : Wanted[r] \in Model
BY ActorAssumption, WantedAssumption DEF Actor

\* Whoever is served goes on: the mover to its next model, a wide request to
\* the window, any other to the list.
LEMMA ServedPhase ==
    ASSUME NEW a \in Actor, Stands(a), a \notin Client
    PROVE  /\ Served(a) \in Phase /\ Served(a) \notin Locked
           /\ Served(a) \in Widening => a \in Wide
           /\ a = Mover => Served(a) = "scan"
           /\ a # Mover => Served(a) \in {"widen", "lookup"}
BY ActorKinds, WideAssumption DEF Served, Phase, Locked, Widening

\* The loading lock of a model is another's, or this actor's alone.
LEMMA LockIsOwn ==
    ASSUME ManagerIInv, NEW a \in Actor, at[a] \in Locked
    PROVE  /\ loading_locks[job[a].model] = a /\ job[a].model \in Model
           /\ \A b \in Actor : at[b] \in Locked /\ b # a => job[b].model # job[a].model
BY DEF ManagerIInv, Stands, Locked, Idle

LEMMA FastPathStep ==
    ASSUME ManagerIInv, NEW a \in Actor, FastPath(a)
    PROVE  ManagerIInv'
<1>1. /\ UNCHANGED <<engines, loading_locks, job>> /\ a \notin Client /\ Stands(a)
      /\ \/ a \in Request /\ at[a] = "out"
         \/ a = Mover /\ at[a] = "fast"
      /\ \/ at' = [at EXCEPT ![a] = Served(a)]
         \/ at' = [at EXCEPT ![a] = "lock"]
  BY ActorKinds DEF FastPath, Goto, ManagerIInv
<1>2. Fewer /\ job[a].model \in Model
  BY <1>1, SameIsFewer, ActorKinds DEF ManagerIInv, Stands, Idle
<1>3. Control'
  BY <1>1, ServedPhase DEF ManagerIInv, Control, Phase
<1>. QED
  BY <1>1, <1>2, <1>3, ServedPhase, SteadyStep
     DEF ManagerIInv, Control, Stands, Idle, Locked, Widening

LEMMA TakeLockStep ==
    ASSUME ManagerIInv, NEW a \in Actor, TakeLock(a)
    PROVE  ManagerIInv'
<1>1. /\ UNCHANGED <<engines, job>> /\ at[a] = "lock" /\ job[a].model \in Model
      /\ at' = [at EXCEPT ![a] = "recheck"]
      /\ loading_locks[job[a].model] = Nobody
      /\ loading_locks' = [loading_locks EXCEPT ![job[a].model] = a]
  BY DEF TakeLock, Goto, ManagerIInv, Stands, Idle
<1>2. Fewer
  BY <1>1, SameIsFewer DEF ManagerIInv
<1>3. Control'
  BY <1>1 DEF ManagerIInv, Control, Phase
<1>4. \A m : Listed(m)' <=> Listed(m)
  BY <1>1 DEF Listed, Of
<1>5. \A m : Alone(m)' <=> Alone(m)
  BY <1>1 DEF Alone, Of
<1>6. \A b \in Actor : at[b] \in Locked => job[b].model # job[a].model
  BY <1>1, ActorAssumption DEF ManagerIInv, Stands
<1>7. ASSUME NEW b \in Actor PROVE Stands(b)'
  <2>1. CASE b = a
    BY <1>1, <2>1 DEF ManagerIInv, Control, Stands, Idle, Locked, Widening
  <2>2. CASE b # a
    <3>1. at'[b] = at[b] /\ job'[b] = job[b]
      BY <1>1, <2>2 DEF ManagerIInv, Control
    <3>2. at[b] \in Locked => loading_locks'[job[b].model] = loading_locks[job[b].model]
      BY <1>1, <1>6 DEF ManagerIInv, Control, Stands, Locked, Idle
    <3>. QED
      BY <1>4, <3>1, <3>2 DEF ManagerIInv, Stands, Plain
  <2>. QED
    BY <2>1, <2>2
<1>. QED
  BY <1>2, <1>3, <1>5, <1>7 DEF ManagerIInv, Fewer, Plain

LEMMA RecheckStep ==
    ASSUME ManagerIInv, NEW a \in Actor, Recheck(a)
    PROVE  ManagerIInv'
<1>1. /\ UNCHANGED <<engines, job>> /\ at[a] = "recheck" /\ Stands(a) /\ a \notin Client
      /\ at[a] \in Locked
  BY DEF Recheck, ManagerIInv, Stands, Locked
<1>2. Fewer
  BY <1>1, SameIsFewer DEF ManagerIInv
<1>3. CASE Unlock(a) /\ Goto(a, Served(a))
  <2>1. Control'
    BY <1>1, <1>3, ServedPhase DEF ManagerIInv, Control, Unlock, Goto
  <2>. QED
    BY <1>1, <1>2, <1>3, <2>1, LockIsOwn, ServedPhase, SteadyStep
       DEF ManagerIInv, Control, Stands, Idle, Locked, Widening, Unlock, Goto
<1>4. CASE ~Listed(job[a].model) /\ Goto(a, "room") /\ UNCHANGED loading_locks
  <2>1. Control'
    BY <1>1, <1>4 DEF ManagerIInv, Control, Goto, Phase
  <2>. QED
    BY <1>1, <1>2, <1>4, <2>1, SteadyStep
       DEF ManagerIInv, Control, Stands, Idle, Locked, Widening, Goto
<1>. QED
  BY <1>3, <1>4 DEF Recheck

LEMMA EvictStep ==
    ASSUME ManagerIInv, NEW a \in Actor, Evict(a)
    PROVE  ManagerIInv'
<1>1. Fewer /\ UNCHANGED <<at, job, loading_locks>>
  BY TakeOutIsFewer DEF Evict, ManagerIInv
<1>2. Control'
  BY <1>1 DEF ManagerIInv, Control
<1>. QED
  BY <1>1, <1>2, SteadyStep DEF ManagerIInv, Stands

LEMMA LoadStep ==
    ASSUME ManagerIInv, NEW a \in Actor, Load(a)
    PROVE  ManagerIInv'
<1>1. /\ UNCHANGED <<engines, job>> /\ at[a] = "room" /\ Stands(a) /\ a \notin Client
      /\ at[a] \in Locked
  BY DEF Load, ManagerIInv, Stands, Locked
<1>2. Fewer
  BY <1>1, SameIsFewer DEF ManagerIInv
<1>3. CASE at' = [at EXCEPT ![a] = "loaded"] /\ UNCHANGED loading_locks
  <2>1. Control'
    BY <1>1, <1>3 DEF ManagerIInv, Control, Phase
  <2>. QED
    BY <1>1, <1>2, <1>3, <2>1, SteadyStep
       DEF ManagerIInv, Control, Stands, Idle, Locked, Widening
<1>4. CASE Unlock(a) /\ Goto(a, IF a = Mover THEN "scan" ELSE "done")
  <2>1. Control'
    BY <1>1, <1>4 DEF ManagerIInv, Control, Unlock, Goto, Phase
  <2>. QED
    BY <1>1, <1>2, <1>4, <2>1, LockIsOwn, SteadyStep
       DEF ManagerIInv, Control, Stands, Idle, Locked, Widening, Unlock, Goto
<1>. QED
  BY <1>3, <1>4 DEF Load, Loads, Goto
\* The entry a new engine gets is a record of the actor's model.
LEMMA NewEntryRecord ==
    ASSUME Control, NEW a \in Actor, job[a].model \in Model, NEW wide
    PROVE  Record(NewEntry(a, wide)) /\ NewEntry(a, wide).model = job[a].model
BY DEF Control, Job, Record, NewEntry

LEMMA PushStep ==
    ASSUME ManagerIInv, NEW a \in Actor, Push(a)
    PROVE  ManagerIInv'
<1>1. /\ UNCHANGED job /\ at[a] = "loaded" /\ Stands(a) /\ a \notin Client
      /\ at[a] \in Locked /\ job[a].model \in Model
      /\ Unlock(a) /\ Goto(a, Served(a))
  BY DEF Push, ManagerIInv, Stands, Locked, Idle
<1>2. Control'
  BY <1>1, ServedPhase DEF ManagerIInv, Control, Unlock, Goto
<1>3. CASE UNCHANGED engines
  <2>1. Fewer
    BY <1>3, SameIsFewer DEF ManagerIInv
  <2>. QED
    BY <1>1, <1>2, <2>1, LockIsOwn, ServedPhase, SteadyStep
       DEF ManagerIInv, Control, Stands, Idle, Locked, Widening, Unlock, Goto
<1>4. CASE ~Listed(job[a].model) /\ engines' = Append(engines, NewEntry(a, a \in Wide))
  <2>1. PICK e : engines' = Append(engines, e) /\ e = NewEntry(a, a \in Wide)
    BY <1>4
  <2>2. Record(e) /\ e.model = job[a].model
    BY <1>1, <2>1, NewEntryRecord DEF ManagerIInv
  <2>3. /\ Entries(engines')
        /\ \A m : m # e.model => /\ Listed(m)' => Listed(m)
                                 /\ Alone(m) => Alone(m)'
        /\ \A m : m = e.model => Alone(m)'
    BY <1>4, <2>1, <2>2, PushedEntry DEF ManagerIInv
  <2>4. ASSUME NEW b \in Actor PROVE Stands(b)'
    <3>1. CASE b = a
      BY <1>1, <3>1, ServedPhase, ActorKinds
         DEF ManagerIInv, Control, Stands, Idle, Locked, Widening, Unlock, Goto
    <3>2. CASE b # a
      <4>1. at'[b] = at[b] /\ job'[b] = job[b]
        BY <1>1, <3>2 DEF ManagerIInv, Control, Goto
      <4>2. at[b] \in Locked => job[b].model # job[a].model
        BY <1>1, <3>2, LockIsOwn
      <4>3. at[b] \in Locked => loading_locks'[job[b].model] = loading_locks[job[b].model]
        BY <1>1, <4>2 DEF ManagerIInv, Control, Stands, Locked, Idle, Unlock
      <4>. QED
        BY <2>2, <2>3, <4>1, <4>2, <4>3 DEF ManagerIInv, Stands, Plain, Locked
    <3>. QED
      BY <3>1, <3>2
  <2>. QED
    BY <1>2, <2>3, <2>4 DEF ManagerIInv, Plain
<1>. QED
  BY <1>3, <1>4 DEF Push

\* The window of a model is widened, or was wide.
LEMMA WidenStep ==
    ASSUME ManagerIInv, NEW a \in Request,
           WidenRead(a) \/ WidenUnload(a) \/ WidenLoad(a)
    PROVE  ManagerIInv'
<1>1. /\ a \in Actor /\ Stands(a) /\ UNCHANGED loading_locks /\ a \notin Client
      /\ at[a] \in Widening
  BY ActorKinds DEF WidenRead, WidenUnload, WidenLoad, ManagerIInv, Widening
<1>2. CASE WidenRead(a)
  <2>1. Fewer
    BY <1>2, SameIsFewer DEF WidenRead, ManagerIInv
  <2>2. CASE /\ Listed(job[a].model)
             /\ job' = [job EXCEPT ![a].keep = Entry(job[a].model).keep]
             /\ Goto(a, "narrow")
    <3>1. Entry(job[a].model).keep \in {"period", "never"}
      BY <2>2, FirstIsListed DEF ManagerIInv, Entries, Record, Entry, Of
    <3>2. Control'
      BY <1>1, <2>2, <3>1 DEF ManagerIInv, Control, Job, Goto, Phase
    <3>3. \A b \in Actor : job'[b].model = job[b].model
      BY <1>1, <2>2 DEF ManagerIInv, Control, Job
    <3>. QED
      BY <1>1, <2>1, <2>2, <3>2, <3>3, SteadyStep
         DEF ManagerIInv, Control, Stands, Idle, Locked, Widening, Goto
  <2>3. CASE Goto(a, "lookup") /\ UNCHANGED job
    <3>1. Control'
      BY <1>1, <2>3 DEF ManagerIInv, Control, Goto, Phase
    <3>. QED
      BY <1>1, <2>1, <2>3, <3>1, SteadyStep
         DEF ManagerIInv, Control, Stands, Idle, Locked, Widening, Goto
  <2>. QED
    BY <1>2, <2>2, <2>3 DEF WidenRead
<1>3. CASE WidenUnload(a) \/ WidenLoad(a)
  <2>1. Fewer
    BY <1>3, SameIsFewer, TakeOutIsFewer DEF WidenUnload, WidenLoad, ManagerIInv
  <2>2. /\ UNCHANGED job
        /\ \E p \in {"unloaded", "widened", "restored", "done"} : Goto(a, p)
    BY <1>3 DEF WidenUnload, WidenLoad, Loads
  <2>3. Control'
    BY <1>1, <2>2 DEF ManagerIInv, Control, Goto, Phase
  <2>. QED
    BY <1>1, <2>1, <2>2, <2>3, SteadyStep
       DEF ManagerIInv, Control, Stands, Idle, Locked, Widening, Goto
<1>. QED
  BY <1>2, <1>3

\* A reload that widens lists a model that is not among the plain ones.
LEMMA WidenPushStep ==
    ASSUME ManagerIInv, NEW a \in Request, WidenPush(a)
    PROVE  ManagerIInv'
<1>1. /\ a \in Actor /\ Stands(a) /\ UNCHANGED <<loading_locks, job>> /\ a \notin Client
      /\ at[a] \in Widening /\ a \in Wide /\ job[a].model \in Model
      /\ Goto(a, IF at[a] = "widened" THEN "lookup" ELSE "done")
      /\ engines' = Append(engines, NewEntry(a, at[a] = "widened"))
  BY ActorKinds DEF WidenPush, ManagerIInv, Widening, Stands, Idle
<1>2. job[a].model \notin Plain
  BY <1>1 DEF Stands, Plain
<1>3. PICK e : engines' = Append(engines, e) /\ e = NewEntry(a, at[a] = "widened")
  BY <1>1
<1>4. Record(e) /\ e.model = job[a].model
  BY <1>1, <1>3, NewEntryRecord DEF ManagerIInv
<1>5. /\ Entries(engines')
      /\ \A m \in Plain : (Listed(m)' => Listed(m)) /\ (Alone(m) => Alone(m)')
  BY <1>2, <1>3, <1>4, PushedEntry DEF ManagerIInv
<1>6. Control'
  BY <1>1 DEF ManagerIInv, Control, Goto, Phase
<1>7. ASSUME NEW b \in Actor PROVE Stands(b)'
  BY <1>1, <1>5 DEF ManagerIInv, Control, Stands, Idle, Locked, Widening, Goto, Plain
<1>. QED
  BY <1>5, <1>6, <1>7 DEF ManagerIInv, Plain

\* A request takes its engine, sets the timer and runs.
LEMMA ServeStep ==
    ASSUME ManagerIInv, NEW r \in Request,
           GetEngine(r) \/ ResetExpiration(r) \/ Admit(r) \/ Finish(r)
    PROVE  ManagerIInv'
<1>1. /\ r \in Actor /\ r \notin Client /\ UNCHANGED <<job, loading_locks>>
      /\ at[r] \in {"lookup", "found", "ready", "running"}
      /\ \E p \in {"found", "ready", "running", "done"} : Goto(r, p)
  <2>0. r \in Actor /\ r \notin Client
    BY ActorKinds
  <2>1. CASE GetEngine(r)
    BY <2>0, <2>1 DEF GetEngine
  <2>2. CASE ResetExpiration(r)
    BY <2>0, <2>2 DEF ResetExpiration
  <2>3. CASE Admit(r)
    BY <2>0, <2>3 DEF Admit
  <2>4. CASE Finish(r)
    BY <2>0, <2>4 DEF Finish
  <2>. QED
    BY <2>1, <2>2, <2>3, <2>4
<1>2. Control'
  BY <1>1 DEF ManagerIInv, Control, Goto, Phase
<1>3. Fewer
  <2>1. CASE UNCHANGED engines
    BY <2>1, SameIsFewer DEF ManagerIInv
  <2>2. CASE ResetExpiration(r) /\ engines' # engines
    <3>1. PICK t : /\ Listed(job[r].model)
                   /\ engines' = [engines EXCEPT ![First(job[r].model)].timer = t]
      BY <2>2 DEF ResetExpiration
    <3>2. First(job[r].model) \in DOMAIN engines
      BY <3>1, FirstIsListed DEF ManagerIInv, Of
    <3>. QED
      BY <3>1, <3>2, RetimedIsFewer DEF ManagerIInv
  <2>. QED
    BY <2>1, <2>2 DEF GetEngine, Admit, Finish
<1>. QED
  BY <1>1, <1>2, <1>3, SteadyStep
     DEF ManagerIInv, Control, Stands, Idle, Locked, Widening, Goto

\* The mover may be woken by any step that frees room.
LEMMA WokenStep ==
    ASSUME ManagerIInv, Fewer, UNCHANGED <<job, loading_locks>>,
           \/ at' = at \/ at' = Woken(at)
           \/ \E c \in Client : LET left == [at EXCEPT ![c] = "done"]
                              IN at' = left \/ at' = Woken(left)
    PROVE  ManagerIInv'
<1>1. \A b \in Actor : \/ at'[b] = at[b]
                       \/ b = Mover /\ at'[b] = "scan"
                       \/ b \in Client /\ at'[b] = "done"
  BY ActorKinds DEF ManagerIInv, Control, Woken
<1>2. at' \in [Actor -> Phase]
  BY ActorKinds DEF ManagerIInv, Control, Woken, Phase
<1>3. Control'
  BY <1>2 DEF ManagerIInv, Control
<1>. QED
  BY <1>1, <1>3, ActorKinds, SteadyStep
     DEF ManagerIInv, Control, Stands, Idle, Locked, Widening

LEMMA TimerStep ==
    ASSUME ManagerIInv, NEW t \in 1..MaxTimers, Timer(t)
    PROVE  ManagerIInv'
<1>1. UNCHANGED <<job, loading_locks>> /\ (at' = at \/ at' = Woken(at))
  <2>1. Cancelled(t) \/ Expire(t) \/ ExpireLater(t) => UNCHANGED <<job, loading_locks, at>>
    BY DEF Cancelled, Expire, ExpireLater
  <2>2. ExpireUnload(t) \/ ExpireNothing(t) => UNCHANGED <<job, loading_locks>> /\ LetMoverIn(t)
    BY DEF ExpireUnload, ExpireNothing
  <2>. QED
    BY <2>1, <2>2 DEF Timer, LetMoverIn
<1>2. Fewer
  <2>1. CASE Expire(t)
    <3>1. PICK m : Listed(m) /\ engines' = RemoveAt(engines, First(m))
      BY <2>1 DEF Expire
    <3>2. First(m) \in DOMAIN engines
      BY <3>1, FirstIsListed DEF ManagerIInv, Of
    <3>. QED
      BY <3>1, <3>2, RemovedIsFewer DEF ManagerIInv
  <2>2. CASE UNCHANGED engines
    BY <2>2, SameIsFewer DEF ManagerIInv
  <2>. QED
    BY <2>1, <2>2 DEF Timer, Cancelled, ExpireUnload, ExpireNothing, ExpireLater
<1>. QED
  BY <1>1, <1>2, WokenStep

LEMMA MovingStep ==
    ASSUME ManagerIInv, Moving
    PROVE  ManagerIInv'
<1>1. /\ Mover \in Actor /\ Mover \notin Client /\ Mover \notin Request
      /\ UNCHANGED loading_locks
      /\ at[Mover] \in {"scan", "chosen"}
  BY ActorKinds DEF Moving, Choose, Move, EndPass, PassOver
<1>2. Fewer
  BY SameIsFewer, TakeOutIsFewer DEF Moving, Choose, Move, EndPass, PassOver, ManagerIInv
<1>3. CASE Choose
  <2>1. PICK i \in DOMAIN engines :
          job' = [job EXCEPT ![Mover] = [model |-> engines[i].model, keep |-> engines[i].keep]]
    BY <1>3 DEF Choose
  <2>2. engines[i].model \in Model /\ engines[i].keep \in {"period", "never"}
    BY DEF ManagerIInv, Entries, Record
  <2>3. at' = [at EXCEPT ![Mover] = "chosen"] /\ at[Mover] = "scan"
    BY <1>3 DEF Choose, Goto
  <2>4. Control'
    BY <1>1, <2>1, <2>2, <2>3 DEF ManagerIInv, Control, Job, Phase
  <2>5. \A m : (Listed(m)' => Listed(m)) /\ (Alone(m) => Alone(m)')
    BY <1>2, FewerKeeps
  <2>6. ASSUME NEW b \in Actor PROVE Stands(b)'
    BY <1>1, <2>1, <2>2, <2>3, <2>5 DEF ManagerIInv, Control, Stands, Idle, Locked, Widening, Plain
  <2>. QED
    BY <1>2, <2>4, <2>5, <2>6 DEF ManagerIInv, Fewer, Plain
<1>4. CASE Move
  <2>1. UNCHANGED job /\ \E p \in {"fast", "scan"} : Goto(Mover, p)
    BY <1>4 DEF Move
  <2>2. at[Mover] = "chosen"
    BY <1>4 DEF Move
  <2>3. Control'
    BY <1>1, <2>1 DEF ManagerIInv, Control, Goto, Phase
  <2>. QED
    BY <1>1, <1>2, <2>1, <2>2, <2>3, SteadyStep
       DEF ManagerIInv, Control, Stands, Idle, Locked, Widening, Goto
<1>5. CASE EndPass
  <2>1. job' = [job EXCEPT ![Mover] = NoJob] /\ at' = [at EXCEPT ![Mover] = "out"]
    BY <1>5 DEF EndPass, PassOver, Goto
  <2>2. Control'
    BY <1>1, <2>1 DEF ManagerIInv, Control, Job, NoJob, Phase
  <2>. QED
    BY <1>1, <1>2, <2>1, <2>2, SteadyStep
       DEF ManagerIInv, Control, Stands, Idle, Locked, Widening
<1>. QED
  BY <1>3, <1>4, <1>5 DEF Moving

\* A handler is dropped, or a pass is cut short: a lock it holds is free, and
\* nobody else's is.
LEMMA AbandonStep ==
    ASSUME ManagerIInv, NEW a \in Actor, a \notin Client, Abandons(a), UNCHANGED engines,
           NEW p \in {"out", "done"}, Goto(a, p),
           job' = job \/ (a = Mover /\ job' = [job EXCEPT ![Mover] = NoJob])
    PROVE  ManagerIInv'
<1>1. Fewer
  BY SameIsFewer DEF ManagerIInv
<1>2. /\ at'[a] = p /\ \A b \in Actor : b # a => at'[b] = at[b] /\ job'[b] = job[b]
      /\ at' \in [Actor -> Phase] /\ (a \in Request => job'[a] = job[a])
  BY ActorKinds DEF ManagerIInv, Control, Goto, Phase
<1>3. /\ job' \in [Actor -> Job]
      /\ loading_locks' \in [Model -> Actor \cup {Nobody}]
      /\ \A m \in Model : loading_locks[m] # a => loading_locks'[m] = loading_locks[m]
  BY DEF ManagerIInv, Control, Job, NoJob, Abandons
<1>4. ASSUME NEW b \in Actor, at'[b] \in Locked
      PROVE  /\ at[b] \in Locked /\ job'[b] = job[b]
             /\ loading_locks'[job'[b].model] = loading_locks[job[b].model]
  <2>1. b # a
    BY <1>2, <1>4 DEF Locked
  <2>2. at[b] \in Locked /\ job'[b] = job[b]
    BY <1>2, <1>4, <2>1
  <2>. QED
    <3>1. loading_locks[job[b].model] = b /\ job[b].model \in Model
      BY <2>2, LockIsOwn
    <3>. QED
      BY <1>3, <2>1, <2>2, <3>1
<1>5. Control'
  BY <1>2, <1>3 DEF Control
<1>6. /\ p \in Idle /\ p \notin Widening /\ p \notin Locked
      /\ {"room", "loaded"} \subseteq Locked
  BY DEF Idle, Widening, Locked
<1>7. ASSUME NEW b \in Actor
      PROVE  /\ job'[b].model = job[b].model \/ at'[b] \in Idle
             /\ at'[b] \notin Idle => job'[b].model \in Model
             /\ at'[b] \in Widening => b \in Wide
             /\ b \in Client => at'[b] \in {"out", "done"}
             /\ b \in Request => job'[b].model = Wanted[b]
             /\ at'[b] \in {"room", "loaded"} => at[b] \in {"room", "loaded"}
  <2>0. Stands(b)
    BY DEF ManagerIInv
  <2>1. CASE b = a
    BY <1>2, <1>6, <2>0, <2>1, ActorKinds DEF Stands
  <2>2. CASE b # a
    BY <1>2, <2>0, <2>2 DEF Stands
  <2>. QED
    BY <2>1, <2>2
<1>. QED
  BY <1>1, <1>4, <1>5, <1>7, SteadyStep

-----------------------------------------------------------------------------
LEMMA ManagerInitInv == Init => ManagerIInv
<1>. SUFFICES ASSUME Init PROVE ManagerIInv
  OBVIOUS
<1>1. \/ engines = <<>>
      \/ \E m \in Left, k \in {"period", "never"} :
           engines = <<[model |-> m, engine |-> 1, keep |-> k, wide |-> FALSE,
                        timer |-> IF k = "period" THEN 1 ELSE NoTimer]>>
  BY DEF Init
<1>2. \E left : engines = <<>> \/ (engines = <<left>> /\ Record(left))
  BY <1>1, WideAssumption DEF Record
<1>3. PICK left : engines = <<>> \/ (engines = <<left>> /\ Record(left))
  BY <1>2
<1>4. Entries(engines)
  <2>1. engines \in Seq({left})
    <3>1. <<>> \in Seq({left}) /\ <<left>> \in Seq({left})
      OBVIOUS
    <3>. QED
      BY <1>3, <3>1
  <2>2. engines \in Seq(Range(engines))
    BY <2>1, SeqOfRange
  <2>3. \A i \in DOMAIN engines : engines[i] = left /\ Record(left)
    BY <1>3
  <2>. QED
    BY <2>2, <2>3 DEF Entries
<1>5. \A n : Alone(n)
  BY <1>3 DEF Alone, Of
<1>6. at = [a \in Actor |-> "out"] /\ loading_locks = [n \in Model |-> Nobody]
  BY DEF Init
<1>7. \A a \in Actor : /\ job[a] \in Job
                       /\ a \in Request => job[a].model = Wanted[a]
  <2>1. \A a \in Request : job[a] = [model |-> Wanted[a], keep |-> Keep[a]]
    BY ActorKinds DEF Init
  <2>2. \A a \in Client : job[a] = [model |-> Unwanted[a], keep |-> "never"]
    BY ActorKinds, ActorAssumption DEF Init
  <2>3. job[Mover] = NoJob
    BY ActorKinds DEF Init
  <2>4. ASSUME NEW a \in Request PROVE job[a] \in Job /\ job[a].model = Wanted[a]
    <3>1. Wanted[a] \in Model /\ Keep[a] \in {"period", "never"}
      BY WantedAssumption, KeepAssumption
    <3>2. \A n \in Model, p \in {"period", "never"} : [model |-> n, keep |-> p] \in Job
      BY DEF Job
    <3>3. job[a] = [model |-> Wanted[a], keep |-> Keep[a]]
      BY <2>1
    <3>4. job[a] \in Job
      BY <3>1, <3>2, <3>3, Zenon
    <3>5. job[a].model = Wanted[a]
      BY <3>3
    <3>. QED
      BY <3>4, <3>5
  <2>5. ASSUME NEW a \in Client PROVE job[a] \in Job
    <3>1. Unwanted[a] \in Model
      BY WantedAssumption
    <3>2. \A n \in Model : [model |-> n, keep |-> "never"] \in Job
      BY DEF Job
    <3>. QED
      BY <2>2, <3>1, <3>2
  <2>6. job[Mover] \in Job
    BY <2>3 DEF Job, NoJob
  <2>. QED
    BY <2>4, <2>5, <2>6 DEF Actor
<1>8. job \in [Actor -> Job]
  <2>. DEFINE J(a) == CASE a \in Request -> [model |-> Wanted[a], keep |-> Keep[a]]
                        [] a \in Client -> [model |-> Unwanted[a], keep |-> "never"]
                        [] a = Mover -> NoJob
  <2>0. job = [a \in Actor |-> J(a)]
    BY DEF Init
  <2>. HIDE DEF J
  <2>1. DOMAIN job = Actor /\ job = [a \in Actor |-> job[a]]
    BY <2>0
  <2>. QED
    BY <1>7, <2>1
<1>9. Control
  BY <1>6, <1>8 DEF Control, Phase
<1>10. \A a \in Actor : Stands(a)
  BY <1>6, <1>7 DEF Stands, Idle, Locked, Widening
<1>. QED
  BY <1>4, <1>5, <1>9, <1>10 DEF ManagerIInv

LEMMA ManagerStepInv == ManagerIInv /\ [ManagerNext]_vars => ManagerIInv'
<1>. SUFFICES ASSUME ManagerIInv, [ManagerNext]_vars PROVE ManagerIInv'
  OBVIOUS
<1>1. ASSUME NEW a \in Actor, Loading(a) PROVE ManagerIInv'
  BY <1>1, FastPathStep, TakeLockStep, RecheckStep, EvictStep, LoadStep, PushStep DEF Loading
<1>2. ASSUME NEW r \in Request, Serving(r) PROVE ManagerIInv'
  BY <1>2, WidenStep, WidenPushStep, ServeStep DEF Serving
<1>5. ASSUME NEW r \in Request, Drop(r) PROVE ManagerIInv'
  BY <1>5, AbandonStep, ActorKinds DEF Drop
<1>6. ASSUME CutShort PROVE ManagerIInv'
  BY <1>6, AbandonStep, ActorKinds DEF CutShort, PassOver
<1>3. ASSUME NEW c \in Client, Unload(c) PROVE ManagerIInv'
  <2>1. Fewer
    BY <1>3, TakeOutIsFewer DEF Unload, ManagerIInv
  <2>. QED
    BY <1>3, <2>1, WokenStep DEF Unload
<1>4. CASE UNCHANGED vars
  <2>1. Fewer /\ at' = at /\ UNCHANGED <<job, loading_locks>>
    BY <1>4, SameIsFewer DEF vars, ManagerIInv
  <2>. QED
    BY <2>1, WokenStep
<1>. QED
  BY <1>1, <1>2, <1>3, <1>4, <1>5, <1>6, TimerStep, MovingStep DEF ManagerNext

LEMMA ManagerInvariant == ManagerSpec => []ManagerIInv
BY ManagerInitInv, ManagerStepInv, PTL DEF ManagerSpec

\* Through requests, clients, timers, evictions and moves that meet, a model no
\* request widens is in the list once, or is loading once, or neither.
THEOREM ManagerOneEngine == ManagerSpec => []OneEngine
<1>1. ManagerIInv => OneEngine
  <2>. SUFFICES ASSUME ManagerIInv, NEW m \in Plain
                PROVE  Cardinality(Of(m))
                         + Cardinality({a \in Actor : at[a] = "loaded" /\ job[a].model = m}) <= 1
    BY DEF OneEngine
  <2>. DEFINE L == {a \in Actor : at[a] = "loaded" /\ job[a].model = m}
  <2>1. Cardinality(Of(m)) = 0 \/ Cardinality(Of(m)) = 1
    <3>1. Of(m) = {} \/ \E i : Of(m) = {i}
      BY DEF ManagerIInv, Alone
    <3>. QED
      BY <3>1, FS_EmptySet, FS_Singleton
  <2>2. L = {} \/ L = {loading_locks[m]}
    BY DEF ManagerIInv, Stands, Locked
  <2>3. L # {} => Of(m) = {}
    BY DEF ManagerIInv, Stands, Listed
  <2>. HIDE DEF L
  <2>4. Cardinality({}) = 0 /\ \A x : Cardinality({x}) = 1
    BY FS_EmptySet, FS_Singleton
  <2>5. Cardinality(Of(m)) + Cardinality(L) <= 1
    <3>1. CASE L = {}
      <4>1. Cardinality(L) = 0
        BY <2>4, <3>1
      <4>. QED
        BY <2>1, <4>1
    <3>2. CASE L # {}
      <4>1. Cardinality(L) = 1 /\ Cardinality(Of(m)) = 0
        BY <2>2, <2>3, <2>4, <3>2
      <4>. QED
        BY <4>1
    <3>. QED
      BY <3>1, <3>2
  <2>. QED
    BY <2>5 DEF L
<1>. QED
  BY <1>1, ManagerInvariant, PTL
-----------------------------------------------------------------------------
(* Names: of the engines and of the timers *)

EntryRecord ==
    [model : Model, engine : 1..MaxEngines, keep : {"period", "never"},
     wide : BOOLEAN, timer : 0..MaxTimers]
Hands == [engine : 0..MaxEngines, timer : 0..MaxTimers]
Kind == {"set", "stray", "late"}
TimerState ==
    {Spare} \cup [st : {"asleep"}, kind : Kind, model : Model, after : SUBSET Request]
            \cup [st : {"unloading"}, kind : Kind, engine : 1..MaxEngines]

Loaded == {"loaded", "widened", "restored"}
Engaged == {"found", "ready", "running"}

TimerShape ==
    /\ timers \in [1..MaxTimers -> TimerState]
    /\ writer \in 0..MaxTimers
    /\ \A t \in 1..MaxTimers : timers[t].st = "unloading" <=> writer = t

\* The timer of an entry sleeps for its model, or has ended.
EntryFits(e) ==
    /\ e \in EntryRecord
    /\ e.keep = "never" => e.timer = NoTimer
    /\ (e.timer # NoTimer /\ timers[e.timer].st = "asleep") =>
         timers[e.timer].model = e.model /\ timers[e.timer].kind = "set"

\* No two entries have one engine, or one timer.
ListShape ==
    /\ \A i \in DOMAIN engines : EntryFits(engines[i])
    /\ \A i, j \in DOMAIN engines : engines[i].engine = engines[j].engine => i = j
    /\ \A i, j \in DOMAIN engines :
         engines[i].timer = engines[j].timer /\ engines[i].timer # NoTimer => i = j

\* An engine in hand is nobody else's, and its timer sleeps.
HandFits(a) ==
    /\ at[a] \in Loaded <=> hand[a].engine # NoEngine
    /\ hand[a].engine = NoEngine => hand[a].timer = NoTimer
    /\ hand[a].engine # NoEngine =>
         /\ \A i \in DOMAIN engines : engines[i].engine # hand[a].engine
         /\ \A b \in Actor : /\ eng[b] # hand[a].engine
                             /\ b # a => hand[b].engine # hand[a].engine
    /\ hand[a].timer # NoTimer =>
         /\ timers[hand[a].timer].st = "asleep" /\ timers[hand[a].timer].kind = "set"
         /\ timers[hand[a].timer].model = job[a].model /\ job[a].keep = "period"
         /\ \A i \in DOMAIN engines : engines[i].timer # hand[a].timer
         /\ \A b \in Actor : b # a => hand[b].timer # hand[a].timer

HandShape ==
    /\ hand \in [Actor -> Hands] /\ eng \in [Actor -> 0..MaxEngines]
    /\ \A a \in Actor : HandFits(a)

\* A timer that was left to nobody is a loader's or an entry's.
Held(t) ==
    \/ \E i \in DOMAIN engines : engines[i].timer = t
    \/ \E a \in Actor : hand[a].timer = t
Sleeps(t) ==
    timers[t].st = "asleep" /\ timers[t].kind = "set" /\ timers[t].model \in Plain
Accounted == \A t \in 1..MaxTimers : Sleeps(t) => Held(t)

\* A request's engine, while it is in the list, is there under its model, and
\* the timer set for it does not fire before the request is counted.
KeptShape ==
    /\ kept \subseteq Request
    /\ \A r \in kept : at[r] \in {"ready", "running"}
    /\ \A r \in Request : at[r] \in Engaged =>
         \A i \in DOMAIN engines :
             engines[i].engine = eng[r] => engines[i].model = job[r].model
    /\ \A r \in kept : Wanted[r] \in Plain /\ at[r] = "ready" =>
         \A i \in DOMAIN engines :
             /\ engines[i].engine = eng[r] /\ engines[i].timer # NoTimer
             /\ timers[engines[i].timer].st = "asleep"
             => r \in timers[engines[i].timer].after
    /\ \A r \in kept : Wanted[r] \in Plain =>
         \A t \in 1..MaxTimers :
             writer = t /\ timers[t].kind = "set" => timers[t].engine # eng[r]

KeepIInv ==
    /\ ManagerIInv /\ TimerShape /\ ListShape /\ HandShape /\ Accounted /\ KeptShape
    /\ moves \in 0..MaxMoves

-----------------------------------------------------------------------------
(* What a step may do to a timer *)

\* A timer of an entry goes on as it was, or ends.
Same(u) ==
    timers'[u].st = "asleep" =>
        /\ timers[u].st = "asleep" /\ timers'[u].model = timers[u].model
        /\ timers'[u].kind = timers[u].kind
        /\ \A r \in timers[u].after : at'[r] = "ready" => r \in timers'[u].after

\* A timer in hand sleeps on.
Lasts(u) ==
    /\ timers'[u].st = timers[u].st /\ timers'[u].kind = timers[u].kind
    /\ timers'[u].model = timers[u].model

\* An entry of the new list that was in the old one.
Old(i) ==
    \E j \in DOMAIN engines :
        /\ engines'[i] = engines[j]
        /\ engines[j].timer # NoTimer => Same(engines[j].timer)

\* What holds of timers that are spare, asleep and unloading.
LEMMA TimerStates ==
    /\ Spare \in TimerState /\ Spare.st = "none"
    /\ \A s \in TimerState :
         /\ s.st \in {"none", "asleep", "unloading"}
         /\ s.st # "none" => s.kind \in Kind
         /\ s.st = "asleep" => s.model \in Model /\ s.after \subseteq Request
         /\ s.st = "unloading" => s.engine \in 1..MaxEngines
    /\ \A m \in Model : \A after \in SUBSET Request : Asleep(m, after) \in TimerState
    /\ \A e \in 1..MaxEngines : \A k \in Kind :
         [st |-> "unloading", kind |-> k, engine |-> e] \in TimerState
BY DEF TimerState, Spare, Asleep, Kind

\* A sleeper that changes its kind, or whom it waits for, is a sleeper.
LEMMA SleeperChanged ==
    ASSUME NEW s \in TimerState, s.st = "asleep", NEW k \in Kind
    PROVE  /\ [s EXCEPT !.kind = k] \in TimerState
           /\ [s EXCEPT !.kind = k].st = "asleep" /\ [s EXCEPT !.kind = k].kind = k
           /\ [s EXCEPT !.kind = k].model = s.model /\ [s EXCEPT !.kind = k].after = s.after
<1>1. s \in [st : {"asleep"}, kind : Kind, model : Model, after : SUBSET Request]
  BY DEF TimerState, Spare
<1>2. [s EXCEPT !.kind = k] \in [st : {"asleep"}, kind : Kind, model : Model, after : SUBSET Request]
  BY <1>1
<1>. QED
  BY <1>1, <1>2 DEF TimerState

LEMMA SleeperWaits ==
    ASSUME NEW s \in TimerState, s.st = "asleep", NEW x \in SUBSET Request
    PROVE  /\ [s EXCEPT !.after = x] \in TimerState
           /\ [s EXCEPT !.after = x].st = "asleep" /\ [s EXCEPT !.after = x].kind = s.kind
           /\ [s EXCEPT !.after = x].model = s.model /\ [s EXCEPT !.after = x].after = x
<1>1. s \in [st : {"asleep"}, kind : Kind, model : Model, after : SUBSET Request]
  BY DEF TimerState, Spare
<1>2. [s EXCEPT !.after = x] \in [st : {"asleep"}, kind : Kind, model : Model, after : SUBSET Request]
  BY <1>1
<1>. QED
  BY <1>1, <1>2 DEF TimerState

\* The place of a timer that is there.
LEMMA TimerPlace ==
    /\ NoTimer \notin 1..MaxTimers
    /\ 1..MaxTimers \subseteq 0..MaxTimers
    /\ \A t \in 0..MaxTimers : t # NoTimer => t \in 1..MaxTimers
    /\ NoTimer \in 0..MaxTimers
BY BoundsAssumption DEF NoTimer

LEMMA EnginePlace ==
    /\ NoEngine \notin 1..MaxEngines
    /\ 1..MaxEngines \subseteq 0..MaxEngines
    /\ \A e \in 0..MaxEngines : e # NoEngine => e \in 1..MaxEngines
    /\ NoEngine \in 0..MaxEngines
BY BoundsAssumption DEF NoEngine

LEMMA EntryFields ==
    ASSUME NEW e \in EntryRecord
    PROVE  /\ e.model \in Model /\ e.engine \in 1..MaxEngines
           /\ e.keep \in {"period", "never"} /\ e.timer \in 0..MaxTimers
BY DEF EntryRecord

\* What is in hand, and in nobody's.
LEMMA HandFields ==
    /\ \A h \in Hands : h.engine \in 0..MaxEngines /\ h.timer \in 0..MaxTimers
    /\ \A e \in 0..MaxEngines : \A t \in 0..MaxTimers :
         [engine |-> e, timer |-> t] \in Hands
    /\ EmptyHand \in Hands /\ EmptyHand.engine = NoEngine /\ EmptyHand.timer = NoTimer
BY TimerPlace, EnginePlace DEF Hands, EmptyHand

\* The timer of an entry, and of a hand, is one of the timers.
LEMMA TimerOfEntry ==
    ASSUME ListShape, NEW i \in DOMAIN engines
    PROVE  /\ engines[i].timer # NoTimer => engines[i].timer \in 1..MaxTimers
           /\ engines[i].timer \in 0..MaxTimers /\ engines[i].engine \in 1..MaxEngines
           /\ engines[i].model \in Model /\ engines[i].keep \in {"period", "never"}
BY EntryFields, TimerPlace DEF ListShape, EntryFits

LEMMA TimerOfHand ==
    ASSUME HandShape, NEW a \in Actor
    PROVE  /\ hand[a].timer # NoTimer => hand[a].timer \in 1..MaxTimers
           /\ hand[a].timer \in 0..MaxTimers /\ hand[a].engine \in 0..MaxEngines
BY HandFields, TimerPlace DEF HandShape

\* While the list is free nothing unloads.
LEMMA NoneUnloads ==
    ASSUME TimerShape, ListFree
    PROVE  \A t \in 1..MaxTimers : timers[t].st # "unloading"
BY TimerPlace DEF TimerShape, ListFree

\* An aborted timer is gone, or late.
LEMMA AbortsTimer ==
    ASSUME TimerShape, ListFree, NEW t \in 0..MaxTimers, NEW ns \in Aborts(timers, t)
    PROVE  /\ ns \in [1..MaxTimers -> TimerState]
           /\ \A u \in 1..MaxTimers : u # t => ns[u] = timers[u]
           /\ t # NoTimer => \/ ns[t] = Spare
                             \/ ns[t].st = "asleep" /\ ns[t].kind = "late"
           /\ \A u \in 1..MaxTimers : ns[u].st # "unloading"
<1>1. \A u \in 1..MaxTimers : timers[u].st # "unloading"
  BY NoneUnloads
<1>2. timers \in [1..MaxTimers -> TimerState]
  BY DEF TimerShape
<1>3. CASE t = NoTimer \/ timers[t] = Spare
  BY <1>1, <1>2, <1>3 DEF Aborts
<1>4. CASE t # NoTimer /\ timers[t] # Spare
  <2>1. t \in 1..MaxTimers /\ timers[t] \in TimerState
    BY <1>2, <1>4, TimerPlace
  <2>2. timers[t].st = "asleep"
    BY <1>1, <1>4, <2>1 DEF TimerState
  <2>. DEFINE late == [timers[t] EXCEPT !.kind = "late"]
  <2>3. late \in TimerState /\ late.st = "asleep" /\ late.kind = "late"
    <3>1. "late" \in Kind
      BY DEF Kind
    <3>. QED
      BY <2>1, <2>2, <3>1, SleeperChanged
  <2>4. ns = [timers EXCEPT ![t] = Spare] \/ ns = [timers EXCEPT ![t] = late]
    BY <1>4 DEF Aborts
  <2>. HIDE DEF late
  <2>. QED
    BY <1>1, <1>2, <2>1, <2>3, <2>4, TimerStates
<1>. QED
  BY <1>3, <1>4

\* The timer that is taken is nobody's.
LEMMA FreshTimerIsSpare ==
    ASSUME FreeTimers # {}
    PROVE  /\ FreshTimer \in 1..MaxTimers /\ timers[FreshTimer] = Spare
           /\ \A i \in DOMAIN engines : engines[i].timer # FreshTimer
           /\ \A a \in Actor : hand[a].timer # FreshTimer
<1>1. FreshTimer \in FreeTimers
  BY DEF FreshTimer
<1>. QED
  BY <1>1 DEF FreeTimers

\* The engine that is loaded is nobody's.
LEMMA FreshEngineIsFree ==
    ASSUME FreeEngines # {}
    PROVE  /\ FreshEngine \in 1..MaxEngines
           /\ \A i \in DOMAIN engines : engines[i].engine # FreshEngine
           /\ \A b \in Actor : hand[b].engine # FreshEngine /\ eng[b] # FreshEngine
<1>1. FreshEngine \in FreeEngines
  BY DEF FreshEngine
<1>. QED
  BY <1>1 DEF FreeEngines

Waited(ns, t, m) ==
    \A r \in Request : at[r] = "ready" /\ job[r].model = m => r \in ns[t].after
SameBut(ns, ts, t) == \A u \in 1..MaxTimers : u # t => ns[u] = ts[u]

\* The period of a timer that is set begins after whoever has reset it.
LEMMA ScheduledTimer ==
    ASSUME NEW ts \in [1..MaxTimers -> TimerState], NEW t \in 1..MaxTimers, NEW m \in Model,
           NEW more, more \subseteq Request, NEW ns, ns = Scheduled(ts, t, m, more)
    PROVE  /\ ns \in [1..MaxTimers -> TimerState]
           /\ ns[t].st = "asleep" /\ ns[t].kind = "set" /\ ns[t].model = m
           /\ more \subseteq ns[t].after
           /\ Waited(ns, t, m) /\ SameBut(ns, ts, t)
<1>. DEFINE waits == more \cup {r \in Request : at[r] = "ready" /\ job[r].model = m}
            s == Asleep(m, waits)
<1>1. waits \in SUBSET Request
  OBVIOUS
<1>2. s.st = "asleep" /\ s.kind = "set" /\ s.model = m /\ s.after = waits
  BY DEF Asleep
<1>3. s \in TimerState
  <2>. HIDE DEF waits
  <2>. QED
    BY <1>1, TimerStates
<1>4. ns = [ts EXCEPT ![t] = s]
  BY DEF Scheduled
<1>. HIDE DEF s
<1>. QED
  BY <1>2, <1>3, <1>4 DEF SameBut, Waited

\* A sleeper is left to itself: every other timer stays as it is.
LEMMA DetachedTimer ==
    ASSUME TimerShape, NEW t \in 1..MaxTimers, timers[t].st = "asleep",
           timers' = [timers EXCEPT ![t].kind = "stray"]
    PROVE  /\ timers' \in [1..MaxTimers -> TimerState]
           /\ timers'[t].st = "asleep" /\ timers'[t].kind = "stray"
           /\ \A u \in 1..MaxTimers : u # t => timers'[u] = timers[u]
<1>. DEFINE s == [timers[t] EXCEPT !.kind = "stray"]
<1>1. timers[t] \in TimerState /\ "stray" \in Kind
  BY DEF TimerShape, Kind
<1>2. s \in TimerState /\ s.st = "asleep" /\ s.kind = "stray"
  BY <1>1, SleeperChanged
<1>3. timers' = [timers EXCEPT ![t] = s]
  OBVIOUS
<1>. HIDE DEF s
<1>. QED
  BY <1>2, <1>3 DEF TimerShape

\* A request is past its reset: no timer waits for it, and all else is as it was.
LEMMA SettledTimers ==
    ASSUME TimerShape, NEW r \in Request, timers' = Settled(r), at'[r] # "ready"
    PROVE  /\ timers' \in [1..MaxTimers -> TimerState]
           /\ \A u \in 1..MaxTimers :
                /\ timers'[u].st = timers[u].st /\ Same(u)
                /\ timers[u].st # "asleep" => timers'[u] = timers[u]
                /\ timers[u].st = "asleep" => Lasts(u)
<1>1. ASSUME NEW u \in 1..MaxTimers
      PROVE  /\ timers'[u] \in TimerState
             /\ timers'[u].st = timers[u].st /\ Same(u)
             /\ timers[u].st # "asleep" => timers'[u] = timers[u]
             /\ timers[u].st = "asleep" => Lasts(u)
  <2>1. timers[u] \in TimerState
    BY DEF TimerShape
  <2>2. CASE timers[u].st = "asleep"
    <3>1. timers[u].after \ {r} \in SUBSET Request /\ timers[u].kind \in Kind
      BY <2>1, <2>2, TimerStates
    <3>. DEFINE x == timers[u].after \ {r}
    <3>2. x \in SUBSET Request /\ timers'[u] = [timers[u] EXCEPT !.after = x]
      BY <2>2, <3>1 DEF Settled
    <3>. HIDE DEF x
    <3>3. /\ timers'[u] \in TimerState /\ timers'[u].st = "asleep"
          /\ timers'[u].kind = timers[u].kind /\ timers'[u].model = timers[u].model
          /\ timers'[u].after = x
      BY <2>1, <2>2, <3>2, SleeperWaits
    <3>. QED
      BY <2>2, <3>3 DEF Same, Lasts, x
  <2>3. CASE timers[u].st # "asleep"
    <3>1. timers'[u] = timers[u]
      BY <2>3 DEF Settled
    <3>. QED
      BY <2>1, <2>3, <3>1 DEF Same
  <2>. QED
    BY <2>2, <2>3
<1>2. timers' \in [1..MaxTimers -> TimerState]
  <2>1. timers' = [u \in 1..MaxTimers |-> timers'[u]]
    BY DEF Settled
  <2>. QED
    BY <1>1, <2>1
<1>. QED
  BY <1>1, <1>2

-----------------------------------------------------------------------------
(* The list *)

\* Entries of the old list whose timers go on make a list again.
LEMMA ListKept ==
    ASSUME ListShape, NEW from \in [DOMAIN engines' -> DOMAIN engines],
           \A i \in DOMAIN engines' : engines'[i] = engines[from[i]],
           \A i, j \in DOMAIN engines' : from[i] = from[j] => i = j,
           \A i \in DOMAIN engines' : engines'[i].timer # NoTimer => Same(engines'[i].timer)
    PROVE  /\ ListShape'
           /\ \A i \in DOMAIN engines' : Old(i)
<1>1. ASSUME NEW i \in DOMAIN engines' PROVE EntryFits(engines[i])'
  <2>1. EntryFits(engines[from[i]]) /\ engines'[i] = engines[from[i]]
    BY DEF ListShape
  <2>. QED
    BY <2>1 DEF EntryFits, Same
<1>2. \A i, j \in DOMAIN engines' : engines'[i].engine = engines'[j].engine => i = j
  BY DEF ListShape
<1>3. \A i, j \in DOMAIN engines' :
         engines'[i].timer = engines'[j].timer /\ engines'[i].timer # NoTimer => i = j
  BY DEF ListShape
<1>4. \A i \in DOMAIN engines' : Old(i)
  BY DEF Old
<1>. QED
  BY <1>1, <1>2, <1>3, <1>4 DEF ListShape

LEMMA SameList ==
    ASSUME ListShape, UNCHANGED engines,
           \A i \in DOMAIN engines : engines[i].timer # NoTimer => Same(engines[i].timer)
    PROVE  /\ ListShape'
           /\ \A i \in DOMAIN engines' : Old(i)
<1>. DEFINE from == [i \in DOMAIN engines' |-> i]
<1>1. /\ from \in [DOMAIN engines' -> DOMAIN engines]
      /\ \A i \in DOMAIN engines' : engines'[i] = engines[from[i]]
      /\ \A i, j \in DOMAIN engines' : from[i] = from[j] => i = j
  OBVIOUS
<1>. HIDE DEF from
<1>. QED
  BY <1>1, ListKept

\* One entry leaves the list; its timer is another matter.
LEMMA RemovedList ==
    ASSUME ManagerIInv, ListShape, NEW k \in DOMAIN engines,
           engines' = RemoveAt(engines, k),
           \A u \in 1..MaxTimers : u # engines[k].timer => Same(u)
    PROVE  /\ ListShape'
           /\ \A i \in DOMAIN engines' : Old(i)
           /\ \A j \in DOMAIN engines : j # k => \E i \in DOMAIN engines' : engines'[i] = engines[j]
<1>1. PICK from \in [DOMAIN engines' -> DOMAIN engines] :
         /\ \A i \in DOMAIN engines' : engines'[i] = engines[from[i]] /\ from[i] # k
         /\ \A i, j \in DOMAIN engines' : from[i] = from[j] => i = j
         /\ \A j \in DOMAIN engines : j # k => \E i \in DOMAIN engines' : from[i] = j
  BY RemovedEntry DEF ManagerIInv, Removed
<1>2. ASSUME NEW i \in DOMAIN engines', engines'[i].timer # NoTimer
      PROVE  Same(engines'[i].timer)
  <2>1. from[i] \in DOMAIN engines /\ from[i] # k /\ engines'[i] = engines[from[i]]
    BY <1>1
  <2>2. engines'[i].timer \in 1..MaxTimers
    BY <1>2, <2>1, TimerOfEntry
  <2>3. engines'[i].timer # engines[k].timer
    BY <1>2, <2>1 DEF ListShape
  <2>. QED
    BY <2>2, <2>3
<1>3. ListShape' /\ \A i \in DOMAIN engines' : Old(i)
  BY <1>1, <1>2, ListKept
<1>. QED
  BY <1>1, <1>3

LEMMA AppendedEntry ==
    ASSUME Entries(engines), NEW e, engines' = Append(engines, e)
    PROVE  \E n : /\ n \notin DOMAIN engines /\ DOMAIN engines' = DOMAIN engines \cup {n}
                  /\ engines'[n] = e /\ \A i \in DOMAIN engines : engines'[i] = engines[i]
<1>. DEFINE R == Range(engines) \cup {e}
<1>1. /\ engines \in Seq(R) /\ Len(engines) \in Nat /\ DOMAIN engines = 1..Len(engines)
  BY LenProperties, SeqMonotonic DEF Entries
<1>2. e \in R
  OBVIOUS
<1>. HIDE DEF R
<1>3. /\ engines' \in Seq(R) /\ Len(engines') = Len(engines) + 1
      /\ \A i \in 1..Len(engines) : engines'[i] = engines[i]
      /\ engines'[Len(engines) + 1] = e
  BY <1>1, <1>2, AppendProperties
<1>4. DOMAIN engines' = 1..(Len(engines) + 1)
  BY <1>3, LenProperties
<1>5. /\ Len(engines) + 1 \notin DOMAIN engines
      /\ DOMAIN engines' = DOMAIN engines \cup {Len(engines) + 1}
  BY <1>1, <1>4
<1>. QED
  BY <1>1, <1>3, <1>5

-----------------------------------------------------------------------------
(* What a step leaves as it was *)

\* An actor that keeps what it has in hand, or has nothing in hand.
Carries(b) ==
    /\ hand'[b] = hand[b] /\ (at'[b] \in Loaded <=> at[b] \in Loaded)
    /\ hand[b].timer # NoTimer => job'[b] = job[b]
Empties(b) == hand'[b] = EmptyHand /\ at'[b] \notin Loaded

\* An engine that has left a hand for the list, with its timer.
Given(i) ==
    \E a \in Actor :
        /\ Empties(a) /\ hand[a].engine # NoEngine
        /\ engines'[i].engine = hand[a].engine /\ engines'[i].timer = hand[a].timer

\* An entry of the list that has nothing of what a hand keeps.
Apart(i) ==
    \A b \in Actor : Carries(b) =>
        /\ hand[b].engine # NoEngine => engines'[i].engine # hand[b].engine
        /\ hand[b].timer # NoTimer => engines'[i].timer # hand[b].timer

LEMMA OldIsApart ==
    ASSUME HandShape, NEW i \in DOMAIN engines', Old(i) \/ Given(i)
    PROVE  Apart(i)
<1>1. CASE Old(i)
  <2>1. PICK j \in DOMAIN engines : engines'[i] = engines[j]
    BY <1>1 DEF Old
  <2>. QED
    BY <2>1 DEF HandShape, HandFits, Apart
<1>2. CASE Given(i)
  <2>1. PICK a \in Actor :
          /\ Empties(a) /\ hand[a].engine # NoEngine
          /\ engines'[i].engine = hand[a].engine /\ engines'[i].timer = hand[a].timer
    BY <1>2 DEF Given
  <2>2. ASSUME NEW b \in Actor, Carries(b)
        PROVE  /\ hand[b].engine # NoEngine => engines'[i].engine # hand[b].engine
               /\ hand[b].timer # NoTimer => engines'[i].timer # hand[b].timer
    <3>1. b # a
      BY <2>1, <2>2, HandFields DEF Carries, Empties
    <3>. QED
      BY <2>1, <3>1 DEF HandShape, HandFits
  <2>. QED
    BY <2>2 DEF Apart
<1>. QED
  BY <1>1, <1>2

\* Whatever a hand keeps stays its own.
LEMMA HandsKept ==
    ASSUME HandShape, hand' \in [Actor -> Hands], eng' \in [Actor -> 0..MaxEngines],
           \A b \in Actor : Carries(b) \/ Empties(b),
           \A b \in Actor : hand[b].timer # NoTimer /\ Carries(b) => Lasts(hand[b].timer),
           \A b \in Actor : \/ eng'[b] \in {eng[b], NoEngine}
                            \/ \E j \in DOMAIN engines : eng'[b] = engines[j].engine,
           \A i \in DOMAIN engines' : Apart(i)
    PROVE  HandShape'
<1>1. ASSUME NEW a \in Actor PROVE HandFits(a)'
  <2>1. CASE Empties(a)
    BY <2>1, HandFields DEF HandFits, Empties
  <2>2. CASE Carries(a)
    <3>1. HandFits(a) /\ hand'[a] = hand[a]
      BY <2>2 DEF HandShape, Carries
    <3>2. /\ at'[a] \in Loaded <=> hand'[a].engine # NoEngine
          /\ hand'[a].engine = NoEngine => hand'[a].timer = NoTimer
      BY <2>2, <3>1 DEF HandFits, Carries
    <3>3. hand'[a].engine # NoEngine =>
            /\ \A i \in DOMAIN engines' : engines'[i].engine # hand'[a].engine
            /\ \A b \in Actor : /\ eng'[b] # hand'[a].engine
                                /\ b # a => hand'[b].engine # hand'[a].engine
      <4>. SUFFICES ASSUME hand[a].engine # NoEngine
                    PROVE  /\ \A i \in DOMAIN engines' : engines'[i].engine # hand[a].engine
                           /\ \A b \in Actor : /\ eng'[b] # hand[a].engine
                                               /\ b # a => hand'[b].engine # hand[a].engine
        BY <3>1
      <4>1. \A i \in DOMAIN engines' : engines'[i].engine # hand[a].engine
        BY <2>2 DEF Apart
      <4>2. \A b \in Actor : eng'[b] # hand[a].engine
        BY <3>1 DEF HandFits
      <4>3. \A b \in Actor : b # a => hand'[b].engine # hand[a].engine
        BY <3>1, HandFields DEF HandFits, Carries, Empties
      <4>. QED
        BY <4>1, <4>2, <4>3
    <3>4. hand'[a].timer # NoTimer =>
            /\ timers'[hand'[a].timer].st = "asleep" /\ timers'[hand'[a].timer].kind = "set"
            /\ timers'[hand'[a].timer].model = job'[a].model /\ job'[a].keep = "period"
            /\ \A i \in DOMAIN engines' : engines'[i].timer # hand'[a].timer
            /\ \A b \in Actor : b # a => hand'[b].timer # hand'[a].timer
      <4>. SUFFICES ASSUME hand[a].timer # NoTimer
                    PROVE  /\ timers'[hand[a].timer].st = "asleep"
                           /\ timers'[hand[a].timer].kind = "set"
                           /\ timers'[hand[a].timer].model = job'[a].model
                           /\ job'[a].keep = "period"
                           /\ \A i \in DOMAIN engines' : engines'[i].timer # hand[a].timer
                           /\ \A b \in Actor : b # a => hand'[b].timer # hand[a].timer
        BY <3>1
      <4>1. \A i \in DOMAIN engines' : engines'[i].timer # hand[a].timer
        BY <2>2 DEF Apart
      <4>2. \A b \in Actor : b # a => hand'[b].timer # hand[a].timer
        BY <3>1, HandFields DEF HandFits, Carries, Empties
      <4>3. Lasts(hand[a].timer) /\ job'[a] = job[a]
        BY <2>2 DEF Carries
      <4>. QED
        BY <3>1, <4>1, <4>2, <4>3 DEF HandFits, Lasts
    <3>. QED
      BY <3>2, <3>3, <3>4 DEF HandFits
  <2>. QED
    BY <2>1, <2>2
<1>. QED
  BY <1>1 DEF HandShape

\* A request that is engaged stays with its engine, or has just found it.
Stays(r) ==
    \/ /\ at[r] \in Engaged /\ eng'[r] = eng[r]
       /\ at'[r] = "ready" => at[r] = "ready"
       /\ at'[r] = "running" => at[r] \in {"ready", "running"}
    \/ /\ at'[r] = "found" /\ UNCHANGED engines
       /\ \A i \in DOMAIN engines : engines[i].engine = eng'[r] => engines[i].model = job[r].model

\* No request is kept that was not, and no timer unloads that did not.
LEMMA KeptSteady ==
    ASSUME KeptShape, kept' \subseteq kept, \A r \in kept' : at'[r] \in {"ready", "running"},
           \A t \in 1..MaxTimers : writer' = t => writer = t /\ timers'[t] = timers[t],
           \A r \in Request : job'[r].model = job[r].model,
           \A i \in DOMAIN engines' :
              \/ Old(i)
              \/ \A r \in Request : at'[r] \in Engaged => eng'[r] # engines'[i].engine,
           \A r \in Request : at'[r] \in Engaged => Stays(r)
    PROVE  KeptShape'
<1>1. ASSUME NEW r \in Request, at'[r] \in Engaged,
             NEW i \in DOMAIN engines', engines'[i].engine = eng'[r]
      PROVE  engines'[i].model = job'[r].model
  <2>1. PICK j \in DOMAIN engines : engines'[i] = engines[j]
    BY <1>1 DEF Old
  <2>2. CASE at[r] \in Engaged /\ eng'[r] = eng[r]
    BY <1>1, <2>1, <2>2 DEF KeptShape
  <2>3. CASE /\ UNCHANGED engines
             /\ \A k \in DOMAIN engines :
                  engines[k].engine = eng'[r] => engines[k].model = job[r].model
    BY <1>1, <2>3
  <2>. QED
    BY <1>1, <2>2, <2>3 DEF Stays
<1>2. ASSUME NEW r \in kept'
      PROVE  /\ r \in kept /\ r \in Request /\ eng'[r] = eng[r] /\ at'[r] \in Engaged
             /\ at'[r] = "ready" => at[r] = "ready"
  <2>1. r \in kept /\ r \in Request /\ at'[r] \in {"ready", "running"} /\ at'[r] \in Engaged
    BY <1>2 DEF KeptShape, Engaged
  <2>. QED
    BY <2>1 DEF Stays
<1>3. ASSUME NEW r \in kept', Wanted[r] \in Plain, at'[r] = "ready", NEW i \in DOMAIN engines',
             engines'[i].engine = eng'[r], engines'[i].timer # NoTimer,
             timers'[engines'[i].timer].st = "asleep"
      PROVE  r \in timers'[engines'[i].timer].after
  <2>1. /\ r \in kept /\ r \in Request /\ eng'[r] = eng[r] /\ at[r] = "ready"
        /\ at'[r] \in Engaged
    BY <1>2, <1>3
  <2>2. PICK j \in DOMAIN engines :
          /\ engines'[i] = engines[j]
          /\ engines[j].timer # NoTimer => Same(engines[j].timer)
    BY <1>3, <2>1 DEF Old
  <2>3. Same(engines[j].timer) /\ timers[engines[j].timer].st = "asleep"
    BY <1>3, <2>2 DEF Same
  <2>4. r \in timers[engines[j].timer].after
    BY <1>3, <2>1, <2>2, <2>3 DEF KeptShape
  <2>. QED
    BY <1>3, <2>2, <2>3, <2>4 DEF Same
<1>4. ASSUME NEW r \in kept', Wanted[r] \in Plain, NEW t \in 1..MaxTimers, writer' = t,
             timers'[t].kind = "set"
      PROVE  timers'[t].engine # eng'[r]
  BY <1>2, <1>4 DEF KeptShape
<1>5. Plain' = Plain
  BY DEF Plain
<1>6. kept' \subseteq Request
  BY DEF KeptShape
<1>. QED
  BY <1>1, <1>3, <1>4, <1>5, <1>6 DEF KeptShape

\* A step that brings no engine into a hand and keeps no request.
Calm ==
    /\ moves' \in 0..MaxMoves
    /\ kept' \subseteq kept /\ \A r \in kept' : at'[r] \in {"ready", "running"}
    /\ hand' \in [Actor -> Hands] /\ eng' \in [Actor -> 0..MaxEngines]
    /\ \A b \in Actor :
         /\ Carries(b) \/ Empties(b)
         /\ \/ eng'[b] \in {eng[b], NoEngine}
            \/ \E j \in DOMAIN engines : eng'[b] = engines[j].engine
    /\ \A r \in Request :
         /\ job'[r].model = job[r].model
         /\ at'[r] \in Engaged => Stays(r)

LEMMA CalmStep ==
    ASSUME KeepIInv, ManagerIInv', TimerShape', ListShape', Accounted', Calm,
           \A t \in 1..MaxTimers : writer' = t => writer = t /\ timers'[t] = timers[t],
           \A b \in Actor : hand[b].timer # NoTimer /\ Carries(b) => Lasts(hand[b].timer),
           \A i \in DOMAIN engines' : Old(i) \/ (Given(i) /\ UNCHANGED eng)
    PROVE  KeepIInv'
<1>1. HandShape'
  <2>1. \A i \in DOMAIN engines' : Apart(i)
    BY OldIsApart DEF KeepIInv
  <2>. QED
    BY <2>1, HandsKept DEF Calm, KeepIInv
<1>2. KeptShape'
  <2>1. ASSUME NEW i \in DOMAIN engines', ~Old(i), NEW r \in Request
        PROVE  eng'[r] # engines'[i].engine
    <3>1. UNCHANGED eng /\ r \in Actor
      BY <2>1, ActorKinds
    <3>2. PICK a \in Actor : hand[a].engine # NoEngine /\ engines'[i].engine = hand[a].engine
      BY <2>1 DEF Given
    <3>. QED
      BY <3>1, <3>2 DEF KeepIInv, HandShape, HandFits
  <2>. QED
    BY <2>1, KeptSteady DEF Calm, KeepIInv
<1>. QED
  BY <1>1, <1>2 DEF KeepIInv, Calm

\* The list and the hands are as they were, and the timers go on, or end.
LEMMA QuietStep ==
    ASSUME KeepIInv, ManagerIInv', Calm, UNCHANGED <<engines, hand>>, TimerShape',
           \A t \in 1..MaxTimers : writer' = t => writer = t /\ timers'[t] = timers[t],
           \A u \in 1..MaxTimers : Same(u),
           \A b \in Actor : hand[b].timer # NoTimer => Lasts(hand[b].timer)
    PROVE  KeepIInv'
<1>1. /\ ListShape'
      /\ \A i \in DOMAIN engines' : Old(i)
  BY TimerOfEntry, SameList DEF KeepIInv
<1>2. ASSUME NEW u \in 1..MaxTimers, Sleeps(u)' PROVE Held(u)'
  <2>1. Sleeps(u)
    BY <1>2 DEF Sleeps, Same, Plain
  <2>. QED
    BY <2>1 DEF KeepIInv, Accounted, Held
<1>3. Accounted'
  BY <1>2 DEF Accounted
<1>. QED
  BY <1>1, <1>3, CalmStep

\* The timers are as they were, too.
LEMMA StillStep ==
    ASSUME KeepIInv, ManagerIInv', Calm, UNCHANGED <<engines, hand, timers, writer>>
    PROVE  KeepIInv'
<1>1. TimerShape'
  BY DEF KeepIInv, TimerShape
<1>2. \A u \in 1..MaxTimers : Same(u) /\ Lasts(u)
  BY DEF Same, Lasts
<1>3. \A b \in Actor : hand[b].timer # NoTimer => Lasts(hand[b].timer)
  BY <1>2, TimerOfHand DEF KeepIInv
<1>. QED
  BY <1>1, <1>2, <1>3, QuietStep

-----------------------------------------------------------------------------
(* The steps *)

LEMMA MovedActor ==
    ASSUME KeepIInv, NEW a \in Actor, NEW p, Goto(a, p)
    PROVE  at'[a] = p /\ \A b \in Actor : b # a => at'[b] = at[b]
BY DEF KeepIInv, ManagerIInv, Control, Goto

\* An actor leaves a hand empty.
LEMMA HandEmptied ==
    ASSUME KeepIInv, NEW a \in Actor, hand' = [hand EXCEPT ![a] = EmptyHand]
    PROVE  /\ hand' \in [Actor -> Hands] /\ hand'[a] = EmptyHand
           /\ \A b \in Actor : b # a => hand'[b] = hand[b]
BY HandFields DEF KeepIInv, HandShape

\* An actor leaves for a place where it is not engaged, with nothing in hand;
\* it may have given up its engine.
LEMMA LeftCalm ==
    ASSUME KeepIInv, NEW a \in Actor, NEW p, Goto(a, p), p \notin Loaded \cup Engaged,
           eng' = eng \/ eng' = [eng EXCEPT ![a] = NoEngine],
           kept' \subseteq kept, a \notin kept', UNCHANGED moves,
           hand' = [hand EXCEPT ![a] = EmptyHand] \/ (UNCHANGED hand /\ at[a] \notin Loaded),
           \A b \in Actor : b # a => job'[b] = job[b],
           \A r \in Request : job'[r].model = job[r].model
    PROVE  Calm
<1>1. at'[a] = p /\ \A b \in Actor : b # a => at'[b] = at[b]
  BY MovedActor
<1>2. /\ hand' \in [Actor -> Hands] /\ \A b \in Actor : b # a => hand'[b] = hand[b]
      /\ Carries(a) \/ Empties(a)
  <2>1. CASE hand' = [hand EXCEPT ![a] = EmptyHand]
    BY <1>1, <2>1, HandEmptied DEF Empties
  <2>2. CASE UNCHANGED hand /\ at[a] \notin Loaded
    BY <1>1, <2>2 DEF KeepIInv, HandShape, HandFits, Carries
  <2>. QED
    BY <2>1, <2>2
<1>3. \A b \in Actor : Carries(b) \/ Empties(b)
  BY <1>1, <1>2 DEF Carries
<1>4. /\ eng' \in [Actor -> 0..MaxEngines]
      /\ \A b \in Actor : eng'[b] \in {eng[b], NoEngine} /\ (b # a => eng'[b] = eng[b])
  BY EnginePlace DEF KeepIInv, HandShape
<1>5. \A r \in Request : at'[r] \in Engaged => Stays(r)
  BY <1>1, <1>4, ActorKinds DEF Stays, Engaged
<1>6. \A r \in kept' : at'[r] \in {"ready", "running"}
  <2>1. \A r \in kept' : r # a /\ r \in Actor
    BY ActorKinds DEF KeepIInv, KeptShape
  <2>. QED
    BY <1>1, <2>1 DEF KeepIInv, KeptShape
<1>7. moves' \in 0..MaxMoves
  BY DEF KeepIInv
<1>. QED
  BY <1>2, <1>3, <1>4, <1>5, <1>6, <1>7 DEF Calm

\* An actor that was not engaged goes to a place where it is not.
LEMMA GoneCalm ==
    ASSUME KeepIInv, NEW a \in Actor, NEW p, Goto(a, p), p \notin Loaded \cup Engaged,
           at[a] \notin Engaged, UNCHANGED <<eng, kept, moves>>,
           hand' = [hand EXCEPT ![a] = EmptyHand] \/ (UNCHANGED hand /\ at[a] \notin Loaded),
           \A b \in Actor : b # a => job'[b] = job[b],
           \A r \in Request : job'[r].model = job[r].model
    PROVE  Calm
<1>1. a \notin kept'
  BY DEF KeepIInv, KeptShape, Engaged
<1>. QED
  BY <1>1, LeftCalm

\* While the list is free no timer unloads.
LEMMA FreeTimersShape ==
    ASSUME ListFree, UNCHANGED writer, timers' \in [1..MaxTimers -> TimerState],
           \A u \in 1..MaxTimers : timers'[u].st # "unloading"
    PROVE  /\ TimerShape'
           /\ \A t \in 1..MaxTimers : writer' # t
BY TimerPlace DEF TimerShape, ListFree

\* An entry is taken out of the list.
LEMMA TakenOutStep ==
    ASSUME KeepIInv, ManagerIInv', Calm, UNCHANGED <<writer, hand>>, NEW m, TakeOut(m)
    PROVE  KeepIInv'
<1>1. CASE UNCHANGED <<engines, timers>>
  BY <1>1, StillStep
<1>2. CASE /\ Listed(m)
           /\ engines' = RemoveAt(engines, First(m))
           /\ timers' \in Aborts(timers, Entry(m).timer)
  <2>. DEFINE k == First(m)
  <2>1. k \in DOMAIN engines
    BY <1>2, FirstIsListed DEF KeepIInv, ManagerIInv, Of
  <2>2. engines' = RemoveAt(engines, k) /\ timers' \in Aborts(timers, engines[k].timer) /\ ListFree
    BY <1>2 DEF Entry, TakeOut
  <2>. HIDE DEF k
  <2>. DEFINE x == engines[k].timer
  <2>3. x \in 0..MaxTimers
    BY <2>1, TimerOfEntry DEF KeepIInv
  <2>4. /\ timers' \in [1..MaxTimers -> TimerState]
        /\ \A u \in 1..MaxTimers : u # x => timers'[u] = timers[u]
        /\ x # NoTimer => timers'[x] = Spare \/ (timers'[x].st = "asleep" /\ timers'[x].kind = "late")
        /\ \A u \in 1..MaxTimers : timers'[u].st # "unloading"
    BY <2>2, <2>3, AbortsTimer DEF KeepIInv
  <2>5. TimerShape' /\ \A t \in 1..MaxTimers : writer' # t
    BY <2>2, <2>4, FreeTimersShape
  <2>6. \A u \in 1..MaxTimers : u # x => Same(u) /\ Lasts(u)
    BY <2>4 DEF Same, Lasts
  <2>7. /\ ListShape'
        /\ \A i \in DOMAIN engines' : Old(i)
        /\ \A j \in DOMAIN engines : j # k => \E i \in DOMAIN engines' : engines'[i] = engines[j]
    BY <2>1, <2>2, <2>6, RemovedList DEF KeepIInv
  <2>8. \A b \in Actor : hand[b].timer # NoTimer => Lasts(hand[b].timer)
    BY <2>1, <2>6, TimerOfHand DEF KeepIInv, HandShape, HandFits
  <2>9. ASSUME NEW u \in 1..MaxTimers, Sleeps(u)' PROVE Held(u)'
    <3>1. u # x
      BY <2>4, <2>9, TimerPlace, TimerStates DEF Sleeps
    <3>2. Sleeps(u)
      BY <2>4, <2>9, <3>1 DEF Sleeps, Plain
    <3>3. Held(u)
      BY <3>2 DEF KeepIInv, Accounted
    <3>. QED
      BY <2>7, <3>1, <3>3 DEF Held
  <2>10. Accounted'
    BY <2>9 DEF Accounted
  <2>. QED
    BY <2>5, <2>7, <2>8, <2>10, CalmStep
<1>. QED
  BY <1>1, <1>2 DEF TakeOut

\* A step of the loader, up to the engine.
LEMMA LoaderStep ==
    ASSUME KeepIInv, ManagerIInv', NEW a \in Actor,
           FastPath(a) \/ TakeLock(a) \/ Recheck(a) \/ Evict(a)
    PROVE  KeepIInv'
<1>0. Served(a) \in {"scan", "widen", "lookup"}
  BY DEF Served
<1>1. CASE FastPath(a) \/ TakeLock(a) \/ Recheck(a)
  <2>1. PICK p \in {"scan", "widen", "lookup", "lock", "recheck", "room"} : Goto(a, p)
    BY <1>0, <1>1 DEF FastPath, TakeLock, Recheck
  <2>2. p \notin Loaded \cup Engaged
    BY DEF Loaded, Engaged
  <2>3. /\ UNCHANGED <<engines, writer, timers, job, hand, eng, kept, moves>>
        /\ at[a] \notin Loaded \cup Engaged
    BY <1>1 DEF FastPath, TakeLock, Recheck, Loaded, Engaged
  <2>4. Calm
    BY <2>1, <2>2, <2>3, GoneCalm
  <2>. QED
    BY <2>3, <2>4, StillStep
<1>2. CASE Evict(a)
  <2>1. PICK m : TakeOut(m)
    BY <1>2 DEF Evict
  <2>2. UNCHANGED <<writer, at, job, hand, eng, kept, moves>>
    BY <1>2 DEF Evict
  <2>3. Calm
    BY <2>2 DEF Calm, Carries, Stays, KeepIInv, KeptShape, HandShape, Engaged
  <2>. QED
    BY <2>1, <2>2, <2>3, TakenOutStep
<1>. QED
  BY <1>1, <1>2

\* A new engine is in one hand and nowhere else; so is its timer.
LEMMA HandTaken ==
    ASSUME KeepIInv, UNCHANGED <<engines, job, eng>>, NEW a \in Actor, at[a] \notin Loaded,
           NEW p \in Loaded, at'[a] = p, \A b \in Actor : b # a => at'[b] = at[b],
           FreeEngines # {}, NEW x \in 0..MaxTimers,
           hand' = [hand EXCEPT ![a] = [engine |-> FreshEngine, timer |-> x]],
           x # NoTimer => /\ timers'[x].st = "asleep" /\ timers'[x].kind = "set"
                          /\ timers'[x].model = job[a].model /\ job[a].keep = "period"
                          /\ \A i \in DOMAIN engines : engines[i].timer # x
                          /\ \A b \in Actor : hand[b].timer # x,
           \A u \in 1..MaxTimers : u # x => timers'[u] = timers[u]
    PROVE  HandShape'
<1>. DEFINE fe == FreshEngine
            h == [engine |-> fe, timer |-> x]
<1>1. /\ fe \in 1..MaxEngines
      /\ \A i \in DOMAIN engines : engines[i].engine # fe
      /\ \A b \in Actor : hand[b].engine # fe /\ eng[b] # fe
  BY FreshEngineIsFree
<1>2. h \in Hands /\ h.engine = fe /\ h.timer = x /\ fe # NoEngine
  <2>. HIDE DEF fe
  <2>. QED
    BY <1>1, HandFields, EnginePlace
<1>3. hand' = [hand EXCEPT ![a] = h]
  OBVIOUS
<1>. HIDE DEF h, fe
<1>4. /\ hand' \in [Actor -> Hands] /\ hand'[a] = h
      /\ \A b \in Actor : b # a => hand'[b] = hand[b]
  BY <1>2, <1>3 DEF KeepIInv, HandShape
<1>5. HandFits(a)'
  BY <1>1, <1>2, <1>4 DEF HandFits
<1>6. ASSUME NEW b \in Actor, b # a PROVE HandFits(b)'
  <2>1. HandFits(b) /\ hand'[b] = hand[b] /\ at'[b] = at[b]
    BY <1>4, <1>6 DEF KeepIInv, HandShape
  <2>2. hand[b].engine # NoEngine =>
          \A c \in Actor : eng[c] # hand[b].engine /\ (c # b => hand'[c].engine # hand[b].engine)
    BY <1>1, <1>2, <1>4, <2>1 DEF HandFits
  <2>3. hand[b].timer # NoTimer =>
          /\ timers'[hand[b].timer] = timers[hand[b].timer]
          /\ \A c \in Actor : c # b => hand'[c].timer # hand[b].timer
    <3>. SUFFICES ASSUME hand[b].timer # NoTimer
                  PROVE  /\ timers'[hand[b].timer] = timers[hand[b].timer]
                         /\ \A c \in Actor : c # b => hand'[c].timer # hand[b].timer
      OBVIOUS
    <3>1. hand[b].timer # x /\ hand[b].timer \in 1..MaxTimers
      BY TimerOfHand DEF KeepIInv
    <3>. QED
      BY <1>2, <1>4, <2>1, <3>1 DEF HandFits
  <2>. QED
    BY <2>1, <2>2, <2>3 DEF HandFits
<1>7. HandShape'
  BY <1>4, <1>5, <1>6 DEF KeepIInv, HandShape
<1>. QED
  BY <1>7

\* A new engine is in hand.
LEMMA LoadedStep ==
    ASSUME KeepIInv, ManagerIInv', NEW a \in Actor, NEW p \in Loaded, Loads(a, p),
           at[a] \notin Loaded \cup Engaged, job[a].model \in Model,
           UNCHANGED <<engines, writer, job, eng, kept, moves>>
    PROVE  KeepIInv'
<1>1. at'[a] = p /\ \A b \in Actor : b # a => at'[b] = at[b]
  BY MovedActor DEF Loads
<1>2. \E x \in 0..MaxTimers :
        /\ hand' = [hand EXCEPT ![a] = [engine |-> FreshEngine, timer |-> x]]
        /\ x # NoTimer => /\ timers'[x].st = "asleep" /\ timers'[x].kind = "set"
                          /\ timers'[x].model = job[a].model /\ job[a].keep = "period"
                          /\ timers[x] = Spare
                          /\ \A i \in DOMAIN engines : engines[i].timer # x
                          /\ \A b \in Actor : hand[b].timer # x
        /\ timers' \in [1..MaxTimers -> TimerState]
        /\ \A u \in 1..MaxTimers : u # x => timers'[u] = timers[u]
  <2>1. CASE /\ job[a].keep = "period" /\ FreeTimers # {}
             /\ hand' = [hand EXCEPT ![a] = [engine |-> FreshEngine, timer |-> FreshTimer]]
             /\ timers' = Scheduled(timers, FreshTimer, job[a].model, {})
    <3>. DEFINE x == FreshTimer
                m == job[a].model
    <3>1. /\ x \in 1..MaxTimers /\ timers[x] = Spare
          /\ \A i \in DOMAIN engines : engines[i].timer # x
          /\ \A b \in Actor : hand[b].timer # x
      BY <2>1, FreshTimerIsSpare
    <3>2. /\ hand' = [hand EXCEPT ![a] = [engine |-> FreshEngine, timer |-> x]]
          /\ timers' = Scheduled(timers, x, m, {}) /\ m \in Model
      BY <2>1
    <3>. HIDE DEF x, m
    <3>3. /\ timers' \in [1..MaxTimers -> TimerState]
          /\ timers'[x].st = "asleep" /\ timers'[x].kind = "set"
          /\ timers'[x].model = m
          /\ \A u \in 1..MaxTimers : u # x => timers'[u] = timers[u]
      <4>1. {} \subseteq Request /\ timers \in [1..MaxTimers -> TimerState]
        BY DEF KeepIInv, TimerShape
      <4>2. /\ timers' \in [1..MaxTimers -> TimerState] /\ SameBut(timers', timers, x)
            /\ timers'[x].st = "asleep" /\ timers'[x].kind = "set" /\ timers'[x].model = m
        BY <3>1, <3>2, <4>1, ScheduledTimer
      <4>. QED
        BY <4>2 DEF SameBut
    <3>4. x \in 0..MaxTimers
      BY <3>1, TimerPlace
    <3>. QED
      BY <2>1, <3>1, <3>2, <3>3, <3>4 DEF m
  <2>2. CASE /\ hand' = [hand EXCEPT ![a] = [engine |-> FreshEngine, timer |-> NoTimer]]
             /\ UNCHANGED timers
    BY <2>2, TimerPlace DEF KeepIInv, TimerShape
  <2>. QED
    BY <2>1, <2>2 DEF Loads
<1>3. PICK x \in 0..MaxTimers :
        /\ hand' = [hand EXCEPT ![a] = [engine |-> FreshEngine, timer |-> x]]
        /\ x # NoTimer => /\ timers'[x].st = "asleep" /\ timers'[x].kind = "set"
                          /\ timers'[x].model = job[a].model /\ job[a].keep = "period"
                          /\ timers[x] = Spare
                          /\ \A i \in DOMAIN engines : engines[i].timer # x
                          /\ \A b \in Actor : hand[b].timer # x
        /\ timers' \in [1..MaxTimers -> TimerState]
        /\ \A u \in 1..MaxTimers : u # x => timers'[u] = timers[u]
  BY <1>2
<1>4. HandShape'
  BY <1>1, <1>3, HandTaken DEF Loads
<1>5. TimerShape' /\ \A t \in 1..MaxTimers : writer' = t => writer = t /\ timers'[t] = timers[t]
  <2>1. \A t \in 1..MaxTimers : timers'[t].st = "unloading" <=> timers[t].st = "unloading"
    BY <1>3, TimerPlace, TimerStates
  <2>2. \A t \in 1..MaxTimers : writer = t => timers'[t] = timers[t]
    BY <1>3, TimerPlace, TimerStates DEF KeepIInv, TimerShape
  <2>. QED
    BY <1>3, <2>1, <2>2 DEF KeepIInv, TimerShape
<1>6. \A i \in DOMAIN engines : engines[i].timer # NoTimer => Same(engines[i].timer)
  <2>1. \A u \in 1..MaxTimers : u # x => Same(u)
    BY <1>3 DEF Same
  <2>. QED
    BY <1>3, <2>1, TimerOfEntry DEF KeepIInv
<1>7. ListShape' /\ \A i \in DOMAIN engines' : Old(i)
  BY <1>6, SameList DEF KeepIInv
<1>8. ASSUME NEW u \in 1..MaxTimers, Sleeps(u)' PROVE Held(u)'
  <2>1. hand'[a].timer = x /\ \A b \in Actor : b # a => hand'[b] = hand[b]
    BY <1>3 DEF KeepIInv, HandShape
  <2>2. CASE u = x
    BY <2>1, <2>2 DEF Held
  <2>3. CASE u # x
    <3>1. Sleeps(u)
      BY <1>3, <1>8, <2>3 DEF Sleeps, Plain
    <3>2. hand[a].timer # u
      BY TimerPlace DEF KeepIInv, HandShape, HandFits
    <3>. QED
      BY <2>1, <3>1, <3>2 DEF KeepIInv, Accounted, Held
  <2>. QED
    BY <2>2, <2>3
<1>9. Accounted'
  BY <1>8 DEF Accounted
<1>10. KeptShape'
  <2>1. \A r \in Request : at'[r] \in Engaged => Stays(r)
    BY <1>1, ActorKinds DEF Stays, Loaded, Engaged
  <2>2. \A r \in kept' : at'[r] \in {"ready", "running"}
    BY <1>1, ActorKinds DEF KeepIInv, KeptShape, Engaged
  <2>. QED
    BY <1>5, <1>7, <2>1, <2>2, KeptSteady DEF KeepIInv
<1>. QED
  BY <1>4, <1>5, <1>7, <1>9, <1>10 DEF KeepIInv

\* A load succeeds, or fails.
LEMMA LoadKeepStep ==
    ASSUME KeepIInv, ManagerIInv', NEW a \in Actor, Load(a) \/ (a \in Request /\ WidenLoad(a))
    PROVE  KeepIInv'
<1>1. /\ UNCHANGED <<engines, writer, job, eng, kept, moves>>
      /\ at[a] \notin Loaded \cup Engaged /\ job[a].model \in Model
  BY DEF Load, WidenLoad, Loaded, Engaged, KeepIInv, ManagerIInv, Stands, Idle
<1>2. CASE \E p \in Loaded : Loads(a, p)
  BY <1>1, <1>2, LoadedStep
<1>3. CASE UNCHANGED <<hand, timers>> /\ \E p \in {"scan", "done"} : Goto(a, p)
  <2>1. PICK p \in {"scan", "done"} : Goto(a, p)
    BY <1>3
  <2>2. p \notin Loaded \cup Engaged
    BY DEF Loaded, Engaged
  <2>3. Calm
    BY <1>1, <1>3, <2>1, <2>2, GoneCalm
  <2>. QED
    BY <1>1, <1>3, <2>3, StillStep
<1>. QED
  BY <1>2, <1>3 DEF Load, WidenLoad, Loaded

\* The entry of a new engine goes into the list.
LEMMA PushedStep ==
    ASSUME KeepIInv, ManagerIInv', NEW a \in Actor, at[a] \in Loaded, job[a].model \in Model,
           NEW wide \in BOOLEAN, engines' = Append(engines, NewEntry(a, wide)),
           hand' = [hand EXCEPT ![a] = EmptyHand],
           UNCHANGED <<writer, timers, job, eng, kept, moves>>,
           NEW p, Goto(a, p), p \notin Loaded \cup Engaged
    PROVE  KeepIInv'
<1>1. at'[a] = p /\ \A b \in Actor : b # a => at'[b] = at[b]
  BY MovedActor
<1>2. /\ hand' \in [Actor -> Hands] /\ hand'[a] = EmptyHand
      /\ \A b \in Actor : b # a => hand'[b] = hand[b]
  BY HandEmptied
<1>3. Calm
  <2>1. at[a] \notin Engaged
    BY DEF Loaded, Engaged
  <2>. QED
    BY <2>1, GoneCalm
<1>0. PICK e : e = NewEntry(a, wide)
  OBVIOUS
<1>4. HandFits(a) /\ hand[a].engine # NoEngine
  BY DEF KeepIInv, HandShape, HandFits
<1>5. /\ e.engine = hand[a].engine /\ e.timer = hand[a].timer
      /\ e.model = job[a].model /\ e.keep = job[a].keep /\ e \in EntryRecord
  <2>1. hand[a].engine \in 1..MaxEngines /\ hand[a].timer \in 0..MaxTimers
    BY <1>4, TimerOfHand, EnginePlace DEF KeepIInv
  <2>2. job[a].keep \in {"period", "never"}
    BY DEF KeepIInv, ManagerIInv, Control, Job
  <2>. QED
    BY <1>0, <2>1, <2>2 DEF NewEntry, EntryRecord
<1>6. EntryFits(e)'
  <2>1. e.timer # NoTimer =>
          /\ timers[e.timer].model = e.model /\ timers[e.timer].kind = "set" /\ e.keep = "period"
    BY <1>4, <1>5 DEF HandFits
  <2>. QED
    BY <1>5, <2>1 DEF EntryFits
<1>7. PICK n : /\ n \notin DOMAIN engines /\ DOMAIN engines' = DOMAIN engines \cup {n}
               /\ engines'[n] = e /\ \A i \in DOMAIN engines : engines'[i] = engines[i]
  <2>1. engines' = Append(engines, e)
    BY <1>0
  <2>. QED
    BY <2>1, AppendedEntry DEF KeepIInv, ManagerIInv
<1>8. \A i \in DOMAIN engines : /\ engines[i].engine # e.engine
                                /\ e.timer # NoTimer => engines[i].timer # e.timer
  BY <1>4, <1>5 DEF HandFits
<1>9. ListShape'
  <2>1. \A i \in DOMAIN engines' : EntryFits(engines[i])'
    BY <1>6, <1>7 DEF KeepIInv, ListShape, EntryFits
  <2>2. \A i, j \in DOMAIN engines' : engines'[i].engine = engines'[j].engine => i = j
    BY <1>7, <1>8 DEF KeepIInv, ListShape
  <2>3. \A i, j \in DOMAIN engines' :
           engines'[i].timer = engines'[j].timer /\ engines'[i].timer # NoTimer => i = j
    BY <1>7, <1>8 DEF KeepIInv, ListShape
  <2>. QED
    BY <2>1, <2>2, <2>3 DEF ListShape
<1>10. \A i \in DOMAIN engines' : Old(i) \/ Given(i)
  <2>1. Given(n)
    BY <1>1, <1>2, <1>4, <1>5, <1>7 DEF Given, Empties
  <2>2. \A i \in DOMAIN engines : Old(i)
    BY <1>7 DEF Old, Same
  <2>. QED
    BY <1>7, <2>1, <2>2
<1>11. ASSUME NEW u \in 1..MaxTimers, Sleeps(u)' PROVE Held(u)'
  <2>1. Held(u)
    BY <1>11 DEF KeepIInv, Accounted, Sleeps, Plain
  <2>. QED
    BY <1>2, <1>5, <1>7, <2>1 DEF Held
<1>12. Accounted' /\ TimerShape'
  BY <1>11 DEF Accounted, KeepIInv, TimerShape
<1>13. \A b \in Actor : hand[b].timer # NoTimer => Lasts(hand[b].timer)
  BY DEF Lasts
<1>. QED
  BY <1>3, <1>9, <1>10, <1>12, <1>13, CalmStep

\* The engine in a hand is dropped, and the timer spawned for it left to itself.
LEMMA DroppedStep ==
    ASSUME KeepIInv, ManagerIInv', NEW a \in Actor, Detach(hand[a].timer),
           hand' = [hand EXCEPT ![a] = EmptyHand], UNCHANGED <<engines, writer>>, Calm
    PROVE  KeepIInv'
<1>. DEFINE x == hand[a].timer
<1>1. /\ hand' \in [Actor -> Hands] /\ hand'[a] = EmptyHand
      /\ \A b \in Actor : b # a => hand'[b] = hand[b]
  BY HandEmptied
<1>2. /\ x # NoTimer => /\ x \in 1..MaxTimers /\ timers[x].st = "asleep"
                        /\ \A i \in DOMAIN engines : engines[i].timer # x
                        /\ \A b \in Actor : b # a => hand[b].timer # x
  BY TimerOfHand DEF KeepIInv, HandShape, HandFits
<1>3. x \in 0..MaxTimers
  BY TimerOfHand DEF KeepIInv
<1>4. CASE x # NoTimer
  <2>1. timers' = [timers EXCEPT ![x].kind = "stray"]
    BY <1>4 DEF Detach
  <2>. HIDE DEF x
  <2>2. /\ timers' \in [1..MaxTimers -> TimerState]
        /\ timers'[x].st = "asleep" /\ timers'[x].kind = "stray"
        /\ \A u \in 1..MaxTimers : u # x => timers'[u] = timers[u]
    BY <1>2, <1>4, <2>1, DetachedTimer DEF KeepIInv
  <2>3. TimerShape' /\ \A t \in 1..MaxTimers : writer' = t => writer = t /\ timers'[t] = timers[t]
    <3>1. \A t \in 1..MaxTimers : timers'[t].st = "unloading" <=> timers[t].st = "unloading"
      BY <1>2, <1>4, <2>2
    <3>2. writer # x
      BY <1>2, <1>4 DEF KeepIInv, TimerShape
    <3>. QED
      BY <2>2, <3>1, <3>2 DEF KeepIInv, TimerShape
  <2>4. \A u \in 1..MaxTimers : u # x => Same(u) /\ Lasts(u)
    BY <2>2 DEF Same, Lasts
  <2>5. /\ ListShape'
        /\ \A i \in DOMAIN engines' : Old(i)
    <3>1. \A i \in DOMAIN engines : engines[i].timer # NoTimer => Same(engines[i].timer)
      BY <1>2, <1>4, <2>4, TimerOfEntry DEF KeepIInv
    <3>. QED
      BY <3>1, SameList DEF KeepIInv
  <2>6. \A b \in Actor : hand[b].timer # NoTimer /\ Carries(b) => Lasts(hand[b].timer)
    <3>1. \A b \in Actor : hand[b].timer # NoTimer /\ Carries(b) => b # a
      BY <1>1, HandFields DEF Carries
    <3>. QED
      BY <1>2, <1>4, <2>4, <3>1, TimerOfHand DEF KeepIInv
  <2>7. ASSUME NEW u \in 1..MaxTimers, Sleeps(u)' PROVE Held(u)'
    <3>1. u # x /\ Sleeps(u)
      BY <2>2, <2>7 DEF Sleeps, Plain
    <3>2. Held(u)
      BY <3>1 DEF KeepIInv, Accounted
    <3>. QED
      BY <1>1, <3>1, <3>2 DEF Held, x
  <2>8. Accounted'
    BY <2>7 DEF Accounted
  <2>. QED
    BY <2>3, <2>5, <2>6, <2>8, CalmStep
<1>5. CASE x = NoTimer
  <2>1. UNCHANGED timers
    BY <1>5 DEF Detach
  <2>2. TimerShape' /\ \A u \in 1..MaxTimers : Same(u) /\ Lasts(u)
    BY <2>1 DEF KeepIInv, TimerShape, Same, Lasts
  <2>3. /\ ListShape'
        /\ \A i \in DOMAIN engines' : Old(i)
    BY <2>2, TimerOfEntry, SameList DEF KeepIInv
  <2>4. \A b \in Actor : hand[b].timer # NoTimer => Lasts(hand[b].timer)
    BY <2>2, TimerOfHand DEF KeepIInv
  <2>5. ASSUME NEW u \in 1..MaxTimers, Sleeps(u)' PROVE Held(u)'
    <3>1. Held(u)
      BY <2>1, <2>5 DEF KeepIInv, Accounted, Sleeps, Plain
    <3>. QED
      BY <1>1, <1>5, <3>1, TimerPlace DEF Held
  <2>6. Accounted'
    BY <2>5 DEF Accounted
  <2>. QED
    BY <2>1, <2>2, <2>3, <2>4, <2>6, CalmStep
<1>. QED
  BY <1>4, <1>5

LEMMA PushKeepStep ==
    ASSUME KeepIInv, ManagerIInv', NEW a \in Actor, Push(a)
    PROVE  KeepIInv'
<1>1. /\ at[a] = "loaded" /\ job[a].model \in Model
      /\ hand' = [hand EXCEPT ![a] = EmptyHand] /\ Goto(a, Served(a))
      /\ UNCHANGED <<writer, job, eng, kept, moves>>
  BY DEF Push, KeepIInv, ManagerIInv, Stands, Idle
<1>2. /\ Served(a) \in {"scan", "widen", "lookup"} /\ Served(a) \notin Loaded \cup Engaged
      /\ at[a] \in Loaded /\ at[a] \notin Engaged
  BY <1>1 DEF Served, Loaded, Engaged
<1>3. CASE engines' = Append(engines, NewEntry(a, a \in Wide)) /\ UNCHANGED timers
  <2>1. (a \in Wide) \in BOOLEAN
    OBVIOUS
  <2>. QED
    BY <1>1, <1>2, <1>3, <2>1, PushedStep
<1>4. CASE Detach(hand[a].timer) /\ UNCHANGED engines
  <2>1. Calm
    BY <1>1, <1>2, GoneCalm
  <2>. QED
    BY <1>1, <1>4, <2>1, DroppedStep
<1>. QED
  BY <1>3, <1>4 DEF Push

\* The steps of a request that widens.
LEMMA WidenKeepStep ==
    ASSUME KeepIInv, ManagerIInv', NEW r \in Request,
           WidenRead(r) \/ WidenUnload(r) \/ WidenPush(r)
    PROVE  KeepIInv'
<1>0. r \in Actor /\ UNCHANGED <<writer, eng, kept, moves>>
  BY ActorKinds DEF WidenRead, WidenUnload, WidenPush
<1>1. CASE WidenRead(r)
  <2>1. PICK p \in {"narrow", "lookup"} : Goto(r, p)
    BY <1>1 DEF WidenRead
  <2>2. /\ p \notin Loaded \cup Engaged /\ UNCHANGED <<engines, timers, hand>>
        /\ at[r] \notin Loaded \cup Engaged
    BY <1>1 DEF WidenRead, Loaded, Engaged
  <2>3. /\ \A q \in Actor : q # r => job'[q] = job[q]
        /\ \A q \in Request : job'[q].model = job[q].model
    <3>1. \/ job' = job
          \/ \E k : job' = [job EXCEPT ![r].keep = k]
      BY <1>1 DEF WidenRead
    <3>2. job \in [Actor -> Job]
      BY DEF KeepIInv, ManagerIInv, Control
    <3>. QED
      BY <3>1, <3>2, ActorKinds DEF Job
  <2>4. Calm
    BY <1>0, <2>1, <2>2, <2>3, GoneCalm
  <2>. QED
    BY <1>0, <2>2, <2>4, StillStep
<1>2. CASE WidenUnload(r)
  <2>1. /\ TakeOut(job[r].model) /\ Goto(r, "unloaded") /\ UNCHANGED <<job, hand>>
    BY <1>2 DEF WidenUnload
  <2>2. "unloaded" \notin Loaded \cup Engaged /\ at[r] \notin Loaded \cup Engaged
    BY <1>2 DEF WidenUnload, Loaded, Engaged
  <2>3. Calm
    BY <1>0, <2>1, <2>2, GoneCalm
  <2>. QED
    BY <1>0, <2>1, <2>3, TakenOutStep
<1>3. CASE WidenPush(r)
  <2>1. PICK p \in {"lookup", "done"} : Goto(r, p)
    BY <1>3 DEF WidenPush
  <2>2. /\ at[r] \in Loaded /\ p \notin Loaded \cup Engaged /\ (at[r] = "widened") \in BOOLEAN
        /\ hand' = [hand EXCEPT ![r] = EmptyHand] /\ UNCHANGED <<job, timers>>
        /\ engines' = Append(engines, NewEntry(r, at[r] = "widened"))
    BY <1>3 DEF WidenPush, Loaded, Engaged
  <2>3. job[r].model \in Model
    BY <1>0, <1>3 DEF WidenPush, KeepIInv, ManagerIInv, Stands, Idle
  <2>. QED
    BY <1>0, <2>1, <2>2, <2>3, PushedStep
<1>. QED
  BY <1>1, <1>2, <1>3

\* A request is past its reset: no timer waits for it any more.
LEMMA SettledStep ==
    ASSUME KeepIInv, ManagerIInv', Calm, UNCHANGED <<engines, hand, writer>>,
           NEW r \in Request, timers' = Settled(r), at'[r] # "ready"
    PROVE  KeepIInv'
<1>1. /\ timers' \in [1..MaxTimers -> TimerState]
      /\ \A u \in 1..MaxTimers :
           /\ timers'[u].st = timers[u].st /\ Same(u)
           /\ timers[u].st # "asleep" => timers'[u] = timers[u]
           /\ timers[u].st = "asleep" => Lasts(u)
  BY SettledTimers DEF KeepIInv
<1>2. TimerShape' /\ \A t \in 1..MaxTimers : writer' = t => writer = t /\ timers'[t] = timers[t]
  BY <1>1 DEF KeepIInv, TimerShape
<1>3. \A b \in Actor : hand[b].timer # NoTimer => Lasts(hand[b].timer)
  BY <1>1, TimerOfHand DEF KeepIInv, HandShape, HandFits
<1>. QED
  BY <1>1, <1>2, <1>3, QuietStep

\* A request finds its engine, is counted, and ends.
LEMMA EngagedStep ==
    ASSUME KeepIInv, ManagerIInv', NEW r \in Request, GetEngine(r) \/ Admit(r) \/ Finish(r)
    PROVE  KeepIInv'
<1>0. /\ r \in Actor /\ UNCHANGED <<engines, writer, job, hand, moves>>
      /\ at \in [Actor -> Phase] /\ eng \in [Actor -> 0..MaxEngines]
      /\ kept \subseteq Request /\ hand \in [Actor -> Hands] /\ moves \in 0..MaxMoves
      /\ \A q \in kept : at[q] \in {"ready", "running"}
  BY ActorKinds
     DEF GetEngine, Admit, Finish, KeepIInv, ManagerIInv, Control, HandShape, KeptShape
<1>1. CASE GetEngine(r)
  <2>1. at[r] = "lookup" /\ UNCHANGED <<kept, timers>>
    BY <1>1 DEF GetEngine
  <2>2. CASE /\ Listed(job[r].model)
             /\ eng' = [eng EXCEPT ![r] = Entry(job[r].model).engine]
             /\ Goto(r, "found")
    <3>. DEFINE k == First(job[r].model)
    <3>1. k \in DOMAIN engines /\ engines[k].model = job[r].model
      BY <2>2, FirstIsListed DEF KeepIInv, ManagerIInv, Of
    <3>2. eng' = [eng EXCEPT ![r] = engines[k].engine]
      BY <2>2 DEF Entry
    <3>. HIDE DEF k
    <3>3. engines[k].engine \in 0..MaxEngines
      BY <3>1, TimerOfEntry, EnginePlace DEF KeepIInv
    <3>4. /\ eng' \in [Actor -> 0..MaxEngines] /\ eng'[r] = engines[k].engine
          /\ \A b \in Actor : b # r => eng'[b] = eng[b]
      BY <1>0, <3>2, <3>3
    <3>5. at'[r] = "found" /\ \A b \in Actor : b # r => at'[b] = at[b]
      BY <1>0, <2>2, MovedActor
    <3>6. \A i \in DOMAIN engines :
            engines[i].engine = eng'[r] => engines[i].model = job[r].model
      BY <3>1, <3>4 DEF KeepIInv, ListShape
    <3>7. \A b \in Actor : Carries(b)
      BY <1>0, <2>1, <3>5 DEF Carries, Loaded
    <3>8. \A q \in Request : at'[q] \in Engaged => Stays(q)
      <4>1. Stays(r)
        BY <1>0, <3>5, <3>6 DEF Stays
      <4>2. \A q \in Request : q # r /\ at'[q] \in Engaged => Stays(q)
        BY <3>4, <3>5, ActorKinds DEF Stays, Engaged
      <4>. QED
        BY <4>1, <4>2
    <3>9. \A b \in Actor : \/ eng'[b] \in {eng[b], NoEngine}
                           \/ \E j \in DOMAIN engines : eng'[b] = engines[j].engine
      BY <3>1, <3>4
    <3>10. \A q \in kept : at'[q] \in {"ready", "running"}
      BY <1>0, <2>1, <3>5, ActorKinds
    <3>11. Calm
      BY <1>0, <2>1, <3>4, <3>7, <3>8, <3>9, <3>10 DEF Calm
    <3>. QED
      BY <1>0, <2>1, <3>11, StillStep
  <2>3. CASE Goto(r, "done") /\ UNCHANGED eng
    <3>1. "done" \notin Loaded \cup Engaged /\ at[r] \notin Loaded \cup Engaged
      BY <2>1 DEF Loaded, Engaged
    <3>2. Calm
      BY <1>0, <2>1, <2>3, <3>1, GoneCalm
    <3>. QED
      BY <1>0, <2>1, <3>2, StillStep
  <2>. QED
    BY <1>1, <2>2, <2>3 DEF GetEngine
<1>2. CASE Admit(r)
  <2>1. /\ at[r] = "ready" /\ at'[r] = "running" /\ UNCHANGED <<eng, kept>>
        /\ \A b \in Actor : b # r => at'[b] = at[b]
        /\ timers' = Settled(r)
    BY <1>0, <1>2, MovedActor DEF Admit
  <2>2. \A b \in Actor : Carries(b)
    BY <1>0, <2>1 DEF Carries, Loaded
  <2>3. \A q \in Request : at'[q] \in Engaged => Stays(q)
    BY <2>1, ActorKinds DEF Stays, Engaged
  <2>4. \A q \in kept : at'[q] \in {"ready", "running"}
    BY <1>0, <2>1, ActorKinds
  <2>5. Calm
    BY <1>0, <2>1, <2>2, <2>3, <2>4 DEF Calm
  <2>. QED
    BY <1>0, <2>1, <2>5, SettledStep
<1>3. CASE Finish(r)
  <2>1. /\ Goto(r, "done") /\ UNCHANGED timers /\ kept' = kept \ {r}
        /\ eng' = [eng EXCEPT ![r] = NoEngine]
    BY <1>3 DEF Finish, Release
  <2>2. "done" \notin Loaded \cup Engaged /\ at[r] \notin Loaded
    BY <1>3 DEF Finish, Loaded, Engaged
  <2>3. Calm
    BY <1>0, <2>1, <2>2, LeftCalm
  <2>. QED
    BY <1>0, <2>1, <2>3, StillStep
<1>. QED
  BY <1>1, <1>2, <1>3

\* The handler of a request is dropped.
LEMMA DropKeepStep ==
    ASSUME KeepIInv, ManagerIInv', NEW r \in Request, Drop(r)
    PROVE  KeepIInv'
<1>1. /\ r \in Actor /\ Goto(r, "done") /\ kept' = kept \ {r}
      /\ hand' = [hand EXCEPT ![r] = EmptyHand] /\ eng' = [eng EXCEPT ![r] = NoEngine]
      /\ UNCHANGED <<engines, writer, job, moves>>
  BY ActorKinds DEF Drop, Abandons, Release
<1>2. "done" \notin Loaded \cup Engaged
  BY DEF Loaded, Engaged
<1>3. Calm
  BY <1>1, <1>2, LeftCalm
<1>4. CASE at[r] = "ready" /\ timers' = Settled(r)
  <2>1. UNCHANGED hand
    <3>1. hand[r].engine = NoEngine /\ hand[r].timer = NoTimer /\ hand[r] \in Hands
      BY <1>1, <1>4 DEF KeepIInv, HandShape, HandFits, Loaded
    <3>2. hand[r] = EmptyHand
      BY <3>1 DEF Hands, EmptyHand
    <3>. QED
      BY <1>1, <3>2 DEF KeepIInv, HandShape
  <2>2. at'[r] = "done"
    BY <1>1, MovedActor
  <2>. QED
    BY <1>1, <1>3, <1>4, <2>1, <2>2, SettledStep
<1>5. CASE Detach(hand[r].timer)
  BY <1>1, <1>3, <1>5, DroppedStep
<1>. QED
  BY <1>4, <1>5 DEF Drop

-----------------------------------------------------------------------------
(* The timers, the mover and the clients *)

\* The mover may be woken: nobody else is.
LEMMA WokenCalm ==
    ASSUME KeepIInv, UNCHANGED <<job, hand, eng, kept, moves>>, UNCHANGED at \/ at' = Woken(at)
    PROVE  Calm
<1>1. \A b \in Actor : at'[b] = at[b] \/ (b = Mover /\ at[b] = "out" /\ at'[b] = "scan")
  BY ActorKinds DEF KeepIInv, ManagerIInv, Control, Woken
<1>2. \A b \in Actor : Carries(b)
  BY <1>1 DEF Carries, Loaded
<1>3. \A r \in Request : at'[r] \in Engaged => Stays(r)
  BY <1>1, ActorKinds DEF Stays, Engaged
<1>4. \A r \in kept' : at'[r] \in {"ready", "running"}
  BY <1>1, ActorKinds DEF KeepIInv, KeptShape
<1>. QED
  BY <1>2, <1>3, <1>4 DEF Calm, KeepIInv, HandShape

\* One timer ends, or sleeps on: it is in no hand.
LEMMA OneTimerStep ==
    ASSUME KeepIInv, ManagerIInv', Calm, UNCHANGED <<engines, hand>>,
           NEW t \in 1..MaxTimers, NEW s \in TimerState, s.st # "unloading",
           timers' = [timers EXCEPT ![t] = s], Same(t), \A a \in Actor : hand[a].timer # t,
           writer' = IF writer = t THEN NoTimer ELSE writer
    PROVE  KeepIInv'
<1>1. /\ timers' \in [1..MaxTimers -> TimerState] /\ timers'[t] = s
      /\ \A u \in 1..MaxTimers : u # t => timers'[u] = timers[u]
      /\ timers \in [1..MaxTimers -> TimerState] /\ writer \in 0..MaxTimers
      /\ \A u \in 1..MaxTimers : timers[u].st = "unloading" <=> writer = u
  BY DEF KeepIInv, TimerShape
<1>2. /\ writer' \in 0..MaxTimers
      /\ \A u \in 1..MaxTimers : writer' = u => writer = u /\ u # t
      /\ \A u \in 1..MaxTimers : writer = u /\ u # t => writer' = u
  BY <1>1, TimerPlace
<1>3. \A u \in 1..MaxTimers : timers'[u].st = "unloading" <=> writer' = u
  BY <1>1, <1>2
<1>4. TimerShape' /\ \A u \in 1..MaxTimers : writer' = u => writer = u /\ timers'[u] = timers[u]
  BY <1>1, <1>2, <1>3 DEF TimerShape
<1>5. \A u \in 1..MaxTimers : Same(u)
  BY <1>1 DEF Same
<1>6. \A b \in Actor : hand[b].timer # NoTimer => Lasts(hand[b].timer)
  <2>1. \A u \in 1..MaxTimers : u # t => Lasts(u)
    BY <1>1 DEF Lasts
  <2>. QED
    BY <2>1, TimerOfHand DEF KeepIInv
<1>. QED
  BY <1>4, <1>5, <1>6, QuietStep

\* A timer is cancelled, has unloaded, finds nothing, or sleeps on.
LEMMA TimerKeepStep ==
    ASSUME KeepIInv, ManagerIInv', NEW t \in 1..MaxTimers,
           Cancelled(t) \/ ExpireUnload(t) \/ ExpireNothing(t) \/ ExpireLater(t)
    PROVE  KeepIInv'
<1>0. /\ UNCHANGED <<engines, job, hand, eng, kept, moves>>
      /\ UNCHANGED at \/ at' = Woken(at)
      /\ timers[t] \in TimerState /\ (timers[t].st = "unloading" <=> writer = t)
  BY DEF Cancelled, ExpireUnload, ExpireNothing, ExpireLater, LetMoverIn, KeepIInv, TimerShape
<1>1. Calm
  BY <1>0, WokenCalm
<1>2. CASE Cancelled(t) \/ ExpireUnload(t) \/ ExpireNothing(t)
  <2>1. timers' = [timers EXCEPT ![t] = Spare]
    BY <1>2 DEF Cancelled, ExpireUnload, ExpireNothing
  <2>2. timers'[t] = Spare
    BY <2>1 DEF KeepIInv, TimerShape
  <2>3. /\ Same(t) /\ Spare \in TimerState /\ Spare.st # "unloading"
    BY <2>2, TimerStates DEF Same
  <2>4. \A a \in Actor : hand[a].timer # t
    <3>1. CASE ExpireNothing(t)
      BY <3>1 DEF ExpireNothing, Looks
    <3>2. CASE timers[t].kind = "late" \/ timers[t].st = "unloading"
      BY <3>2, TimerPlace DEF KeepIInv, HandShape, HandFits
    <3>. QED
      BY <1>0, <1>2, <3>1, <3>2 DEF Cancelled, ExpireUnload
  <2>5. writer' = IF writer = t THEN NoTimer ELSE writer
    BY <1>0, <1>2 DEF Cancelled, ExpireUnload, ExpireNothing, Looks
  <2>. QED
    BY <1>0, <1>1, <2>1, <2>3, <2>4, <2>5, OneTimerStep
<1>3. CASE ExpireLater(t)
  <2>. DEFINE x == {r \in Request : at[r] = "ready" /\ job[r].model = timers[t].model}
              s == [timers[t] EXCEPT !.after = x]
  <2>1. /\ timers[t].st = "asleep" /\ timers[t].after = {} /\ writer' = writer
        /\ \A a \in Actor : hand[a].timer # t
        /\ timers' = [timers EXCEPT ![t] = s]
    BY <1>3 DEF ExpireLater, Looks
  <2>2. x \in SUBSET Request
    OBVIOUS
  <2>. HIDE DEF x
  <2>3. /\ s \in TimerState /\ s.st = "asleep" /\ s.kind = timers[t].kind
        /\ s.model = timers[t].model
    BY <1>0, <2>1, <2>2, SleeperWaits
  <2>. HIDE DEF s
  <2>4. timers'[t] = s
    BY <2>1 DEF KeepIInv, TimerShape
  <2>5. Same(t)
    BY <2>1, <2>3, <2>4 DEF Same
  <2>6. writer' = IF writer = t THEN NoTimer ELSE writer
    BY <1>0, <2>1
  <2>7. PICK z : z = s
    OBVIOUS
  <2>. QED
    BY <1>0, <1>1, <2>1, <2>3, <2>5, <2>6, <2>7, OneTimerStep
<1>. QED
  BY <1>2, <1>3

\* The timer that removes an entry: the entry's own, unless it was left to itself
\* or aborted late; the entry's timer is then left to itself in its turn.
LEMMA ExpireKeepStep ==
    ASSUME KeepIInv, ManagerIInv', NEW t \in 1..MaxTimers, Expire(t)
    PROVE  KeepIInv'
<1>. DEFINE m == timers[t].model
            k == First(m)
            x == engines[k].timer
<1>0. /\ UNCHANGED <<at, job, hand, eng, kept, moves>> /\ writer' = t /\ ListFree
      /\ timers[t].st = "asleep" /\ timers[t].after = {}
      /\ \A a \in Actor : hand[a].timer # t
      /\ Listed(m) /\ ~Busy(m) /\ engines' = RemoveAt(engines, k)
  BY DEF Expire, Looks
<1>1. k \in DOMAIN engines /\ engines[k].model = m
  BY <1>0, FirstIsListed DEF KeepIInv, ManagerIInv, Of
<1>2. timers \in [1..MaxTimers -> TimerState] /\ \A u \in 1..MaxTimers : timers[u].st # "unloading"
  BY <1>0, NoneUnloads DEF KeepIInv, TimerShape
<1>3. timers[t] \in TimerState /\ m \in Model /\ timers[t].kind \in Kind
  BY <1>0, <1>2, TimerStates
<1>4. x \in 0..MaxTimers /\ engines[k].engine \in 1..MaxEngines
  BY <1>1, TimerOfEntry DEF KeepIInv
<1>. DEFINE gone == [st |-> "unloading", kind |-> timers[t].kind, engine |-> engines[k].engine]
<1>5. timers' = [u \in 1..MaxTimers |->
         CASE u = t -> gone
           [] u \in Orphans(t, x) -> [timers[u] EXCEPT !.kind = "stray"]
           [] OTHER -> timers[u]]
  BY DEF Expire, Entry
<1>6. /\ gone \in TimerState /\ gone.st = "unloading" /\ gone.kind = timers[t].kind
      /\ gone.engine = engines[k].engine
  BY <1>3, <1>4, TimerStates
<1>. HIDE DEF gone, k, m
<1>7. /\ \A u \in Orphans(t, x) : u = x /\ timers[u].st = "asleep" /\ timers[t].kind # "set"
      /\ timers[t].kind # "set" /\ x # NoTimer /\ timers[x].st = "asleep" => x \in Orphans(t, x)
  BY DEF Orphans
<1>own. t \notin Orphans(t, x)
  <2>1. x = t => timers[t].kind = "set"
    BY <1>0, <1>1, TimerPlace DEF KeepIInv, ListShape, EntryFits
  <2>. QED
    BY <1>7, <2>1
<1>. HIDE DEF x
<1>8. /\ timers'[t] = gone
      /\ \A u \in 1..MaxTimers : u # t /\ u \in Orphans(t, x) =>
           /\ timers'[u] \in TimerState /\ timers'[u].st = "asleep" /\ timers'[u].kind = "stray"
      /\ \A u \in 1..MaxTimers : u # t /\ u \notin Orphans(t, x) => timers'[u] = timers[u]
  <2>1. timers'[t] = gone
    BY <1>5, <1>own
  <2>2. ASSUME NEW u \in 1..MaxTimers, u # t, u \in Orphans(t, x)
        PROVE  timers'[u] \in TimerState /\ timers'[u].st = "asleep" /\ timers'[u].kind = "stray"
    <3>1. timers'[u] = [timers[u] EXCEPT !.kind = "stray"]
      BY <1>5, <2>2
    <3>2. timers[u] \in TimerState /\ timers[u].st = "asleep" /\ "stray" \in Kind
      BY <1>2, <1>7, <2>2 DEF Kind
    <3>. QED
      BY <3>1, <3>2, SleeperChanged
  <2>3. ASSUME NEW u \in 1..MaxTimers, u # t, u \notin Orphans(t, x)
        PROVE  timers'[u] = timers[u]
    BY <1>5, <2>3
  <2>. QED
    BY <2>1, <2>2, <2>3
<1>9. timers' \in [1..MaxTimers -> TimerState]
  <2>1. \A u \in 1..MaxTimers : timers'[u] \in TimerState
    BY <1>2, <1>6, <1>8
  <2>2. timers' = [u \in 1..MaxTimers |-> timers'[u]]
    BY <1>5
  <2>. QED
    BY <2>1, <2>2
<1>10. TimerShape'
  <2>1. \A u \in 1..MaxTimers : timers'[u].st = "unloading" <=> writer' = u
    BY <1>0, <1>2, <1>6, <1>8
  <2>. QED
    BY <1>0, <1>9, <2>1, TimerPlace DEF TimerShape
<1>11. \A u \in 1..MaxTimers : u # x => Same(u) /\ (u # t => Lasts(u))
  BY <1>6, <1>7, <1>8 DEF Same, Lasts
<1>12. /\ ListShape'
       /\ \A i \in DOMAIN engines' : Old(i)
       /\ \A j \in DOMAIN engines : j # k => \E i \in DOMAIN engines' : engines'[i] = engines[j]
  BY <1>0, <1>1, <1>11, RemovedList DEF KeepIInv, x
<1>13. \A b \in Actor : hand[b].timer # NoTimer => Lasts(hand[b].timer)
  <2>1. \A b \in Actor : hand[b].timer # NoTimer => hand[b].timer # x /\ hand[b].timer # t
    BY <1>0, <1>1 DEF KeepIInv, HandShape, HandFits, x
  <2>. QED
    BY <1>11, <2>1, TimerOfHand DEF KeepIInv
\* The timer of a plain model that was not left to itself is its only entry's.
<1>14. timers[t].kind = "set" /\ m \in Plain => x = t
  <2>. SUFFICES ASSUME timers[t].kind = "set", m \in Plain PROVE x = t
    OBVIOUS
  <2>1. Held(t)
    BY <1>0 DEF KeepIInv, Accounted, Sleeps, m
  <2>2. PICK j \in DOMAIN engines : engines[j].timer = t
    BY <1>0, <2>1 DEF Held
  <2>3. engines[j].model = m
    BY <1>0, <2>2, TimerPlace DEF KeepIInv, ListShape, EntryFits, m
  <2>4. j = k
    BY <1>1, <2>3 DEF KeepIInv, ManagerIInv, Alone, Of
  <2>. QED
    BY <2>2, <2>4 DEF x
<1>15. ASSUME NEW u \in 1..MaxTimers, Sleeps(u)' PROVE Held(u)'
  <2>1. u # t /\ u \notin Orphans(t, x) /\ Sleeps(u)
    BY <1>6, <1>8, <1>15 DEF Sleeps, Plain
  <2>2. u # x
    <3>. SUFFICES ASSUME u = x PROVE FALSE
      OBVIOUS
    <3>1. x # NoTimer /\ timers[x].st = "asleep"
      BY <2>1, TimerPlace DEF Sleeps
    <3>2. timers[t].kind = "set"
      BY <1>7, <2>1, <3>1
    <3>3. timers[x].model = m
      BY <1>1, <3>1 DEF KeepIInv, ListShape, EntryFits, x
    <3>4. m \in Plain
      BY <2>1, <3>3 DEF Sleeps
    <3>. QED
      BY <1>14, <2>1, <3>2, <3>4
  <2>3. Held(u)
    BY <2>1 DEF KeepIInv, Accounted
  <2>. QED
    BY <1>0, <1>12, <2>2, <2>3 DEF Held, x
<1>16. Accounted'
  BY <1>15 DEF Accounted
<1>17. HandShape'
  <2>1. \A i \in DOMAIN engines' : Apart(i)
    BY <1>12, OldIsApart DEF KeepIInv
  <2>2. /\ hand' \in [Actor -> Hands] /\ eng' \in [Actor -> 0..MaxEngines]
        /\ \A b \in Actor : Carries(b) /\ eng'[b] = eng[b]
    BY <1>0 DEF KeepIInv, HandShape, Carries
  <2>. QED
    BY <1>13, <2>1, <2>2, HandsKept DEF KeepIInv
<1>18. ASSUME NEW r \in kept, Wanted[r] \in Plain, timers[t].kind = "set"
       PROVE  gone.engine # eng[r]
  <2>. SUFFICES ASSUME engines[k].engine = eng[r] PROVE FALSE
    BY <1>6
  <2>1. r \in Request /\ at[r] \in {"ready", "running"} /\ at[r] \in Engaged
    BY DEF KeepIInv, KeptShape, Engaged
  <2>2. m = Wanted[r]
    <3>1. engines[k].model = job[r].model
      BY <1>1, <2>1 DEF KeepIInv, KeptShape
    <3>2. job[r].model = Wanted[r]
      BY <2>1, ActorKinds DEF KeepIInv, ManagerIInv, Stands
    <3>. QED
      BY <1>1, <3>1, <3>2
  <2>3. at[r] = "ready"
    BY <1>0, <1>1, <2>1 DEF Busy, InFlight, Of
  <2>4. x = t
    BY <1>14, <1>18, <2>2
  <2>5. r \in timers[t].after
    BY <1>0, <1>1, <1>18, <2>3, <2>4, TimerPlace DEF KeepIInv, KeptShape, x
  <2>. QED
    BY <1>0, <2>5
<1>19. KeptShape'
  <2>1. \A r \in Request : at'[r] \in Engaged =>
           \A i \in DOMAIN engines' :
               engines'[i].engine = eng'[r] => engines'[i].model = job'[r].model
    BY <1>0, <1>12 DEF KeepIInv, KeptShape, Old
  <2>2. ASSUME NEW r \in kept', Wanted[r] \in Plain, at'[r] = "ready", NEW i \in DOMAIN engines',
               engines'[i].engine = eng'[r], engines'[i].timer # NoTimer,
               timers'[engines'[i].timer].st = "asleep"
        PROVE  r \in timers'[engines'[i].timer].after
    <3>1. PICK j \in DOMAIN engines :
            /\ engines'[i] = engines[j]
            /\ engines[j].timer # NoTimer => Same(engines[j].timer)
      BY <1>12 DEF Old
    <3>2. Same(engines[j].timer) /\ timers[engines[j].timer].st = "asleep"
      BY <2>2, <3>1 DEF Same
    <3>3. r \in timers[engines[j].timer].after /\ r \in Request
      BY <1>0, <2>2, <3>1, <3>2 DEF KeepIInv, KeptShape
    <3>. QED
      BY <2>2, <3>1, <3>2, <3>3 DEF Same
  <2>3. \A r \in kept' : Wanted[r] \in Plain =>
           \A u \in 1..MaxTimers :
               writer' = u /\ timers'[u].kind = "set" => timers'[u].engine # eng'[r]
    BY <1>0, <1>6, <1>8, <1>18
  <2>4. Plain' = Plain /\ kept' \subseteq Request /\ \A r \in kept' : at'[r] \in {"ready", "running"}
    BY <1>0 DEF Plain, KeepIInv, KeptShape
  <2>. QED
    BY <2>1, <2>2, <2>3, <2>4 DEF KeptShape
<1>. QED
  BY <1>0, <1>10, <1>12, <1>16, <1>17, <1>19 DEF KeepIInv

\* The mover's steps.
LEMMA MovingKeepStep ==
    ASSUME KeepIInv, ManagerIInv', Moving
    PROVE  KeepIInv'
<1>0. /\ Mover \in Actor /\ Mover \notin Request /\ at \in [Actor -> Phase]
      /\ eng \in [Actor -> 0..MaxEngines] /\ job \in [Actor -> Job] /\ hand \in [Actor -> Hands]
      /\ kept \subseteq Request /\ Request \subseteq Actor
      /\ UNCHANGED <<writer, hand, kept>>
      /\ \A r \in kept : at[r] \in {"ready", "running"}
  BY ActorKinds
     DEF KeepIInv, ManagerIInv, Control, HandShape, KeptShape, Moving, Choose, Move, EndPass,
         PassOver
<1>1. CASE Choose
  <2>1. PICK i \in DOMAIN engines :
          /\ \E j : job' = [job EXCEPT ![Mover] = j]
          /\ eng' = [eng EXCEPT ![Mover] = engines[i].engine]
    BY <1>1 DEF Choose
  <2>2. /\ UNCHANGED <<engines, timers>> /\ moves' = moves + 1 /\ moves < MaxMoves
        /\ at' = [at EXCEPT ![Mover] = "chosen"] /\ at[Mover] = "scan"
    BY <1>1 DEF Choose, Goto
  <2>3. engines[i].engine \in 0..MaxEngines
    BY TimerOfEntry, EnginePlace DEF KeepIInv
  <2>4. /\ eng' \in [Actor -> 0..MaxEngines] /\ eng'[Mover] = engines[i].engine
        /\ \A b \in Actor : b # Mover => eng'[b] = eng[b] /\ at'[b] = at[b] /\ job'[b] = job[b]
        /\ at'[Mover] = "chosen"
    BY <1>0, <2>1, <2>2, <2>3
  <2>5. moves' \in 0..MaxMoves
    <3>1. moves \in 0..MaxMoves
      BY DEF KeepIInv
    <3>. QED
      BY <2>2, <3>1, BoundsAssumption
  <2>6. \A b \in Actor : Carries(b)
    <3>1. hand[Mover].timer = NoTimer
      BY <1>0, <2>2 DEF KeepIInv, HandShape, HandFits, Loaded
    <3>. QED
      BY <1>0, <2>2, <2>4, <3>1 DEF Carries, Loaded
  <2>7. \A b \in Actor : \/ eng'[b] \in {eng[b], NoEngine}
                         \/ \E k \in DOMAIN engines : eng'[b] = engines[k].engine
    BY <2>1, <2>4
  <2>8. \A r \in Request : /\ at'[r] = at[r] /\ job'[r] = job[r]
                           /\ at'[r] \in Engaged => Stays(r)
    BY <1>0, <2>4 DEF Stays
  <2>9. Calm
    BY <1>0, <2>4, <2>5, <2>6, <2>7, <2>8 DEF Calm
  <2>. QED
    BY <1>0, <2>2, <2>9, StillStep
<1>2. CASE Move \/ EndPass
  <2>1. /\ UNCHANGED moves /\ \E p \in {"fast", "scan", "out"} : Goto(Mover, p)
        /\ at[Mover] \notin Loaded
    BY <1>2 DEF Move, EndPass, PassOver, Loaded
  <2>2. PICK p \in {"fast", "scan", "out"} : Goto(Mover, p)
    BY <2>1
  <2>3. p \notin Loaded \cup Engaged
    BY DEF Loaded, Engaged
  <2>4. /\ eng' = eng \/ eng' = [eng EXCEPT ![Mover] = NoEngine]
        /\ job' = job \/ job' = [job EXCEPT ![Mover] = NoJob]
    BY <1>2 DEF Move, EndPass, PassOver
  <2>5. /\ \A b \in Actor : b # Mover => job'[b] = job[b]
        /\ \A r \in Request : job'[r].model = job[r].model
    BY <1>0, <2>4
  <2>6. Calm
    BY <1>0, <2>1, <2>2, <2>3, <2>4, <2>5, LeftCalm
  <2>7. UNCHANGED <<engines, timers>> \/ \E m : TakeOut(m)
    BY <1>2 DEF Move, EndPass
  <2>. QED
    BY <1>0, <2>6, <2>7, StillStep, TakenOutStep
<1>. QED
  BY <1>1, <1>2 DEF Moving

\* The pass is cut short.
LEMMA CutShortKeepStep ==
    ASSUME KeepIInv, ManagerIInv', CutShort
    PROVE  KeepIInv'
<1>1. /\ Mover \in Actor /\ Mover \notin Request /\ Request \subseteq Actor /\ Goto(Mover, "out")
      /\ UNCHANGED <<engines, writer, moves, kept>> /\ kept \subseteq Request
      /\ hand' = [hand EXCEPT ![Mover] = EmptyHand]
      /\ eng' = [eng EXCEPT ![Mover] = NoEngine]
      /\ Detach(hand[Mover].timer)
      /\ job' = [job EXCEPT ![Mover] = NoJob] /\ job \in [Actor -> Job]
  BY ActorKinds DEF CutShort, PassOver, Abandons, KeepIInv, KeptShape, ManagerIInv, Control
<1>2. /\ \A b \in Actor : b # Mover => job'[b] = job[b]
      /\ \A r \in Request : job'[r].model = job[r].model
  BY <1>1
<1>3. "out" \notin Loaded \cup Engaged
  BY DEF Loaded, Engaged
<1>4. Calm
  BY <1>1, <1>2, <1>3, LeftCalm
<1>. QED
  BY <1>1, <1>4, DroppedStep

LEMMA UnloadKeepStep ==
    ASSUME KeepIInv, ManagerIInv', NEW c \in Client, Unload(c)
    PROVE  KeepIInv'
<1>. DEFINE left == [at EXCEPT ![c] = "done"]
<1>1. /\ TakeOut(job[c].model) /\ at[c] = "out" /\ at' \in {left, Woken(left)}
      /\ UNCHANGED <<writer, job, hand, eng, kept, moves>>
      /\ c \in Actor /\ c # Mover /\ c \notin Request
  BY ActorKinds DEF Unload
<1>2. \A b \in Actor : \/ at'[b] = at[b]
                       \/ at[b] = "out" /\ b \notin Request /\ at'[b] \in {"scan", "done"}
  BY <1>1, ActorKinds DEF Woken, KeepIInv, ManagerIInv, Control
<1>3. \A b \in Actor : Carries(b)
  BY <1>1, <1>2 DEF Carries, Loaded
<1>4. /\ \A r \in Request : at'[r] = at[r] /\ (at'[r] \in Engaged => Stays(r))
      /\ kept \subseteq Request /\ \A r \in kept : at[r] \in {"ready", "running"}
  BY <1>1, <1>2, ActorKinds DEF Stays, KeepIInv, KeptShape
<1>5. Calm
  BY <1>1, <1>3, <1>4 DEF Calm, KeepIInv, HandShape
<1>. QED
  BY <1>1, <1>5, TakenOutStep

-----------------------------------------------------------------------------
(* The reset *)

\* What a reset leaves: a new timer in the entry, which is in no other entry and in
\* no hand and waits for whoever has reset it; the old one is gone, or late.
Reset(r, k, t) ==
    LET m == job[r].model IN
    /\ k = First(m) /\ k \in DOMAIN engines /\ engines[k].model = m
    /\ t \in 1..MaxTimers /\ \A b \in Actor : hand[b].timer # t
    /\ \A j \in DOMAIN engines : j # k => engines[j].timer # t
    /\ DOMAIN engines' = DOMAIN engines
    /\ engines'[k].engine = engines[k].engine /\ engines'[k].model = m
    /\ engines'[k].timer = t /\ engines'[k].keep = "period" /\ engines'[k] \in EntryRecord
    /\ \A j \in DOMAIN engines : j # k => engines'[j] = engines[j]
    /\ timers' \in [1..MaxTimers -> TimerState]
    /\ timers'[t].st = "asleep" /\ timers'[t].kind = "set" /\ timers'[t].model = m
    /\ r \in timers'[t].after
    /\ \A q \in Request : at[q] = "ready" /\ job[q].model = m => q \in timers'[t].after
    /\ \A u \in 1..MaxTimers : u # t =>
         IF u = engines[k].timer
         THEN timers'[u].st = "none" \/ (timers'[u].st = "asleep" /\ timers'[u].kind = "late")
         ELSE timers'[u] = timers[u]
    /\ \A u \in 1..MaxTimers : timers'[u].st # "unloading"

LEMMA ResetMeans ==
    ASSUME KeepIInv, NEW r \in Request, ResetExpiration(r)
    PROVE  \/ \E k, t : Reset(r, k, t)
           \/ /\ Listed(job[r].model) => Entry(job[r].model).keep = "never"
              /\ UNCHANGED <<engines, timers>>
<1>. DEFINE m == job[r].model
            k == First(m)
            old == engines[k].timer
<1>. SUFFICES ASSUME Listed(m), Entry(m).keep = "period",
                     \E ended \in Aborts(timers, old) :
                        LET gone == old # NoTimer /\ ended[old] = Spare
                            t == IF gone THEN old ELSE FreshTimer
                        IN /\ gone \/ FreeTimers # {}
                           /\ engines' = [engines EXCEPT ![First(m)].timer = t]
                           /\ timers' = Scheduled(ended, t, m, {r})
              PROVE  \E t : Reset(r, k, t)
  BY DEF ResetExpiration, Entry
<1>1. ListFree
  BY DEF ResetExpiration
<1>2. k \in DOMAIN engines /\ engines[k].model = m /\ engines[k].keep = "period"
  BY FirstIsListed DEF KeepIInv, ManagerIInv, Of, Entry
<1>3. /\ old \in 0..MaxTimers /\ m \in Model /\ engines[k] \in EntryRecord
      /\ old # NoTimer =>
           /\ old \in 1..MaxTimers /\ \A b \in Actor : hand[b].timer # old
           /\ \A j \in DOMAIN engines : j # k => engines[j].timer # old
  BY <1>2, TimerOfEntry DEF KeepIInv, ListShape, EntryFits, HandShape, HandFits
<1>4. PICK ended, t :
        /\ ended \in Aborts(timers, old)
        /\ \/ t = old /\ old # NoTimer
           \/ t = FreshTimer /\ FreeTimers # {}
        /\ engines' = [engines EXCEPT ![k].timer = t]
        /\ timers' = Scheduled(ended, t, m, {r})
  OBVIOUS
<1>5. /\ ended \in [1..MaxTimers -> TimerState]
      /\ \A u \in 1..MaxTimers : u # old => ended[u] = timers[u]
      /\ old # NoTimer => ended[old] = Spare \/ (ended[old].st = "asleep" /\ ended[old].kind = "late")
      /\ \A u \in 1..MaxTimers : ended[u].st # "unloading"
  BY <1>1, <1>3, <1>4, AbortsTimer DEF KeepIInv
<1>6. /\ t \in 1..MaxTimers /\ \A b \in Actor : hand[b].timer # t
      /\ \A j \in DOMAIN engines : j # k => engines[j].timer # t
  BY <1>3, <1>4, FreshTimerIsSpare
<1>. HIDE DEF m, k, old
<1>7. /\ timers' \in [1..MaxTimers -> TimerState] /\ SameBut(timers', ended, t)
      /\ timers'[t].st = "asleep" /\ timers'[t].kind = "set" /\ timers'[t].model = m
      /\ {r} \subseteq timers'[t].after
      /\ \A q \in Request : at[q] = "ready" /\ job[q].model = m => q \in timers'[t].after
  <2>. DEFINE more == {r}
  <2>0. PICK ns : ns = timers'
    OBVIOUS
  <2>1. more \subseteq Request /\ ns = Scheduled(ended, t, m, more)
    BY <1>4, <2>0
  <2>. HIDE DEF more
  <2>2. /\ ns \in [1..MaxTimers -> TimerState] /\ SameBut(ns, ended, t)
        /\ ns[t].st = "asleep" /\ ns[t].kind = "set" /\ ns[t].model = m
        /\ more \subseteq ns[t].after /\ Waited(ns, t, m)
    BY <1>3, <1>5, <1>6, <2>1, ScheduledTimer
  <2>. QED
    BY <2>0, <2>2 DEF more, Waited
<1>8. /\ \A u \in 1..MaxTimers : u # t =>
           IF u = old
           THEN timers'[u].st = "none" \/ (timers'[u].st = "asleep" /\ timers'[u].kind = "late")
           ELSE timers'[u] = timers[u]
      /\ \A u \in 1..MaxTimers : timers'[u].st # "unloading"
  <2>1. \A u \in 1..MaxTimers : u # t => timers'[u] = ended[u]
    BY <1>7 DEF SameBut
  <2>2. \A u \in 1..MaxTimers : u # t /\ u = old =>
           timers'[u].st = "none" \/ (timers'[u].st = "asleep" /\ timers'[u].kind = "late")
    BY <1>5, <2>1, TimerPlace, TimerStates
  <2>3. \A u \in 1..MaxTimers : u # t /\ u # old => timers'[u] = timers[u]
    BY <1>5, <2>1
  <2>4. \A u \in 1..MaxTimers : timers'[u].st # "unloading"
    BY <1>5, <1>7, <2>1
  <2>. QED
    BY <2>2, <2>3, <2>4
<1>9. PICK e : e = [engines[k] EXCEPT !.timer = t]
  OBVIOUS
<1>10. /\ e.engine = engines[k].engine /\ e.model = m /\ e.keep = "period" /\ e.timer = t
       /\ e \in EntryRecord
  BY <1>2, <1>3, <1>6, <1>9, TimerPlace DEF EntryRecord
<1>11. /\ DOMAIN engines' = DOMAIN engines /\ engines'[k] = e
       /\ \A j \in DOMAIN engines : j # k => engines'[j] = engines[j]
  <2>1. engines \in Seq(Range(engines))
    BY DEF KeepIInv, ManagerIInv, Entries
  <2>2. engines = [j \in 1..Len(engines) |-> engines[j]] /\ DOMAIN engines = 1..Len(engines)
    BY <2>1, LenProperties
  <2>3. engines' = [engines EXCEPT ![k] = e]
    BY <1>4, <1>9
  <2>. QED
    BY <1>2, <2>2, <2>3
<1>. QED
  BY <1>2, <1>6, <1>7, <1>8, <1>10, <1>11 DEF Reset, m, k, old

\* The entry of a plain model is its first.
LEMMA PlainEntry ==
    ASSUME KeepIInv, NEW i \in DOMAIN engines, engines[i].model \in Plain
    PROVE  Listed(engines[i].model) /\ i = First(engines[i].model)
<1>1. i \in Of(engines[i].model) /\ Listed(engines[i].model)
  BY DEF Of, Listed
<1>2. First(engines[i].model) \in Of(engines[i].model)
  BY <1>1, FirstIsListed DEF KeepIInv, ManagerIInv
<1>. QED
  BY <1>1, <1>2 DEF KeepIInv, ManagerIInv, Alone

\* A request resets the timer, and is kept if its engine is still the listed one.
LEMMA ResetKeepStep ==
    ASSUME KeepIInv, ManagerIInv', NEW r \in Request, ResetExpiration(r)
    PROVE  KeepIInv'
<1>. DEFINE m == job[r].model
<1>0. /\ r \in Actor /\ UNCHANGED <<writer, job, hand, eng, moves>> /\ writer = NoTimer
      /\ at[r] = "found" /\ at' = [at EXCEPT ![r] = "ready"] /\ Goto(r, "ready")
      /\ kept' \subseteq kept \cup {r}
  BY ActorKinds DEF ResetExpiration, Goto, Kept, ListFree
<1>1. at'[r] = "ready" /\ \A b \in Actor : b # r => at'[b] = at[b]
  BY <1>0, MovedActor
<1>2. r \notin kept /\ at[r] \in Engaged /\ job[r].model = Wanted[r]
  BY <1>0 DEF KeepIInv, KeptShape, Engaged, ManagerIInv, Stands
<1>3. /\ kept' \subseteq Request /\ \A q \in kept' : at'[q] \in {"ready", "running"}
      /\ \A q \in kept' : q # r => q \in kept /\ q \in Request /\ at'[q] = at[q]
  BY <1>0, <1>1, ActorKinds DEF KeepIInv, KeptShape
<1>4. \A t \in 1..MaxTimers : writer' # t
  BY <1>0, TimerPlace
<1>5. /\ hand' \in [Actor -> Hands] /\ eng' \in [Actor -> 0..MaxEngines]
      /\ \A b \in Actor : Carries(b) /\ eng'[b] = eng[b]
  BY <1>0, <1>1 DEF KeepIInv, HandShape, Carries, Loaded
<1>6. \A q \in Request : at'[q] \in Engaged => at[q] \in Engaged /\ (q # r => at'[q] = at[q])
  BY <1>1, <1>2, ActorKinds
<1>7. CASE \E k, t : Reset(r, k, t)
  <2>1. PICK k, t : Reset(r, k, t)
    BY <1>7
  <2>. DEFINE old == engines[k].timer
  <2>2. /\ k \in DOMAIN engines /\ k = First(m) /\ t \in 1..MaxTimers
        /\ DOMAIN engines' = DOMAIN engines
        /\ engines'[k].engine = engines[k].engine /\ engines'[k].model = m
        /\ engines'[k].timer = t /\ engines'[k].keep = "period" /\ engines'[k] \in EntryRecord
        /\ \A j \in DOMAIN engines : j # k => engines'[j] = engines[j] /\ engines[j].timer # t
    BY <2>1 DEF Reset
  <2>3. /\ timers' \in [1..MaxTimers -> TimerState]
        /\ timers'[t].st = "asleep" /\ timers'[t].kind = "set" /\ timers'[t].model = m
        /\ r \in timers'[t].after
        /\ \A q \in Request : at[q] = "ready" /\ job[q].model = m => q \in timers'[t].after
        /\ \A u \in 1..MaxTimers : u # t /\ u = old =>
             timers'[u].st = "none" \/ (timers'[u].st = "asleep" /\ timers'[u].kind = "late")
        /\ \A u \in 1..MaxTimers : u # t /\ u # old => timers'[u] = timers[u]
        /\ \A u \in 1..MaxTimers : timers'[u].st # "unloading"
    BY <2>1 DEF Reset
  <2>4. engines[k].model = m
    BY <2>1 DEF Reset
  <2>5. TimerShape'
    BY <1>0, <1>4, <2>3, TimerPlace DEF TimerShape
  <2>6. /\ \A j \in DOMAIN engines : j # k => engines[j].timer # old \/ old = NoTimer
        /\ \A b \in Actor : hand[b].timer # t /\ (hand[b].timer # NoTimer => hand[b].timer # old)
    BY <2>1, <2>2 DEF Reset, KeepIInv, ListShape, HandShape, HandFits
  <2>. HIDE DEF old
  <2>7. \A u \in 1..MaxTimers : u # t /\ u # old => Same(u) /\ Lasts(u)
    BY <2>3 DEF Same, Lasts
  <2>8. ASSUME NEW j \in DOMAIN engines, j # k, engines[j].timer # NoTimer
        PROVE  /\ Same(engines[j].timer)
               /\ timers'[engines[j].timer] = timers[engines[j].timer]
    BY <2>2, <2>3, <2>6, <2>7, <2>8, TimerOfEntry DEF KeepIInv
  <2>9. ListShape'
    <3>1. ASSUME NEW i \in DOMAIN engines' PROVE EntryFits(engines[i])'
      <4>1. CASE i = k
        BY <2>2, <2>3, <4>1 DEF EntryFits
      <4>2. CASE i # k
        <5>1. EntryFits(engines[i]) /\ engines'[i] = engines[i]
          BY <2>2, <4>2 DEF KeepIInv, ListShape
        <5>. QED
          BY <2>2, <2>8, <4>2, <5>1 DEF EntryFits
      <4>. QED
        BY <4>1, <4>2
    <3>2. \A i, j \in DOMAIN engines' : engines'[i].engine = engines'[j].engine => i = j
      <4>1. \A i \in DOMAIN engines : engines'[i].engine = engines[i].engine
        BY <2>2
      <4>. QED
        BY <2>2, <4>1 DEF KeepIInv, ListShape
    <3>3. \A i, j \in DOMAIN engines' :
             engines'[i].timer = engines'[j].timer /\ engines'[i].timer # NoTimer => i = j
      BY <2>2 DEF KeepIInv, ListShape
    <3>. QED
      BY <3>1, <3>2, <3>3 DEF ListShape
  <2>10. \A i \in DOMAIN engines' : i # k => Old(i)
    BY <2>2, <2>8 DEF Old
  <2>11. HandShape'
    <3>1. \A i \in DOMAIN engines' : i # k => Apart(i)
      BY <2>10, OldIsApart DEF KeepIInv
    <3>2. Apart(k)
      BY <2>2, <2>6 DEF KeepIInv, HandShape, HandFits, Apart
    <3>3. \A b \in Actor : hand[b].timer # NoTimer => Lasts(hand[b].timer)
      BY <2>6, <2>7, TimerOfHand DEF KeepIInv
    <3>. QED
      BY <1>5, <3>1, <3>2, <3>3, HandsKept DEF KeepIInv
  <2>12. ASSUME NEW u \in 1..MaxTimers, Sleeps(u)' PROVE Held(u)'
    <3>1. CASE u = t
      BY <2>2, <3>1 DEF Held
    <3>2. CASE u # t
      <4>1. u # old /\ timers'[u] = timers[u]
        BY <2>3, <2>12, <3>2 DEF Sleeps
      <4>2. Held(u)
        BY <2>12, <4>1 DEF KeepIInv, Accounted, Sleeps, Plain
      <4>. QED
        BY <1>0, <2>2, <4>1, <4>2 DEF Held, old
    <3>. QED
      BY <3>1, <3>2
  <2>13. Accounted'
    BY <2>12 DEF Accounted
  <2>14. ASSUME NEW q \in Request, at'[q] \in Engaged, NEW i \in DOMAIN engines',
                engines'[i].engine = eng'[q]
         PROVE  engines'[i].model = job'[q].model
    <3>1. engines[i].engine = eng[q] /\ engines'[i].model = engines[i].model /\ i \in DOMAIN engines
      BY <1>0, <2>2, <2>4, <2>14
    <3>. QED
      BY <1>0, <1>6, <2>14, <3>1 DEF KeepIInv, KeptShape
  <2>15. ASSUME NEW q \in kept', Wanted[q] \in Plain, at'[q] = "ready", NEW i \in DOMAIN engines',
                engines'[i].engine = eng'[q], engines'[i].timer # NoTimer,
                timers'[engines'[i].timer].st = "asleep"
         PROVE  q \in timers'[engines'[i].timer].after
    <3>1. q \in Request /\ at'[q] \in Engaged /\ i \in DOMAIN engines
      BY <1>3, <2>2, <2>15 DEF Engaged
    <3>2. engines[i].engine = eng[q] /\ engines[i].model = job[q].model
      BY <1>0, <1>6, <2>2, <2>15, <3>1 DEF KeepIInv, KeptShape
    <3>3. CASE i = k
      <4>1. q = r \/ (at[q] = "ready" /\ job[q].model = m)
        BY <1>3, <2>4, <2>15, <3>2, <3>3
      <4>. QED
        BY <2>2, <2>3, <3>1, <3>3, <4>1
    <3>4. CASE i # k
      <4>1. q # r
        <5>. SUFFICES ASSUME q = r PROVE FALSE
          OBVIOUS
        <5>1. engines[i].model = m /\ m \in Plain
          BY <1>2, <2>15, <3>2
        <5>. QED
          BY <2>2, <3>1, <3>4, <5>1, PlainEntry
      <4>2. q \in kept /\ at[q] = "ready" /\ engines'[i] = engines[i]
        BY <1>3, <2>2, <2>15, <3>1, <3>4, <4>1
      <4>. QED
        BY <2>8, <2>15, <3>1, <3>2, <3>4, <4>2 DEF KeepIInv, KeptShape
    <3>. QED
      BY <3>3, <3>4
  <2>16. KeptShape'
    <3>1. Plain' = Plain
      BY DEF Plain
    <3>. QED
      BY <1>3, <1>4, <2>14, <2>15, <3>1 DEF KeptShape
  <2>. QED
    BY <1>0, <2>5, <2>9, <2>11, <2>13, <2>16 DEF KeepIInv
<1>8. CASE /\ Listed(m) => Entry(m).keep = "never"
           /\ UNCHANGED <<engines, timers>>
  <2>1. TimerShape' /\ ListShape'
    BY <1>0, <1>8 DEF KeepIInv, TimerShape, ListShape, EntryFits
  <2>2. Accounted'
    BY <1>0, <1>8 DEF KeepIInv, Accounted, Sleeps, Held, Plain
  <2>3. HandShape'
    <3>1. \A i \in DOMAIN engines' : Old(i)
      BY <1>8 DEF Old, Same
    <3>2. \A i \in DOMAIN engines' : Apart(i)
      BY <3>1, OldIsApart DEF KeepIInv
    <3>3. \A b \in Actor : hand[b].timer # NoTimer => Lasts(hand[b].timer)
      BY <1>8 DEF Lasts
    <3>. QED
      BY <1>5, <3>2, <3>3, HandsKept DEF KeepIInv
  <2>4. \A q \in Request : at'[q] \in Engaged =>
           \A i \in DOMAIN engines' :
               engines'[i].engine = eng'[q] => engines'[i].model = job'[q].model
    BY <1>0, <1>6, <1>8 DEF KeepIInv, KeptShape
  <2>5. ASSUME NEW q \in kept', Wanted[q] \in Plain, at'[q] = "ready", NEW i \in DOMAIN engines',
               engines'[i].engine = eng'[q], engines'[i].timer # NoTimer,
               timers'[engines'[i].timer].st = "asleep"
        PROVE  q \in timers'[engines'[i].timer].after
    <3>1. CASE q # r
      BY <1>0, <1>3, <1>8, <2>5, <3>1 DEF KeepIInv, KeptShape
    <3>2. CASE q = r
      <4>1. i \in DOMAIN engines /\ engines[i].model = m /\ m \in Plain
        BY <1>0, <1>2, <1>8, <2>5, <3>2 DEF KeepIInv, KeptShape
      <4>2. Entry(m) = engines[i] /\ Listed(m)
        BY <4>1, PlainEntry DEF Entry
      <4>3. engines[i].keep = "never"
        BY <1>8, <4>2
      <4>. QED
        BY <1>8, <2>5, <4>1, <4>3 DEF KeepIInv, ListShape, EntryFits
    <3>. QED
      BY <3>1, <3>2
  <2>6. KeptShape'
    <3>1. Plain' = Plain
      BY DEF Plain
    <3>. QED
      BY <1>3, <1>4, <2>4, <2>5, <3>1 DEF KeptShape
  <2>. QED
    BY <1>0, <2>1, <2>2, <2>3, <2>6 DEF KeepIInv
<1>. QED
  BY <1>7, <1>8, ResetMeans

-----------------------------------------------------------------------------
\* At first nothing is in hand and nobody is at work; the rest is the list's.
LEMMA InitKept ==
    ASSUME Init, ListShape, timers \in [1..MaxTimers -> TimerState],
           \A u \in 1..MaxTimers : timers[u].st # "unloading",
           \A u \in 1..MaxTimers :
              timers[u].st = "asleep" => \E i \in DOMAIN engines : engines[i].timer = u
    PROVE  KeepIInv
<1>1. /\ writer = NoTimer /\ moves = 0 /\ kept = {} /\ at = [a \in Actor |-> "out"]
      /\ hand = [a \in Actor |-> EmptyHand] /\ eng = [a \in Actor |-> NoEngine]
  BY DEF Init
<1>2. TimerShape
  BY <1>1, TimerPlace DEF TimerShape
<1>3. HandShape
  <2>1. \A a \in Actor : HandFits(a)
    BY <1>1, HandFields DEF HandFits, Loaded
  <2>2. hand \in [Actor -> Hands] /\ eng \in [Actor -> 0..MaxEngines]
    BY <1>1, HandFields, EnginePlace
  <2>. QED
    BY <2>1, <2>2 DEF HandShape
<1>4. KeptShape
  BY <1>1, ActorKinds DEF KeptShape, Engaged
<1>5. Accounted
  BY DEF Accounted, Sleeps, Held
<1>6. moves \in 0..MaxMoves
  BY <1>1, BoundsAssumption
<1>. QED
  BY <1>2, <1>3, <1>4, <1>5, <1>6, ManagerInitInv DEF KeepIInv

LeftEntry(m, k) ==
    [model |-> m, engine |-> 1, keep |-> k, wide |-> FALSE,
     timer |-> IF k = "period" THEN 1 ELSE NoTimer]

LEMMA KeepInitInv == Init => KeepIInv
<1>. SUFFICES ASSUME Init PROVE KeepIInv
  OBVIOUS
<1>1. PICK list \in {<<>>} \cup {<<[model |-> m, engine |-> 1, keep |-> k, wide |-> FALSE,
                                   timer |-> IF k = "period" THEN 1 ELSE NoTimer]>> :
                                   m \in Left, k \in {"period", "never"}} :
        /\ engines = list
        /\ timers = [u \in 1..MaxTimers |->
                        IF \E i \in DOMAIN list : list[i].timer = u
                        THEN Asleep(list[1].model, {}) ELSE Spare]
  BY DEF Init
<1>2. CASE engines = <<>>
  <2>1. DOMAIN engines = {} /\ \A u \in 1..MaxTimers : timers[u] = Spare
    BY <1>1, <1>2
  <2>2. timers \in [1..MaxTimers -> TimerState]
    <3>1. timers = [u \in 1..MaxTimers |-> timers[u]]
      BY <1>1
    <3>. QED
      BY <2>1, <3>1, TimerStates
  <2>. QED
    BY <2>1, <2>2, TimerStates, InitKept DEF ListShape
<1>3. CASE \E m \in Left, k \in {"period", "never"} : engines = <<LeftEntry(m, k)>>
  <2>1. PICK m \in Left, k \in {"period", "never"} : engines = <<LeftEntry(m, k)>>
    BY <1>3
  <2>2. PICK e : e = LeftEntry(m, k)
    OBVIOUS
  <2>3. /\ e.model = m /\ e.engine = 1 /\ e.keep = k /\ m \in Model
        /\ e.timer = IF k = "period" THEN 1 ELSE NoTimer
        /\ e \in EntryRecord
    BY <2>2, WideAssumption, BoundsAssumption DEF LeftEntry, EntryRecord, NoTimer
  <2>4. engines = <<e>> /\ DOMAIN engines = {1} /\ engines[1] = e
    BY <2>1, <2>2
  <2>5. PICK s : s = Asleep(m, {})
    OBVIOUS
  <2>6. /\ s \in TimerState /\ s.st = "asleep" /\ s.kind = "set" /\ s.model = m
    <3>1. {} \in SUBSET Request
      OBVIOUS
    <3>. QED
      BY <2>3, <2>5, <3>1, TimerStates DEF Asleep
  <2>7. \A u \in 1..MaxTimers : timers[u] = IF e.timer = u THEN s ELSE Spare
    BY <1>1, <2>3, <2>4, <2>5
  <2>8. timers \in [1..MaxTimers -> TimerState] /\ \A u \in 1..MaxTimers : timers[u].st # "unloading"
    <3>1. timers = [u \in 1..MaxTimers |-> timers[u]]
      BY <1>1
    <3>. QED
      BY <2>6, <2>7, <3>1, TimerStates
  <2>9. ListShape
    <3>1. e.timer # NoTimer => e.timer \in 1..MaxTimers /\ k = "period"
      BY <2>3, BoundsAssumption
    <3>2. EntryFits(e)
      BY <2>3, <2>6, <2>7, <3>1 DEF EntryFits
    <3>. QED
      BY <2>4, <3>2 DEF ListShape
  <2>10. \A u \in 1..MaxTimers : timers[u].st = "asleep" => \E i \in DOMAIN engines : engines[i].timer = u
    BY <2>4, <2>7, TimerStates
  <2>. QED
    BY <2>8, <2>9, <2>10, InitKept
<1>. QED
  BY <1>1, <1>2, <1>3 DEF LeftEntry

LEMMA KeepStepInv == KeepIInv /\ [ManagerNext]_vars => KeepIInv'
<1>. SUFFICES ASSUME KeepIInv, [ManagerNext]_vars PROVE KeepIInv'
  OBVIOUS
<1>0. ManagerIInv'
  BY ManagerStepInv DEF KeepIInv
<1>1. ASSUME NEW a \in Actor, Loading(a) PROVE KeepIInv'
  BY <1>0, <1>1, LoaderStep, LoadKeepStep, PushKeepStep DEF Loading
<1>2. ASSUME NEW r \in Request, Serving(r) PROVE KeepIInv'
  <2>1. r \in Actor
    BY ActorKinds
  <2>. QED
    BY <1>0, <1>2, <2>1, LoadKeepStep, WidenKeepStep, EngagedStep, ResetKeepStep DEF Serving
<1>3. ASSUME NEW t \in 1..MaxTimers, Timer(t) PROVE KeepIInv'
  BY <1>0, <1>3, ExpireKeepStep, TimerKeepStep DEF Timer
<1>4. CASE UNCHANGED vars
  <2>1. UNCHANGED <<engines, writer, timers, at, job, hand, eng, kept, moves>>
    BY <1>4 DEF vars
  <2>2. Calm
    BY <2>1, WokenCalm
  <2>. QED
    BY <1>0, <2>1, <2>2, StillStep
<1>. QED
  BY <1>0, <1>1, <1>2, <1>3, <1>4, UnloadKeepStep, MovingKeepStep, DropKeepStep,
     CutShortKeepStep DEF ManagerNext

LEMMA KeepInvariant == ManagerSpec => []KeepIInv
BY KeepInitInv, KeepStepInv, PTL DEF ManagerSpec

\* A keep-alive timer takes no engine from a request that has reset it, neither
\* between the reset and the count of the request nor while it runs, unless the
\* timer was left to itself or aborted late.
THEOREM ManagerKeepAlive == ManagerSpec => []KeepAliveHolds
<1>1. KeepIInv => KeepAliveHolds
  <2>. SUFFICES ASSUME KeepIInv, NEW t \in 1..MaxTimers, timers[t].st = "unloading",
                       timers[t].kind = "set", NEW r \in kept, Wanted[r] \in Plain
                PROVE  eng[r] # timers[t].engine
    BY DEF KeepAliveHolds
  <2>1. writer = t
    BY DEF KeepIInv, TimerShape
  <2>. QED
    BY <2>1 DEF KeepIInv, KeptShape
<1>. QED
  BY <1>1, KeepInvariant, PTL

\* A timer set for a plain model sleeps only while an entry of the list has it, or
\* whoever loads its engine does: any other sleeper was left to itself by a dropped
\* handler or by such a timer, or was aborted late.
THEOREM ManagerTimersAccounted == ManagerSpec => []TimersAccounted
<1>1. KeepIInv => ManagerTypeOK
  <2>. SUFFICES ASSUME KeepIInv PROVE ManagerTypeOK
    OBVIOUS
  <2>1. \A i \in DOMAIN engines :
          /\ engines[i].model \in Model /\ engines[i].engine \in 1..MaxEngines
          /\ engines[i].timer \in 0..MaxTimers
    BY TimerOfEntry DEF KeepIInv
  <2>. QED
    BY <2>1 DEF KeepIInv, ManagerIInv, Control, TimerShape, HandShape, Hands, KeptShape,
       ManagerTypeOK
<1>2. KeepIInv => TimersAccounted
  BY <1>1 DEF KeepIInv, Accounted, Sleeps, Held, TimersAccounted
<1>. QED
  BY <1>2, KeepInvariant, PTL
=============================================================================
