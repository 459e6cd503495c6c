------------------------ MODULE ContinuousBatchProofs ------------------------
(* Proofs about the scheduler, the batch engine and the worker, for every set *)
(* of requests, pool, step width and budget.                                  *)
EXTENDS ContinuousBatch, PagedKvProofs, SequenceTheorems

-----------------------------------------------------------------------------
(* The inductive invariant *)

Stage == {"drain", "grow", "admit", "extend", "forward", "publish", "finish",
          "abort", "stopped"}
PrefillItem == [seq : SeqId, cached : Nat, table : Seq(Block), slots : Seq(Slot)]
DecodeItem == [seq : SeqId, slot : Slot, table : Seq(Block)]

\* The worker is where it can be; in particular it has not panicked.
StageShape ==
    /\ pc \in Stage /\ at \in Nat \ {0}
    /\ inbox \in Seq(SeqId) /\ waiting \in Seq(SeqId) /\ running \in Seq(SeqId)
    /\ arrival \in [SeqId -> Nat] /\ gen \in [SeqId -> Nat]
    /\ plan \in [prefills : Seq(PrefillItem), decodes : Seq(DecodeItem)]

Arrived == {t \in SeqId : arrival[t] > 0}
Ranked(q) == \A i, j \in 1..Len(q) : i < j => arrival[q[i]] < arrival[q[j]]

\* Arrival numbers are given once, in order, and the queues keep their order.
OrderShape ==
    /\ \A i, j \in 1..Len(inbox) : inbox[i] = inbox[j] => i = j
    /\ \A s \in Members(inbox) : arrival[s] = 0
    /\ \A s \in SeqId : arrival[s] <= Cardinality(Arrived)
    /\ \A s \in Members(running) \cup Members(waiting) : arrival[s] > 0
    /\ Ranked(running) /\ Ranked(waiting)
    /\ \A s \in Members(running), t \in Members(waiting) : arrival[s] < arrival[t]

\* Whoever is in a queue has budget left.
BudgetShape ==
    /\ \A s \in SeqId : arrival[s] = 0 => gen[s] = 0
    /\ \A s \in Members(running) \cup Members(waiting) : gen[s] < MaxNew[s]

\* The plan lists the running sequences: those it decodes, then those it prefills.
PlanShape ==
    /\ pc = "grow" => /\ plan.prefills = <<>> /\ at <= Len(running) + 1
                      /\ Len(plan.decodes) = at - 1
    /\ pc \in {"admit", "extend", "forward", "publish"} =>
         Len(running) = Len(plan.decodes) + Len(plan.prefills)
    /\ pc \in {"grow", "admit", "extend", "forward", "publish"} =>
         /\ \A i \in 1..Len(plan.decodes) : plan.decodes[i].seq = running[i]
         /\ \A i \in 1..Len(plan.prefills) :
              plan.prefills[i].seq = running[Len(plan.decodes) + i]

\* The token a running sequence sampled last is not stored before it grows for
\* the next step.
Behind(i) ==
    IF \/ pc = "drain"
       \/ pc = "grow" /\ i >= at
       \/ pc = "finish" /\ i < at THEN 1 ELSE 0

\* The sequences that hold KV are those that run, and the one being admitted.
HoldShape ==
    /\ pc # "extend" => live = Members(running)
    /\ pc = "extend" =>
         /\ waiting # <<>>
         /\ live = Members(running) \cup {Head(waiting)}
         /\ len[Head(waiting)] = Len(Prompt[Head(waiting)])
         /\ AppendFits(Head(waiting), gen[Head(waiting)])
    /\ pc \notin {"abort", "stopped"} =>
         \A i \in 1..Len(running) : len[running[i]] + Behind(i) = CtxLen(running[i])

BatchIInv == KvInv /\ StageShape /\ OrderShape /\ BudgetShape /\ PlanShape /\ HoldShape

-----------------------------------------------------------------------------
(* Queues *)

LEMMA MembersFacts ==
    ASSUME NEW S, NEW q \in Seq(S)
    PROVE  /\ Members(q) \subseteq S
           /\ Len(q) \in Nat
           /\ \A i \in 1..Len(q) : q[i] \in S /\ q[i] \in Members(q)
           /\ \A s \in Members(q) : \E i \in 1..Len(q) : s = q[i]
           /\ q = <<>> <=> Members(q) = {}
<1>1. Len(q) \in Nat /\ \A i \in 1..Len(q) : q[i] \in S
  OBVIOUS
<1>2. q = <<>> => Members(q) = {}
  BY DEF Members
<1>3. q # <<>> => 1 \in 1..Len(q)
  OBVIOUS
<1>4. q # <<>> => Members(q) # {}
  BY <1>3 DEF Members
<1>. QED
  BY <1>1, <1>2, <1>4 DEF Members

LEMMA AppendFacts ==
    ASSUME NEW S, NEW q \in Seq(S), NEW s \in S
    PROVE  /\ Append(q, s) \in Seq(S)
           /\ Len(Append(q, s)) = Len(q) + 1
           /\ \A i \in 1..Len(q) : Append(q, s)[i] = q[i]
           /\ Append(q, s)[Len(q) + 1] = s
           /\ Members(Append(q, s)) = Members(q) \cup {s}
<1>1. /\ Append(q, s) \in Seq(S)
      /\ Len(Append(q, s)) = Len(q) + 1
      /\ \A i \in 1..Len(q) : Append(q, s)[i] = q[i]
      /\ Append(q, s)[Len(q) + 1] = s
  OBVIOUS
<1>2. Len(q) \in Nat
  OBVIOUS
<1>3. \A i \in 1..(Len(q) + 1) : i \in 1..Len(q) \/ i = Len(q) + 1
  BY <1>2
<1>4. \A i \in 1..Len(q) : i \in 1..(Len(q) + 1)
  BY <1>2
<1>5. Len(q) + 1 \in 1..(Len(q) + 1)
  BY <1>2
<1>. QED
  BY <1>1, <1>3, <1>4, <1>5 DEF Members

LEMMA TailFacts ==
    ASSUME NEW S, NEW q \in Seq(S), q # <<>>
    PROVE  /\ Head(q) \in S /\ Head(q) = q[1] /\ Tail(q) \in Seq(S)
           /\ Len(q) \in Nat \ {0} /\ Len(Tail(q)) = Len(q) - 1
           /\ \A i \in 1..(Len(q) - 1) : Tail(q)[i] = q[i + 1]
           /\ Members(q) = {Head(q)} \cup Members(Tail(q))
<1>1. /\ Head(q) \in S /\ Head(q) = q[1] /\ Tail(q) \in Seq(S)
      /\ Len(q) \in Nat \ {0} /\ Len(Tail(q)) = Len(q) - 1
      /\ \A i \in 1..(Len(q) - 1) : Tail(q)[i] = q[i + 1]
  OBVIOUS
<1>2. \A i \in 1..Len(q) : i = 1 \/ (i - 1 \in 1..(Len(q) - 1) /\ i = (i - 1) + 1)
  BY <1>1
<1>3. \A i \in 1..(Len(q) - 1) : i + 1 \in 1..Len(q)
  BY <1>1
<1>4. 1 \in 1..Len(q)
  BY <1>1
<1>5. Members(q) \subseteq {Head(q)} \cup Members(Tail(q))
  BY <1>1, <1>2 DEF Members
<1>6. {Head(q)} \cup Members(Tail(q)) \subseteq Members(q)
  BY <1>1, <1>3, <1>4 DEF Members
<1>. QED
  BY <1>1, <1>5, <1>6

LEMMA RemoveFacts ==
    ASSUME NEW S, NEW q \in Seq(S), NEW i \in 1..Len(q)
    PROVE  /\ RemoveIndex(q, i) \in Seq(S)
           /\ Len(RemoveIndex(q, i)) = Len(q) - 1
           /\ \A j \in 1..(Len(q) - 1) :
                RemoveIndex(q, i)[j] = IF j < i THEN q[j] ELSE q[j + 1]
           /\ Members(q) = {q[i]} \cup Members(RemoveIndex(q, i))
<1>1. Len(q) \in Nat /\ Len(q) - 1 \in Nat
  OBVIOUS
<1>2. \A j \in 1..(Len(q) - 1) : j \in 1..Len(q) /\ j + 1 \in 1..Len(q)
  BY <1>1
<1>3. \A j \in 1..(Len(q) - 1) : (IF j < i THEN q[j] ELSE q[j + 1]) \in S
  BY <1>1, <1>2
<1>4. /\ RemoveIndex(q, i) \in Seq(S)
      /\ Len(RemoveIndex(q, i)) = Len(q) - 1
      /\ \A j \in 1..(Len(q) - 1) :
           RemoveIndex(q, i)[j] = IF j < i THEN q[j] ELSE q[j + 1]
  BY <1>1, <1>3 DEF RemoveIndex
<1>5. \A j \in 1..Len(q) : \/ j = i
                           \/ j < i /\ j \in 1..(Len(q) - 1)
                           \/ j - 1 \in 1..(Len(q) - 1) /\ ~(j - 1 < i) /\ j = (j - 1) + 1
  BY <1>1
<1>6. Members(q) \subseteq {q[i]} \cup Members(RemoveIndex(q, i))
  <2>. SUFFICES ASSUME NEW j \in 1..Len(q), j # i
                PROVE  q[j] \in Members(RemoveIndex(q, i))
    BY DEF Members
  <2>1. CASE j < i /\ j \in 1..(Len(q) - 1)
    <3>1. RemoveIndex(q, i)[j] = q[j]
      BY <2>1, <1>4
    <3>. QED
      BY <2>1, <3>1, <1>4 DEF Members
  <2>2. CASE j - 1 \in 1..(Len(q) - 1) /\ ~(j - 1 < i) /\ j = (j - 1) + 1
    <3>1. RemoveIndex(q, i)[j - 1] = q[j]
      BY <2>2, <1>4
    <3>. QED
      BY <2>2, <3>1, <1>4 DEF Members
  <2>. QED
    BY <1>5, <2>1, <2>2
<1>7. {q[i]} \cup Members(RemoveIndex(q, i)) \subseteq Members(q)
  BY <1>2, <1>4 DEF Members
<1>. QED
  BY <1>4, <1>6, <1>7

LEMMA ConsFacts ==
    ASSUME NEW S, NEW q \in Seq(S), NEW s \in S
    PROVE  /\ <<s>> \o q \in Seq(S)
           /\ Len(<<s>> \o q) = Len(q) + 1
           /\ (<<s>> \o q)[1] = s
           /\ \A i \in 2..(Len(q) + 1) : (<<s>> \o q)[i] = q[i - 1]
           /\ Members(<<s>> \o q) = {s} \cup Members(q)
<1>1. <<s>> \in Seq(S) /\ Len(<<s>>) = 1 /\ Len(q) \in Nat
  OBVIOUS
<1>2. /\ <<s>> \o q \in Seq(S)
      /\ Len(<<s>> \o q) = Len(q) + 1
      /\ \A i \in 1..(1 + Len(q)) :
           (<<s>> \o q)[i] = IF i <= 1 THEN <<s>>[i] ELSE q[i - 1]
  BY <1>1, ConcatProperties
<1>3. /\ (<<s>> \o q)[1] = s
      /\ \A i \in 2..(Len(q) + 1) : (<<s>> \o q)[i] = q[i - 1]
  <2>1. \A i \in 2..(Len(q) + 1) : i \in 1..(1 + Len(q)) /\ ~(i <= 1)
    BY <1>1
  <2>2. 1 \in 1..(1 + Len(q)) /\ 1 <= 1 /\ <<s>>[1] = s
    BY <1>1
  <2>. QED
    BY <1>2, <2>1, <2>2
<1>4. \A i \in 1..(Len(q) + 1) : i = 1 \/ (i \in 2..(Len(q) + 1) /\ i - 1 \in 1..Len(q))
  BY <1>1
<1>5. \A i \in 1..Len(q) : i + 1 \in 2..(Len(q) + 1) /\ i + 1 \in 1..(Len(q) + 1) /\ (i + 1) - 1 = i
  BY <1>1
<1>6. Members(<<s>> \o q) \subseteq {s} \cup Members(q)
  BY <1>2, <1>3, <1>4 DEF Members
<1>7. {s} \cup Members(q) \subseteq Members(<<s>> \o q)
  <2>1. 1 \in 1..(Len(q) + 1)
    BY <1>1
  <2>2. s \in Members(<<s>> \o q)
    BY <1>2, <1>3, <2>1 DEF Members
  <2>3. ASSUME NEW i \in 1..Len(q) PROVE q[i] \in Members(<<s>> \o q)
    <3>1. (<<s>> \o q)[i + 1] = q[i]
      BY <1>3, <1>5
    <3>. QED
      BY <3>1, <1>2, <1>5 DEF Members
  <2>. QED
    BY <2>2, <2>3 DEF Members
<1>. QED
  BY <1>2, <1>3, <1>6, <1>7

\* A queue in arrival order names nobody twice.
LEMMA RankedDistinct ==
    ASSUME NEW q \in Seq(SeqId), arrival \in [SeqId -> Nat], Ranked(q)
    PROVE  \A i, j \in 1..Len(q) : q[i] = q[j] => i = j
<1>. SUFFICES ASSUME NEW i \in 1..Len(q), NEW j \in 1..Len(q), q[i] = q[j], i # j
              PROVE  FALSE
  OBVIOUS
<1>1. arrival[q[i]] \in Nat /\ i \in Nat /\ j \in Nat
  OBVIOUS
<1>2. i < j \/ j < i
  BY <1>1
<1>3. arrival[q[i]] < arrival[q[j]] \/ arrival[q[j]] < arrival[q[i]]
  BY <1>2 DEF Ranked
<1>. QED
  BY <1>1, <1>3

\* Sorting a queue that is in arrival order changes nothing: the rank of a member
\* is its place.
LEMMA SortedStays ==
    ASSUME NEW q \in Seq(SeqId), arrival \in [SeqId -> Nat], Ranked(q)
    PROVE  ByArrival(q) = q
<1>1. Len(q) \in Nat /\ \A i \in 1..Len(q) : q[i] \in SeqId /\ q[i] \in Members(q)
  BY MembersFacts
<1>2. ASSUME NEW i \in 1..Len(q)
      PROVE  Cardinality({t \in Members(q) : arrival[t] < arrival[q[i]]}) = i - 1
  <2>. DEFINE F == {t \in Members(q) : arrival[t] < arrival[q[i]]}
              f == [j \in 1..(i - 1) |-> q[j]]
  <2>1. \A j \in 1..(i - 1) : j \in 1..Len(q) /\ j < i
    BY <1>1
  <2>2. \A j \in 1..(i - 1) : q[j] \in F
    BY <1>1, <2>1 DEF Ranked
  <2>3. ASSUME NEW t \in F PROVE \E j \in 1..(i - 1) : q[j] = t
    <3>1. PICK j \in 1..Len(q) : t = q[j]
      BY DEF Members
    <3>2. ~(i < j) /\ i # j
      <4>1. arrival[q[i]] \in Nat /\ arrival[q[j]] \in Nat /\ arrival[q[j]] < arrival[q[i]]
        BY <1>1, <3>1
      <4>. QED
        BY <4>1 DEF Ranked
    <3>3. j \in 1..(i - 1)
      BY <1>1, <3>2
    <3>. QED
      BY <3>1, <3>3
  <2>4. \A j, m \in 1..(i - 1) : q[j] = q[m] => j = m
    BY <2>1, RankedDistinct
  <2>5. f \in Bijection(1..(i - 1), F)
    <3>1. f \in [1..(i - 1) -> F]
      BY <2>2
    <3>2. \A a, b \in 1..(i - 1) : f[a] = f[b] => a = b
      BY <2>4
    <3>3. \A t \in F : \E a \in 1..(i - 1) : f[a] = t
      BY <2>3
    <3>. HIDE DEF f, F
    <3>. QED
      BY <3>1, <3>2, <3>3, Fun_IsBij
  <2>6. IsFiniteSet(1..(i - 1)) /\ Cardinality(1..(i - 1)) = i - 1
    <3>1. 1 \in Int /\ i - 1 \in Int /\ i \in Nat \ {0}
      BY <1>1
    <3>2. /\ IsFiniteSet(1..(i - 1))
          /\ Cardinality(1..(i - 1)) = IF 1 > i - 1 THEN 0 ELSE (i - 1) - 1 + 1
      BY <3>1, FS_Interval
    <3>3. (IF 1 > i - 1 THEN 0 ELSE (i - 1) - 1 + 1) = i - 1
      BY <3>1
    <3>. QED
      BY <3>2, <3>3
  <2>. HIDE DEF f, F
  <2>7. Cardinality(F) = i - 1
    BY <2>5, <2>6, FS_Bijection DEF ExistsBijection
  <2>. QED
    BY <2>7 DEF F
<1>3. ASSUME NEW i \in 1..Len(q)
      PROVE  ByArrival(q)[i] = q[i]
  <2>. DEFINE R(s) == Cardinality({t \in Members(q) : arrival[t] < arrival[s]})
  <2>1. ByArrival(q)[i] = CHOOSE s \in Members(q) : R(s) = i - 1
    BY DEF ByArrival
  <2>2. R(q[i]) = i - 1 /\ q[i] \in Members(q)
    BY <1>1, <1>2
  <2>3. \A s \in Members(q) : R(s) = i - 1 => s = q[i]
    <3>. SUFFICES ASSUME NEW s \in Members(q), R(s) = i - 1
                  PROVE  s = q[i]
      OBVIOUS
    <3>0. PICK j \in 1..Len(q) : s = q[j]
      BY DEF Members
    <3>1. R(q[j]) = j - 1
      BY <1>2
    <3>. HIDE DEF R
    <3>2. i \in Nat /\ j \in Nat
      BY <1>1
    <3>3. j - 1 = i - 1
      BY <3>0, <3>1
    <3>4. j = i
      BY <3>2, <3>3
    <3>. QED
      BY <3>0, <3>4
  <2>. HIDE DEF R
  <2>. QED
    BY <2>1, <2>2, <2>3
<1>4. q = [i \in 1..Len(q) |-> q[i]]
  OBVIOUS
<1>. DEFINE c(i) == CHOOSE s \in Members(q) :
              Cardinality({t \in Members(q) : arrival[t] < arrival[s]}) = i - 1
<1>5. ByArrival(q) = [i \in 1..Len(q) |-> c(i)]
  BY DEF ByArrival
<1>. HIDE DEF c
<1>6. \A i \in 1..Len(q) : c(i) = q[i]
  BY <1>3, <1>5
<1>. QED
  BY <1>4, <1>5, <1>6

\* Taking one member out of a queue in arrival order.
LEMMA RemoveRanked ==
    ASSUME NEW q \in Seq(SeqId), arrival \in [SeqId -> Nat], Ranked(q), NEW i \in 1..Len(q)
    PROVE  /\ Ranked(RemoveIndex(q, i))
           /\ Members(RemoveIndex(q, i)) = Members(q) \ {q[i]}
<1>. DEFINE r == RemoveIndex(q, i)
<1>1. /\ Len(r) = Len(q) - 1 /\ Len(q) \in Nat /\ r \in Seq(SeqId)
      /\ \A j \in 1..(Len(q) - 1) : r[j] = IF j < i THEN q[j] ELSE q[j + 1]
      /\ Members(q) = {q[i]} \cup Members(r)
  BY RemoveFacts, MembersFacts
<1>. HIDE DEF r
<1>. DEFINE old(j) == IF j < i THEN j ELSE j + 1
<1>2. \A j \in 1..Len(r) : old(j) \in 1..Len(q) /\ r[j] = q[old(j)] /\ old(j) # i
  BY <1>1, SMTT(30)
<1>3. \A j, m \in 1..Len(r) : j < m => old(j) < old(m)
  BY <1>1
<1>4. Ranked(r)
  <2>. HIDE DEF old
  <2>. QED
    BY <1>2, <1>3 DEF Ranked
<1>5. q[i] \notin Members(r)
  <2>. SUFFICES ASSUME NEW j \in 1..Len(r), r[j] = q[i] PROVE FALSE
    BY DEF Members
  <2>. HIDE DEF old
  <2>. QED
    BY <1>2, RankedDistinct, SMTT(30)
<1>. QED
  BY <1>1, <1>4, <1>5 DEF r

LEMMA HeadRanked ==
    ASSUME NEW q \in Seq(SeqId), arrival \in [SeqId -> Nat], Ranked(q), q # <<>>
    PROVE  /\ Ranked(Tail(q)) /\ Head(q) \notin Members(Tail(q))
           /\ \A s \in Members(Tail(q)) : arrival[Head(q)] < arrival[s]
<1>1. /\ Head(q) = q[1] /\ Tail(q) \in Seq(SeqId)
      /\ Len(q) \in Nat \ {0} /\ Len(Tail(q)) = Len(q) - 1
      /\ \A i \in 1..(Len(q) - 1) : Tail(q)[i] = q[i + 1]
  BY TailFacts
<1>2. \A i \in 1..(Len(q) - 1) : i + 1 \in 1..Len(q) /\ 1 < i + 1
  BY <1>1
<1>3. 1 \in 1..Len(q) /\ \A i, j \in 1..(Len(q) - 1) : i < j => i + 1 < j + 1
  BY <1>1
<1>4. Ranked(Tail(q))
  BY <1>1, <1>2, <1>3 DEF Ranked
<1>5. \A i \in 1..(Len(q) - 1) : arrival[Head(q)] < arrival[Tail(q)[i]]
  BY <1>1, <1>2, <1>3 DEF Ranked
<1>6. \A s \in Members(Tail(q)) : arrival[Head(q)] < arrival[s]
  BY <1>1, <1>5 DEF Members
<1>7. arrival[Head(q)] \in Nat
  BY <1>1, <1>3
<1>. QED
  BY <1>4, <1>6, <1>7

\* The arrivals so far are fewer than all requests and grow by one.
LEMMA ArrivalCount ==
    ASSUME arrival \in [SeqId -> Nat], NEW s \in SeqId, arrival[s] = 0, NEW a \in Nat \ {0},
           arrival' = [arrival EXCEPT ![s] = a]
    PROVE  /\ Cardinality(Arrived) \in Nat
           /\ Cardinality(Arrived') = 1 + Cardinality(Arrived)
<1>1. IsFiniteSet(Arrived)
  BY SeqIdAssumption, FS_Subset DEF Arrived
<1>2. Arrived' = Arrived \cup {s}
  BY DEF Arrived
<1>3. s \notin Arrived
  BY DEF Arrived
<1>4. Cardinality(Arrived) \in Nat
  BY <1>1, FS_CardinalityType
<1>5. Cardinality(Arrived \cup {s}) = Cardinality(Arrived) + 1
  BY <1>1, <1>3, FS_AddElement
<1>. QED
  BY <1>1, <1>2, <1>4, <1>5

-----------------------------------------------------------------------------
(* Slots *)

\* A position below the length stored lies in a block of the table.
LEMMA SlotFacts ==
    ASSUME NEW t \in Seq(Block), NEW n \in Nat, Len(t) = BlocksFor(n),
           NEW pos \in Nat, pos < n
    PROVE  /\ (pos \div BlockSize) + 1 \in 1..Len(t)
           /\ SlotAt(t, pos) \in Slot
<1>1. /\ pos \div BlockSize \in Nat
      /\ pos % BlockSize \in 0..(BlockSize - 1)
  BY BlockSizeAssumption
<1>2. (pos \div BlockSize) + 1 <= BlocksFor(n)
  BY BlockSizeAssumption DEF BlocksFor
<1>3. (pos \div BlockSize) + 1 \in 1..Len(t)
  <2>1. BlocksFor(n) \in Nat
    BY SizeFacts
  <2>. QED
    BY <1>1, <1>2, <2>1
<1>4. t[(pos \div BlockSize) + 1] \in Block
  BY <1>3
<1>. QED
  BY <1>1, <1>3, <1>4 DEF SlotAt, Slot

-----------------------------------------------------------------------------
(* The allocator's contract *)

LEMMA BatchInit == Init => BatchIInv
<1>. SUFFICES ASSUME Init PROVE BatchIInv
  OBVIOUS
<1>. USE DEF Init
<1>1. KvInv
  BY InitInv
<1>2. StageShape
  BY DEF StageShape, Stage, NoPlan
<1>3. OrderShape
  <2>1. Arrived = {}
    BY DEF Arrived
  <2>2. Cardinality(Arrived) = 0
    BY <2>1, FS_EmptySet
  <2>3. \A q : q = <<>> => Ranked(q) /\ Members(q) = {}
    BY DEF Ranked, Members
  <2>4. Ranked(running) /\ Ranked(waiting) /\ Members(running) = {} /\ Members(waiting) = {}
        /\ Members(inbox) = {} /\ Len(inbox) = 0
    BY <2>3
  <2>5. \A s \in SeqId : arrival[s] = 0 /\ arrival[s] <= 0
    OBVIOUS
  <2>. HIDE DEF Init
  <2>. QED
    BY <2>2, <2>4, <2>5 DEF OrderShape
<1>4. BudgetShape
  BY DEF BudgetShape, Members
<1>5. PlanShape
  BY DEF PlanShape
<1>6. HoldShape
  <2>1. pc = "drain" /\ live = {} /\ running = <<>> /\ Members(running) = {}
    BY DEF KvInit, Members
  <2>. QED
    BY <2>1 DEF HoldShape
<1>. QED
  BY <1>1, <1>2, <1>3, <1>4, <1>5, <1>6 DEF BatchIInv

\* What a queued request holds or will hold stays within MaxLen.
LEMMA QueuedFacts ==
    ASSUME StageShape, BudgetShape, NEW s \in Members(running) \cup Members(waiting)
    PROVE  /\ s \in SeqId /\ gen[s] \in Nat
           /\ Len(Prompt[s]) \in Nat \ {0}
           /\ CtxLen(s) \in Nat /\ CtxLen(s) <= MaxLen
           /\ CtxLen(s) = Len(Prompt[s]) + gen[s]
           /\ gen[s] + 1 <= MaxNew[s] /\ MaxNew[s] \in Nat
<1>1. s \in SeqId
  BY MembersFacts DEF StageShape
<1>2. Len(Prompt[s]) \in Nat \ {0}
  BY <1>1, PromptAssumption
<1>3. MaxNew[s] \in Nat /\ gen[s] \in Nat /\ MaxLen \in Nat /\ gen[s] < MaxNew[s]
  BY <1>1, SchedulerAssumption, MaxLenAssumption DEF StageShape, BudgetShape
<1>4. Len(Prompt[s]) + MaxNew[s] <= MaxLen + 1
  BY <1>1, LengthAssumption
<1>. QED
  BY <1>1, <1>2, <1>3, <1>4 DEF CtxLen

\* A running sequence that has still to grow stores one token less than its
\* context.
LEMMA RunningFacts ==
    ASSUME StageShape, BudgetShape, HoldShape, NEW i \in 1..Len(running),
           pc \notin {"abort", "stopped"}, KvTypeOK
    PROVE  /\ running[i] \in SeqId /\ running[i] \in Members(running)
           /\ len[running[i]] \in Nat
           /\ len[running[i]] + Behind(i) = CtxLen(running[i])
           /\ Behind(i) \in {0, 1}
  BY MembersFacts, ZenonT(40) DEF StageShape, HoldShape, KvTypeOK, Behind

\* Whatever the worker does, the allocator sees one of its operations, within its
\* bounds, or nothing.
LEMMA BatchKvStep ==
    ASSUME BatchIInv, [Next]_vars
    PROVE  [KvNext]_kvVars
<1>. USE DEF BatchIInv
<1>1. KvTypeOK
  BY DEF KvInv
<1>2. CASE GrowOne
  <2>. DEFINE s == running[at]
  <2>1. at \in 1..Len(running) /\ pc = "grow"
    BY <1>2, MembersFacts DEF GrowOne, StageShape
  <2>2. Behind(at) = 1
    BY <2>1 DEF Behind
  <2>3. s \in SeqId /\ s \in Members(running) /\ len[s] \in Nat /\ len[s] + 1 = CtxLen(s)
    BY <1>1, <2>1, <2>2, RunningFacts
  <2>4. CtxLen(s) <= MaxLen
    BY <2>3, QueuedFacts
  <2>5. 1 \in 1..(MaxLen - len[s])
    BY <2>3, <2>4, MaxLenAssumption
  <2>6. AppendTokens(s, 1) \/ AppendFails(s, 1)
    BY <1>2 DEF GrowOne
  <2>. HIDE DEF s
  <2>. QED
    BY <2>3, <2>5, <2>6 DEF KvNext
<1>3. CASE Preempt
  <2>1. Newest \in 1..Len(running)
    BY <1>3, MembersFacts DEF Preempt, StageShape, Newest
  <2>2. running[Newest] \in SeqId
    BY <2>1 DEF StageShape
  <2>. QED
    BY <1>3, <2>2 DEF Preempt, KvNext
<1>4. CASE Admit
  <2>1. waiting # <<>>
    BY <1>4 DEF Admit, Admissible
  <2>2. Head(waiting) \in SeqId
    BY <2>1 DEF StageShape
  <2>3. AllocateWithPrefix(Head(waiting)) \/ AllocateFails(Head(waiting))
    BY <1>4 DEF Admit
  <2>. QED
    BY <2>2, <2>3 DEF KvNext
<1>5. CASE Extend
  <2>. DEFINE s == Head(waiting)
  <2>1. pc = "extend" /\ waiting # <<>> /\ len[s] = Len(Prompt[s])
    BY <1>5 DEF Extend, HoldShape
  <2>2. s \in Members(waiting)
    BY <2>1, TailFacts DEF StageShape
  <2>3. s \in SeqId /\ gen[s] \in Nat /\ Len(Prompt[s]) \in Nat
        /\ Len(Prompt[s]) + gen[s] <= MaxLen
    BY <2>2, QueuedFacts
  <2>4. gen[s] > 0 => gen[s] \in 1..(MaxLen - len[s])
    BY <2>1, <2>3, MaxLenAssumption
  <2>5. AppendFits(s, gen[s])
    BY <2>1 DEF HoldShape
  <2>6. (gen[s] > 0 /\ AppendTokens(s, gen[s])) \/ UNCHANGED kvVars
    BY <1>5, <2>3, <2>5 DEF Extend
  <2>. HIDE DEF s
  <2>. QED
    BY <2>3, <2>4, <2>6 DEF KvNext
<1>6. CASE Publish
  <2>1. at \in 1..Len(plan.prefills) /\ plan.prefills \in Seq(PrefillItem)
    BY <1>6 DEF Publish, StageShape
  <2>2. plan.prefills[at] \in PrefillItem
    BY <2>1
  <2>. DEFINE s == plan.prefills[at].seq
  <2>3. CommitPrefix(s)
    BY <1>6 DEF Publish
  <2>4. s \in SeqId
    BY <2>2 DEF PrefillItem
  <2>. HIDE DEF s
  <2>. QED
    BY <2>3, <2>4 DEF KvNext
<1>7. CASE Finish
  <2>1. at \in 1..Len(running)
    BY <1>7, MembersFacts DEF Finish, StageShape
  <2>2. running[at] \in SeqId
    BY <2>1 DEF StageShape
  <2>3. Free(running[at]) \/ UNCHANGED kvVars
    BY <1>7 DEF Finish
  <2>. QED
    BY <2>2, <2>3 DEF KvNext
<1>8. CASE AbortOne
  <2>1. Head(running) \in SeqId
    BY <1>8 DEF AbortOne, StageShape
  <2>. QED
    BY <1>8, <2>1 DEF AbortOne, KvNext
<1>9. CASE \/ Stop \/ Receive \/ Exit \/ BeginStep \/ GrowDone \/ AdmitDone \/ ForwardOk
           \/ ForwardErr \/ Record \/ Emit \/ AbortDone
           \/ \E s \in SeqId : Submit(s)
           \/ UNCHANGED vars
  BY <1>9 DEF Stop, Receive, Exit, BeginStep, GrowDone, AdmitDone, ForwardOk, ForwardErr,
              Record, Emit, AbortDone, Submit, vars
<1>. QED
  BY <1>2, <1>3, <1>4, <1>5, <1>6, <1>7, <1>8, <1>9 DEF Next, Worker

-----------------------------------------------------------------------------
(* The steps that take blocks *)

LEMMA PlanFacts ==
    ASSUME StageShape
    PROVE  /\ plan.prefills \in Seq(PrefillItem) /\ plan.decodes \in Seq(DecodeItem)
           /\ \A i \in 1..Len(plan.prefills) : plan.prefills[i] \in PrefillItem
           /\ \A i \in 1..Len(plan.decodes) : plan.decodes[i] \in DecodeItem
           /\ Len(plan.prefills) \in Nat /\ Len(plan.decodes) \in Nat
<1>1. plan.prefills \in Seq(PrefillItem) /\ plan.decodes \in Seq(DecodeItem)
  BY DEF StageShape
<1>. QED
  BY <1>1

\* A running sequence that can_append admitted grows by one token.
LEMMA GrowFacts ==
    ASSUME BatchIInv, GrowOne, KvInv'
    PROVE  /\ at \in 1..Len(running) /\ pc = "grow" /\ pc' = "grow" /\ at' = at + 1
           /\ AppendTokens(running[at], 1)
           /\ \E d \in DecodeItem :
                /\ d = [seq |-> running[at], slot |-> SlotAt(table'[running[at]], len[running[at]]),
                        table |-> table'[running[at]]]
                /\ plan'.decodes = Append(plan.decodes, d)
                /\ plan'.prefills = plan.prefills
                /\ plan' \in [prefills : Seq(PrefillItem), decodes : Seq(DecodeItem)]
           /\ running[at] \in SeqId
           /\ len'[running[at]] = len[running[at]] + 1
           /\ \A t \in SeqId \ {running[at]} : len'[t] = len[t]
           /\ live' = live
           /\ UNCHANGED <<schedVars, inbox>>
<1>. USE DEF BatchIInv
<1>. DEFINE s == running[at]
            d == [seq |-> s, slot |-> SlotAt(table'[s], len[s]), table |-> table'[s]]
<1>1. at \in 1..Len(running) /\ pc = "grow" /\ CanAppend(len[s], 1)
  BY MembersFacts DEF GrowOne, StageShape
<1>2. AppendFits(s, 1)
  BY <1>1 DEF CanAppend, AppendFits, Grow
<1>3. /\ AppendTokens(s, 1) /\ at' = at + 1 /\ pc' = pc
      /\ plan' = [plan EXCEPT !.decodes = Append(plan.decodes, d)]
      /\ UNCHANGED <<schedVars, inbox>>
  BY <1>2 DEF GrowOne, clientVars
<1>4. s \in SeqId
  BY <1>1 DEF StageShape
<1>5. KvTypeOK /\ KvTypeOK' /\ TablesCover'
  BY DEF KvInv
<1>6. s \in live /\ live' = live /\ len' = [len EXCEPT ![s] = len[s] + 1]
  BY <1>3 DEF AppendTokens
<1>7. len'[s] = len[s] + 1 /\ \A t \in SeqId \ {s} : len'[t] = len[t]
  BY <1>4, <1>5, <1>6 DEF KvTypeOK
<1>8. table'[s] \in Seq(Block) /\ len[s] \in Nat /\ len[s] + 1 \in Nat
      /\ Len(table'[s]) = BlocksFor(len[s] + 1)
  <2>1. Len(table'[s]) = BlocksFor(len'[s])
    BY <1>5, <1>6 DEF TablesCover, BlocksFor
  <2>. QED
    BY <2>1, <1>4, <1>5, <1>7 DEF KvTypeOK
<1>9. SlotAt(table'[s], len[s]) \in Slot
  <2>. DEFINE t == table'[s]
              n == len[s]
  <2>1. t \in Seq(Block) /\ n \in Nat /\ n + 1 \in Nat /\ n < n + 1 /\ Len(t) = BlocksFor(n + 1)
    BY <1>8
  <2>. HIDE DEF t, n
  <2>2. SlotAt(t, n) \in Slot
    BY <2>1, SlotFacts
  <2>. QED
    BY <2>2 DEF t, n
<1>10. d \in DecodeItem
  BY <1>4, <1>8, <1>9 DEF DecodeItem
<1>. HIDE DEF d
<1>11. /\ plan \in [prefills : Seq(PrefillItem), decodes : Seq(DecodeItem)]
       /\ Append(plan.decodes, d) \in Seq(DecodeItem)
  BY <1>10, PlanFacts DEF StageShape
<1>12. /\ plan'.decodes = Append(plan.decodes, d) /\ plan'.prefills = plan.prefills
       /\ plan' \in [prefills : Seq(PrefillItem), decodes : Seq(DecodeItem)]
  BY <1>3, <1>11
<1>. QED
  BY <1>1, <1>3, <1>4, <1>6, <1>7, <1>10, <1>12 DEF d

\* The scheduler admits a request only when its prompt fits and what it had
\* generated fits after it.
LEMMA AdmitFacts ==
    ASSUME BatchIInv, Admit
    PROVE  /\ pc = "admit" /\ pc' = "extend" /\ waiting # <<>>
           /\ Head(waiting) \in SeqId /\ Head(waiting) \notin live
           /\ AllocateWithPrefix(Head(waiting))
           /\ live' = live \cup {Head(waiting)}
           /\ len'[Head(waiting)] = Len(Prompt[Head(waiting)])
           /\ \A t \in SeqId \ {Head(waiting)} : len'[t] = len[t]
           /\ AppendFits(Head(waiting), gen[Head(waiting)])'
           /\ UNCHANGED <<schedVars, inbox, plan, at>>
<1>. USE DEF BatchIInv
<1>. DEFINE s == Head(waiting)
<1>1. pc = "admit" /\ waiting # <<>> /\ CanAppend(0, CtxLen(s))
  BY DEF Admit, Admissible
<1>2. s \in SeqId /\ s \in Members(waiting)
  BY <1>1, TailFacts DEF StageShape
<1>3. gen[s] \in 0..MaxLen /\ CanAppend(0, Len(Prompt[s]) + gen[s])
  <2>1. gen[s] \in Nat /\ CtxLen(s) = Len(Prompt[s]) + gen[s] /\ CtxLen(s) <= MaxLen
        /\ Len(Prompt[s]) \in Nat
    BY <1>2, QueuedFacts
  <2>. QED
    BY <1>1, <2>1, MaxLenAssumption
<1>4. s \notin live
  BY <1>1 DEF Admit, AllocateWithPrefix, AllocateFails
<1>5. AllocateFits(s)
  BY <1>2, <1>3, <1>4, CanAppendHolds DEF CanAppendCovers
<1>6. AllocateWithPrefix(s) /\ pc' = "extend" /\ UNCHANGED <<schedVars, inbox, plan, at>>
  BY <1>5 DEF Admit, stepVars, clientVars
<1>7. AppendFits(s, gen[s])'
  <2>1. gen[s] \in Nat /\ gen' = gen /\ waiting' = waiting
    BY <1>3, <1>6, MaxLenAssumption DEF schedVars
  <2>2. PICK r \in SeqId, n \in Nat : r = s /\ n = gen[s]
    BY <1>2, <2>1
  <2>3. AppendFits(r, n)'
    BY <2>2, <1>3, <1>6, AllocateLeavesRoom
  <2>4. s' = r /\ gen'[s'] = n
    BY <2>1, <2>2
  <2>. QED
    BY <2>3, <2>4 DEF AppendFits, Grow
<1>8. live' = live \cup {s} /\ len' = [len EXCEPT ![s] = Len(Prompt[s])]
  BY <1>6 DEF AllocateWithPrefix
<1>9. len'[s] = Len(Prompt[s]) /\ \A t \in SeqId \ {s} : len'[t] = len[t]
  BY <1>2, <1>8 DEF KvInv, KvTypeOK
<1>. QED
  BY <1>1, <1>2, <1>4, <1>6, <1>7, <1>8, <1>9

\* The sequence being admitted gains what it had generated, and runs.
LEMMA ExtendFacts ==
    ASSUME BatchIInv, Extend, KvInv'
    PROVE  /\ pc = "extend" /\ pc' = "admit" /\ waiting # <<>>
           /\ Head(waiting) \in SeqId /\ Head(waiting) \in live /\ Head(waiting) \in live'
           /\ gen[Head(waiting)] \in Nat
           /\ \/ gen[Head(waiting)] > 0 /\ AppendTokens(Head(waiting), gen[Head(waiting)])
              \/ gen[Head(waiting)] = 0 /\ UNCHANGED kvVars
           /\ \E p \in PrefillItem :
                /\ p.seq = Head(waiting) /\ p.cached = held[Head(waiting)] * BlockSize
                /\ p.table = table'[Head(waiting)]
                /\ p.slots = [i \in 1..(CtxLen(Head(waiting)) - p.cached) |->
                                SlotAt(table'[Head(waiting)], p.cached + i - 1)]
                /\ plan'.prefills = Append(plan.prefills, p)
                /\ plan'.decodes = plan.decodes
                /\ plan' \in [prefills : Seq(PrefillItem), decodes : Seq(DecodeItem)]
           /\ waiting' = Tail(waiting) /\ running' = Append(running, Head(waiting))
           /\ len'[Head(waiting)] = CtxLen(Head(waiting))
           /\ \A t \in SeqId \ {Head(waiting)} : len'[t] = len[t]
           /\ held' = held
           /\ live' = live
           /\ UNCHANGED <<arrival, gen, inbox, at>>
<1>. USE DEF BatchIInv
<1>. DEFINE s == Head(waiting)
            cached == held[s] * BlockSize
            slots == [i \in 1..(CtxLen(s) - cached) |-> SlotAt(table'[s], cached + i - 1)]
            p == [seq |-> s, cached |-> cached, table |-> table'[s], slots |-> slots]
<1>1. /\ pc = "extend" /\ waiting # <<>> /\ s \in live /\ len[s] = Len(Prompt[s])
      /\ AppendFits(s, gen[s])
  BY DEF Extend, HoldShape
<1>2. /\ pc' = "admit" /\ waiting' = Tail(waiting) /\ running' = Append(running, s)
      /\ UNCHANGED <<arrival, gen, inbox, at>>
      /\ IF gen[s] > 0 THEN AppendTokens(s, gen[s]) ELSE UNCHANGED kvVars
      /\ plan' = [plan EXCEPT !.prefills = Append(plan.prefills, p)]
  BY <1>1 DEF Extend, clientVars
<1>3. s \in SeqId /\ s \in Members(waiting)
  BY <1>1, TailFacts DEF StageShape
<1>4. /\ gen[s] \in Nat /\ CtxLen(s) = Len(Prompt[s]) + gen[s] /\ Len(Prompt[s]) \in Nat
      /\ CtxLen(s) \in Nat
  BY <1>3, QueuedFacts
<1>5. \/ gen[s] > 0 /\ AppendTokens(s, gen[s])
      \/ gen[s] = 0 /\ UNCHANGED kvVars
  BY <1>2, <1>4
<1>6. KvTypeOK /\ KvTypeOK' /\ TablesCover /\ TablesCover'
  BY DEF KvInv
<1>7. /\ live' = live /\ held' = held /\ len'[s] = CtxLen(s)
      /\ \A t \in SeqId \ {s} : len'[t] = len[t]
  <2>1. CASE gen[s] > 0 /\ AppendTokens(s, gen[s])
    <3>1. live' = live /\ held' = held /\ len' = [len EXCEPT ![s] = len[s] + gen[s]]
      BY <2>1 DEF AppendTokens
    <3>. QED
      BY <3>1, <1>1, <1>3, <1>4, <1>6 DEF KvTypeOK
  <2>2. CASE gen[s] = 0 /\ UNCHANGED kvVars
    BY <2>2, <1>1, <1>3, <1>4 DEF kvVars
  <2>. QED
    BY <1>5, <2>1, <2>2
<1>8. /\ table'[s] \in Seq(Block) /\ Len(table'[s]) = BlocksFor(CtxLen(s))
      /\ held[s] \in Nat
  <2>1. Len(table'[s]) = BlocksFor(len'[s])
    BY <1>1, <1>6, <1>7 DEF TablesCover, BlocksFor
  <2>. QED
    BY <2>1, <1>3, <1>6, <1>7 DEF KvTypeOK
<1>9. cached \in Nat
  BY <1>8, BlockSizeAssumption
<1>. HIDE DEF cached
<1>10. slots \in Seq(Slot)
  <2>. DEFINE t == table'[s]
              n == CtxLen(s)
  <2>1. t \in Seq(Block) /\ n \in Nat /\ Len(t) = BlocksFor(n)
    BY <1>4, <1>8
  <2>. HIDE DEF t, n
  <2>2. ASSUME NEW i \in 1..(n - cached) PROVE SlotAt(t, cached + i - 1) \in Slot
    <3>1. cached + i - 1 \in Nat /\ cached + i - 1 < n
      BY <1>9, <2>1
    <3>. QED
      BY <2>1, <3>1, SlotFacts
  <2>3. n - cached \in Int
    BY <1>9, <2>1
  <2>4. [i \in 1..(n - cached) |-> SlotAt(t, cached + i - 1)] \in Seq(Slot)
    <3>1. CASE n - cached \in Nat
      BY <2>2, <3>1
    <3>2. CASE n - cached \notin Nat
      <4>1. 1..(n - cached) = 1..0
        BY <2>3, <3>2
      <4>2. [i \in 1..(n - cached) |-> SlotAt(t, cached + i - 1)]
              = [i \in 1..0 |-> SlotAt(t, cached + i - 1)]
        BY <4>1
      <4>3. [i \in 1..0 |-> SlotAt(t, cached + i - 1)] \in Seq(Slot)
        OBVIOUS
      <4>. QED
        BY <4>2, <4>3
    <3>. QED
      BY <3>1, <3>2
  <2>. QED
    BY <2>4 DEF t, n
<1>. HIDE DEF slots
<1>11. p \in PrefillItem
  BY <1>3, <1>8, <1>9, <1>10 DEF PrefillItem
<1>12. p.seq = s /\ p.cached = cached /\ p.table = table'[s] /\ p.slots = slots
  OBVIOUS
<1>. HIDE DEF p
<1>13. /\ plan \in [prefills : Seq(PrefillItem), decodes : Seq(DecodeItem)]
       /\ Append(plan.prefills, p) \in Seq(PrefillItem)
  BY <1>11, PlanFacts DEF StageShape
<1>14. /\ plan'.prefills = Append(plan.prefills, p) /\ plan'.decodes = plan.decodes
       /\ plan' \in [prefills : Seq(PrefillItem), decodes : Seq(DecodeItem)]
  BY <1>2, <1>13
<1>. QED
  BY <1>1, <1>2, <1>3, <1>4, <1>5, <1>7, <1>11, <1>12, <1>14 DEF slots, cached

-----------------------------------------------------------------------------
(* One lemma per part of the invariant *)

\* The worker never panics: what can_append promised is there.
LEMMA StageInv ==
    ASSUME BatchIInv, [Next]_vars, KvInv'
    PROVE  StageShape'
<1>. USE DEF BatchIInv
<1>1. StageShape
  OBVIOUS
<1>2. CASE Stop \/ Exit \/ GrowDone \/ AdmitDone \/ ForwardOk \/ ForwardErr \/ Publish
           \/ Record \/ UNCHANGED vars
  BY <1>1, <1>2 DEF Stop, Exit, GrowDone, AdmitDone, ForwardOk, ForwardErr, Publish, Record,
                    vars, schedVars, stepVars, clientVars, StageShape, Stage
<1>3. ASSUME NEW s \in SeqId, Submit(s) PROVE StageShape'
  BY <1>1, <1>3, AppendFacts DEF Submit, schedVars, stepVars, StageShape
<1>4. CASE Receive
  <2>1. Head(inbox) \in SeqId /\ Tail(inbox) \in Seq(SeqId) /\ inbox # <<>>
    BY <1>1, <1>4, TailFacts DEF Receive, StageShape
  <2>2. waiting' = Append(waiting, Head(inbox)) /\ waiting' \in Seq(SeqId)
    BY <1>1, <1>4, <2>1, AppendFacts DEF Receive, StageShape
  <2>3. /\ arrival' = [arrival EXCEPT ![Head(inbox)] = 1 + Cardinality(Arrived)]
        /\ arrival \in [SeqId -> Nat]
    BY <1>1, <1>4 DEF Receive, Arrived, StageShape
  <2>4. Cardinality(Arrived) \in Nat
    BY SeqIdAssumption, FS_Subset, FS_CardinalityType DEF Arrived
  <2>5. 1 + Cardinality(Arrived) \in Nat
    BY <2>4
  <2>6. arrival' \in [SeqId -> Nat]
    BY <2>3, <2>5
  <2>. QED
    BY <1>1, <1>4, <2>1, <2>2, <2>6 DEF Receive, stepVars, StageShape
<1>5. CASE BeginStep
  <2>1. running' = running
    BY <1>1, <1>5, SortedStays DEF BeginStep, StageShape, OrderShape
  <2>2. plan' \in [prefills : Seq(PrefillItem), decodes : Seq(DecodeItem)]
    BY <1>5 DEF BeginStep, NoPlan
  <2>. QED
    BY <1>1, <1>5, <2>1, <2>2 DEF BeginStep, clientVars, StageShape, Stage
<1>6. CASE GrowOne
  <2>1. at' = at + 1 /\ pc' = "grow" /\ UNCHANGED <<schedVars, inbox>>
        /\ plan' \in [prefills : Seq(PrefillItem), decodes : Seq(DecodeItem)]
    BY <1>6, GrowFacts
  <2>. QED
    BY <1>1, <2>1 DEF schedVars, StageShape, Stage
<1>7. CASE Preempt
  <2>1. Newest \in 1..Len(running)
    BY <1>1, <1>7, MembersFacts DEF Preempt, StageShape, Newest
  <2>2. running[Newest] \in SeqId /\ RemoveIndex(running, Newest) \in Seq(SeqId)
    BY <1>1, <2>1, RemoveFacts, MembersFacts DEF StageShape
  <2>3. <<running[Newest]>> \o waiting \in Seq(SeqId)
    BY <1>1, <2>2, ConsFacts DEF StageShape
  <2>. QED
    BY <1>1, <1>7, <2>2, <2>3 DEF Preempt, Requeue, stepVars, clientVars, StageShape
<1>8. CASE Admit
  <2>1. UNCHANGED <<schedVars, inbox, plan, at>> /\ pc' = "extend"
    BY <1>8, AdmitFacts
  <2>. QED
    BY <1>1, <2>1 DEF schedVars, StageShape, Stage
<1>9. CASE Extend
  <2>1. /\ waiting # <<>> /\ Head(waiting) \in SeqId /\ pc' = "admit"
        /\ waiting' = Tail(waiting) /\ running' = Append(running, Head(waiting))
        /\ UNCHANGED <<arrival, gen, inbox, at>>
        /\ plan' \in [prefills : Seq(PrefillItem), decodes : Seq(DecodeItem)]
    BY <1>9, ExtendFacts
  <2>2. Tail(waiting) \in Seq(SeqId) /\ Append(running, Head(waiting)) \in Seq(SeqId)
    BY <1>1, <2>1, TailFacts, AppendFacts DEF StageShape
  <2>. QED
    BY <1>1, <2>1, <2>2 DEF StageShape, Stage
<1>10. CASE Finish
  <2>1. at \in 1..Len(running) /\ running[at] \in SeqId
    BY <1>1, <1>10, MembersFacts DEF Finish, StageShape
  <2>2. RemoveIndex(running, at) \in Seq(SeqId)
    BY <1>1, <2>1, RemoveFacts DEF StageShape
  <2>3. gen' \in [SeqId -> Nat]
    BY <1>1, <1>10, SMTT(30) DEF Finish, StageShape
  <2>4. running' \in Seq(SeqId) /\ at' \in Nat \ {0}
    BY <1>1, <1>10, <2>2, SMTT(30) DEF Finish, StageShape
  <2>. QED
    BY <1>1, <1>10, <2>3, <2>4 DEF Finish, clientVars, StageShape
<1>11. CASE Emit
  <2>1. plan' \in [prefills : Seq(PrefillItem), decodes : Seq(DecodeItem)]
    BY <1>11 DEF Emit, NoPlan
  <2>. QED
    BY <1>1, <1>11, <2>1 DEF Emit, schedVars, StageShape, Stage
<1>12. CASE AbortOne
  <2>1. Tail(running) \in Seq(SeqId)
    BY <1>1, <1>12, TailFacts DEF AbortOne, StageShape
  <2>. QED
    BY <1>1, <1>12, <2>1 DEF AbortOne, stepVars, clientVars, StageShape
<1>13. CASE AbortDone
  <2>1. plan' \in [prefills : Seq(PrefillItem), decodes : Seq(DecodeItem)]
    BY <1>13 DEF AbortDone, NoPlan
  <2>. QED
    BY <1>1, <1>13, <2>1 DEF AbortDone, StageShape, Stage
<1>. QED
  BY <1>2, <1>3, <1>4, <1>5, <1>6, <1>7, <1>8, <1>9, <1>10, <1>11, <1>12, <1>13
  DEF Next, Worker

\* Requests are taken in, preempted, admitted and finished in arrival order.
LEMMA OrderInv ==
    ASSUME BatchIInv, [Next]_vars, KvInv'
    PROVE  OrderShape'
<1>. USE DEF BatchIInv
<1>1. /\ StageShape /\ OrderShape
      /\ inbox \in Seq(SeqId) /\ waiting \in Seq(SeqId) /\ running \in Seq(SeqId)
      /\ arrival \in [SeqId -> Nat]
      /\ Ranked(running) /\ Ranked(waiting)
  BY DEF StageShape, OrderShape
<1>2. ASSUME UNCHANGED <<inbox, arrival, waiting, running>> PROVE OrderShape'
  BY <1>1, <1>2 DEF OrderShape, Members, Ranked, Arrived
<1>3. CASE Stop \/ Exit \/ GrowDone \/ AdmitDone \/ ForwardOk \/ ForwardErr \/ Publish
           \/ Record \/ Emit \/ UNCHANGED vars
  BY <1>2, <1>3 DEF Stop, Exit, GrowDone, AdmitDone, ForwardOk, ForwardErr, Publish, Record,
                    Emit, vars, schedVars, clientVars
<1>4. CASE GrowOne
  BY <1>2, <1>4, GrowFacts DEF schedVars
<1>5. CASE Admit
  BY <1>2, <1>5, AdmitFacts DEF schedVars
<1>6. CASE BeginStep
  <2>1. running' = running
    BY <1>1, <1>6, SortedStays DEF BeginStep
  <2>. QED
    BY <1>2, <1>6, <2>1 DEF BeginStep, clientVars
\* Members that leave the queues, and nothing else, keep the order.
<1>7. ASSUME arrival' = arrival, inbox' = inbox,
             Ranked(running)', Ranked(waiting)',
             \A s \in Members(running') \cup Members(waiting') : arrival[s] > 0,
             \A s \in Members(running'), t \in Members(waiting') : arrival[s] < arrival[t]
      PROVE  OrderShape'
  <2>1. Arrived' = Arrived
    BY <1>7 DEF Arrived
  <2>. QED
    BY <1>1, <1>7, <2>1 DEF OrderShape, Members
<1>8. ASSUME NEW s \in SeqId, Submit(s) PROVE OrderShape'
  <2>1. /\ inbox' = Append(inbox, s) /\ arrival[s] = 0 /\ s \notin Members(inbox)
        /\ UNCHANGED <<arrival, waiting, running>>
    BY <1>8 DEF Submit, schedVars
  <2>2. /\ Len(inbox') = Len(inbox) + 1 /\ Len(inbox) \in Nat
        /\ \A i \in 1..Len(inbox) : inbox'[i] = inbox[i]
        /\ inbox'[Len(inbox) + 1] = s
        /\ Members(inbox') = Members(inbox) \cup {s}
    BY <1>1, <2>1, AppendFacts, MembersFacts
  <2>3. \A i \in 1..Len(inbox) : inbox[i] \in Members(inbox)
    BY DEF Members
  <2>4. \A i, j \in 1..Len(inbox') : inbox'[i] = inbox'[j] => i = j
    <3>1. \A i \in 1..Len(inbox') : i \in 1..Len(inbox) \/ i = Len(inbox) + 1
      BY <2>2
    <3>2. \A i, j \in 1..Len(inbox) : inbox[i] = inbox[j] => i = j
      BY <1>1 DEF OrderShape
    <3>. QED
      BY <2>1, <2>2, <2>3, <3>1, <3>2
  <2>5. \A t \in Members(inbox') : arrival[t] = 0
    BY <1>1, <2>1, <2>2 DEF OrderShape
  <2>. QED
    BY <1>1, <2>1, <2>4, <2>5 DEF OrderShape, Ranked, Members, Arrived
<1>9. CASE Receive
  <2>. DEFINE s == Head(inbox)
              a == 1 + Cardinality(Arrived)
  <2>1. /\ inbox # <<>> /\ inbox' = Tail(inbox) /\ waiting' = Append(waiting, s)
        /\ arrival' = [arrival EXCEPT ![s] = a] /\ running' = running
    BY <1>9 DEF Receive, Arrived
  <2>2. /\ s \in SeqId /\ Len(inbox) \in Nat \ {0} /\ Len(inbox') = Len(inbox) - 1
        /\ \A i \in 1..(Len(inbox) - 1) : inbox'[i] = inbox[i + 1]
        /\ s = inbox[1]
        /\ Members(inbox) = {s} \cup Members(inbox')
    BY <1>1, <2>1, TailFacts
  <2>3. arrival[s] = 0
    BY <1>1, <2>2 DEF OrderShape
  <2>4. \A i, j \in 1..Len(inbox) : inbox[i] = inbox[j] => i = j
    BY <1>1 DEF OrderShape
  <2>5. \A i \in 1..(Len(inbox) - 1) : i + 1 \in 1..Len(inbox) /\ i + 1 # 1 /\ 1 \in 1..Len(inbox)
    BY <2>2
  <2>6. s \notin Members(inbox')
    BY <2>2, <2>4, <2>5 DEF Members
  <2>7. \A i, j \in 1..Len(inbox') : inbox'[i] = inbox'[j] => i = j
    BY <2>2, <2>4, <2>5
  <2>8. Cardinality(Arrived) \in Nat
    BY SeqIdAssumption, FS_Subset, FS_CardinalityType DEF Arrived
  <2>9. a \in Nat \ {0} /\ a > Cardinality(Arrived)
    BY <2>8
  <2>. HIDE DEF s, a
  <2>10. Cardinality(Arrived') = a
    <3>1. Cardinality(Arrived') = 1 + Cardinality(Arrived)
      BY <1>1, <2>1, <2>2, <2>3, <2>9, ArrivalCount
    <3>. QED
      BY <3>1 DEF a
  <2>11. \A t \in SeqId : arrival[t] \in Nat /\ arrival[t] <= Cardinality(Arrived)
                          /\ arrival'[t] = IF t = s THEN a ELSE arrival[t]
    BY <1>1, <2>1, <2>2 DEF OrderShape
  <2>12. \A t \in SeqId : arrival'[t] <= a /\ arrival[t] < a
    BY <2>8, <2>9, <2>11
  <2>13. /\ \A t \in Members(running) \cup Members(waiting) : t \in SeqId /\ t # s
         /\ \A t \in Members(inbox') : t \in SeqId /\ t # s /\ arrival[t] = 0
    <3>1. \A t \in Members(running) \cup Members(waiting) : t \in SeqId /\ arrival[t] > 0
      BY <1>1, MembersFacts DEF OrderShape
    <3>2. \A t \in Members(inbox') : t \in Members(inbox) /\ t \in SeqId
      BY <1>1, <2>2, MembersFacts
    <3>. QED
      BY <1>1, <2>3, <2>6, <3>1, <3>2 DEF OrderShape
  <2>14. /\ Len(waiting') = Len(waiting) + 1 /\ Len(waiting) \in Nat
         /\ \A i \in 1..Len(waiting) : waiting'[i] = waiting[i] /\ waiting[i] \in Members(waiting)
         /\ waiting'[Len(waiting) + 1] = s
         /\ Members(waiting') = Members(waiting) \cup {s}
    BY <1>1, <2>1, <2>2, AppendFacts, MembersFacts, SMTT(30)
  <2>15. Ranked(waiting)'
    <3>1. ASSUME NEW i \in 1..Len(waiting'), NEW j \in 1..Len(waiting'), i < j
          PROVE  arrival'[waiting'[i]] < arrival'[waiting'[j]]
      <4>1. i \in 1..Len(waiting)
        BY <3>1, <2>14
      <4>2. waiting'[i] = waiting[i] /\ waiting[i] \in Members(waiting)
        BY <4>1, <2>14
      <4>3. arrival'[waiting'[i]] = arrival[waiting[i]] /\ arrival[waiting[i]] < a
        BY <4>2, <2>11, <2>12, <2>13
      <4>4. CASE j = Len(waiting) + 1
        BY <4>3, <4>4, <2>2, <2>11, <2>14
      <4>5. CASE j \in 1..Len(waiting)
        <5>1. arrival'[waiting'[j]] = arrival[waiting[j]]
          BY <4>5, <2>11, <2>13, <2>14
        <5>2. arrival[waiting[i]] < arrival[waiting[j]]
          BY <1>1, <3>1, <4>1, <4>5 DEF Ranked
        <5>. QED
          BY <4>3, <5>1, <5>2
      <4>. QED
        BY <4>4, <4>5, <2>14
    <3>. QED
      BY <3>1 DEF Ranked
  <2>16. Ranked(running)'
    <3>1. \A i \in 1..Len(running) : arrival'[running[i]] = arrival[running[i]]
      BY <1>1, <2>11, <2>13, MembersFacts
    <3>. QED
      BY <1>1, <2>1, <3>1 DEF Ranked
  <2>17. \A t \in Members(running), u \in Members(waiting') : arrival'[t] < arrival'[u]
    BY <1>1, <2>2, <2>11, <2>12, <2>13, <2>14 DEF OrderShape
  <2>18. \A t \in Members(running) \cup Members(waiting') : arrival'[t] > 0
    BY <1>1, <2>2, <2>9, <2>11, <2>13, <2>14 DEF OrderShape
  <2>19. \A t \in Members(inbox') : arrival'[t] = 0
    BY <2>11, <2>13
  <2>. QED
    BY <2>1, <2>7, <2>10, <2>12, <2>15, <2>16, <2>17, <2>18, <2>19, SMTT(30) DEF OrderShape, Members
<1>10. CASE Preempt
  <2>. DEFINE v == running[Newest]
              r == RemoveIndex(running, Newest)
              w == <<v>> \o waiting
  <2>1. /\ running' = r /\ waiting' = w /\ arrival' = arrival /\ inbox' = inbox
        /\ Newest \in 1..Len(running) /\ Len(running) \in Nat
    BY <1>1, <1>10, MembersFacts DEF Preempt, Requeue, clientVars, StageShape, Newest
  <2>2. Ranked(r) /\ Members(r) = Members(running) \ {v}
    BY <1>1, <2>1, RemoveRanked
  <2>3. v \in Members(running) /\ v \in SeqId
    BY <1>1, <2>1, MembersFacts
  <2>4. /\ Len(w) = Len(waiting) + 1 /\ w[1] = v /\ Len(waiting) \in Nat
        /\ \A i \in 2..(Len(waiting) + 1) : w[i] = waiting[i - 1]
        /\ Members(w) = {v} \cup Members(waiting)
    BY <1>1, <2>3, ConsFacts, MembersFacts
  <2>5. \A s \in Members(r) : arrival[s] < arrival[v]
    <3>1. \A i \in 1..Len(running) : running[i] # v => i < Newest
      BY <2>1 DEF Newest
    <3>2. \A i \in 1..Len(running) : running[i] # v => arrival[running[i]] < arrival[v]
      BY <1>1, <2>1, <3>1 DEF Ranked
    <3>. QED
      BY <2>2, <3>2 DEF Members
  <2>6. \A t \in Members(waiting) : arrival[v] < arrival[t]
    BY <1>1, <2>3 DEF OrderShape
  <2>. HIDE DEF v, r, w
  <2>7. Ranked(w)
    <3>1. ASSUME NEW i \in 1..Len(w), NEW j \in 1..Len(w), i < j
          PROVE  arrival[w[i]] < arrival[w[j]]
      <4>1. j \in 2..(Len(waiting) + 1) /\ j - 1 \in 1..Len(waiting)
        BY <3>1, <2>4
      <4>2. w[j] = waiting[j - 1] /\ waiting[j - 1] \in Members(waiting)
        BY <4>1, <2>4 DEF Members
      <4>3. CASE i = 1
        BY <4>2, <4>3, <2>4, <2>6
      <4>4. CASE i # 1
        <5>1. i \in 2..(Len(waiting) + 1) /\ i - 1 \in 1..Len(waiting) /\ i - 1 < j - 1
          BY <3>1, <4>4, <2>4
        <5>2. w[i] = waiting[i - 1]
          BY <5>1, <2>4
        <5>3. arrival[waiting[i - 1]] < arrival[waiting[j - 1]]
          BY <1>1, <4>1, <5>1 DEF Ranked
        <5>. QED
          BY <4>2, <5>2, <5>3
      <4>. QED
        BY <4>3, <4>4
    <3>. QED
      BY <3>1 DEF Ranked
  <2>8. Ranked(running)' /\ Ranked(waiting)'
    BY <2>1, <2>2, <2>7 DEF Ranked
  <2>9. \A s \in Members(r) \cup Members(w) : arrival[s] > 0
    BY <1>1, <2>2, <2>3, <2>4 DEF OrderShape
  <2>10. \A s \in Members(r), t \in Members(w) : arrival[s] < arrival[t]
    BY <1>1, <2>2, <2>4, <2>5 DEF OrderShape
  <2>. QED
    BY <1>7, <2>1, <2>8, <2>9, <2>10
<1>11. CASE Extend
  <2>. DEFINE s == Head(waiting)
              r == Append(running, s)
  <2>1. /\ waiting # <<>> /\ waiting' = Tail(waiting) /\ running' = r
        /\ arrival' = arrival /\ inbox' = inbox
    BY <1>11, ExtendFacts
  <2>2. /\ s \in SeqId /\ Members(waiting) = {s} \cup Members(waiting')
        /\ Ranked(waiting') /\ \A t \in Members(waiting') : arrival[s] < arrival[t]
    BY <1>1, <2>1, TailFacts, HeadRanked
  <2>3. /\ Len(r) = Len(running) + 1 /\ Len(running) \in Nat
        /\ \A i \in 1..Len(running) : r[i] = running[i] /\ running[i] \in Members(running)
        /\ r[Len(running) + 1] = s
        /\ Members(r) = Members(running) \cup {s}
    BY <1>1, <2>2, AppendFacts, MembersFacts, SMTT(30)
  <2>4. \A t \in Members(running) : arrival[t] < arrival[s]
    BY <1>1, <2>2 DEF OrderShape
  <2>. HIDE DEF r, s
  <2>5. Ranked(r)
    <3>1. ASSUME NEW i \in 1..Len(r), NEW j \in 1..Len(r), i < j
          PROVE  arrival[r[i]] < arrival[r[j]]
      <4>1. i \in 1..Len(running)
        BY <3>1, <2>3
      <4>2. CASE j = Len(running) + 1
        BY <4>1, <4>2, <2>3, <2>4
      <4>3. CASE j \in 1..Len(running)
        BY <1>1, <3>1, <4>1, <4>3, <2>3 DEF Ranked
      <4>. QED
        BY <4>2, <4>3, <2>3
    <3>. QED
      BY <3>1 DEF Ranked
  <2>6. Ranked(running)' /\ Ranked(waiting)'
    BY <2>1, <2>2, <2>5 DEF Ranked
  <2>7. \A t \in Members(r) \cup Members(waiting') : arrival[t] > 0
    BY <1>1, <2>2, <2>3 DEF OrderShape
  <2>8. \A t \in Members(r), u \in Members(waiting') : arrival[t] < arrival[u]
    BY <1>1, <2>2, <2>3 DEF OrderShape
  <2>. QED
    BY <1>7, <2>1, <2>6, <2>7, <2>8
\* Whoever stops running leaves the order of the others alone.
<1>12. ASSUME arrival' = arrival, inbox' = inbox, waiting' = waiting,
              Ranked(running'), Members(running') \subseteq Members(running)
       PROVE  OrderShape'
  <2>1. Ranked(running)' /\ Ranked(waiting)'
    BY <1>1, <1>12 DEF Ranked
  <2>2. \A s \in Members(running') \cup Members(waiting') : arrival[s] > 0
    BY <1>1, <1>12 DEF OrderShape
  <2>3. \A s \in Members(running'), t \in Members(waiting') : arrival[s] < arrival[t]
    BY <1>1, <1>12 DEF OrderShape
  <2>. QED
    BY <1>7, <1>12, <2>1, <2>2, <2>3
<1>13. CASE Finish
  <2>1. at \in 1..Len(running) /\ UNCHANGED <<arrival, inbox, waiting>>
    BY <1>1, <1>13, MembersFacts DEF Finish, StageShape, clientVars
  <2>2. Ranked(RemoveIndex(running, at))
        /\ Members(RemoveIndex(running, at)) \subseteq Members(running)
    BY <1>1, <2>1, RemoveRanked
  <2>3. running' = running \/ running' = RemoveIndex(running, at)
    BY <1>13 DEF Finish
  <2>. QED
    BY <1>1, <1>12, <2>1, <2>2, <2>3
<1>14. CASE AbortOne
  <2>1. running # <<>> /\ running' = Tail(running) /\ UNCHANGED <<arrival, inbox, waiting>>
    BY <1>14 DEF AbortOne, clientVars
  <2>2. Ranked(Tail(running)) /\ Members(Tail(running)) \subseteq Members(running)
    BY <1>1, <2>1, HeadRanked, TailFacts
  <2>. QED
    BY <1>12, <2>1, <2>2
<1>15. CASE AbortDone
  <2>1. running' = running /\ running = <<>> /\ waiting' = <<>> /\ UNCHANGED <<arrival, inbox>>
    BY <1>15 DEF AbortDone
  <2>2. \A q : q = <<>> => Members(q) = {} /\ Len(q) = 0
    BY DEF Members
  <2>3. Ranked(running)' /\ Ranked(waiting)'
    BY <2>1, <2>2 DEF Ranked
  <2>. QED
    BY <1>7, <2>1, <2>2, <2>3
<1>. QED
  BY <1>3, <1>4, <1>5, <1>6, <1>8, <1>9, <1>10, <1>11, <1>13, <1>14, <1>15 DEF Next, Worker

\* A queued request has budget left: on_step_done takes it out when it has not.
LEMMA BudgetInv ==
    ASSUME BatchIInv, [Next]_vars, KvInv'
    PROVE  BudgetShape'
<1>. USE DEF BatchIInv
<1>1. /\ StageShape /\ OrderShape /\ BudgetShape
      /\ inbox \in Seq(SeqId) /\ waiting \in Seq(SeqId) /\ running \in Seq(SeqId)
      /\ arrival \in [SeqId -> Nat] /\ gen \in [SeqId -> Nat]
      /\ Ranked(running) /\ Ranked(waiting)
  BY DEF StageShape, OrderShape
<1>2. ASSUME UNCHANGED <<arrival, gen>>,
             Members(running') \cup Members(waiting') \subseteq Members(running) \cup Members(waiting)
      PROVE  BudgetShape'
  BY <1>1, <1>2 DEF BudgetShape, Members
<1>3. CASE Stop \/ Exit \/ GrowDone \/ AdmitDone \/ ForwardOk \/ ForwardErr \/ Publish
           \/ Record \/ Emit \/ UNCHANGED vars
  <2>1. UNCHANGED <<arrival, gen, running, waiting>>
    BY <1>3 DEF Stop, Exit, GrowDone, AdmitDone, ForwardOk, ForwardErr, Publish, Record,
                Emit, vars, schedVars
  <2>. QED
    BY <1>2, <2>1
<1>4. CASE GrowOne
  BY <1>2, <1>4, GrowFacts DEF schedVars
<1>5. CASE Admit
  BY <1>2, <1>5, AdmitFacts DEF schedVars
<1>6. CASE BeginStep
  <2>1. running' = running
    BY <1>1, <1>6, SortedStays DEF BeginStep
  <2>. QED
    BY <1>2, <1>6, <2>1 DEF BeginStep
<1>7. ASSUME NEW s \in SeqId, Submit(s) PROVE BudgetShape'
  BY <1>2, <1>7 DEF Submit, schedVars
<1>8. CASE Receive
  <2>. DEFINE s == Head(inbox)
  <2>1. /\ inbox # <<>> /\ waiting' = Append(waiting, s) /\ running' = running /\ gen' = gen
        /\ arrival' = [arrival EXCEPT ![s] = 1 + Cardinality(Arrived)]
    BY <1>8 DEF Receive, Arrived
  <2>2. s \in SeqId /\ arrival[s] = 0
    BY <1>1, <2>1, TailFacts DEF OrderShape
  <2>3. Members(waiting') = Members(waiting) \cup {s}
    BY <1>1, <2>1, <2>2, AppendFacts
  <2>4. gen[s] = 0 /\ gen[s] < MaxNew[s]
    BY <1>1, <2>2, SchedulerAssumption DEF BudgetShape
  <2>. HIDE DEF s
  <2>5. \A t \in SeqId : arrival'[t] = 0 => gen[t] = 0
    BY <1>1, <2>1, <2>4 DEF BudgetShape
  <2>6. \A t \in Members(running) \cup Members(waiting') : gen[t] < MaxNew[t]
    BY <1>1, <2>3, <2>4 DEF BudgetShape
  <2>. QED
    BY <2>1, <2>5, <2>6 DEF BudgetShape, Members
<1>9. CASE Preempt
  <2>. DEFINE v == running[Newest]
  <2>1. /\ running' = RemoveIndex(running, Newest) /\ waiting' = <<v>> \o waiting
        /\ UNCHANGED <<arrival, gen>> /\ Newest \in 1..Len(running)
    BY <1>1, <1>9, MembersFacts DEF Preempt, Requeue, StageShape, Newest
  <2>2. Members(running') = Members(running) \ {v} /\ v \in Members(running) /\ v \in SeqId
    BY <1>1, <2>1, RemoveRanked, MembersFacts
  <2>3. Members(waiting') = {v} \cup Members(waiting)
    BY <1>1, <2>1, <2>2, ConsFacts
  <2>. QED
    BY <1>2, <2>1, <2>2, <2>3
<1>10. CASE Extend
  <2>1. /\ waiting # <<>> /\ Head(waiting) \in SeqId
        /\ waiting' = Tail(waiting) /\ running' = Append(running, Head(waiting))
        /\ UNCHANGED <<arrival, gen>>
    BY <1>10, ExtendFacts
  <2>2. Members(running') = Members(running) \cup {Head(waiting)}
    BY <1>1, <2>1, AppendFacts
  <2>3. Members(waiting) = {Head(waiting)} \cup Members(waiting')
    BY <1>1, <2>1, TailFacts
  <2>. QED
    BY <1>2, <2>1, <2>2, <2>3
<1>11. CASE Finish
  <2>. DEFINE s == running[at]
  <2>1. at \in 1..Len(running) /\ UNCHANGED <<arrival, waiting>>
        /\ gen' = [gen EXCEPT ![s] = gen[s] + 1]
        /\ \/ Outcome(s) = "Runs" /\ running' = running
           \/ running' = RemoveIndex(running, at)
    BY <1>1, <1>11, MembersFacts DEF Finish, StageShape
  <2>2. s \in SeqId /\ s \in Members(running) /\ arrival[s] > 0
    BY <1>1, <2>1, MembersFacts DEF OrderShape
  <2>3. \A t \in Members(running) \cup Members(waiting) : t \in SeqId /\ gen[t] < MaxNew[t]
    BY <1>1, MembersFacts DEF BudgetShape
  <2>4. s \notin Members(waiting)
    BY <1>1, <2>2 DEF OrderShape
  <2>5. \A t \in SeqId : gen'[t] = IF t = s THEN gen[s] + 1 ELSE gen[t]
    BY <1>1, <2>1
  <2>8. ASSUME \A t \in Members(running') \cup Members(waiting') : gen'[t] < MaxNew[t]
        PROVE  BudgetShape'
    <3>. HIDE DEF s
    <3>1. \A t \in SeqId : arrival[t] = 0 => t # s /\ gen[t] = 0
      BY <1>1, <2>2 DEF BudgetShape
    <3>2. \A t \in SeqId : arrival'[t] = 0 => gen'[t] = 0
      BY <2>1, <2>5, <3>1
    <3>3. \A t \in Members(running)' \cup Members(waiting)' : gen'[t] < MaxNew[t]
      BY <2>8 DEF Members
    <3>. QED
      BY <3>2, <3>3 DEF BudgetShape
  <2>6. CASE Outcome(s) = "Runs" /\ running' = running
    <3>1. ~(gen[s] + 1 >= MaxNew[s])
      BY <2>6 DEF Outcome
    <3>2. gen[s] + 1 < MaxNew[s]
      BY <1>1, <2>2, <3>1, SchedulerAssumption
    <3>. HIDE DEF s
    <3>3. \A t \in Members(running) \cup Members(waiting) : gen'[t] < MaxNew[t]
      BY <2>3, <2>5, <3>2
    <3>4. Members(running') = Members(running) /\ Members(waiting') = Members(waiting)
      BY <2>1, <2>6
    <3>5. \A t \in Members(running') \cup Members(waiting') : gen'[t] < MaxNew[t]
      BY <3>3, <3>4
    <3>. QED
      BY <2>8, <3>5
  <2>7. CASE running' = RemoveIndex(running, at)
    <3>1. Members(running') = Members(running) \ {s}
      BY <1>1, <2>1, <2>7, RemoveRanked
    <3>. HIDE DEF s
    <3>2. \A t \in Members(running') \cup Members(waiting') : gen'[t] < MaxNew[t]
      BY <2>1, <2>3, <2>4, <2>5, <3>1
    <3>. QED
      BY <2>8, <3>2
  <2>. QED
    BY <2>1, <2>6, <2>7
<1>12. CASE AbortOne
  <2>1. running # <<>> /\ running' = Tail(running) /\ UNCHANGED <<arrival, gen, waiting>>
    BY <1>12 DEF AbortOne
  <2>2. Members(Tail(running)) \subseteq Members(running)
    BY <1>1, <2>1, TailFacts
  <2>. QED
    BY <1>2, <2>1, <2>2
<1>13. CASE AbortDone
  <2>1. running' = running /\ waiting' = <<>> /\ UNCHANGED <<arrival, gen>>
    BY <1>13 DEF AbortDone
  <2>2. Members(<<>>) = {}
    BY DEF Members
  <2>. QED
    BY <1>2, <2>1, <2>2
<1>. QED
  BY <1>3, <1>4, <1>5, <1>6, <1>7, <1>8, <1>9, <1>10, <1>11, <1>12, <1>13 DEF Next, Worker

\* The plan keeps listing the running sequences, in their order.
LEMMA PlanInv ==
    ASSUME BatchIInv, [Next]_vars, KvInv'
    PROVE  PlanShape'
<1>. USE DEF BatchIInv
<1>1. /\ StageShape /\ PlanShape /\ running \in Seq(SeqId) /\ Len(running) \in Nat
      /\ at \in Nat \ {0}
      /\ Len(plan.prefills) \in Nat /\ Len(plan.decodes) \in Nat
      /\ plan.prefills \in Seq(PrefillItem) /\ plan.decodes \in Seq(DecodeItem)
  BY MembersFacts, PlanFacts DEF StageShape
<1>2. CASE Stop \/ UNCHANGED vars \/ \E s \in SeqId : Submit(s)
  BY <1>1, <1>2 DEF Stop, Submit, vars, schedVars, stepVars, PlanShape
<1>3. CASE Receive \/ Exit \/ ForwardErr \/ Finish \/ Emit \/ AbortOne \/ AbortDone \/ Record
  BY <1>3 DEF Receive, Exit, ForwardErr, Finish, Emit, AbortOne, AbortDone, Record, PlanShape
<1>4. CASE BeginStep
  <2>1. running' = running
    BY <1>1, <1>4, SortedStays DEF BeginStep, StageShape, OrderShape
  <2>2. plan'.prefills = <<>> /\ plan'.decodes = <<>> /\ at' = 1 /\ pc' = "grow"
    BY <1>4 DEF BeginStep, NoPlan
  <2>3. Len(<<>>) = 0
    OBVIOUS
  <2>4. 1 <= Len(running) + 1 /\ 1 - 1 = 0
    BY <1>1
  <2>. QED
    BY <2>1, <2>2, <2>3, <2>4 DEF PlanShape
<1>5. CASE GrowOne
  <2>1. /\ at \in 1..Len(running) /\ pc = "grow" /\ pc' = "grow" /\ at' = at + 1 /\ running' = running
    BY <1>5, GrowFacts DEF schedVars
  <2>2. PICK d \in DecodeItem :
          /\ d.seq = running[at] /\ plan'.decodes = Append(plan.decodes, d)
          /\ plan'.prefills = plan.prefills
    BY <1>5, GrowFacts
  <2>3. /\ Len(plan'.decodes) = Len(plan.decodes) + 1
        /\ \A i \in 1..Len(plan.decodes) : plan'.decodes[i] = plan.decodes[i]
        /\ plan'.decodes[Len(plan.decodes) + 1] = d
    BY <1>1, <2>2, AppendFacts
  <2>4. /\ plan.prefills = <<>> /\ Len(plan.decodes) = at - 1
        /\ \A i \in 1..Len(plan.decodes) : plan.decodes[i].seq = running[i]
    BY <1>1, <2>1 DEF PlanShape
  <2>5. \A i \in 1..Len(plan'.decodes) : plan'.decodes[i].seq = running[i]
    <3>1. \A i \in 1..Len(plan'.decodes) : i \in 1..Len(plan.decodes) \/ i = Len(plan.decodes) + 1
      BY <1>1, <2>3
    <3>2. Len(plan.decodes) + 1 = at
      BY <2>1, <2>4
    <3>. QED
      BY <2>2, <2>3, <2>4, <3>1, <3>2
  <2>6. Len(plan'.prefills) = 0 /\ plan'.prefills = <<>>
    BY <2>2, <2>4
  <2>7. Len(plan'.decodes) = at' - 1 /\ at' <= Len(running) + 1
    BY <1>1, <2>1, <2>3, <2>4
  <2>. QED
    BY <2>1, <2>5, <2>6, <2>7 DEF PlanShape
<1>6. CASE Preempt
  <2>1. /\ pc = "grow" /\ pc' = "grow" /\ at' = at /\ plan' = plan
        /\ running' = RemoveIndex(running, Newest) /\ at <= Len(running)
    BY <1>6 DEF Preempt, stepVars
  <2>2. Newest \in 1..Len(running) /\ Newest = Len(running)
    BY <1>1, <2>1 DEF Newest
  <2>3. /\ Len(running') = Len(running) - 1
        /\ \A j \in 1..(Len(running) - 1) :
             running'[j] = IF j < Newest THEN running[j] ELSE running[j + 1]
    BY <1>1, <2>1, <2>2, RemoveFacts
  <2>4. /\ plan.prefills = <<>> /\ Len(plan.decodes) = at - 1
        /\ \A i \in 1..Len(plan.decodes) : plan.decodes[i].seq = running[i]
    BY <1>1, <2>1 DEF PlanShape
  <2>5. \A i \in 1..Len(plan.decodes) : i \in 1..(Len(running) - 1) /\ i < Newest
    BY <1>1, <2>1, <2>2, <2>4
  <2>6. \A i \in 1..Len(plan.decodes) : plan.decodes[i].seq = running'[i]
    BY <2>3, <2>4, <2>5
  <2>7. at <= Len(running') + 1 /\ Len(plan.prefills) = 0
    BY <1>1, <2>1, <2>3, <2>4
  <2>. QED
    BY <2>1, <2>4, <2>6, <2>7 DEF PlanShape
<1>7. CASE GrowDone
  <2>1. /\ pc = "grow" /\ pc' = "admit" /\ running' = running /\ plan' = plan /\ at > Len(running)
    BY <1>7 DEF GrowDone, schedVars
  <2>2. /\ plan.prefills = <<>> /\ Len(plan.decodes) = at - 1 /\ at <= Len(running) + 1
        /\ \A i \in 1..Len(plan.decodes) : plan.decodes[i].seq = running[i]
    BY <1>1, <2>1 DEF PlanShape
  <2>3. Len(plan.prefills) = 0 /\ Len(running) = Len(plan.decodes) + Len(plan.prefills)
    BY <1>1, <2>1, <2>2
  <2>. QED
    BY <2>1, <2>2, <2>3 DEF PlanShape
<1>8. CASE Admit
  <2>1. pc = "admit" /\ pc' = "extend" /\ running' = running /\ plan' = plan
    BY <1>8, AdmitFacts DEF schedVars
  <2>. QED
    BY <1>1, <2>1 DEF PlanShape
<1>9. CASE Extend
  <2>1. /\ pc = "extend" /\ pc' = "admit" /\ Head(waiting) \in SeqId
        /\ running' = Append(running, Head(waiting))
    BY <1>9, ExtendFacts
  <2>2. PICK p \in PrefillItem :
          /\ p.seq = Head(waiting) /\ plan'.prefills = Append(plan.prefills, p)
          /\ plan'.decodes = plan.decodes
    BY <1>9, ExtendFacts
  <2>3. /\ Len(plan'.prefills) = Len(plan.prefills) + 1
        /\ \A i \in 1..Len(plan.prefills) : plan'.prefills[i] = plan.prefills[i]
        /\ plan'.prefills[Len(plan.prefills) + 1] = p
    BY <1>1, <2>2, AppendFacts
  <2>4. /\ Len(running') = Len(running) + 1
        /\ \A i \in 1..Len(running) : running'[i] = running[i]
        /\ running'[Len(running) + 1] = Head(waiting)
    BY <1>1, <2>1, AppendFacts
  <2>5. /\ Len(running) = Len(plan.decodes) + Len(plan.prefills)
        /\ \A i \in 1..Len(plan.decodes) : plan.decodes[i].seq = running[i]
        /\ \A i \in 1..Len(plan.prefills) :
             plan.prefills[i].seq = running[Len(plan.decodes) + i]
    BY <1>1, <2>1 DEF PlanShape
  <2>. DEFINE nd == Len(plan.decodes)
              np == Len(plan.prefills)
              nr == Len(running)
  <2>6. nd \in Nat /\ np \in Nat /\ nr \in Nat /\ nr = nd + np
    BY <1>1, <2>5
  <2>7. /\ \A i \in 1..nd : i \in 1..nr
        /\ \A i \in 1..np : nd + i \in 1..nr
        /\ \A i \in 1..(np + 1) : i \in 1..np \/ i = np + 1
        /\ nd + (np + 1) = nr + 1
    <3>. HIDE DEF nd, np, nr
    <3>. QED
      BY <2>6
  <2>8. \A i \in 1..nd : plan'.decodes[i].seq = running'[i]
    BY <2>2, <2>4, <2>5, <2>7
  <2>9. \A i \in 1..np : plan'.prefills[i].seq = running'[nd + i]
    BY <2>3, <2>4, <2>5, <2>7
  <2>10. plan'.prefills[np + 1].seq = running'[nd + (np + 1)]
    BY <2>2, <2>3, <2>4, <2>7
  <2>11. \A i \in 1..(np + 1) : plan'.prefills[i].seq = running'[nd + i]
    BY <2>7, <2>9, <2>10
  <2>12. Len(plan'.decodes) = nd /\ Len(plan'.prefills) = np + 1 /\ Len(running') = nr + 1
    BY <2>2, <2>3, <2>4
  <2>. HIDE DEF nd, np, nr
  <2>13. Len(running') = Len(plan'.decodes) + Len(plan'.prefills)
    BY <2>6, <2>12
  <2>. QED
    BY <2>1, <2>8, <2>11, <2>12, <2>13 DEF PlanShape
<1>10. CASE AdmitDone
  <2>1. pc = "admit" /\ pc' \in {"drain", "forward"} /\ running' = running /\ plan' = plan
    BY <1>10 DEF AdmitDone, schedVars, stepVars
  <2>. QED
    BY <1>1, <2>1 DEF PlanShape
<1>11. CASE ForwardOk
  <2>1. pc = "forward" /\ pc' = "publish" /\ running' = running /\ plan' = plan
    BY <1>11 DEF ForwardOk, schedVars
  <2>. QED
    BY <1>1, <2>1 DEF PlanShape
<1>12. CASE Publish
  <2>1. pc = "publish" /\ pc' = "publish" /\ running' = running /\ plan' = plan
    BY <1>12 DEF Publish, schedVars, stepVars
  <2>. QED
    BY <1>1, <2>1 DEF PlanShape
<1>. QED
  BY <1>2, <1>3, <1>4, <1>5, <1>6, <1>7, <1>8, <1>9, <1>10, <1>11, <1>12 DEF Next, Worker

\* A sequence that stops running gives its KV up; the others keep theirs.
LEMMA FreeFacts ==
    ASSUME KvTypeOK, NEW s \in SeqId, Free(s)
    PROVE  /\ live' = live \ {s}
           /\ \A t \in SeqId \ {s} : len'[t] = len[t]
  BY DEF Free, KvTypeOK

\* KV is held for the running sequences and the one being admitted, and its
\* length follows the tokens each of them has.
LEMMA HoldInv ==
    ASSUME BatchIInv, [Next]_vars, KvInv'
    PROVE  HoldShape'
<1>. USE DEF BatchIInv
<1>1. /\ StageShape /\ OrderShape /\ PlanShape /\ HoldShape
      /\ KvTypeOK
      /\ waiting \in Seq(SeqId) /\ running \in Seq(SeqId)
      /\ arrival \in [SeqId -> Nat] /\ gen \in [SeqId -> Nat]
      /\ Ranked(running)
      /\ Len(running) \in Nat /\ at \in Nat \ {0}
      /\ \A i \in 1..Len(running) : running[i] \in SeqId /\ running[i] \in Members(running)
      /\ \A i, j \in 1..Len(running) : running[i] = running[j] => i = j
  <2>1. /\ StageShape /\ OrderShape /\ PlanShape /\ HoldShape /\ KvTypeOK
        /\ waiting \in Seq(SeqId) /\ running \in Seq(SeqId)
        /\ arrival \in [SeqId -> Nat] /\ gen \in [SeqId -> Nat]
        /\ Ranked(running) /\ at \in Nat \ {0}
    BY DEF StageShape, OrderShape, KvInv
  <2>. QED
    BY <2>1, RankedDistinct, MembersFacts
<1>2. /\ pc # "extend" => live = Members(running)
      /\ pc \notin {"abort", "stopped"} =>
           \A i \in 1..Len(running) :
             len[running[i]] + Behind(i) = Len(Prompt[running[i]]) + gen[running[i]]
  BY <1>1 DEF HoldShape, CtxLen
<1>3. CASE Stop \/ UNCHANGED vars \/ \E s \in SeqId : Submit(s)
  <2>1. UNCHANGED <<kvVars, schedVars, pc, at>>
    BY <1>3 DEF Stop, Submit, vars
  <2>. QED
    BY <1>1, <2>1 DEF kvVars, schedVars, HoldShape, Members, CtxLen, Behind, AppendFits, Grow,
                      Reclaimable, Idle, Cached
<1>4. ASSUME UNCHANGED <<live, len, running, gen>>, pc # "extend", pc' # "extend",
             pc' \notin {"abort", "stopped"} =>
               /\ pc \notin {"abort", "stopped"}
               /\ \A i \in 1..Len(running) : Behind(i)' = Behind(i)
      PROVE  HoldShape'
  BY <1>2, <1>4 DEF HoldShape, Members, CtxLen
<1>5. CASE Receive
  <2>1. UNCHANGED <<live, len, running, gen>> /\ pc = "drain" /\ pc' = "drain"
    BY <1>5 DEF Receive, kvVars
  <2>. QED
    BY <1>4, <2>1 DEF Behind
<1>6. CASE Exit
  BY <1>4, <1>6 DEF Exit, kvVars, schedVars
<1>7. CASE BeginStep
  <2>1. running' = running
    BY <1>1, <1>7, SortedStays DEF BeginStep
  <2>2. UNCHANGED <<live, len, running, gen>> /\ pc = "drain" /\ pc' = "grow" /\ at' = 1
    BY <1>7, <2>1 DEF BeginStep, kvVars
  <2>3. \A i \in 1..Len(running) : i >= 1
    BY <1>1
  <2>. QED
    BY <1>4, <2>2, <2>3 DEF Behind
<1>8. CASE GrowOne
  <2>. DEFINE s == running[at]
  <2>1. /\ at \in 1..Len(running) /\ pc = "grow" /\ pc' = "grow" /\ at' = at + 1
        /\ len'[s] = len[s] + 1
        /\ \A t \in SeqId \ {s} : len'[t] = len[t]
        /\ live' = live /\ running' = running /\ gen' = gen
    BY <1>8, GrowFacts DEF schedVars
  <2>2. ASSUME NEW i \in 1..Len(running)
        PROVE  len'[running[i]] + Behind(i)' = Len(Prompt[running[i]]) + gen[running[i]]
    <3>1. len[running[i]] \in Nat
          /\ len[running[i]] + Behind(i) = Len(Prompt[running[i]]) + gen[running[i]]
      BY <1>1, <1>2, <2>1 DEF KvTypeOK
    <3>2. CASE i = at
      <4>1. Behind(i) = 1 /\ Behind(i)' = 0
        BY <1>1, <2>1, <3>2 DEF Behind
      <4>2. len'[running[i]] = len[running[i]] + 1
        BY <2>1, <3>2
      <4>. QED
        BY <3>1, <4>1, <4>2
    <3>3. CASE i # at
      <4>1. running[i] \in SeqId \ {s}
        BY <1>1, <2>1, <3>3
      <4>2. Behind(i)' = Behind(i)
        BY <1>1, <2>1, <3>3 DEF Behind
      <4>. QED
        BY <2>1, <3>1, <4>1, <4>2
    <3>. QED
      BY <3>2, <3>3
  <2>. HIDE DEF s
  <2>. QED
    BY <1>2, <2>1, <2>2 DEF HoldShape, Members, CtxLen
\* One sequence leaves; whoever stays is as far behind as before.
<1>9. ASSUME NEW k \in 1..Len(running), Free(running[k]), running' = RemoveIndex(running, k),
             pc' = pc, pc # "extend", pc # "abort", pc # "stopped",
             \A t \in SeqId \ {running[k]} : gen'[t] = gen[t],
             \A i \in 1..(Len(running) - 1) :
               Behind(i)' = Behind(IF i < k THEN i ELSE i + 1)
      PROVE  HoldShape'
  <2>. DEFINE v == running[k]
              old(i) == IF i < k THEN i ELSE i + 1
  <2>1. v \in SeqId /\ live' = live \ {v} /\ \A t \in SeqId \ {v} : len'[t] = len[t]
    BY <1>1, <1>9, FreeFacts
  <2>2. /\ Len(running') = Len(running) - 1
        /\ \A i \in 1..(Len(running) - 1) : running'[i] = running[old(i)]
    BY <1>1, <1>9, RemoveFacts
  <2>3. Members(running') = Members(running) \ {v}
    BY <1>1, <1>9, RemoveRanked
  <2>4. \A i \in 1..(Len(running) - 1) : old(i) \in 1..Len(running) /\ old(i) # k
    BY <1>1
  <2>5. \A i \in 1..(Len(running) - 1) : Behind(i)' = Behind(old(i))
    BY <1>9
  <2>. HIDE DEF old
  <2>6. ASSUME NEW i \in 1..(Len(running) - 1)
        PROVE  len'[running'[i]] + Behind(i)' = Len(Prompt[running'[i]]) + gen'[running'[i]]
    <3>1. old(i) \in 1..Len(running) /\ running[old(i)] \in SeqId \ {v}
      BY <1>1, <2>4
    <3>2. /\ running'[i] = running[old(i)]
          /\ len'[running[old(i)]] = len[running[old(i)]]
          /\ gen'[running[old(i)]] = gen[running[old(i)]]
      BY <1>9, <2>1, <2>2, <3>1
    <3>3. len[running[old(i)]] + Behind(old(i))
            = Len(Prompt[running[old(i)]]) + gen[running[old(i)]]
      BY <1>2, <1>9, <3>1
    <3>. QED
      BY <2>5, <3>2, <3>3
  <2>7. live' = Members(running')
    BY <1>2, <1>9, <2>1, <2>3
  <2>. HIDE DEF v
  <2>. QED
    BY <1>9, <2>2, <2>6, <2>7 DEF HoldShape, Members, CtxLen
<1>10. CASE Preempt
  <2>1. /\ Newest \in 1..Len(running) /\ pc = "grow" /\ pc' = pc /\ at' = at /\ gen' = gen
        /\ Free(running[Newest]) /\ running' = RemoveIndex(running, Newest)
    BY <1>1, <1>10 DEF Preempt, Newest
  <2>2. \A i \in 1..(Len(running) - 1) : Behind(i)' = Behind(IF i < Newest THEN i ELSE i + 1)
    BY <1>1, <2>1 DEF Behind, Newest
  <2>. QED
    BY <1>9, <2>1, <2>2
<1>11. CASE GrowDone
  <2>1. UNCHANGED <<live, len, running, gen>> /\ pc = "grow" /\ pc' = "admit" /\ at > Len(running)
    BY <1>11 DEF GrowDone, kvVars, schedVars
  <2>2. \A i \in 1..Len(running) : ~(i >= at)
    BY <1>1, <2>1
  <2>. QED
    BY <1>4, <2>1, <2>2 DEF Behind
<1>12. CASE Admit
  <2>. DEFINE s == Head(waiting)
  <2>1. /\ pc = "admit" /\ pc' = "extend" /\ waiting # <<>> /\ s \in SeqId /\ s \notin live
        /\ live' = live \cup {s} /\ len'[s] = Len(Prompt[s])
        /\ \A t \in SeqId \ {s} : len'[t] = len[t]
        /\ AppendFits(s, gen[s])'
        /\ UNCHANGED <<arrival, waiting, running, gen, at>>
    BY <1>12, AdmitFacts DEF schedVars
  <2>2. live' = Members(running) \cup {s}
    BY <1>2, <2>1
  <2>3. ASSUME NEW i \in 1..Len(running)
        PROVE  len'[running[i]] + Behind(i)' = Len(Prompt[running[i]]) + gen[running[i]]
    <3>1. running[i] \in SeqId \ {s}
      BY <1>1, <1>2, <2>1
    <3>2. Behind(i) = 0 /\ Behind(i)' = 0
      BY <2>1 DEF Behind
    <3>. QED
      BY <1>2, <2>1, <3>1, <3>2
  <2>4. AppendFits(Head(waiting), gen[Head(waiting)])'
    BY <2>1
  <2>5. Members(running)' = Members(running) /\ Head(waiting)' = Head(waiting)
    BY <2>1 DEF Members
  <2>. QED
    BY <2>1, <2>2, <2>3, <2>4, <2>5 DEF HoldShape, CtxLen
<1>13. CASE Extend
  <2>. DEFINE s == Head(waiting)
              r == Append(running, s)
  <2>1. /\ pc = "extend" /\ pc' = "admit" /\ waiting # <<>> /\ s \in SeqId
        /\ running' = r /\ live' = live /\ gen' = gen
        /\ len'[s] = CtxLen(s) /\ \A t \in SeqId \ {s} : len'[t] = len[t]
    BY <1>13, ExtendFacts
  <2>2. live = Members(running) \cup {s}
    BY <1>1, <2>1 DEF HoldShape
  <2>3. /\ Len(r) = Len(running) + 1
        /\ \A i \in 1..Len(running) : r[i] = running[i]
        /\ r[Len(running) + 1] = s
        /\ Members(r) = Members(running) \cup {s}
    BY <1>1, <2>1, AppendFacts
  <2>4. s \notin Members(running)
    <3>1. s \in Members(waiting)
      BY <1>1, <2>1, TailFacts
    <3>2. s \in Members(running) => arrival[s] < arrival[s]
      BY <1>1, <3>1 DEF OrderShape
    <3>. QED
      BY <1>1, <2>1, <3>2
  <2>5. len[s] + 0 = len[s] /\ CtxLen(s) = Len(Prompt[s]) + gen[s] /\ CtxLen(s) + 0 = CtxLen(s)
    <3>1. s \in Members(running) \cup Members(waiting)
      BY <1>1, <2>1, TailFacts
    <3>. QED
      BY <1>1, <2>1, <3>1, QueuedFacts, SMTT(30) DEF KvTypeOK
  <2>. HIDE DEF s, r
  <2>6. \A i : Behind(i) = 0 /\ Behind(i)' = 0
    BY <2>1 DEF Behind
  <2>7. ASSUME NEW i \in 1..Len(r)
        PROVE  len'[r[i]] + 0 = Len(Prompt[r[i]]) + gen[r[i]]
    <3>1. CASE i \in 1..Len(running)
      <4>1. r[i] = running[i] /\ running[i] \in SeqId \ {s}
        BY <1>1, <2>3, <2>4, <3>1
      <4>2. len[running[i]] + 0 = Len(Prompt[running[i]]) + gen[running[i]]
        BY <1>2, <2>1, <2>6, <3>1
      <4>. QED
        BY <2>1, <4>1, <4>2
    <3>2. CASE i = Len(running) + 1
      BY <2>1, <2>3, <2>5, <3>2
    <3>. QED
      BY <1>1, <2>3, <3>1, <3>2
  <2>8. \A i \in 1..Len(r) : len'[r[i]] + Behind(i)' = Len(Prompt[r[i]]) + gen[r[i]]
    BY <2>6, <2>7
  <2>. QED
    BY <2>1, <2>2, <2>3, <2>8 DEF HoldShape, CtxLen, Members
<1>14. CASE AdmitDone
  <2>1. UNCHANGED <<live, len, running, gen>> /\ pc = "admit"
    BY <1>14 DEF AdmitDone, kvVars, schedVars
  <2>2. CASE plan = NoPlan
    <3>1. pc' = "drain"
      BY <1>14, <2>2 DEF AdmitDone
    <3>2. Len(running) = Len(plan.decodes) + Len(plan.prefills)
      BY <1>1, <2>1 DEF PlanShape
    <3>3. Len(plan.decodes) = 0 /\ Len(plan.prefills) = 0
      BY <2>2 DEF NoPlan
    <3>4. \A i \in 1..Len(running) : FALSE
      BY <3>2, <3>3
    <3>. QED
      BY <1>4, <2>1, <3>1, <3>4
  <2>3. CASE plan # NoPlan
    <3>1. pc' = "forward"
      BY <1>14, <2>3 DEF AdmitDone
    <3>. QED
      BY <1>4, <2>1, <3>1 DEF Behind
  <2>. QED
    BY <2>2, <2>3
<1>15. CASE ForwardOk \/ ForwardErr \/ Publish
  <2>1. /\ UNCHANGED <<live, len, running, gen>> /\ pc \in {"forward", "publish"}
        /\ pc' \in {"publish", "abort"}
    BY <1>15 DEF ForwardOk, ForwardErr, Publish, CommitPrefix, kvVars, schedVars
  <2>. QED
    BY <1>4, <2>1 DEF Behind
<1>16. CASE Record
  <2>1. UNCHANGED <<live, len, running, gen>> /\ pc = "publish" /\ pc' = "finish" /\ at' = 1
    BY <1>16 DEF Record, kvVars, schedVars
  <2>2. \A i \in 1..Len(running) : ~(i < 1)
    BY <1>1
  <2>. QED
    BY <1>4, <2>1, <2>2 DEF Behind
<1>17. CASE Finish
  <2>. DEFINE s == running[at]
  <2>1. /\ at \in 1..Len(running) /\ pc = "finish" /\ pc' = "finish"
        /\ gen' = [gen EXCEPT ![s] = gen[s] + 1]
    BY <1>1, <1>17 DEF Finish
  <2>2. s \in SeqId /\ gen'[s] = gen[s] + 1 /\ \A t \in SeqId \ {s} : gen'[t] = gen[t]
    BY <1>1, <2>1
  <2>3. CASE Outcome(s) = "Runs"
    <3>1. UNCHANGED <<live, len, running>> /\ at' = at + 1
      BY <1>17, <2>3 DEF Finish, kvVars
    <3>0. s = running[at]
      OBVIOUS
    <3>. HIDE DEF s
    <3>2. ASSUME NEW i \in 1..Len(running)
          PROVE  len[running[i]] + Behind(i)' = Len(Prompt[running[i]]) + gen'[running[i]]
      <4>1. /\ len[running[i]] \in Nat /\ gen[running[i]] \in Nat
            /\ Len(Prompt[running[i]]) \in Nat
            /\ len[running[i]] + Behind(i) = Len(Prompt[running[i]]) + gen[running[i]]
        <5>1. running[i] \in SeqId
          BY <1>1
        <5>2. len[running[i]] \in Nat /\ gen[running[i]] \in Nat
          BY <1>1, <5>1 DEF KvTypeOK
        <5>3. Len(Prompt[running[i]]) \in Nat
          BY <5>1, PromptAssumption
        <5>. QED
          BY <1>2, <2>1, <5>2, <5>3
      <4>2. CASE i = at
        <5>1. Behind(i) = 0 /\ Behind(i)' = 1
          BY <1>1, <2>1, <3>1, <4>2 DEF Behind
        <5>2. gen'[running[i]] = gen[running[i]] + 1
          BY <2>2, <3>0, <4>2
        <5>3. len[running[i]] + 0 = Len(Prompt[running[i]]) + gen[running[i]]
          BY <4>1, <5>1
        <5>4. \A l, p, g \in Nat : l + 0 = p + g => l + 1 = p + (g + 1)
          OBVIOUS
        <5>5. len[running[i]] + 1 = Len(Prompt[running[i]]) + (gen[running[i]] + 1)
          BY <4>1, <5>3, <5>4
        <5>. QED
          BY <5>1, <5>2, <5>5
      <4>3. CASE i # at
        <5>1. running[i] \in SeqId \ {s}
          BY <1>1, <2>1, <3>0, <4>3
        <5>2. Behind(i)' = Behind(i)
          BY <1>1, <2>1, <3>1, <4>3 DEF Behind
        <5>. QED
          BY <2>2, <4>1, <5>1, <5>2
      <4>. QED
        BY <4>2, <4>3
    <3>. QED
      BY <1>2, <2>1, <3>1, <3>2 DEF HoldShape, Members, CtxLen
  <2>4. CASE Outcome(s) # "Runs"
    <3>1. Free(s) /\ running' = RemoveIndex(running, at) /\ at' = at
      BY <1>17, <2>4 DEF Finish
    <3>2. \A i \in 1..(Len(running) - 1) : Behind(i)' = Behind(IF i < at THEN i ELSE i + 1)
      BY <1>1, <2>1, <3>1 DEF Behind
    <3>. QED
      BY <1>9, <2>1, <2>2, <3>1, <3>2
  <2>. QED
    BY <2>3, <2>4
<1>18. CASE Emit
  <2>1. UNCHANGED <<live, len, running, gen>> /\ pc = "finish" /\ pc' = "drain" /\ at > Len(running)
    BY <1>18 DEF Emit, kvVars, schedVars
  <2>2. \A i \in 1..Len(running) : i < at
    BY <1>1, <2>1
  <2>. QED
    BY <1>4, <2>1, <2>2 DEF Behind
<1>19. CASE AbortOne
  <2>1. running # <<>> /\ pc = "abort" /\ pc' = "abort" /\ running' = Tail(running)
        /\ Free(Head(running))
    BY <1>19 DEF AbortOne
  <2>2. /\ Head(running) \in SeqId
        /\ Members(running) = {Head(running)} \cup Members(Tail(running))
        /\ Head(running) \notin Members(Tail(running))
    BY <1>1, <2>1, TailFacts, HeadRanked
  <2>3. live' = live \ {Head(running)}
    BY <2>1 DEF Free
  <2>4. live' = Members(running')
    BY <1>2, <2>1, <2>2, <2>3
  <2>. QED
    BY <2>1, <2>4 DEF HoldShape, Members
<1>20. CASE AbortDone
  <2>1. running = <<>> /\ running' = <<>> /\ live' = live /\ pc = "abort"
        /\ pc' \in {"stopped", "drain"}
    BY <1>20 DEF AbortDone, kvVars
  <2>2. Len(<<>>) = 0 /\ \A i \in 1..0 : FALSE
    OBVIOUS
  <2>3. live' = Members(running)'
    BY <1>2, <2>1 DEF Members
  <2>. QED
    BY <2>1, <2>2, <2>3 DEF HoldShape
<1>. QED
  BY <1>3, <1>5, <1>6, <1>7, <1>8, <1>10, <1>11, <1>12, <1>13, <1>14, <1>15, <1>16, <1>17,
     <1>18, <1>19, <1>20 DEF Next, Worker

\* The invariant the theorems rest on is inductive.
LEMMA BatchStep == BatchIInv /\ [Next]_vars => BatchIInv'
<1>. SUFFICES ASSUME BatchIInv, [Next]_vars PROVE BatchIInv'
  OBVIOUS
<1>1. KvInv'
  BY BatchKvStep, KvStep DEF BatchIInv
<1>2. StageShape' /\ OrderShape' /\ BudgetShape' /\ PlanShape' /\ HoldShape'
  BY <1>1, StageInv, OrderInv, BudgetInv, PlanInv, HoldInv
<1>. QED
  BY <1>1, <1>2 DEF BatchIInv

-----------------------------------------------------------------------------
(* The theorems *)

\* In every state of the worker the queues, the plan and the allocator agree.
THEOREM BatchInvariant == Spec => []BatchIInv
<1>1. Init => BatchIInv
  BY BatchInit
<1>. QED
  BY <1>1, BatchStep, PTL DEF Spec

\* The scheduler and the engine use the block allocator (paged_kv.rs) only
\* through its operations and within its contract, so everything proved of
\* KvSpec holds under continuous batching.
THEOREM BatchImplementsKv == Spec => KvSpec
<1>1. Init => KvInit
  BY DEF Init
<1>2. BatchIInv /\ [Next]_vars => [KvNext]_kvVars
  BY BatchKvStep
<1>. QED
  BY <1>1, <1>2, BatchInvariant, PTL DEF Spec, KvSpec

\* No `expect' of Scheduler::schedule fires: what can_append promised, the
\* allocator delivers.
THEOREM BatchNoPanic == Spec => []NoPanic
<1>1. BatchIInv => NoPanic
  BY DEF BatchIInv, StageShape, Stage, NoPanic
<1>. QED
  BY <1>1, BatchInvariant, PTL

\* Scheduler.waiting stays in arrival order behind what runs, preemptions
\* included.
THEOREM BatchFirstComeFirstServed == Spec => []FirstComeFirstServed
<1>1. BatchIInv => FirstComeFirstServed
  BY DEF BatchIInv, OrderShape, Ranked, FirstComeFirstServed
<1>. QED
  BY <1>1, BatchInvariant, PTL

-----------------------------------------------------------------------------
(* What continuous batching computes, keeps and sends: every position a       *)
(* sequence reads was computed from its own tokens, every running sequence is *)
(* in the step once, and every client reads its tokens once and in order.     *)

(* The inductive invariant *)

Content == Token \cup GenToken
Planning == {"grow", "admit", "extend", "forward"}

\* Between Record and its turn in Finish a sequence has a token that gen does
\* not count yet.
Uncounted(i) == IF pc = "finish" /\ i >= at THEN 1 ELSE 0

\* The tokens the engine keeps are as many as the scheduler counts.
TokenShape ==
    /\ tokens \in [SeqId -> Seq(GenToken)]
    /\ \A s \in SeqId : arrival[s] = 0 => tokens[s] = <<>>
    /\ \A s \in Members(waiting) : Len(tokens[s]) = gen[s]
    /\ \A i \in 1..Len(running) : Len(tokens[running[i]]) = gen[running[i]] + Uncounted(i)

DecodePlanned(d) ==
    /\ d.table = table[d.seq]
    /\ Len(Prompt[d.seq]) < len[d.seq]
    /\ d.slot = SlotAt(table[d.seq], len[d.seq] - 1)

PrefillPlanned(p) ==
    /\ p.table = table[p.seq]
    /\ p.cached = held[p.seq] * BlockSize
    /\ Len(p.slots) = len[p.seq] - p.cached
    /\ \A j \in 1..Len(p.slots) : p.slots[j] = SlotAt(p.table, p.cached + j - 1)

\* Until the model runs, the plan agrees with the block tables: a decode writes
\* the last position, a prefill everything beyond the shared prefix.
PlanKv ==
    pc \in Planning =>
        /\ \A i \in 1..Len(plan.decodes) : DecodePlanned(plan.decodes[i])
        /\ \A i \in 1..Len(plan.prefills) : PrefillPlanned(plan.prefills[i])

ContentIInv == BatchIInv /\ TokenShape /\ PlanKv /\ SequenceKvFaithful /\ CachedKvFaithful

-----------------------------------------------------------------------------
(* Positions and prefixes *)

\* A position is a block and an offset in it.
LEMMA PositionFacts ==
    /\ \A n \in Nat : /\ n \div BlockSize \in Nat
                      /\ n % BlockSize \in 0..(BlockSize - 1)
                      /\ n = (n \div BlockSize) * BlockSize + (n % BlockSize)
    /\ \A n, k \in Nat : n < k * BlockSize => (n \div BlockSize) + 1 <= k
    /\ \A n, k \in Nat : k * BlockSize <= n => k < (n \div BlockSize) + 1
<1>. USE BlockSizeAssumption
<1>1. \A n \in Nat : /\ n \div BlockSize \in Nat
                     /\ n % BlockSize \in 0..(BlockSize - 1)
                     /\ n = (n \div BlockSize) * BlockSize + (n % BlockSize)
  OBVIOUS
<1>2. ASSUME NEW n \in Nat, NEW k \in Nat, n < k * BlockSize
      PROVE  (n \div BlockSize) + 1 <= k
  <2>. DEFINE q == n \div BlockSize
  <2>1. q \in Nat /\ q * BlockSize <= n
    BY SizeFacts
  <2>. HIDE DEF q
  <2>2. k <= q => k * BlockSize <= q * BlockSize
    BY <2>1
  <2>3. ~(k <= q)
    BY <1>2, <2>1, <2>2
  <2>4. q + 1 <= k
    BY <2>1, <2>3
  <2>. QED
    BY <2>4 DEF q
<1>3. \A n, k \in Nat : k * BlockSize <= n => k < (n \div BlockSize) + 1
  OBVIOUS
<1>. QED
  BY <1>1, <1>2, <1>3

\* Prefixes of a sequence, and of what it is a prefix of.
LEMMA PrefixFacts ==
    ASSUME NEW S, NEW q \in Seq(S), NEW m \in Nat, NEW n \in Nat, m <= n, n <= Len(q)
    PROVE  /\ SubSeq(q, 1, n) \in Seq(S) /\ Len(SubSeq(q, 1, n)) = n
           /\ SubSeq(SubSeq(q, 1, n), 1, m) = SubSeq(q, 1, m)
           /\ SubSeq(q, 1, m) \o SubSeq(q, m + 1, n) = SubSeq(q, 1, n)
           /\ n < Len(q) => Append(SubSeq(q, 1, n), q[n + 1]) = SubSeq(q, 1, n + 1)
<1>1. Len(q) \in Nat /\ \A i \in 1..Len(q) : q[i] \in S
  OBVIOUS
<1>2. \A k \in 0..Len(q) : /\ SubSeq(q, 1, k) \in Seq(S) /\ Len(SubSeq(q, 1, k)) = k
                           /\ \A i \in 1..k : SubSeq(q, 1, k)[i] = q[i]
  OBVIOUS
<1>3. m \in 0..Len(q) /\ n \in 0..Len(q)
  BY <1>1
<1>4. SubSeq(SubSeq(q, 1, n), 1, m) = SubSeq(q, 1, m)
  BY <1>2, <1>3
<1>5. SubSeq(q, 1, m) \o SubSeq(q, m + 1, n) = SubSeq(q, 1, n)
  BY <1>1, <1>2, <1>3
<1>6. n < Len(q) => Append(SubSeq(q, 1, n), q[n + 1]) = SubSeq(q, 1, n + 1)
  BY <1>1, <1>2, <1>3
<1>. QED
  BY <1>2, <1>3, <1>4, <1>5, <1>6

\* What precedes the end of a is the same in whatever continues a.
LEMMA ContinuedPrefix ==
    ASSUME NEW S, NEW a \in Seq(S), NEW b \in Seq(S), NEW n \in Nat, n <= Len(a)
    PROVE  SubSeq(a \o b, 1, n) = SubSeq(a, 1, n)
<1>1. /\ Len(a) \in Nat /\ Len(b) \in Nat /\ Len(a \o b) = Len(a) + Len(b)
      /\ a \o b \in Seq(S)
  OBVIOUS
<1>2. \A i \in 1..n : (a \o b)[i] = a[i]
  OBVIOUS
<1>. QED
  BY <1>1, <1>2

LEMMA HistoryFacts ==
    ASSUME tokens \in [SeqId -> Seq(GenToken)], NEW s \in SeqId
    PROVE  /\ Prompt[s] \in Seq(Content) /\ tokens[s] \in Seq(Content)
           /\ History(s) \in Seq(Content)
           /\ Len(Prompt[s]) \in Nat /\ Len(tokens[s]) \in Nat
           /\ Len(History(s)) = Len(Prompt[s]) + Len(tokens[s])
           /\ \A n \in 0..Len(Prompt[s]) : SubSeq(History(s), 1, n) = SubSeq(Prompt[s], 1, n)
           /\ tokens[s] # <<>> =>
                History(s)[Len(History(s))] = tokens[s][Len(tokens[s])]
<1>1. Prompt[s] \in Seq(Token) /\ tokens[s] \in Seq(GenToken)
  BY PromptAssumption
<1>2. Prompt[s] \in Seq(Content) /\ tokens[s] \in Seq(Content)
  BY <1>1 DEF Content
<1>3. /\ History(s) \in Seq(Content)
      /\ Len(Prompt[s]) \in Nat /\ Len(tokens[s]) \in Nat
      /\ Len(History(s)) = Len(Prompt[s]) + Len(tokens[s])
  BY <1>2 DEF History
<1>4. \A n \in 0..Len(Prompt[s]) : SubSeq(History(s), 1, n) = SubSeq(Prompt[s], 1, n)
  BY <1>2, ContinuedPrefix DEF History
<1>5. tokens[s] # <<>> => History(s)[Len(History(s))] = tokens[s][Len(tokens[s])]
  BY <1>2, <1>3 DEF History
<1>. QED
  BY <1>2, <1>3, <1>4, <1>5

\* A block hash stands for the prompt up to the end of its block.
LEMMA HashContent ==
    ASSUME NEW s \in SeqId, NEW i \in 1..FullBlocks(s)
    PROVE  /\ HashOf(s, i) = SubSeq(Prompt[s], 1, i * BlockSize)
           /\ HashOf(s, i) \in Hash
           /\ i * BlockSize \in Nat /\ i * BlockSize <= Len(Prompt[s])
           /\ Len(HashOf(s, i)) = i * BlockSize
<1>1. HashOf(s, i) = SubSeq(Prompt[s], 1, i * BlockSize)
  BY DEF HashOf, BlockHashes, FullBlocks
<1>2. i * BlockSize <= FullBlocks(s) * BlockSize /\ i * BlockSize \in Nat
  BY FullBlocksFacts, BlockSizeAssumption
<1>3. i * BlockSize <= Len(Prompt[s])
  BY <1>2, FullBlocksFacts, BlockSizeAssumption
<1>4. Prompt[s] \in Seq(Token) /\ HashOf(s, i) \in Hash
  BY PromptAssumption, HashFacts
<1>5. Len(SubSeq(Prompt[s], 1, i * BlockSize)) = i * BlockSize
  BY <1>2, <1>3, <1>4, FullBlocksFacts, PrefixFacts
<1>. QED
  BY <1>1, <1>2, <1>3, <1>4, <1>5

-----------------------------------------------------------------------------
(* Slots of a sequence *)

\* What a live sequence stores at a position below its shared prefix is a cached
\* block, and what it stores beyond is its own.
LEMMA PositionInTable ==
    ASSUME KvInv, NEW s \in live, NEW pos \in Nat, pos < len[s]
    PROVE  /\ (pos \div BlockSize) + 1 \in 1..Len(table[s])
           /\ SlotAt(table[s], pos) \in Slot
           /\ held[s] * BlockSize <= pos => (pos \div BlockSize) + 1 \in OwnedAt(s)
           /\ pos < held[s] * BlockSize => (pos \div BlockSize) + 1 \in 1..held[s]
<1>1. /\ s \in SeqId /\ held[s] \in Nat /\ len[s] \in Nat
      /\ table[s] \in Seq(Block) /\ Len(table[s]) \in Nat
  BY HeldInTable
<1>2. Len(table[s]) = BlocksFor(len[s])
  BY DEF KvInv, TablesCover
<1>3. (pos \div BlockSize) + 1 \in 1..Len(table[s]) /\ SlotAt(table[s], pos) \in Slot
  BY <1>1, <1>2, SlotFacts
<1>4. pos \div BlockSize \in Nat
  BY PositionFacts
<1>5. held[s] * BlockSize <= pos => held[s] < (pos \div BlockSize) + 1
  BY <1>1, PositionFacts
<1>6. pos < held[s] * BlockSize => (pos \div BlockSize) + 1 <= held[s]
  BY <1>1, PositionFacts
<1>. QED
  BY <1>1, <1>3, <1>4, <1>5, <1>6 DEF OwnedAt

\* A slot a sequence owns is that of one position of one sequence.
LEMMA OwnSlotDistinct ==
    ASSUME KvInv, NEW s \in live, NEW t \in live,
           NEW pos \in Nat, held[s] * BlockSize <= pos, pos < len[s],
           NEW q \in Nat, q < len[t],
           SlotAt(table[s], pos) = SlotAt(table[t], q)
    PROVE  s = t /\ pos = q
<1>. DEFINE i == (pos \div BlockSize) + 1
            j == (q \div BlockSize) + 1
<1>1. i \in OwnedAt(s) /\ i \in 1..Len(table[s]) /\ j \in 1..Len(table[t])
  BY PositionInTable
<1>2. table[s][i] = table[t][j] /\ pos % BlockSize = q % BlockSize
  BY DEF SlotAt
<1>3. Owned(s) \cap CachedBlocks = {}
  BY DEF KvInv, NoDoubleUse
<1>4. j \in OwnedAt(t)
  <2>1. held[t] \in Nat /\ t \in SeqId
    BY HeldInTable
  <2>2. j \in 1..held[t] => table[t][j] \in CachedBlocks
    BY DEF KvInv, TablesCover, CachedBlocks
  <2>3. table[s][i] \in Owned(s)
    BY <1>1 DEF Owned
  <2>4. ~(j \in 1..held[t])
    BY <1>2, <1>3, <2>2, <2>3
  <2>. QED
    BY <1>1, <2>1, <2>4 DEF OwnedAt
<1>5. s = t /\ i = j
  BY <1>1, <1>2, <1>4 DEF KvInv, NoDoubleUse
<1>6. pos \div BlockSize = q \div BlockSize
  BY <1>5, PositionFacts
<1>7. pos = (pos \div BlockSize) * BlockSize + (pos % BlockSize)
      /\ q = (q \div BlockSize) * BlockSize + (q % BlockSize)
  BY PositionFacts
<1>. QED
  BY <1>2, <1>5, <1>6, <1>7

\* A slot that some sequence owns is read at one position of one sequence.
OneOwner ==
    \A x, y \in live : \A m, n \in Nat :
        (/\ held[x] * BlockSize <= m /\ m < len[x] /\ n < len[y]
         /\ SlotAt(table[x], m) = SlotAt(table[y], n))
        => x = y /\ m = n

LEMMA OwnSlotsDistinct == KvInv => OneOwner
<1>. SUFFICES ASSUME KvInv, NEW x \in live, NEW y \in live, NEW m \in Nat, NEW n \in Nat,
                     held[x] * BlockSize <= m, m < len[x], n < len[y],
                     SlotAt(table[x], m) = SlotAt(table[y], n)
              PROVE  x = y /\ m = n
  BY DEF OneOwner
<1>. QED
  BY OwnSlotDistinct

\* A slot a sequence owns is in no cached block.
LEMMA OwnSlotUncached ==
    ASSUME KvInv, NEW s \in live, NEW pos \in Nat, held[s] * BlockSize <= pos, pos < len[s]
    PROVE  SlotAt(table[s], pos)[1] \notin CachedBlocks
<1>1. (pos \div BlockSize) + 1 \in OwnedAt(s)
  BY PositionInTable
<1>2. SlotAt(table[s], pos)[1] \in Owned(s)
  BY <1>1 DEF Owned, SlotAt
<1>. QED
  BY <1>2 DEF KvInv, NoDoubleUse

\* The shared prefix of a sequence holds the KV of its own prompt.
LEMMA SharedPrefix ==
    ASSUME KvInv, CachedKvFaithful, tokens \in [SeqId -> Seq(GenToken)],
           NEW s \in live, NEW pos \in Nat, pos < len[s], pos < held[s] * BlockSize
    PROVE  KvAt(SlotAt(table[s], pos)) = SubSeq(History(s), 1, pos + 1)
<1>. DEFINE i == (pos \div BlockSize) + 1
            o == pos % BlockSize
            h == HashOf(s, i)
<1>1. s \in SeqId /\ i \in 1..held[s] /\ held[s] \in Nat /\ held[s] <= FullBlocks(s)
      /\ FullBlocks(s) \in Nat
  BY PositionInTable, HeldInTable, FullBlocksFacts DEF KvInv, TablesCover
<1>2. i \in 1..FullBlocks(s)
  BY <1>1
<1>3. h \in Cached /\ table[s][i] = cache[h]
  BY <1>1 DEF KvInv, TablesCover
<1>4. o \in 0..(BlockSize - 1) /\ pos \div BlockSize \in Nat
      /\ pos = (pos \div BlockSize) * BlockSize + o
  BY PositionFacts
<1>5. /\ h = SubSeq(Prompt[s], 1, i * BlockSize) /\ Len(h) = i * BlockSize
      /\ i * BlockSize \in Nat /\ i * BlockSize <= Len(Prompt[s])
  BY <1>1, <1>2, HashContent
<1>6. i * BlockSize - BlockSize + o + 1 = pos + 1 /\ pos + 1 <= i * BlockSize
  <2>. DEFINE d == pos \div BlockSize
  <2>1. d \in Nat /\ i = d + 1 /\ pos = d * BlockSize + o
    BY <1>4
  <2>. HIDE DEF d, i, o
  <2>2. i * BlockSize = d * BlockSize + BlockSize /\ d * BlockSize \in Nat
    BY <2>1, BlockSizeAssumption
  <2>. QED
    BY <1>4, <2>1, <2>2, BlockSizeAssumption
<1>7. KvAt(<<cache[h], o>>) = SubSeq(h, 1, Len(h) - BlockSize + o + 1)
  BY <1>3, <1>4 DEF CachedKvFaithful
<1>8. SlotAt(table[s], pos) = <<cache[h], o>>
  BY <1>3 DEF SlotAt
<1>. HIDE DEF i, o, h
<1>9. KvAt(SlotAt(table[s], pos)) = SubSeq(h, 1, pos + 1)
  BY <1>5, <1>6, <1>7, <1>8
<1>10. Prompt[s] \in Seq(Token) /\ pos + 1 \in Nat /\ pos + 1 \in 0..Len(Prompt[s])
  BY <1>1, <1>5, <1>6, PromptAssumption, FullBlocksFacts
<1>11. SubSeq(h, 1, pos + 1) = SubSeq(Prompt[s], 1, pos + 1)
  BY <1>5, <1>6, <1>10, PrefixFacts
<1>12. SubSeq(History(s), 1, pos + 1) = SubSeq(Prompt[s], 1, pos + 1)
  BY <1>1, <1>10, HistoryFacts
<1>. QED
  BY <1>9, <1>11, <1>12

-----------------------------------------------------------------------------
(* The slots of a step *)

LEMMA RunningLive ==
    ASSUME BatchIInv, pc # "extend"
    PROVE  \A s \in Members(running) : s \in live /\ s \in SeqId
  BY MembersFacts DEF BatchIInv, HoldShape, StageShape

\* Whoever leaves the batch is in it once.
LEMMA RunningRemoved ==
    ASSUME BatchIInv, NEW i \in 1..Len(running)
    PROVE  Members(RemoveIndex(running, i)) = Members(running) \ {running[i]}
<1>1. running \in Seq(SeqId) /\ arrival \in [SeqId -> Nat] /\ Ranked(running)
  BY DEF BatchIInv, StageShape, OrderShape
<1>. QED
  BY <1>1, RemoveRanked

\* A planned item belongs to a running sequence.
LEMMA PlannedRuns ==
    ASSUME BatchIInv, pc \in Planning \cup {"publish"}
    PROVE  /\ \A d \in Members(plan.decodes) : d.seq \in Members(running) /\ d \in DecodeItem
           /\ \A p \in Members(plan.prefills) : p.seq \in Members(running) /\ p \in PrefillItem
           /\ Members(running) \subseteq live
           /\ pc \in {"forward", "publish"} =>
                \A s \in Members(running) :
                   \/ \E d \in Members(plan.decodes) : d.seq = s
                   \/ \E p \in Members(plan.prefills) : p.seq = s
<1>. USE DEF BatchIInv
<1>1. /\ plan.prefills \in Seq(PrefillItem) /\ plan.decodes \in Seq(DecodeItem)
      /\ Len(plan.prefills) \in Nat /\ Len(plan.decodes) \in Nat /\ Len(running) \in Nat
      /\ running \in Seq(SeqId) /\ at \in Nat \ {0}
  BY PlanFacts, MembersFacts DEF StageShape
<1>2. Members(running) \subseteq live
  BY DEF HoldShape, Planning
<1>. DEFINE nd == Len(plan.decodes)
            np == Len(plan.prefills)
            nr == Len(running)
<1>3. /\ \A i \in 1..nd : plan.decodes[i].seq = running[i]
      /\ \A i \in 1..np : plan.prefills[i].seq = running[nd + i]
      /\ nd + np <= nr
      /\ pc \in {"forward", "publish"} => nr = nd + np
  <2>1. CASE pc = "grow"
    <3>1. /\ plan.prefills = <<>> /\ at <= nr + 1 /\ nd = at - 1
          /\ \A i \in 1..nd : plan.decodes[i].seq = running[i]
          /\ \A i \in 1..np : plan.prefills[i].seq = running[nd + i]
      BY <2>1 DEF PlanShape
    <3>2. np = 0 /\ nd \in Nat /\ nr \in Nat
      BY <1>1, <3>1
    <3>. HIDE DEF nd, np, nr
    <3>. QED
      BY <1>1, <2>1, <3>1, <3>2
  <2>2. CASE pc \in {"admit", "extend", "forward", "publish"}
    <3>1. /\ nr = nd + np
          /\ \A i \in 1..nd : plan.decodes[i].seq = running[i]
          /\ \A i \in 1..np : plan.prefills[i].seq = running[nd + i]
      BY <2>2 DEF PlanShape
    <3>2. nr \in Nat /\ nd \in Nat /\ np \in Nat
      BY <1>1
    <3>. HIDE DEF nd, np, nr
    <3>. QED
      BY <3>1, <3>2
  <2>. QED
    BY <2>1, <2>2 DEF Planning
<1>4. nd \in Nat /\ np \in Nat /\ nr \in Nat
  BY <1>1
<1>. HIDE DEF nd, np, nr
<1>5. /\ \A i \in 1..nd : i \in 1..nr
      /\ \A i \in 1..np : nd + i \in 1..nr
      /\ pc \in {"forward", "publish"} =>
           \A i \in 1..nr : i \in 1..nd \/ (i - nd \in 1..np /\ nd + (i - nd) = i)
  BY <1>3, <1>4
<1>6. \A i \in 1..nr : running[i] \in Members(running)
  BY DEF nr, Members
<1>7. \A d \in Members(plan.decodes) : d.seq \in Members(running) /\ d \in DecodeItem
  <2>1. \A d \in Members(plan.decodes) : d \in DecodeItem /\ \E i \in 1..nd : d = plan.decodes[i]
    BY <1>1, MembersFacts DEF nd
  <2>. QED
    BY <1>3, <1>5, <1>6, <2>1
<1>8. \A p \in Members(plan.prefills) : p.seq \in Members(running) /\ p \in PrefillItem
  <2>1. \A p \in Members(plan.prefills) : p \in PrefillItem /\ \E i \in 1..np : p = plan.prefills[i]
    BY <1>1, MembersFacts DEF np
  <2>. QED
    BY <1>3, <1>5, <1>6, <2>1
<1>9. ASSUME pc \in {"forward", "publish"}, NEW s \in Members(running)
      PROVE  \/ \E d \in Members(plan.decodes) : d.seq = s
             \/ \E p \in Members(plan.prefills) : p.seq = s
  <2>1. PICK i \in 1..nr : s = running[i]
    BY <1>1, MembersFacts DEF nr
  <2>2. /\ \A k \in 1..nd : plan.decodes[k] \in Members(plan.decodes)
        /\ \A k \in 1..np : plan.prefills[k] \in Members(plan.prefills)
    BY DEF Members, nd, np
  <2>. QED
    BY <1>3, <1>5, <1>9, <2>1, <2>2
<1>. QED
  BY <1>2, <1>7, <1>8, <1>9

\* Where a planned slot is: at a position its sequence owns, the last one if the
\* sequence decodes.
LEMMA StepSlotOwn ==
    ASSUME BatchIInv, PlanKv, pc \in Planning, NEW slot \in StepSlots
    PROVE  \E s \in Members(running) : \E pos \in Nat :
              /\ slot = SlotAt(table[s], pos)
              /\ held[s] * BlockSize <= pos /\ pos < len[s]
              /\ \/ pos = len[s] - 1
                 \/ \E p \in Members(plan.prefills) : p.seq = s
<1>. USE DEF BatchIInv
<1>1. /\ \A d \in Members(plan.decodes) : DecodePlanned(d)
      /\ \A p \in Members(plan.prefills) : PrefillPlanned(p)
  BY DEF PlanKv, Members
<1>2. /\ \A d \in Members(plan.decodes) : d.seq \in Members(running) /\ d \in DecodeItem
      /\ \A p \in Members(plan.prefills) : p.seq \in Members(running) /\ p \in PrefillItem
      /\ Members(running) \subseteq live
  BY PlannedRuns
<1>3. CASE \E d \in Members(plan.decodes) : slot = d.slot
  <2>1. PICK d \in Members(plan.decodes) : slot = d.slot
    BY <1>3
  <2>. DEFINE s == d.seq
  <2>2. s \in Members(running) /\ s \in live
    BY <1>2
  <2>. HIDE DEF s
  <2>3. /\ s \in SeqId /\ held[s] \in Nat /\ len[s] \in Nat /\ held[s] <= FullBlocks(s)
        /\ Len(Prompt[s]) \in Nat /\ FullBlocks(s) \in Nat
        /\ FullBlocks(s) * BlockSize <= Len(Prompt[s])
    BY <2>2, HeldInTable, FullBlocksFacts DEF KvInv, TablesCover
  <2>4. Len(Prompt[s]) < len[s] /\ slot = SlotAt(table[s], len[s] - 1)
    BY <1>1, <2>1 DEF DecodePlanned, s
  <2>5. held[s] * BlockSize <= FullBlocks(s) * BlockSize
    BY <2>3, BlockSizeAssumption
  <2>6. held[s] * BlockSize \in Nat /\ FullBlocks(s) * BlockSize \in Nat
    BY <2>3, BlockSizeAssumption
  <2>7. held[s] * BlockSize <= len[s] - 1 /\ len[s] - 1 \in Nat /\ len[s] - 1 < len[s]
    BY <2>3, <2>4, <2>5, <2>6
  <2>. QED
    BY <2>2, <2>3, <2>4, <2>7
<1>4. CASE \E p \in Members(plan.prefills) : slot \in Members(p.slots)
  <2>1. PICK p \in Members(plan.prefills) : slot \in Members(p.slots)
    BY <1>4
  <2>2. PICK j \in 1..Len(p.slots) : slot = p.slots[j]
    BY <2>1 DEF Members
  <2>. DEFINE s == p.seq
  <2>3. s \in Members(running) /\ s \in live
    BY <1>2
  <2>. HIDE DEF s
  <2>4. /\ p.cached = held[s] * BlockSize /\ Len(p.slots) = len[s] - p.cached
        /\ slot = SlotAt(table[s], p.cached + j - 1)
    BY <1>1, <2>2 DEF PrefillPlanned, s
  <2>5. s \in SeqId /\ held[s] \in Nat /\ len[s] \in Nat /\ held[s] * BlockSize \in Nat
    BY <2>3, HeldInTable, BlockSizeAssumption
  <2>6. /\ p.cached + j - 1 \in Nat /\ held[s] * BlockSize <= p.cached + j - 1
        /\ p.cached + j - 1 < len[s]
    BY <2>4, <2>5
  <2>7. p.seq = s
    BY DEF s
  <2>. QED
    BY <2>3, <2>4, <2>6, <2>7
<1>. QED
  BY <1>3, <1>4 DEF StepSlots

\* No step writes a cached block.
LEMMA StepSparesCache ==
    ASSUME BatchIInv, PlanKv, pc \in Planning, NEW b \in CachedBlocks, NEW o
    PROVE  <<b, o>> \notin StepSlots
<1>. SUFFICES ASSUME <<b, o>> \in StepSlots PROVE FALSE
  OBVIOUS
<1>1. PICK s \in Members(running), pos \in Nat :
        /\ <<b, o>> = SlotAt(table[s], pos)
        /\ held[s] * BlockSize <= pos /\ pos < len[s]
  BY StepSlotOwn
<1>2. s \in live
  BY PlannedRuns
<1>3. SlotAt(table[s], pos)[1] \notin CachedBlocks
  BY <1>1, <1>2, OwnSlotUncached DEF BatchIInv
<1>. QED
  BY <1>1, <1>3

-----------------------------------------------------------------------------
(* What the forward computes *)

\* Before the model runs, the sequences have as many tokens as positions.
LEMMA ForwardFacts ==
    ASSUME ContentIInv, pc \in {"forward", "publish"}, NEW s \in Members(running)
    PROVE  /\ s \in live /\ s \in SeqId /\ len[s] \in Nat /\ held[s] \in Nat
           /\ held[s] * BlockSize \in Nat
           /\ Len(History(s)) = len[s] /\ History(s) \in Seq(Content)
           /\ Len(tokens[s]) = gen[s] /\ gen[s] \in Nat
           /\ len[s] = Len(Prompt[s]) + gen[s] /\ Len(Prompt[s]) \in Nat
           /\ tokens \in [SeqId -> Seq(GenToken)]
<1>. USE DEF ContentIInv, BatchIInv
<1>1. running \in Seq(SeqId) /\ gen \in [SeqId -> Nat] /\ KvTypeOK
      /\ tokens \in [SeqId -> Seq(GenToken)]
  BY DEF StageShape, KvInv, TokenShape
<1>2. PICK i \in 1..Len(running) : s = running[i]
  BY <1>1, MembersFacts
<1>3. s \in live /\ s \in SeqId
  BY RunningLive
<1>4. len[s] + Behind(i) = CtxLen(s) /\ Behind(i) = 0
  BY <1>1, <1>2, RunningFacts DEF Behind
<1>5. Len(tokens[s]) = gen[s] + Uncounted(i) /\ Uncounted(i) = 0
  BY <1>2 DEF TokenShape, Uncounted
<1>6. gen[s] \in Nat /\ len[s] \in Nat /\ held[s] \in Nat
  BY <1>1, <1>3 DEF KvTypeOK
<1>7. held[s] * BlockSize \in Nat
  BY <1>6, BlockSizeAssumption
<1>8. /\ History(s) \in Seq(Content) /\ Len(Prompt[s]) \in Nat
      /\ Len(History(s)) = Len(Prompt[s]) + Len(tokens[s])
  BY <1>1, <1>3, HistoryFacts
<1>. QED
  BY <1>1, <1>3, <1>4, <1>5, <1>6, <1>7, <1>8, SMTT(30) DEF CtxLen

\* The position before the last of a decode, and those before a prefill, hold
\* the KV of the sequence: this step does not write them.
LEMMA EarlierHolds ==
    ASSUME ContentIInv, pc = "forward", NEW s \in Members(running),
           NEW pos \in Nat, pos < len[s], SlotAt(table[s], pos) \notin StepSlots
    PROVE  KvAt(SlotAt(table[s], pos)) = SubSeq(History(s), 1, pos + 1)
<1>1. pos \in 0..(len[s] - 1)
  BY ForwardFacts
<1>. QED
  BY <1>1 DEF ContentIInv, SequenceKvFaithful

\* A sequence that decodes in a step does not prefill in it.
LEMMA PlannedOnce ==
    ASSUME BatchIInv, pc = "forward",
           NEW d \in Members(plan.decodes), NEW p \in Members(plan.prefills)
    PROVE  d.seq # p.seq
<1>. USE DEF BatchIInv
<1>. DEFINE nd == Len(plan.decodes)
            np == Len(plan.prefills)
            nr == Len(running)
<1>1. /\ nd \in Nat /\ np \in Nat /\ nr \in Nat /\ nr = nd + np
      /\ \A i \in 1..nd : plan.decodes[i].seq = running[i]
      /\ \A i \in 1..np : plan.prefills[i].seq = running[nd + i]
  BY PlanFacts, MembersFacts DEF PlanShape, StageShape
<1>2. \A i, j \in 1..nr : running[i] = running[j] => i = j
  BY RankedDistinct DEF StageShape, OrderShape
<1>3. PICK i \in 1..nd, j \in 1..np : d = plan.decodes[i] /\ p = plan.prefills[j]
  BY DEF Members
<1>. HIDE DEF nd, np, nr
<1>4. i \in 1..nr /\ nd + j \in 1..nr /\ i # nd + j
  BY <1>1
<1>. QED
  BY <1>1, <1>2, <1>3, <1>4

\* A decode computes the KV of the last position of its sequence.
LEMMA DecodeComputes ==
    ASSUME ContentIInv, pc = "forward", NEW d \in Members(plan.decodes)
    PROVE  DecodeKv(d) = SubSeq(History(d.seq), 1, len[d.seq])
<1>. USE DEF ContentIInv
<1>. DEFINE s == d.seq
            n == len[s]
<1>1. s \in Members(running)
  BY PlannedRuns DEF Planning
<1>. HIDE DEF s
<1>2. /\ s \in live /\ s \in SeqId /\ n \in Nat
      /\ Len(History(s)) = n /\ History(s) \in Seq(Content)
      /\ Len(tokens[s]) = gen[s] /\ gen[s] \in Nat
      /\ n = Len(Prompt[s]) + gen[s] /\ Len(Prompt[s]) \in Nat
      /\ tokens \in [SeqId -> Seq(GenToken)]
  BY <1>1, ForwardFacts
<1>3. d.table = table[s] /\ Len(Prompt[s]) < n
  BY DEF PlanKv, Planning, DecodePlanned, Members, s
<1>4. Len(Prompt[s]) # 0
  BY <1>2, PromptAssumption
<1>5. n - 2 \in Nat /\ n - 2 < n /\ n - 1 \in Nat /\ n - 2 # n - 1 /\ gen[s] > 0
  <2>. HIDE DEF n
  <2>. QED
    BY <1>2, <1>3, <1>4
<1>6. SlotAt(table[s], n - 2) \notin StepSlots
  <2>. SUFFICES ASSUME SlotAt(table[s], n - 2) \in StepSlots PROVE FALSE
    OBVIOUS
  <2>1. PICK t \in Members(running), pos \in Nat :
          /\ SlotAt(table[s], n - 2) = SlotAt(table[t], pos)
          /\ held[t] * BlockSize <= pos /\ pos < len[t]
          /\ \/ pos = len[t] - 1
             \/ \E p \in Members(plan.prefills) : p.seq = t
    BY StepSlotOwn DEF Planning
  <2>2. t \in live
    BY ForwardFacts
  <2>3. t = s /\ pos = n - 2
    <3>. HIDE DEF n
    <3>1. n - 2 < len[s]
      BY <1>5 DEF n
    <3>. QED
      BY <1>2, <1>5, <2>1, <2>2, <3>1, OwnSlotDistinct DEF BatchIInv
  <2>4. PICK p \in Members(plan.prefills) : p.seq = s
    BY <1>5, <2>1, <2>3
  <2>. QED
    BY <2>4, PlannedOnce DEF s
<1>7. KvAt(SlotAt(table[s], n - 2)) = SubSeq(History(s), 1, n - 1)
  <2>1. KvAt(SlotAt(table[s], n - 2)) = SubSeq(History(s), 1, (n - 2) + 1)
    BY <1>1, <1>5, <1>6, EarlierHolds
  <2>2. (n - 2) + 1 = n - 1
    BY <1>2
  <2>. QED
    BY <2>1, <2>2
<1>8. tokens[s][Len(tokens[s])] = History(s)[n]
  <2>1. tokens[s] # <<>>
    BY <1>2, <1>5
  <2>. QED
    BY <1>2, <2>1, HistoryFacts
<1>9. DecodeKv(d) = Append(KvAt(SlotAt(table[s], (n - 1) - 1)), tokens[s][Len(tokens[s])])
  BY <1>3 DEF DecodeKv, s
<1>10. (n - 1) - 1 = n - 2 /\ (n - 1) + 1 = n /\ n - 1 < n
  BY <1>2
<1>11. DecodeKv(d) = Append(SubSeq(History(s), 1, n - 1), History(s)[(n - 1) + 1])
  BY <1>7, <1>8, <1>9, <1>10
<1>12. \A m \in Nat : m < Len(History(s)) =>
          Append(SubSeq(History(s), 1, m), History(s)[m + 1]) = SubSeq(History(s), 1, m + 1)
  BY <1>2, PrefixFacts
<1>. QED
  BY <1>2, <1>5, <1>10, <1>11, <1>12 DEF s

\* A prefill computes the KV of every position from its shared prefix on.
LEMMA PrefillComputes ==
    ASSUME ContentIInv, pc = "forward", NEW p \in Members(plan.prefills),
           NEW j \in 1..Len(p.slots)
    PROVE  PrefillKv(p, j) = SubSeq(History(p.seq), 1, p.cached + j)
<1>. USE DEF ContentIInv
<1>. DEFINE s == p.seq
            c == p.cached
<1>1. s \in Members(running) /\ p \in PrefillItem
  BY PlannedRuns DEF Planning
<1>2. /\ p.table = table[s] /\ c = held[s] * BlockSize /\ Len(p.slots) = len[s] - c
  BY DEF PlanKv, Planning, PrefillPlanned, Members
<1>. HIDE DEF s, c
<1>3. /\ s \in live /\ s \in SeqId /\ len[s] \in Nat /\ held[s] * BlockSize \in Nat
      /\ Len(History(s)) = len[s] /\ History(s) \in Seq(Content)
      /\ tokens \in [SeqId -> Seq(GenToken)]
  BY <1>1, ForwardFacts
<1>4. c \in Nat /\ j \in Nat /\ c + j \in Nat /\ c <= c + j /\ c + j <= len[s] /\ c < len[s]
  BY <1>2, <1>3
<1>5. (IF c = 0 THEN <<>> ELSE KvAt(SlotAt(table[s], c - 1))) = SubSeq(History(s), 1, c)
  <2>1. CASE c = 0
    <3>1. SubSeq(History(s), 1, 0) = <<>>
      BY <1>3
    <3>. QED
      BY <2>1, <3>1
  <2>2. CASE c # 0
    <3>1. c - 1 \in Nat /\ c - 1 < len[s] /\ c - 1 < held[s] * BlockSize /\ (c - 1) + 1 = c
      BY <1>2, <1>3, <1>4, <2>2, SMTT(30)
    <3>2. KvAt(SlotAt(table[s], c - 1)) = SubSeq(History(s), 1, (c - 1) + 1)
      BY <1>3, <3>1, SharedPrefix DEF BatchIInv
    <3>. QED
      BY <2>2, <3>1, <3>2
  <2>. QED
    BY <2>1, <2>2
<1>6. SubSeq(History(s), 1, c) \o SubSeq(History(s), c + 1, c + j) = SubSeq(History(s), 1, c + j)
  BY <1>3, <1>4, PrefixFacts
<1>7. PrefillKv(p, j) = (IF c = 0 THEN <<>> ELSE KvAt(SlotAt(table[s], c - 1)))
                          \o SubSeq(History(s), c + 1, c + j)
  BY <1>2 DEF PrefillKv, s, c
<1>. QED
  BY <1>5, <1>6, <1>7 DEF s, c

\* Whatever item a planned slot is computed by, the result is the KV of the
\* sequence whose position it is.
LEMMA ComputedHolds ==
    ASSUME ContentIInv, pc = "forward", NEW s \in Members(running),
           NEW pos \in Nat, pos < len[s], NEW slot \in StepSlots, slot = SlotAt(table[s], pos)
    PROVE  Computed(slot) = SubSeq(History(s), 1, pos + 1)
<1>. USE DEF ContentIInv
<1>. DEFINE Here == {y \in Members(plan.prefills) \X (1..MaxLen) :
                       y[2] \in 1..Len(y[1].slots) /\ y[1].slots[y[2]] = slot}
            FP == {PrefillKv(x[1], x[2]) : x \in Here}
            FD == {DecodeKv(d) : d \in {e \in Members(plan.decodes) : e.slot = slot}}
            result == SubSeq(History(s), 1, pos + 1)
<1>1. /\ \A d \in Members(plan.decodes) : DecodePlanned(d)
      /\ \A p \in Members(plan.prefills) : PrefillPlanned(p)
  BY DEF PlanKv, Members, Planning
<1>2. /\ \A d \in Members(plan.decodes) : d.seq \in Members(running)
      /\ \A p \in Members(plan.prefills) : p.seq \in Members(running)
  BY PlannedRuns DEF Planning
<1>3. s \in live
  BY ForwardFacts
\* The position of a planned slot is unique.
<1>4. ASSUME NEW t \in Members(running), NEW q \in Nat, q < len[t], held[t] * BlockSize <= q,
             slot = SlotAt(table[t], q)
      PROVE  t = s /\ q = pos
  <2>. HIDE DEF Here, FP, FD, result
  <2>1. t \in live /\ KvInv
    BY ForwardFacts DEF BatchIInv
  <2>2. SlotAt(table[t], q) = SlotAt(table[s], pos)
    BY <1>4
  <2>3. OneOwner
    BY <2>1, OwnSlotsDistinct
  <2>. QED
    BY <1>3, <1>4, <2>1, <2>2, <2>3 DEF OneOwner
<1>5. ASSUME NEW p \in Members(plan.prefills), NEW j \in 1..Len(p.slots), p.slots[j] = slot
      PROVE  PrefillKv(p, j) = result
  <2>. DEFINE t == p.seq
  <2>1. t \in Members(running)
    BY <1>2
  <2>2. /\ p.cached = held[t] * BlockSize /\ Len(p.slots) = len[t] - p.cached
        /\ slot = SlotAt(table[t], p.cached + j - 1)
    BY <1>1, <1>5 DEF PrefillPlanned
  <2>3. PrefillKv(p, j) = SubSeq(History(t), 1, p.cached + j)
    BY PrefillComputes
  <2>. HIDE DEF t
  <2>4. len[t] \in Nat /\ held[t] * BlockSize \in Nat
    BY <2>1, ForwardFacts
  <2>5. /\ p.cached + j - 1 \in Nat /\ held[t] * BlockSize <= p.cached + j - 1
        /\ p.cached + j - 1 < len[t] /\ (p.cached + j - 1) + 1 = p.cached + j
    BY <2>2, <2>4
  <2>6. t = s /\ p.cached + j - 1 = pos
    BY <1>4, <2>1, <2>2, <2>5
  <2>. QED
    BY <2>3, <2>5, <2>6
<1>6. ASSUME NEW d \in Members(plan.decodes), d.slot = slot
      PROVE  DecodeKv(d) = result
  <2>. DEFINE t == d.seq
  <2>1. t \in Members(running)
    BY <1>2
  <2>2. /\ Len(Prompt[t]) < len[t] /\ slot = SlotAt(table[t], len[t] - 1)
    BY <1>1, <1>6 DEF DecodePlanned
  <2>3. DecodeKv(d) = SubSeq(History(t), 1, len[t])
    BY DecodeComputes
  <2>. HIDE DEF t
  <2>4. t \in live /\ t \in SeqId /\ len[t] \in Nat /\ Len(Prompt[t]) \in Nat
    BY <2>1, ForwardFacts
  <2>5. held[t] * BlockSize <= Len(Prompt[t])
    <3>1. /\ held[t] \in Nat /\ held[t] <= FullBlocks(t) /\ FullBlocks(t) \in Nat
          /\ FullBlocks(t) * BlockSize <= Len(Prompt[t])
      BY <2>4, HeldInTable, FullBlocksFacts DEF BatchIInv, KvInv, TablesCover
    <3>2. /\ held[t] * BlockSize <= FullBlocks(t) * BlockSize
          /\ held[t] * BlockSize \in Nat /\ FullBlocks(t) * BlockSize \in Nat
      BY <3>1, BlockSizeAssumption
    <3>. QED
      BY <2>4, <3>1, <3>2
  <2>6. held[t] * BlockSize \in Nat
    BY <2>1, ForwardFacts
  <2>7. /\ len[t] - 1 \in Nat /\ held[t] * BlockSize <= len[t] - 1
        /\ len[t] - 1 < len[t] /\ (len[t] - 1) + 1 = len[t]
    BY <2>2, <2>4, <2>5, <2>6
  <2>8. t = s /\ len[t] - 1 = pos
    BY <1>4, <2>1, <2>2, <2>7
  <2>. QED
    BY <2>3, <2>7, <2>8
<1>7. \A c \in FP \cup FD : c = result
  <2>. HIDE DEF result
  <2>1. \A c \in FP : c = result
    BY <1>5
  <2>2. \A c \in FD : c = result
    BY <1>6
  <2>. QED
    BY <2>1, <2>2
<1>8. FP \cup FD # {}
  <2>1. CASE \E d \in Members(plan.decodes) : slot = d.slot
    <3>1. FD # {}
      BY <2>1
    <3>. QED
      BY <3>1
  <2>2. CASE \E p \in Members(plan.prefills) : slot \in Members(p.slots)
    <3>1. PICK p \in Members(plan.prefills) : slot \in Members(p.slots)
      BY <2>2
    <3>2. PICK j \in 1..Len(p.slots) : slot = p.slots[j]
      BY <3>1 DEF Members
    <3>. DEFINE t == p.seq
    <3>3. t \in Members(running)
      BY <1>2
    <3>4. Len(p.slots) = len[t] - p.cached /\ p.cached = held[t] * BlockSize
      BY <1>1 DEF PrefillPlanned
    <3>. HIDE DEF t
    <3>5. len[t] \in Nat /\ held[t] * BlockSize \in Nat /\ len[t] = CtxLen(t)
      BY <3>3, ForwardFacts DEF CtxLen
    <3>6. CtxLen(t) <= MaxLen
      BY <3>3, QueuedFacts DEF BatchIInv
    <3>7. j \in 1..MaxLen
      BY <3>4, <3>5, <3>6, MaxLenAssumption
    <3>8. <<p, j>> \in Here
      BY <3>2, <3>7
    <3>. QED
      BY <3>8
  <2>. QED
    BY <2>1, <2>2 DEF StepSlots
<1>9. Computed(slot) = CHOOSE c \in FP \cup FD : TRUE
  BY DEF Computed
<1>. HIDE DEF FP, FD, result
<1>10. Computed(slot) = result
  BY <1>7, <1>8, <1>9
<1>. QED
  BY <1>10 DEF result

\* A forward changes the slots of its step and no others.
LEMMA ForwardWrites ==
    ASSUME ForwardOk \/ ForwardErr, NEW b \in Block, NEW o \in 0..(BlockSize - 1)
    PROVE  /\ <<b, o>> \notin StepSlots => kv'[b][o] = kv[b][o]
           /\ ForwardOk /\ <<b, o>> \in StepSlots => kv'[b][o] = Computed(<<b, o>>)
<1>1. CASE ForwardOk
  <2>. DEFINE content == [slot \in StepSlots |-> Computed(slot)]
  <2>1. kv' = Written(content)
    BY <1>1 DEF ForwardOk
  <2>2. <<b, o>> \in StepSlots => content[<<b, o>>] = Computed(<<b, o>>)
    OBVIOUS
  <2>. HIDE DEF content
  <2>. QED
    BY <2>1, <2>2 DEF Written
<1>2. CASE ForwardErr
  <2>. DEFINE content == [slot \in StepSlots |-> <<>>]
  <2>1. kv' = Written(content) /\ pc' = "abort"
    BY <1>2 DEF ForwardErr
  <2>2. ~ForwardOk
    BY <2>1 DEF ForwardOk
  <2>. HIDE DEF content
  <2>. QED
    BY <2>1, <2>2 DEF Written
<1>. QED
  BY <1>1, <1>2

-----------------------------------------------------------------------------
(* The tokens *)

\* The step in progress has an item for every running sequence and no other.
LEMMA PlannedAll ==
    ASSUME BatchIInv, pc \in {"forward", "publish"}
    PROVE  Prefilled \cup Decoded = Members(running)
  BY PlannedRuns DEF Prefilled, Decoded, Planning

LEMMA TokenInv ==
    ASSUME ContentIInv, [Next]_vars
    PROVE  TokenShape'
<1>. USE DEF ContentIInv
<1>1. /\ StageShape /\ OrderShape /\ BudgetShape /\ TokenShape
      /\ waiting \in Seq(SeqId) /\ running \in Seq(SeqId)
      /\ arrival \in [SeqId -> Nat] /\ gen \in [SeqId -> Nat]
      /\ tokens \in [SeqId -> Seq(GenToken)]
      /\ Ranked(running)
      /\ Len(running) \in Nat /\ at \in Nat \ {0}
      /\ \A i \in 1..Len(running) : running[i] \in SeqId /\ running[i] \in Members(running)
      /\ \A i, j \in 1..Len(running) : running[i] = running[j] => i = j
      /\ Members(waiting) \subseteq SeqId /\ Members(running) \subseteq SeqId
      /\ Members(running) \cap Members(waiting) = {}
      /\ \A s \in Members(running) : \E i \in 1..Len(running) : s = running[i]
  <2>1. /\ StageShape /\ OrderShape /\ BudgetShape /\ TokenShape
        /\ waiting \in Seq(SeqId) /\ running \in Seq(SeqId)
        /\ arrival \in [SeqId -> Nat] /\ gen \in [SeqId -> Nat]
        /\ tokens \in [SeqId -> Seq(GenToken)]
        /\ Ranked(running) /\ at \in Nat \ {0}
    BY DEF BatchIInv, StageShape, OrderShape, TokenShape
  <2>2. /\ Len(running) \in Nat
        /\ \A i \in 1..Len(running) : running[i] \in SeqId /\ running[i] \in Members(running)
        /\ \A i, j \in 1..Len(running) : running[i] = running[j] => i = j
        /\ Members(waiting) \subseteq SeqId /\ Members(running) \subseteq SeqId
        /\ \A s \in Members(running) : \E i \in 1..Len(running) : s = running[i]
    BY <2>1, RankedDistinct, MembersFacts
  <2>3. \A s \in Members(running), t \in Members(waiting) : arrival[s] < arrival[t]
    BY <2>1 DEF OrderShape
  <2>4. \A s \in SeqId : ~(arrival[s] < arrival[s])
    BY <2>1
  <2>5. Members(running) \cap Members(waiting) = {}
    BY <2>2, <2>3, <2>4
  <2>. QED
    BY <2>1, <2>2, <2>5
<1>2. CASE Stop \/ UNCHANGED vars \/ \E s \in SeqId : Submit(s)
  <2>1. UNCHANGED <<schedVars, tokens, pc, at>>
    BY <1>2 DEF Stop, Submit, vars, engineVars
  <2>. QED
    BY <1>1, <2>1 DEF schedVars, TokenShape, Members, Uncounted
\* Nobody samples or is counted: the queues hold who was in them, or a newcomer.
<1>3. ASSUME UNCHANGED <<tokens, gen>>, pc' # "finish",
             \A i \in 1..Len(running) : Uncounted(i) = 0,
             \A s \in SeqId : arrival'[s] = 0 => arrival[s] = 0,
             \A s \in Members(waiting') \cup Members(running') :
                \/ s \in Members(waiting) \cup Members(running)
                \/ s \in SeqId /\ arrival[s] = 0
      PROVE  TokenShape'
  <2>1. \A s \in Members(running) : Len(tokens[s]) = gen[s]
    <3>. SUFFICES ASSUME NEW s \in Members(running) PROVE Len(tokens[s]) = gen[s]
      OBVIOUS
    <3>1. PICK i \in 1..Len(running) : s = running[i]
      BY <1>1
    <3>2. Len(tokens[s]) = gen[s] + 0
      BY <1>1, <1>3, <3>1 DEF TokenShape
    <3>3. gen[s] \in Nat
      BY <1>1
    <3>. QED
      BY <3>2, <3>3
  <2>2. \A s \in Members(waiting) : Len(tokens[s]) = gen[s]
    BY <1>1 DEF TokenShape
  <2>3. ASSUME NEW s \in SeqId, arrival[s] = 0
        PROVE  Len(tokens[s]) = gen[s]
    <3>1. tokens[s] = <<>> /\ gen[s] = 0
      BY <1>1, <2>3 DEF TokenShape, BudgetShape
    <3>. QED
      BY <3>1
  <2>4. \A s \in Members(waiting') \cup Members(running') :
           Len(tokens'[s]) = gen'[s] /\ gen'[s] + 0 = gen'[s]
    <3>1. \A s \in SeqId : gen[s] + 0 = gen[s]
      BY <1>1
    <3>. QED
      BY <1>1, <1>3, <2>1, <2>2, <2>3, <3>1
  <2>5. \A i \in 1..Len(running') : running'[i] \in Members(running')
    BY DEF Members
  <2>6. \A i : Uncounted(i)' = 0
    BY <1>3 DEF Uncounted
  <2>7. \A i \in 1..Len(running') :
           Len(tokens'[running'[i]]) = gen'[running'[i]] + Uncounted(i)'
    BY <2>4, <2>5, <2>6
  <2>8. \A s \in Members(waiting)' : Len(tokens'[s]) = gen'[s]
    BY <2>4 DEF Members
  <2>9. \A s \in SeqId : arrival'[s] = 0 => tokens'[s] = <<>>
    BY <1>1, <1>3 DEF TokenShape
  <2>. QED
    BY <1>1, <1>3, <2>7, <2>8, <2>9 DEF TokenShape
<1>4. CASE Receive
  <2>. DEFINE s == Head(inbox)
  <2>1. /\ UNCHANGED <<tokens, gen, running>> /\ pc = "drain" /\ pc' = "drain"
        /\ waiting' = Append(waiting, s) /\ inbox # <<>>
        /\ arrival' = [arrival EXCEPT ![s] = 1 + Cardinality(Arrived)]
    BY <1>4 DEF Receive, Arrived
  <2>2. s \in SeqId /\ s \in Members(inbox)
    BY <1>1, <2>1, TailFacts DEF StageShape
  <2>3. arrival[s] = 0
    BY <1>1, <2>2 DEF OrderShape
  <2>4. Members(waiting') = Members(waiting) \cup {s}
    BY <1>1, <2>1, <2>2, AppendFacts
  <2>5. \A t \in SeqId : arrival'[t] = 0 => arrival[t] = 0
    BY <1>1, <2>1, <2>3
  <2>. HIDE DEF s
  <2>6. \A i \in 1..Len(running) : Uncounted(i) = 0
    BY <2>1 DEF Uncounted
  <2>. QED
    BY <1>3, <2>1, <2>2, <2>3, <2>4, <2>5, <2>6
<1>5. CASE BeginStep
  <2>1. running' = running
    BY <1>1, <1>5, SortedStays DEF BeginStep
  <2>2. UNCHANGED <<tokens, gen, waiting, arrival>> /\ pc = "drain" /\ pc' = "grow"
    BY <1>5 DEF BeginStep, engineVars
  <2>3. \A i \in 1..Len(running) : Uncounted(i) = 0
    BY <2>2 DEF Uncounted
  <2>. QED
    BY <1>3, <2>1, <2>2, <2>3
<1>6. CASE Exit \/ GrowOne \/ GrowDone \/ Admit \/ AdmitDone \/ ForwardOk \/ ForwardErr \/ Publish
  <2>1. UNCHANGED <<tokens, gen, waiting, arrival, running>> /\ pc # "finish" /\ pc' # "finish"
    BY <1>6 DEF Exit, GrowOne, GrowDone, Admit, AdmitDone, ForwardOk, ForwardErr, Publish,
                Panic, engineVars, schedVars
  <2>2. \A i \in 1..Len(running) : Uncounted(i) = 0
    BY <2>1 DEF Uncounted
  <2>. QED
    BY <1>3, <2>1, <2>2
<1>7. CASE Preempt
  <2>. DEFINE v == running[Newest]
  <2>1. /\ Newest \in 1..Len(running) /\ pc = "grow" /\ pc' = pc /\ gen' = gen
        /\ tokens' = tokens /\ arrival' = arrival
        /\ running' = RemoveIndex(running, Newest) /\ waiting' = <<v>> \o waiting
    BY <1>1, <1>7 DEF Preempt, Newest, Requeue, engineVars
  <2>2. v \in SeqId /\ v \in Members(running)
    BY <1>1, <2>1
  <2>3. Members(waiting') = {v} \cup Members(waiting)
    BY <1>1, <2>1, <2>2, ConsFacts, SMTT(30)
  <2>4. Members(running') \subseteq Members(running)
    <3>1. Members(RemoveIndex(running, Newest)) = Members(running) \ {running[Newest]}
      BY <2>1, RunningRemoved
    <3>. QED
      BY <2>1, <3>1
  <2>. HIDE DEF v
  <2>5. \A i \in 1..Len(running) : Uncounted(i) = 0
    BY <2>1 DEF Uncounted
  <2>. QED
    BY <1>3, <2>1, <2>2, <2>3, <2>4, <2>5
<1>8. CASE Extend
  <2>1. /\ pc = "extend" /\ UNCHANGED <<tokens, gen, arrival>>
        /\ \/ UNCHANGED <<waiting, running>> /\ pc' = "panicked"
           \/ /\ waiting' = Tail(waiting) /\ running' = Append(running, Head(waiting))
              /\ pc' = "admit"
    BY <1>8 DEF Extend, Panic, schedVars, engineVars
  <2>2. waiting # <<>>
    BY <2>1 DEF BatchIInv, HoldShape
  <2>3. /\ Head(waiting) \in SeqId
        /\ Members(waiting) = {Head(waiting)} \cup Members(Tail(waiting))
    BY <1>1, <2>2, TailFacts
  <2>4. Members(Append(running, Head(waiting))) = Members(running) \cup {Head(waiting)}
    BY <1>1, <2>3, AppendFacts
  <2>5. \A i \in 1..Len(running) : Uncounted(i) = 0
    BY <2>1 DEF Uncounted
  <2>6. \A s \in Members(waiting') \cup Members(running') : s \in Members(waiting) \cup Members(running)
    BY <2>1, <2>3, <2>4
  <2>. QED
    BY <1>3, <2>1, <2>5, <2>6
<1>9. CASE Emit
  <2>1. UNCHANGED <<tokens, gen, waiting, arrival, running>> /\ at > Len(running) /\ pc' = "drain"
    BY <1>9 DEF Emit, schedVars
  <2>2. \A i \in 1..Len(running) : ~(i >= at)
    BY <1>1, <2>1
  <2>3. \A i \in 1..Len(running) : Uncounted(i) = 0
    BY <2>2 DEF Uncounted
  <2>. QED
    BY <1>3, <2>1, <2>3
<1>10. CASE AbortOne
  <2>1. /\ UNCHANGED <<tokens, gen, waiting, arrival>> /\ running' = Tail(running)
        /\ running # <<>> /\ pc = "abort" /\ pc' = "abort"
    BY <1>10 DEF AbortOne, engineVars
  <2>2. Members(running) = {Head(running)} \cup Members(Tail(running))
    BY <1>1, <2>1, TailFacts
  <2>3. \A i \in 1..Len(running) : Uncounted(i) = 0
    BY <2>1 DEF Uncounted
  <2>. QED
    BY <1>3, <2>1, <2>2, <2>3
<1>11. CASE AbortDone
  <2>1. /\ UNCHANGED <<tokens, gen, running, arrival>> /\ waiting' = <<>> /\ pc = "abort"
        /\ pc' \in {"stopped", "drain"}
    BY <1>11 DEF AbortDone
  <2>2. Members(waiting') = {}
    BY <2>1 DEF Members
  <2>3. \A i \in 1..Len(running) : Uncounted(i) = 0
    BY <2>1 DEF Uncounted
  <2>. QED
    BY <1>3, <2>1, <2>2, <2>3
<1>12. CASE Record
  <2>1. /\ UNCHANGED <<gen, waiting, arrival, running>> /\ pc = "publish" /\ pc' = "finish"
        /\ at' = 1
        /\ tokens' = [s \in SeqId |->
             IF s \in Prefilled \cup Decoded
             THEN Append(tokens[s], <<s, Len(tokens[s]) + 1>>) ELSE tokens[s]]
    BY <1>12 DEF Record, schedVars
  <2>2. Prefilled \cup Decoded = Members(running)
    BY <2>1, PlannedAll
  <2>3. \A s \in SeqId : /\ tokens[s] \in Seq(GenToken) /\ Len(tokens[s]) \in Nat
                         /\ <<s, Len(tokens[s]) + 1>> \in GenToken
    BY <1>1, SMTT(30) DEF GenToken
  <2>4. \A s \in SeqId : s \notin Members(running) => tokens'[s] = tokens[s]
    BY <2>1, <2>2
  <2>5. \A s \in Members(running) : /\ tokens'[s] \in Seq(GenToken)
                                    /\ Len(tokens'[s]) = Len(tokens[s]) + 1
    BY <1>1, <2>1, <2>2, <2>3, SMTT(30)
  <2>6. tokens' \in [SeqId -> Seq(GenToken)]
    BY <2>1, <2>3, <2>4, <2>5
  <2>7. \A s \in SeqId : arrival'[s] = 0 => tokens'[s] = <<>>
    <3>1. \A s \in SeqId : arrival[s] = 0 => ~(arrival[s] > 0)
      BY <1>1
    <3>. QED
      BY <1>1, <2>1, <2>4, <3>1 DEF TokenShape, OrderShape
  <2>8. \A s \in Members(waiting)' : Len(tokens'[s]) = gen'[s]
    <3>1. Members(waiting)' = Members(waiting)
      BY <2>1 DEF Members
    <3>2. \A s \in Members(waiting) : s \in SeqId /\ s \notin Members(running)
      BY <1>1
    <3>. QED
      BY <1>1, <2>1, <2>4, <3>1, <3>2 DEF TokenShape
  <2>9. ASSUME NEW i \in 1..Len(running)
        PROVE  Len(tokens'[running[i]]) = gen[running[i]] + Uncounted(i)'
    <3>1. Uncounted(i) = 0 /\ Uncounted(i)' = 1
      BY <2>1 DEF Uncounted
    <3>2. Len(tokens[running[i]]) = gen[running[i]] + 0 /\ gen[running[i]] \in Nat
      BY <1>1, <3>1 DEF TokenShape
    <3>3. Len(tokens'[running[i]]) = Len(tokens[running[i]]) + 1
      BY <1>1, <2>5
    <3>. QED
      BY <3>1, <3>2, <3>3
  <2>. QED
    BY <2>1, <2>6, <2>7, <2>8, <2>9 DEF TokenShape
<1>13. CASE Finish
  <2>. DEFINE s == running[at]
  <2>1. /\ at \in 1..Len(running) /\ pc = "finish" /\ pc' = "finish"
        /\ gen' = [gen EXCEPT ![s] = gen[s] + 1]
        /\ UNCHANGED <<tokens, waiting, arrival>>
        /\ \/ running' = running /\ at' = at + 1
           \/ running' = RemoveIndex(running, at) /\ at' = at
    BY <1>1, <1>13 DEF Finish
  <2>2. s \in SeqId /\ gen'[s] = gen[s] + 1 /\ \A t \in SeqId \ {s} : gen'[t] = gen[t]
    BY <1>1, <2>1
  <2>3. \A t \in Members(waiting)' : Len(tokens'[t]) = gen'[t]
    <3>1. s \in Members(running)
      BY <1>1, <2>1
    <3>2. Members(waiting)' = Members(waiting)
      BY <2>1 DEF Members
    <3>3. \A t \in Members(waiting) : t \in SeqId \ {s}
      BY <1>1, <3>1
    <3>. QED
      BY <1>1, <2>1, <2>2, <3>2, <3>3 DEF TokenShape
  <2>4. CASE running' = running /\ at' = at + 1
    <3>1. ASSUME NEW i \in 1..Len(running)
          PROVE  Len(tokens[running[i]]) = gen'[running[i]] + Uncounted(i)'
      <4>1. Len(tokens[running[i]]) = gen[running[i]] + Uncounted(i) /\ gen[running[i]] \in Nat
        BY <1>1 DEF TokenShape
      <4>2. CASE i = at
        <5>1. Uncounted(i) = 1 /\ Uncounted(i)' = 0
          BY <1>1, <2>1, <2>4, <4>2 DEF Uncounted
        <5>2. gen'[running[i]] = gen[running[i]] + 1
          BY <2>2, <4>2
        <5>. QED
          BY <4>1, <5>1, <5>2
      <4>3. CASE i # at
        <5>1. running[i] \in SeqId \ {s}
          BY <1>1, <2>1, <4>3
        <5>2. Uncounted(i)' = Uncounted(i)
          BY <1>1, <2>1, <2>4, <4>3 DEF Uncounted
        <5>. QED
          BY <2>2, <4>1, <5>1, <5>2
      <4>. QED
        BY <4>2, <4>3
    <3>. HIDE DEF s
    <3>. QED
      BY <1>1, <2>1, <2>3, <2>4, <3>1 DEF TokenShape
  <2>5. CASE running' = RemoveIndex(running, at) /\ at' = at
    <3>. DEFINE old(i) == IF i < at THEN i ELSE i + 1
    <3>0. /\ Len(RemoveIndex(running, at)) = Len(running) - 1
          /\ \A i \in 1..(Len(running) - 1) :
               RemoveIndex(running, at)[i] = IF i < at THEN running[i] ELSE running[i + 1]
      BY <1>1, <2>1, RemoveFacts
    <3>1. /\ Len(running') = Len(running) - 1
          /\ \A i \in 1..(Len(running) - 1) : running'[i] = running[old(i)]
      BY <2>5, <3>0
    <3>2. \A i \in 1..(Len(running) - 1) : old(i) \in 1..Len(running) /\ old(i) # at
      BY <1>1
    <3>3. \A i \in 1..(Len(running) - 1) : Uncounted(i)' = Uncounted(old(i))
      BY <1>1, <2>1, <2>5 DEF Uncounted
    <3>. HIDE DEF old, s
    <3>4. ASSUME NEW i \in 1..(Len(running) - 1)
          PROVE  Len(tokens[running'[i]]) = gen'[running'[i]] + Uncounted(i)'
      <4>1. old(i) \in 1..Len(running) /\ running[old(i)] \in SeqId \ {s}
        BY <1>1, <2>1, <3>2 DEF s
      <4>2. Len(tokens[running[old(i)]]) = gen[running[old(i)]] + Uncounted(old(i))
        BY <1>1, <4>1 DEF TokenShape
      <4>3. running'[i] = running[old(i)] /\ gen'[running[old(i)]] = gen[running[old(i)]]
        BY <2>2, <3>1, <4>1
      <4>. QED
        BY <3>3, <4>2, <4>3
    <3>. QED
      BY <1>1, <2>1, <2>3, <3>1, <3>4 DEF TokenShape
  <2>. HIDE DEF s
  <2>. QED
    BY <2>1, <2>4, <2>5
<1>. QED
  BY <1>2, <1>4, <1>5, <1>6, <1>7, <1>8, <1>9, <1>10, <1>11, <1>12, <1>13 DEF Next, Worker

-----------------------------------------------------------------------------
(* What the operations of the allocator leave alone *)

SeqKept(t) == table'[t] = table[t] /\ len'[t] = len[t] /\ held'[t] = held[t]
CacheKept == Cached' \subseteq Cached /\ \A h \in Cached' : cache'[h] = cache[h]

LEMMA KvVarsKept ==
    ASSUME UNCHANGED kvVars
    PROVE  CacheKept /\ \A t : SeqKept(t)
  BY DEF kvVars, seqVars, CacheKept, SeqKept, Cached

LEMMA EvictKept ==
    ASSUME KvInv, NEW E \in SUBSET Idle, NEW order, Evict(E, order)
    PROVE  CacheKept
  BY EvictFacts DEF Evict, CacheKept

\* append changes the sequence that grows, and only behind its block table.
LEMMA AppendKept ==
    ASSUME KvInv, NEW s \in SeqId, NEW n \in Nat, AppendTokens(s, n)
    PROVE  /\ CacheKept /\ s \in live /\ held' = held /\ live' = live
           /\ \A t \in SeqId \ {s} : SeqKept(t)
           /\ len'[s] = len[s] + n
           /\ \A i \in 1..Len(table[s]) : table'[s][i] = table[s][i]
<1>1. s \in live /\ UNCHANGED <<live, held, refs>> /\ len' = [len EXCEPT ![s] = len[s] + n]
  BY DEF AppendTokens
<1>2. PICK E \in Victims(Idle, Grow(s, n) - Cardinality(free), older) :
        /\ Evict(E, older)
        /\ \E fresh \in Popped(FreeAfter(E), Grow(s, n)) :
              /\ free' = FreeAfter(E) \ {fresh[i] : i \in 1..Grow(s, n)}
              /\ table' = [table EXCEPT ![s] = @ \o fresh]
  BY DEF AppendTokens
<1>3. E \in SUBSET Idle
  BY DEF Victims
<1>4. CacheKept
  BY <1>2, <1>3, EvictKept
<1>5. PICK fresh \in Popped(FreeAfter(E), Grow(s, n)) :
        table' = [table EXCEPT ![s] = table[s] \o fresh]
  BY <1>2
<1>6. KvTypeOK /\ table[s] \in Seq(Block) /\ len[s] \in Nat
  BY <1>1, HeldInTable DEF KvInv
<1>7. Grow(s, n) \in Nat
  <2>1. len[s] + n \in Nat /\ len[s] <= len[s] + n
    BY <1>6
  <2>2. BlocksFor(len[s]) <= BlocksFor(len[s] + n)
        /\ BlocksFor(len[s]) \in Nat /\ BlocksFor(len[s] + n) \in Nat
    BY <1>6, <2>1, SizeFacts
  <2>. QED
    BY <2>2 DEF Grow
<1>8. fresh \in Seq(Block)
  BY <1>3, <1>5, <1>7, FreshFacts
<1>9. \A i \in 1..Len(table[s]) : (table[s] \o fresh)[i] = table[s][i]
  BY <1>6, <1>8
<1>10. /\ table'[s] = table[s] \o fresh /\ len'[s] = len[s] + n
       /\ \A t \in SeqId \ {s} : table'[t] = table[t] /\ len'[t] = len[t]
  BY <1>1, <1>5, <1>6 DEF KvTypeOK
<1>. QED
  BY <1>1, <1>4, <1>9, <1>10 DEF SeqKept

LEMMA AllocateKept ==
    ASSUME KvInv, NEW s \in SeqId, AllocateWithPrefix(s)
    PROVE  /\ CacheKept /\ s \notin live
           /\ \A t \in SeqId \ {s} : SeqKept(t)
<1>. DEFINE order == Used(s, 1, AcquirePrefix(s))
<1>1. PICK E \in Victims(Idle \ KeptHashes(s), FreshNeed(s) - Cardinality(free), order) :
        /\ Evict(E, order)
        /\ \E fresh \in Popped(FreeAfter(E), FreshNeed(s)) :
              /\ free' = FreeAfter(E) \ {fresh[i] : i \in 1..FreshNeed(s)}
              /\ table' = [table EXCEPT ![s] =
                     [i \in 1..KeptPrefix(s) |-> cache[HashOf(s, i)]] \o fresh]
        /\ len' = [len EXCEPT ![s] = Len(Prompt[s])]
        /\ held' = [held EXCEPT ![s] = KeptPrefix(s)]
  BY DEF AllocateWithPrefix
<1>2. E \in SUBSET Idle /\ s \notin live
  BY DEF Victims, AllocateWithPrefix
<1>3. CacheKept
  BY <1>1, <1>2, EvictKept
<1>4. \A t \in SeqId \ {s} : table'[t] = table[t] /\ len'[t] = len[t] /\ held'[t] = held[t]
  <2>. HIDE DEF order
  <2>. QED
    BY <1>1 DEF KvInv, KvTypeOK
<1>. QED
  BY <1>2, <1>3, <1>4 DEF SeqKept

LEMMA FreeKept ==
    ASSUME KvInv, NEW s \in SeqId, Free(s)
    PROVE  /\ CacheKept
           /\ \A t \in SeqId \ {s} : SeqKept(t)
<1>1. /\ UNCHANGED cache
      /\ table' = [table EXCEPT ![s] = <<>>]
      /\ len' = [len EXCEPT ![s] = 0]
      /\ held' = [held EXCEPT ![s] = 0]
  BY DEF Free
<1>2. \A t \in SeqId \ {s} : table'[t] = table[t] /\ len'[t] = len[t] /\ held'[t] = held[t]
  BY <1>1 DEF KvInv, KvTypeOK
<1>. QED
  BY <1>1, <1>2 DEF CacheKept, SeqKept, Cached

\* commit_prefix publishes blocks of the sequence and exchanges others for
\* cached ones of the same hash.
LEMMA CommitKept ==
    ASSUME KvInv, NEW s \in SeqId, CommitPrefix(s)
    PROVE  /\ s \in live /\ live' = live /\ len' = len
           /\ \A t \in SeqId \ {s} : SeqKept(t)
           /\ Won(s) \cup Lost(s) = (held[s] + 1)..FullBlocks(s)
           /\ \A i \in Lost(s) : HashOf(s, i) \in Cached /\ table'[s][i] = cache[HashOf(s, i)]
           /\ \A i \in 1..Len(table[s]) : i \notin Lost(s) => table'[s][i] = table[s][i]
           /\ \A h \in Cached' : \/ h \in Cached /\ cache'[h] = cache[h]
                                 \/ \E i \in Won(s) : h = HashOf(s, i) /\ cache'[h] = table[s][i]
<1>1. /\ s \in live /\ UNCHANGED <<live, len>>
      /\ held' = [held EXCEPT ![s] = FullBlocks(s)]
      /\ table' = [table EXCEPT ![s] =
           [i \in 1..Len(table[s]) |-> IF i \in Lost(s) THEN cache[HashOf(s, i)] ELSE table[s][i]]]
      /\ cache' = [h \in Hash |->
           IF \E i \in Won(s) : HashOf(s, i) = h
           THEN table[s][CHOOSE i \in Won(s) : HashOf(s, i) = h]
           ELSE cache[h]]
  BY DEF CommitPrefix
<1>2. KvTypeOK /\ FullBlocks(s) <= Len(table[s]) /\ held[s] \in Nat /\ FullBlocks(s) \in Nat
      /\ Len(table[s]) \in Nat
  BY <1>1, HeldInTable, FullBlocksFacts DEF KvInv
<1>3. \A t \in SeqId \ {s} : SeqKept(t)
  BY <1>1, <1>2 DEF KvTypeOK, SeqKept
<1>4. Won(s) \cup Lost(s) = (held[s] + 1)..FullBlocks(s)
  BY DEF Won, Lost, Unpublished
<1>5. /\ \A i \in Lost(s) : i \in 1..Len(table[s]) /\ HashOf(s, i) \in Cached
      /\ \A i \in Won(s) : i \in 1..FullBlocks(s) /\ HashOf(s, i) \notin Cached
  BY <1>2 DEF Lost, Won, Unpublished
<1>6. table'[s] = [i \in 1..Len(table[s]) |->
                     IF i \in Lost(s) THEN cache[HashOf(s, i)] ELSE table[s][i]]
  BY <1>1, <1>2 DEF KvTypeOK
<1>7. /\ \A i \in Lost(s) : table'[s][i] = cache[HashOf(s, i)]
      /\ \A i \in 1..Len(table[s]) : i \notin Lost(s) => table'[s][i] = table[s][i]
  BY <1>5, <1>6
<1>8. ASSUME NEW h \in Cached'
      PROVE  \/ h \in Cached /\ cache'[h] = cache[h]
             \/ \E i \in Won(s) : h = HashOf(s, i) /\ cache'[h] = table[s][i]
  <2>1. h \in Hash /\ cache'[h] # NoBlock
    BY DEF Cached
  <2>2. CASE \E i \in Won(s) : HashOf(s, i) = h
    <3>1. PICK i \in Won(s) : HashOf(s, i) = h
      BY <2>2
    <3>2. cache'[h] = table[s][CHOOSE j \in Won(s) : HashOf(s, j) = h]
      BY <1>1, <2>1, <2>2
    <3>3. (CHOOSE j \in Won(s) : HashOf(s, j) = h) \in Won(s)
          /\ HashOf(s, CHOOSE j \in Won(s) : HashOf(s, j) = h) = h
      BY <3>1
    <3>. QED
      BY <3>2, <3>3
  <2>3. CASE ~ \E i \in Won(s) : HashOf(s, i) = h
    <3>1. cache'[h] = cache[h]
      BY <1>1, <2>1, <2>3
    <3>. QED
      BY <2>1, <3>1 DEF Cached
  <2>. QED
    BY <2>2, <2>3
<1>. QED
  BY <1>1, <1>3, <1>4, <1>5, <1>7, <1>8

-----------------------------------------------------------------------------
(* The plan *)

LEMMA DecodeStays ==
    ASSUME NEW d, SeqKept(d.seq), DecodePlanned(d)
    PROVE  DecodePlanned(d)'
  BY DEF DecodePlanned, SeqKept, SlotAt

LEMMA PrefillStays ==
    ASSUME NEW p, SeqKept(p.seq), PrefillPlanned(p)
    PROVE  PrefillPlanned(p)'
  BY DEF PrefillPlanned, SeqKept, SlotAt

LEMMA PlanKvInv ==
    ASSUME ContentIInv, [Next]_vars, BatchIInv'
    PROVE  PlanKv'
<1>. USE DEF ContentIInv
<1>1. /\ BatchIInv /\ KvInv /\ KvInv' /\ StageShape /\ PlanShape /\ PlanKv
      /\ running \in Seq(SeqId) /\ Len(running) \in Nat /\ at \in Nat \ {0}
      /\ \A i \in 1..Len(running) : running[i] \in SeqId /\ running[i] \in Members(running)
      /\ \A i, j \in 1..Len(running) : running[i] = running[j] => i = j
      /\ plan.prefills \in Seq(PrefillItem) /\ plan.decodes \in Seq(DecodeItem)
      /\ Len(plan.prefills) \in Nat /\ Len(plan.decodes) \in Nat
  <2>1. /\ KvInv /\ KvInv' /\ StageShape /\ OrderShape /\ PlanShape
        /\ running \in Seq(SeqId) /\ arrival \in [SeqId -> Nat] /\ Ranked(running)
        /\ at \in Nat \ {0}
    BY DEF BatchIInv, StageShape, OrderShape
  <2>. QED
    BY <2>1, RankedDistinct, MembersFacts, PlanFacts
<1>2. \A i \in 1..Len(plan.decodes) : plan.decodes[i] \in Members(plan.decodes)
  BY DEF Members
<1>3. \A i \in 1..Len(plan.prefills) : plan.prefills[i] \in Members(plan.prefills)
  BY DEF Members
\* The plan is the same and so are the sequences in it.
<1>4. ASSUME pc \in Planning, plan' = plan,
             \A t \in Members(running) :
               \/ SeqKept(t)
               \/ /\ \A i \in 1..Len(plan.decodes) : plan.decodes[i].seq # t
                  /\ \A i \in 1..Len(plan.prefills) : plan.prefills[i].seq # t
      PROVE  PlanKv'
  <2>1. /\ \A i \in 1..Len(plan.decodes) : plan.decodes[i].seq \in Members(running)
        /\ \A i \in 1..Len(plan.prefills) : plan.prefills[i].seq \in Members(running)
    BY <1>1, <1>2, <1>3, <1>4, PlannedRuns
  <2>2. ASSUME NEW i \in 1..Len(plan.decodes)
        PROVE  DecodePlanned(plan.decodes[i])'
    <3>1. PICK d : d = plan.decodes[i]
      OBVIOUS
    <3>2. DecodePlanned(d)
      BY <1>1, <1>4, <3>1 DEF PlanKv
    <3>3. SeqKept(d.seq)
      BY <1>4, <2>1, <3>1
    <3>4. DecodePlanned(d)'
      BY <3>2, <3>3, DecodeStays
    <3>5. plan'.decodes[i] = d
      BY <1>4, <3>1
    <3>. QED
      BY <3>4, <3>5 DEF DecodePlanned
  <2>3. ASSUME NEW i \in 1..Len(plan.prefills)
        PROVE  PrefillPlanned(plan.prefills[i])'
    <3>1. PICK p : p = plan.prefills[i]
      OBVIOUS
    <3>2. PrefillPlanned(p)
      BY <1>1, <1>4, <3>1 DEF PlanKv
    <3>3. SeqKept(p.seq)
      BY <1>4, <2>1, <3>1
    <3>4. PrefillPlanned(p)'
      BY <3>2, <3>3, PrefillStays
    <3>5. plan'.prefills[i] = p
      BY <1>4, <3>1
    <3>. QED
      BY <3>4, <3>5 DEF PrefillPlanned
  <2>. QED
    BY <1>4, <2>2, <2>3 DEF PlanKv
<1>5. CASE pc' \notin Planning
  BY <1>5 DEF PlanKv
<1>6. CASE Stop \/ UNCHANGED vars \/ \E s \in SeqId : Submit(s)
  <2>1. UNCHANGED <<kvVars, plan, pc>>
    BY <1>6 DEF Stop, Submit, vars, stepVars
  <2>2. \A t : SeqKept(t)
    BY <2>1, KvVarsKept
  <2>3. CASE pc \in Planning
    BY <1>4, <2>1, <2>2, <2>3
  <2>. QED
    BY <1>5, <2>1, <2>3
<1>7. CASE BeginStep
  <2>1. plan' = NoPlan
    BY <1>7 DEF BeginStep
  <2>2. Len(plan'.decodes) = 0 /\ Len(plan'.prefills) = 0
    BY <2>1 DEF NoPlan
  <2>3. \A i \in 1..0 : FALSE
    OBVIOUS
  <2>. QED
    BY <2>2, <2>3 DEF PlanKv
<1>8. CASE GrowOne
  <2>. DEFINE s == running[at]
              nd == Len(plan.decodes)
  <2>1. /\ at \in 1..Len(running) /\ pc = "grow" /\ AppendTokens(s, 1)
        /\ s \in SeqId /\ len'[s] = len[s] + 1
        /\ \E d \in DecodeItem :
             /\ d = [seq |-> s, slot |-> SlotAt(table'[s], len[s]), table |-> table'[s]]
             /\ plan'.decodes = Append(plan.decodes, d)
             /\ plan'.prefills = plan.prefills
    BY <1>1, <1>8, GrowFacts
  <2>2. PICK d \in DecodeItem :
          /\ d.seq = s /\ d.slot = SlotAt(table'[s], len[s]) /\ d.table = table'[s]
          /\ plan'.decodes = Append(plan.decodes, d)
          /\ plan'.prefills = plan.prefills
    BY <2>1
  <2>3. /\ plan.prefills = <<>> /\ nd = at - 1
        /\ \A i \in 1..nd : plan.decodes[i].seq = running[i]
    BY <1>1, <2>1 DEF PlanShape
  <2>4. s \in live /\ \A t \in SeqId \ {s} : SeqKept(t)
    BY <1>1, <2>1, AppendKept
  <2>5. /\ Len(plan'.decodes) = nd + 1
        /\ \A i \in 1..nd : plan'.decodes[i] = plan.decodes[i]
        /\ plan'.decodes[nd + 1] = d
    BY <1>1, <2>2, AppendFacts
  <2>6. DecodePlanned(d)'
    <3>1. len[s] \in Nat /\ Len(Prompt[s]) \in Nat /\ Len(Prompt[s]) <= len[s]
      BY <1>1, <2>1, <2>4, HeldInTable, FullBlocksFacts DEF KvInv, TablesCover
    <3>2. Len(Prompt[s]) < len'[s] /\ len'[s] - 1 = len[s]
      BY <2>1, <3>1
    <3>3. d.table = table'[d.seq] /\ d.slot = SlotAt(table'[d.seq], len'[d.seq] - 1)
          /\ Len(Prompt[d.seq]) < len'[d.seq]
      BY <2>2, <3>2
    <3>. QED
      BY <3>3 DEF DecodePlanned, SlotAt
  <2>7. ASSUME NEW i \in 1..nd
        PROVE  DecodePlanned(plan.decodes[i]) /\ SeqKept(plan.decodes[i].seq)
    <3>1. i \in 1..Len(running) /\ i # at
      BY <1>1, <2>1, <2>3
    <3>2. running[i] \in SeqId \ {s}
      BY <1>1, <2>1, <3>1
    <3>3. DecodePlanned(plan.decodes[i])
      BY <1>1, <2>1 DEF PlanKv, Planning
    <3>. QED
      BY <2>3, <2>4, <3>2, <3>3
  <2>8. ASSUME NEW i \in 1..(nd + 1)
        PROVE  DecodePlanned(plan.decodes[i])'
    <3>1. CASE i \in 1..nd
      <4>1. PICK e : e = plan.decodes[i]
        OBVIOUS
      <4>2. DecodePlanned(e)'
        BY <2>7, <3>1, <4>1, DecodeStays
      <4>3. plan'.decodes[i] = e
        BY <2>5, <3>1, <4>1
      <4>. QED
        BY <4>2, <4>3 DEF DecodePlanned
    <3>2. CASE i = nd + 1
      <4>1. plan'.decodes[i] = d
        BY <2>5, <3>2
      <4>. QED
        BY <2>6, <4>1 DEF DecodePlanned
    <3>. QED
      BY <1>1, <3>1, <3>2
  <2>9. Len(plan'.prefills) = 0
    BY <2>2, <2>3
  <2>10. \A i \in 1..0 : FALSE
    OBVIOUS
  <2>. HIDE DEF s, nd
  <2>. QED
    BY <2>5, <2>8, <2>9, <2>10 DEF PlanKv
<1>9. CASE Preempt
  <2>. DEFINE v == running[Newest]
              nd == Len(plan.decodes)
  <2>1. /\ at \in 1..Len(running) /\ Newest \in 1..Len(running) /\ pc = "grow" /\ pc' = pc
        /\ plan' = plan /\ Free(v) /\ v \in SeqId
    BY <1>1, <1>9 DEF Preempt, Newest, stepVars
  <2>2. /\ plan.prefills = <<>> /\ nd = at - 1
        /\ \A i \in 1..nd : plan.decodes[i].seq = running[i]
    BY <1>1, <2>1 DEF PlanShape
  <2>3. \A t \in SeqId \ {v} : SeqKept(t)
    BY <1>1, <2>1, FreeKept
  <2>4. ASSUME NEW i \in 1..nd
        PROVE  plan.decodes[i].seq # v
    <3>1. i \in 1..Len(running) /\ i # Newest
      BY <1>1, <2>1, <2>2 DEF Newest
    <3>. QED
      BY <1>1, <2>1, <2>2, <3>1
  <2>5. \A i \in 1..Len(plan.prefills) : FALSE
    <3>1. Len(plan.prefills) = 0 /\ \A i \in 1..0 : FALSE
      BY <2>2
    <3>. QED
      BY <3>1
  <2>6. Members(running) \subseteq SeqId
    BY <1>1, MembersFacts
  <2>. HIDE DEF v
  <2>7. pc \in Planning
    BY <2>1 DEF Planning
  <2>. QED
    BY <1>4, <2>1, <2>3, <2>4, <2>5, <2>6, <2>7
<1>10. CASE GrowDone
  <2>1. UNCHANGED <<kvVars, plan>> /\ pc = "grow"
    BY <1>10 DEF GrowDone
  <2>2. pc \in Planning
    BY <2>1 DEF Planning
  <2>. QED
    BY <1>4, <2>1, <2>2, KvVarsKept
<1>11. CASE Admit
  <2>. DEFINE s == Head(waiting)
  <2>1. /\ pc = "admit" /\ s \in SeqId /\ s \notin live /\ AllocateWithPrefix(s) /\ plan' = plan
    BY <1>1, <1>11, AdmitFacts
  <2>2. \A t \in SeqId \ {s} : SeqKept(t)
    BY <1>1, <2>1, AllocateKept
  <2>3. \A t \in Members(running) : t \in SeqId \ {s}
    BY <1>1, <2>1, RunningLive
  <2>. HIDE DEF s
  <2>4. pc \in Planning
    BY <2>1 DEF Planning
  <2>. QED
    BY <1>4, <2>1, <2>2, <2>3, <2>4
<1>12. CASE AdmitDone
  <2>1. UNCHANGED <<kvVars, plan>> /\ pc = "admit"
    BY <1>12 DEF AdmitDone, stepVars
  <2>2. pc \in Planning
    BY <2>1 DEF Planning
  <2>. QED
    BY <1>4, <2>1, <2>2, KvVarsKept
<1>13. CASE Extend
  <2>. DEFINE s == Head(waiting)
              np == Len(plan.prefills)
              nd == Len(plan.decodes)
  <2>1. /\ pc = "extend" /\ waiting # <<>> /\ s \in SeqId /\ gen[s] \in Nat
        /\ \/ gen[s] > 0 /\ AppendTokens(s, gen[s])
           \/ gen[s] = 0 /\ UNCHANGED kvVars
        /\ \E p \in PrefillItem :
             /\ p.seq = s /\ p.cached = held[s] * BlockSize
             /\ p.table = table'[s]
             /\ p.slots = [i \in 1..(CtxLen(s) - p.cached) |-> SlotAt(table'[s], p.cached + i - 1)]
             /\ plan'.prefills = Append(plan.prefills, p)
             /\ plan'.decodes = plan.decodes
        /\ len'[s] = CtxLen(s) /\ held' = held
    BY <1>1, <1>13, ExtendFacts
  <2>2. PICK p \in PrefillItem :
          /\ p.seq = s /\ p.cached = held[s] * BlockSize
          /\ p.table = table'[s]
          /\ p.slots = [i \in 1..(CtxLen(s) - p.cached) |-> SlotAt(table'[s], p.cached + i - 1)]
          /\ plan'.prefills = Append(plan.prefills, p)
          /\ plan'.decodes = plan.decodes
    BY <2>1
  <2>3. \A t \in SeqId \ {s} : SeqKept(t)
    BY <1>1, <2>1, AppendKept, KvVarsKept
  <2>4. \A t \in Members(running) : t \in SeqId \ {s}
    <3>1. s \in Members(waiting) /\ Members(running) \subseteq SeqId
      BY <1>1, <2>1, TailFacts, MembersFacts, SMTT(30) DEF StageShape
    <3>2. \A t \in Members(running) : arrival[t] < arrival[s]
      BY <3>1 DEF BatchIInv, OrderShape
    <3>3. ~(arrival[s] < arrival[s])
      BY <1>1, <2>1 DEF StageShape
    <3>. QED
      BY <3>1, <3>2, <3>3
  <2>5. /\ \A i \in 1..nd : plan.decodes[i].seq \in Members(running)
        /\ \A i \in 1..np : plan.prefills[i].seq \in Members(running)
    BY <1>1, <1>2, <1>3, <2>1, PlannedRuns DEF Planning
  <2>6. /\ Len(plan'.prefills) = np + 1
        /\ \A i \in 1..np : plan'.prefills[i] = plan.prefills[i]
        /\ plan'.prefills[np + 1] = p
    BY <1>1, <2>2, AppendFacts
  <2>7. PrefillPlanned(p)'
    <3>1. /\ CtxLen(s) \in Nat /\ p.cached \in Nat /\ p.cached <= CtxLen(s)
      <4>1. s \in Members(waiting)
        BY <1>1, <2>1, TailFacts DEF StageShape
      <4>2. /\ CtxLen(s) \in Nat /\ CtxLen(s) = Len(Prompt[s]) + gen[s] /\ Len(Prompt[s]) \in Nat
        BY <1>1, <4>1, QueuedFacts DEF BatchIInv
      <4>3. s \in live
        BY <2>1 DEF BatchIInv, HoldShape
      <4>4. /\ held[s] \in Nat /\ held[s] <= FullBlocks(s) /\ FullBlocks(s) \in Nat
            /\ FullBlocks(s) * BlockSize <= Len(Prompt[s])
        BY <1>1, <2>1, <4>3, HeldInTable, FullBlocksFacts DEF KvInv, TablesCover
      <4>5. /\ held[s] * BlockSize <= FullBlocks(s) * BlockSize
            /\ held[s] * BlockSize \in Nat /\ FullBlocks(s) * BlockSize \in Nat
        BY <4>4, BlockSizeAssumption
      <4>. QED
        BY <2>1, <2>2, <4>2, <4>4, <4>5, SMTT(30)
    <3>2. /\ Len(p.slots) = CtxLen(s) - p.cached
          /\ \A i \in 1..Len(p.slots) : p.slots[i] = SlotAt(table'[s], p.cached + i - 1)
      <4>1. CtxLen(s) - p.cached \in Nat
        BY <3>1
      <4>. HIDE DEF s
      <4>. QED
        BY <2>2, <4>1
    <3>3. /\ p.table = table'[p.seq] /\ p.cached = held'[p.seq] * BlockSize
          /\ Len(p.slots) = len'[p.seq] - p.cached
          /\ \A i \in 1..Len(p.slots) : p.slots[i] = SlotAt(p.table, p.cached + i - 1)
      BY <2>1, <2>2, <3>2
    <3>. QED
      BY <3>3 DEF PrefillPlanned, SlotAt
  <2>8. ASSUME NEW i \in 1..(np + 1)
        PROVE  PrefillPlanned(plan.prefills[i])'
    <3>1. CASE i \in 1..np
      <4>1. PICK e : e = plan.prefills[i]
        OBVIOUS
      <4>2. PrefillPlanned(e)
        BY <1>1, <2>1, <3>1, <4>1 DEF PlanKv, Planning
      <4>3. PrefillPlanned(e)'
        BY <2>3, <2>4, <2>5, <3>1, <4>1, <4>2, PrefillStays
      <4>4. plan'.prefills[i] = e
        BY <2>6, <3>1, <4>1
      <4>. QED
        BY <4>3, <4>4 DEF PrefillPlanned
    <3>2. CASE i = np + 1
      <4>1. plan'.prefills[i] = p
        BY <2>6, <3>2
      <4>. QED
        BY <2>7, <4>1 DEF PrefillPlanned
    <3>. QED
      BY <1>1, <3>1, <3>2
  <2>9. ASSUME NEW i \in 1..nd
        PROVE  DecodePlanned(plan.decodes[i])'
    <3>1. PICK e : e = plan.decodes[i]
      OBVIOUS
    <3>2. DecodePlanned(e)
      BY <1>1, <2>1, <3>1 DEF PlanKv, Planning
    <3>3. DecodePlanned(e)'
      BY <2>3, <2>4, <2>5, <3>1, <3>2, DecodeStays
    <3>4. plan'.decodes[i] = e
      BY <2>2, <3>1
    <3>. QED
      BY <3>3, <3>4 DEF DecodePlanned
  <2>10. Len(plan'.decodes) = nd
    BY <2>2
  <2>. HIDE DEF s, np, nd
  <2>. QED
    BY <2>6, <2>8, <2>9, <2>10 DEF PlanKv
<1>14. CASE \/ Receive \/ Exit \/ ForwardOk \/ ForwardErr \/ Publish \/ Record \/ Finish \/ Emit
            \/ AbortOne \/ AbortDone
  <2>1. pc' \notin Planning
    BY <1>14 DEF Receive, Exit, ForwardOk, ForwardErr, Publish, Record, Finish, Emit, AbortOne,
                 AbortDone, Planning
  <2>. QED
    BY <1>5, <2>1
<1>. QED
  BY <1>6, <1>7, <1>8, <1>9, <1>10, <1>11, <1>12, <1>13, <1>14 DEF Next, Worker

-----------------------------------------------------------------------------
(* The prefix cache *)

\* Every block and offset is that of a position.
LEMMA OffsetFacts ==
    ASSUME NEW j \in Nat, NEW o \in 0..(BlockSize - 1)
    PROVE  /\ j * BlockSize + o \in Nat
           /\ (j * BlockSize + o) \div BlockSize = j
           /\ (j * BlockSize + o) % BlockSize = o
<1>. DEFINE n == j * BlockSize + o
            q == n \div BlockSize
            m == (j + 1) * BlockSize
<1>1. j * BlockSize \in Nat /\ n \in Nat /\ m = j * BlockSize + BlockSize
  BY BlockSizeAssumption
<1>2. n < m /\ j * BlockSize <= n
  BY <1>1, BlockSizeAssumption
<1>3. q + 1 <= j + 1 /\ j < q + 1 /\ q \in Nat /\ n % BlockSize \in 0..(BlockSize - 1)
      /\ n = q * BlockSize + (n % BlockSize)
  <2>. HIDE DEF n
  <2>1. j + 1 \in Nat
    OBVIOUS
  <2>. QED
    BY <1>1, <1>2, <2>1, PositionFacts
<1>. HIDE DEF q, m
<1>4. q = j
  BY <1>3
<1>5. n = j * BlockSize + (n % BlockSize)
  BY <1>3, <1>4
<1>6. n % BlockSize = o
  <2>. DEFINE r == n % BlockSize
              k == j * BlockSize
  <2>1. k \in Nat /\ r \in Nat /\ k + o = k + r
    BY <1>1, <1>3, <1>5, BlockSizeAssumption
  <2>. HIDE DEF r, k
  <2>2. o = r
    BY <2>1
  <2>. QED
    BY <2>2 DEF r
<1>. QED
  BY <1>1, <1>4, <1>6 DEF q

\* The last position of what a hash stands for, offset by offset.
LEMMA HashPosition ==
    ASSUME KvInv, NEW s \in live, NEW i \in 1..FullBlocks(s), NEW o \in 0..(BlockSize - 1),
           tokens \in [SeqId -> Seq(GenToken)]
    PROVE  \E pos \in Nat :
              /\ pos < len[s] /\ pos < FullBlocks(s) * BlockSize
              /\ SlotAt(table[s], pos) = <<table[s][i], o>>
              /\ SubSeq(HashOf(s, i), 1, Len(HashOf(s, i)) - BlockSize + o + 1)
                   = SubSeq(History(s), 1, pos + 1)
<1>. DEFINE j == i - 1
            pos == j * BlockSize + o
            e == i * BlockSize
<1>1. /\ s \in SeqId /\ FullBlocks(s) \in Nat /\ FullBlocks(s) * BlockSize <= Len(Prompt[s])
      /\ Len(Prompt[s]) <= len[s] /\ len[s] \in Nat /\ Len(Prompt[s]) \in Nat
  BY HeldInTable, FullBlocksFacts DEF KvInv, TablesCover
<1>2. /\ HashOf(s, i) = SubSeq(Prompt[s], 1, e) /\ Len(HashOf(s, i)) = e
      /\ e \in Nat /\ e <= Len(Prompt[s])
  BY <1>1, HashContent
<1>3. j \in Nat /\ i \in Nat /\ j + 1 = i
  BY <1>1
<1>4. e = j * BlockSize + BlockSize /\ j * BlockSize \in Nat
  BY <1>3, BlockSizeAssumption
<1>5. e <= FullBlocks(s) * BlockSize /\ FullBlocks(s) * BlockSize \in Nat
  <2>. DEFINE F == FullBlocks(s)
  <2>1. F \in Nat /\ i \in Nat /\ i <= F
    BY <1>1
  <2>. HIDE DEF F
  <2>. SUFFICES i * BlockSize <= F * BlockSize /\ F * BlockSize \in Nat
    BY DEF F
  <2>. QED
    BY <2>1, BlockSizeAssumption
<1>6. pos \in Nat /\ pos \div BlockSize = j /\ pos % BlockSize = o
  BY <1>3, OffsetFacts
<1>7. pos + 1 <= e /\ e - BlockSize + o + 1 = pos + 1
  BY <1>4, BlockSizeAssumption
<1>8. SlotAt(table[s], pos) = <<table[s][i], o>>
  BY <1>3, <1>6 DEF SlotAt
<1>. HIDE DEF j, pos, e
<1>9. pos + 1 \in Nat /\ pos + 1 \in 0..Len(Prompt[s]) /\ pos < len[s]
      /\ pos < FullBlocks(s) * BlockSize
  BY <1>1, <1>2, <1>5, <1>6, <1>7
<1>10. Prompt[s] \in Seq(Token)
  BY <1>1, PromptAssumption
<1>11. SubSeq(HashOf(s, i), 1, pos + 1) = SubSeq(Prompt[s], 1, pos + 1)
  BY <1>2, <1>7, <1>9, <1>10, PrefixFacts
<1>12. SubSeq(History(s), 1, pos + 1) = SubSeq(Prompt[s], 1, pos + 1)
  BY <1>1, <1>9, HistoryFacts
<1>13. Len(HashOf(s, i)) - BlockSize + o + 1 = pos + 1
  BY <1>2, <1>7
<1>. QED
  BY <1>6, <1>8, <1>9, <1>11, <1>12, <1>13

LEMMA CachedKvInv ==
    ASSUME ContentIInv, [Next]_vars, BatchIInv'
    PROVE  CachedKvFaithful'
<1>. USE DEF ContentIInv
<1>1. BatchIInv /\ KvInv /\ KvInv' /\ StageShape
      /\ CachedKvFaithful /\ PlanKv /\ SequenceKvFaithful
      /\ tokens \in [SeqId -> Seq(GenToken)]
  BY DEF BatchIInv, TokenShape
<1>2. /\ running \in Seq(SeqId) /\ Len(running) \in Nat /\ at \in Nat \ {0}
      /\ \A i \in 1..Len(running) : running[i] \in SeqId
  BY <1>1, MembersFacts DEF StageShape
<1>3. ASSUME CacheKept, kv' = kv
      PROVE  CachedKvFaithful'
  BY <1>1, <1>3 DEF CacheKept, CachedKvFaithful, KvAt
<1>4. CASE \/ Stop \/ UNCHANGED vars \/ (\E s \in SeqId : Submit(s))
           \/ Receive \/ Exit \/ BeginStep \/ GrowDone \/ AdmitDone \/ Record \/ Emit \/ AbortDone
  <2>1. UNCHANGED <<kvVars, kv>>
    BY <1>4 DEF Stop, vars, Submit, Receive, Exit, BeginStep, GrowDone, AdmitDone, Record, Emit,
                AbortDone
  <2>. QED
    BY <1>3, <2>1, KvVarsKept
<1>5. CASE GrowOne
  <2>1. AppendTokens(running[at], 1) /\ running[at] \in SeqId
    BY <1>1, <1>5, GrowFacts
  <2>2. kv' = kv
    BY <1>5 DEF GrowOne, Panic
  <2>3. CacheKept
    BY <1>1, <2>1, AppendKept
  <2>. QED
    BY <1>3, <2>2, <2>3
<1>6. CASE Extend
  <2>1. /\ Head(waiting) \in SeqId /\ gen[Head(waiting)] \in Nat
        /\ \/ AppendTokens(Head(waiting), gen[Head(waiting)])
           \/ UNCHANGED kvVars
    BY <1>1, <1>6, ExtendFacts
  <2>2. kv' = kv
    BY <1>6 DEF Extend, Panic
  <2>3. CacheKept
    BY <1>1, <2>1, AppendKept, KvVarsKept
  <2>. QED
    BY <1>3, <2>2, <2>3
<1>7. CASE Admit
  <2>1. AllocateWithPrefix(Head(waiting)) /\ Head(waiting) \in SeqId
    BY <1>1, <1>7, AdmitFacts
  <2>2. kv' = kv
    BY <1>7 DEF Admit, Panic
  <2>. QED
    BY <1>1, <1>3, <2>1, <2>2, AllocateKept
<1>8. CASE Preempt
  <2>1. Newest \in 1..Len(running) /\ Free(running[Newest]) /\ kv' = kv
    BY <1>2, <1>8 DEF Preempt, Newest
  <2>2. running[Newest] \in SeqId
    BY <1>2, <2>1
  <2>. QED
    BY <1>1, <1>3, <2>1, <2>2, FreeKept
<1>9. CASE Finish
  <2>1. /\ at \in 1..Len(running) /\ kv' = kv
        /\ UNCHANGED kvVars \/ Free(running[at])
    BY <1>2, <1>9 DEF Finish
  <2>2. running[at] \in SeqId
    BY <1>2, <2>1
  <2>. QED
    BY <1>1, <1>3, <2>1, <2>2, FreeKept, KvVarsKept
<1>10. CASE AbortOne
  <2>1. running # <<>> /\ Free(Head(running)) /\ kv' = kv
    BY <1>10 DEF AbortOne
  <2>2. Head(running) \in SeqId
    BY <1>2, <2>1, TailFacts
  <2>. QED
    BY <1>1, <1>3, <2>1, <2>2, FreeKept
<1>11. CASE ForwardOk \/ ForwardErr
  <2>1. UNCHANGED kvVars /\ pc = "forward"
    BY <1>11 DEF ForwardOk, ForwardErr
  <2>2. Cached' = Cached /\ cache' = cache
    BY <2>1 DEF kvVars, Cached
  <2>3. ASSUME NEW h \in Cached, NEW o \in 0..(BlockSize - 1)
        PROVE  kv'[cache[h]][o] = kv[cache[h]][o]
    <3>1. cache[h] \in CachedBlocks /\ cache[h] \in Block
      BY <1>1 DEF CachedBlocks, Cached, KvInv, KvTypeOK
    <3>2. <<cache[h], o>> \notin StepSlots
      BY <1>1, <2>1, <3>1, StepSparesCache DEF Planning
    <3>. QED
      BY <1>11, <3>1, <3>2, ForwardWrites
  <2>. QED
    BY <1>1, <2>2, <2>3 DEF CachedKvFaithful, KvAt
<1>12. CASE Publish
  <2>. DEFINE s == plan.prefills[at].seq
  <2>1. pc = "publish" /\ at \in 1..Len(plan.prefills) /\ CommitPrefix(s) /\ kv' = kv
    BY <1>1, <1>12, PlanFacts DEF Publish, StageShape
  <2>2. s \in Members(running) /\ s \in live /\ s \in SeqId
    <3>1. plan.prefills[at] \in Members(plan.prefills)
      BY <2>1 DEF Members
    <3>2. s \in Members(running) /\ Members(running) \subseteq live
      BY <1>1, <2>1, <3>1, PlannedRuns
    <3>. QED
      BY <1>1, <3>2 DEF KvInv, KvTypeOK
  <2>. HIDE DEF s
  <2>3. ASSUME NEW h \in Cached', NEW o \in 0..(BlockSize - 1)
        PROVE  kv[cache'[h]][o] = SubSeq(h, 1, Len(h) - BlockSize + o + 1)
    <3>1. CASE h \in Cached /\ cache'[h] = cache[h]
      BY <1>1, <3>1 DEF CachedKvFaithful, KvAt
    <3>2. CASE \E i \in Won(s) : h = HashOf(s, i) /\ cache'[h] = table[s][i]
      <4>1. PICK i \in Won(s) : h = HashOf(s, i) /\ cache'[h] = table[s][i]
        BY <3>2
      <4>2. i \in 1..FullBlocks(s)
        <5>1. i \in (held[s] + 1)..FullBlocks(s) /\ held[s] \in Nat /\ FullBlocks(s) \in Nat
          BY <1>1, <2>2, <4>1, HeldInTable, FullBlocksFacts DEF Won, Unpublished
        <5>. QED
          BY <5>1
      <4>3. PICK pos \in Nat :
              /\ pos < len[s]
              /\ SlotAt(table[s], pos) = <<table[s][i], o>>
              /\ SubSeq(HashOf(s, i), 1, Len(HashOf(s, i)) - BlockSize + o + 1)
                   = SubSeq(History(s), 1, pos + 1)
        BY <1>1, <2>2, <4>2, HashPosition
      <4>4. len[s] \in Nat
        BY <1>1, <2>2, HeldInTable
      <4>5. KvAt(SlotAt(table[s], pos)) = SubSeq(History(s), 1, pos + 1)
        <5>1. pos \in 0..(len[s] - 1)
          BY <4>3, <4>4
        <5>2. pc \notin {"grow", "admit", "extend", "forward", "abort"}
          BY <2>1
        <5>. QED
          BY <1>1, <2>2, <5>1, <5>2 DEF SequenceKvFaithful
      <4>6. KvAt(SlotAt(table[s], pos)) = kv[table[s][i]][o]
        BY <4>3 DEF KvAt
      <4>7. SubSeq(h, 1, Len(h) - BlockSize + o + 1) = SubSeq(History(s), 1, pos + 1)
        BY <4>1, <4>3
      <4>. QED
        BY <4>1, <4>5, <4>6, <4>7
    <3>. QED
      BY <1>1, <2>1, <2>2, <3>1, <3>2, CommitKept
  <2>. QED
    BY <2>1, <2>3 DEF CachedKvFaithful, KvAt
<1>. QED
  BY <1>4, <1>5, <1>6, <1>7, <1>8, <1>9, <1>10, <1>11, <1>12 DEF Next, Worker

-----------------------------------------------------------------------------
(* The sequences *)

\* What a token more changes in a history is behind it.
LEMMA AppendedPrefix ==
    ASSUME NEW S, NEW a \in Seq(S), NEW b \in Seq(S), NEW x \in S,
           NEW n \in Nat, n <= Len(a) + Len(b)
    PROVE  SubSeq(a \o Append(b, x), 1, n) = SubSeq(a \o b, 1, n)
<1>. DEFINE c == a \o b
            d == a \o Append(b, x)
<1>1. /\ Len(a) \in Nat /\ Len(b) \in Nat /\ Append(b, x) \in Seq(S)
      /\ Len(Append(b, x)) = Len(b) + 1
  OBVIOUS
<1>2. /\ c \in Seq(S) /\ Len(c) = Len(a) + Len(b)
      /\ d \in Seq(S) /\ Len(d) = Len(a) + (Len(b) + 1)
  BY <1>1
<1>3. \A i \in 1..n : d[i] = c[i]
  <2>. SUFFICES ASSUME NEW i \in 1..n PROVE d[i] = c[i]
    OBVIOUS
  <2>1. CASE i <= Len(a)
    BY <1>1, <2>1
  <2>2. CASE ~(i <= Len(a))
    <3>1. /\ i \in (Len(a) + 1)..(Len(a) + Len(b)) /\ i - Len(a) \in 1..Len(b)
          /\ i \in (Len(a) + 1)..(Len(a) + (Len(b) + 1))
      BY <1>1, <2>2
    <3>2. d[i] = Append(b, x)[i - Len(a)] /\ c[i] = b[i - Len(a)]
      BY <1>1, <3>1
    <3>3. Append(b, x)[i - Len(a)] = b[i - Len(a)]
      BY <3>1
    <3>. QED
      BY <3>2, <3>3
  <2>. QED
    BY <2>1, <2>2
<1>. HIDE DEF c, d
<1>4. SubSeq(d, 1, n) = SubSeq(c, 1, n)
  <2>1. n <= Len(c) /\ n <= Len(d)
    BY <1>1, <1>2
  <2>. QED
    BY <1>2, <1>3, <2>1
<1>. QED
  BY <1>4 DEF c, d

SharedHolds ==
    \A s \in live : \A pos \in 0..(len[s] - 1) :
        pos < held[s] * BlockSize =>
            KvAt(SlotAt(table[s], pos)) = SubSeq(History(s), 1, pos + 1)

LEMMA SharedAll ==
    KvInv /\ CachedKvFaithful /\ tokens \in [SeqId -> Seq(GenToken)] => SharedHolds
<1>. SUFFICES ASSUME KvInv, CachedKvFaithful, tokens \in [SeqId -> Seq(GenToken)],
                     NEW s \in live, NEW pos \in 0..(len[s] - 1), pos < held[s] * BlockSize
              PROVE  KvAt(SlotAt(table[s], pos)) = SubSeq(History(s), 1, pos + 1)
  BY DEF SharedHolds
<1>1. pos \in Nat /\ pos < len[s]
  BY HeldInTable
<1>. QED
  BY <1>1, SharedPrefix

Exempting == {"grow", "admit", "extend", "forward", "abort"}

\* The slots of a step change with its plan only.
LEMMA StepSlotsKept == plan' = plan => StepSlots' = StepSlots
  BY DEF StepSlots, Members

\* The sequence that grows by n stores its new tokens behind the others.
LEMMA GrownSlots ==
    ASSUME KvInv, NEW s \in SeqId, NEW n \in Nat, AppendTokens(s, n), NEW pos \in Nat, pos < len[s]
    PROVE  SlotAt(table'[s], pos) = SlotAt(table[s], pos)
<1>1. s \in live /\ \A i \in 1..Len(table[s]) : table'[s][i] = table[s][i]
  BY AppendKept
<1>2. (pos \div BlockSize) + 1 \in 1..Len(table[s])
  BY <1>1, PositionInTable
<1>. QED
  BY <1>1, <1>2 DEF SlotAt

\* After commit_prefix a sequence reads the same at every position, from its own
\* block or from the cached block that took its place.
LEMMA CommitReads ==
    ASSUME KvInv, CachedKvFaithful, tokens \in [SeqId -> Seq(GenToken)],
           NEW s \in SeqId, CommitPrefix(s), NEW pos \in Nat, pos < len[s],
           KvAt(SlotAt(table[s], pos)) = SubSeq(History(s), 1, pos + 1)
    PROVE  KvAt(SlotAt(table'[s], pos)) = SubSeq(History(s), 1, pos + 1)
<1>. DEFINE i == (pos \div BlockSize) + 1
            o == pos % BlockSize
<1>1. /\ s \in live
      /\ Won(s) \cup Lost(s) = (held[s] + 1)..FullBlocks(s)
      /\ \A k \in Lost(s) : HashOf(s, k) \in Cached /\ table'[s][k] = cache[HashOf(s, k)]
      /\ \A k \in 1..Len(table[s]) : k \notin Lost(s) => table'[s][k] = table[s][k]
  BY CommitKept
<1>2. /\ i \in 1..Len(table[s]) /\ o \in 0..(BlockSize - 1)
      /\ pos < held[s] * BlockSize => i \in 1..held[s]
      /\ held[s] \in Nat /\ FullBlocks(s) \in Nat /\ len[s] \in Nat
  BY <1>1, PositionInTable, PositionFacts, HeldInTable, FullBlocksFacts
<1>3. SlotAt(table[s], pos) = <<table[s][i], o>> /\ SlotAt(table'[s], pos) = <<table'[s][i], o>>
  BY DEF SlotAt
<1>. HIDE DEF i, o
<1>4. CASE i \notin Lost(s)
  BY <1>1, <1>2, <1>3, <1>4
<1>5. CASE i \in Lost(s)
  <2>1. i \in (held[s] + 1)..FullBlocks(s)
    BY <1>1, <1>5
  <2>2. i \in 1..FullBlocks(s) /\ ~(i \in 1..held[s])
    BY <1>2, <2>1
  <2>3. held[s] * BlockSize <= pos
    <3>1. held[s] * BlockSize \in Nat
      BY <1>2, BlockSizeAssumption
    <3>2. ~(pos < held[s] * BlockSize)
      BY <1>2, <2>2
    <3>. QED
      BY <3>1, <3>2
  <2>4. PICK q \in Nat :
          /\ q < len[s]
          /\ SlotAt(table[s], q) = <<table[s][i], o>>
          /\ SubSeq(HashOf(s, i), 1, Len(HashOf(s, i)) - BlockSize + o + 1)
               = SubSeq(History(s), 1, q + 1)
    BY <1>1, <1>2, <2>2, HashPosition
  <2>5. q = pos
    BY <1>1, <1>3, <2>3, <2>4, OwnSlotsDistinct DEF OneOwner
  <2>6. KvAt(<<cache[HashOf(s, i)], o>>)
          = SubSeq(HashOf(s, i), 1, Len(HashOf(s, i)) - BlockSize + o + 1)
    BY <1>1, <1>2, <1>5 DEF CachedKvFaithful
  <2>7. SlotAt(table'[s], pos) = <<cache[HashOf(s, i)], o>>
    BY <1>1, <1>3, <1>5
  <2>. QED
    BY <2>4, <2>5, <2>6, <2>7
<1>. QED
  BY <1>4, <1>5

LEMMA SeqKvInv ==
    ASSUME ContentIInv, [Next]_vars, BatchIInv', TokenShape', PlanKv', CachedKvFaithful'
    PROVE  SequenceKvFaithful'
<1>. USE DEF ContentIInv
<1>1. BatchIInv /\ KvInv /\ KvInv' /\ StageShape
      /\ CachedKvFaithful /\ PlanKv /\ SequenceKvFaithful
      /\ tokens \in [SeqId -> Seq(GenToken)]
  BY DEF BatchIInv, TokenShape
<1>2. /\ running \in Seq(SeqId) /\ Len(running) \in Nat /\ at \in Nat \ {0}
      /\ \A i \in 1..Len(running) : running[i] \in SeqId /\ running[i] \in Members(running)
      /\ Members(running) \subseteq SeqId
      /\ Ranked(running) /\ arrival \in [SeqId -> Nat]
  BY <1>1, MembersFacts DEF StageShape, BatchIInv, OrderShape
<1>3. \A s \in Members(running) : \A p \in 0..(len[s] - 1) :
         \/ KvAt(SlotAt(table[s], p)) = SubSeq(History(s), 1, p + 1)
         \/ pc \in Exempting /\ SlotAt(table[s], p) \in StepSlots
  BY <1>1 DEF SequenceKvFaithful, Exempting
<1>4. ASSUME \A s \in Members(running)' : \A p \in 0..(len'[s] - 1) :
                \/ kv'[SlotAt(table'[s], p)[1]][SlotAt(table'[s], p)[2]]
                     = SubSeq(Prompt[s] \o tokens'[s], 1, p + 1)
                \/ pc' \in Exempting /\ SlotAt(table'[s], p) \in StepSlots'
      PROVE  SequenceKvFaithful'
  BY <1>4 DEF SequenceKvFaithful, KvAt, SlotAt, History, Exempting
\* Whoever runs ran before and is as it was, and so is what it stores.
<1>5. ASSUME kv' = kv, tokens' = tokens, Members(running)' \subseteq Members(running),
             \A s \in Members(running)' : SeqKept(s),
             \A slot \in StepSlots : pc \in Exempting => pc' \in Exempting /\ slot \in StepSlots'
      PROVE  SequenceKvFaithful'
  <2>1. ASSUME NEW s \in Members(running)', NEW p \in 0..(len'[s] - 1)
        PROVE  \/ kv'[SlotAt(table'[s], p)[1]][SlotAt(table'[s], p)[2]]
                    = SubSeq(Prompt[s] \o tokens'[s], 1, p + 1)
               \/ pc' \in Exempting /\ SlotAt(table'[s], p) \in StepSlots'
    <3>1. s \in Members(running) /\ p \in 0..(len[s] - 1)
          /\ SlotAt(table'[s], p) = SlotAt(table[s], p)
      BY <1>5 DEF SeqKept
    <3>2. \/ KvAt(SlotAt(table[s], p)) = SubSeq(History(s), 1, p + 1)
          \/ pc \in Exempting /\ SlotAt(table[s], p) \in StepSlots
      BY <1>3, <3>1
    <3>. QED
      BY <1>5, <3>1, <3>2 DEF KvAt, History
  <2>. QED
    BY <1>4, <2>1
<1>6. CASE Stop \/ UNCHANGED vars \/ (\E s \in SeqId : Submit(s)) \/ GrowDone
  <2>1. /\ UNCHANGED <<kvVars, kv, tokens, running, plan>>
        /\ pc \in Exempting => pc' \in Exempting
    BY <1>6 DEF Stop, vars, Submit, GrowDone, engineVars, schedVars, stepVars, Exempting
  <2>2. StepSlots' = StepSlots /\ Members(running)' = Members(running)
    BY <2>1, StepSlotsKept DEF Members
  <2>. QED
    BY <1>5, <2>1, <2>2, KvVarsKept
<1>7. CASE Receive \/ Exit \/ BeginStep \/ Emit
  <2>1. UNCHANGED <<kvVars, kv, tokens>> /\ pc \notin Exempting
    BY <1>7 DEF Receive, Exit, BeginStep, Emit, engineVars, Exempting
  <2>2. running' = running
    BY <1>2, <1>7, SortedStays DEF Receive, Exit, BeginStep, Emit, schedVars
  <2>3. Members(running)' = Members(running)
    BY <2>2 DEF Members
  <2>. QED
    BY <1>5, <2>1, <2>3, KvVarsKept
<1>8. CASE AdmitDone
  <2>1. UNCHANGED <<kvVars, kv, tokens, running, plan>>
    BY <1>8 DEF AdmitDone, schedVars, stepVars
  <2>2. Members(running)' = Members(running)
    BY <2>1 DEF Members
  <2>3. CASE plan = NoPlan
    <3>1. StepSlots = {}
      BY <2>3 DEF StepSlots, NoPlan, Members
    <3>. QED
      BY <1>5, <2>1, <2>2, <3>1, KvVarsKept
  <2>4. CASE plan # NoPlan
    <3>1. StepSlots' = StepSlots /\ pc' \in Exempting
      BY <1>8, <2>1, <2>4, StepSlotsKept DEF AdmitDone, Exempting
    <3>. QED
      BY <1>5, <2>1, <2>2, <3>1, KvVarsKept
  <2>. QED
    BY <2>3, <2>4
<1>9. CASE AbortDone
  <2>1. UNCHANGED <<kv, tokens>> /\ running' = <<>>
    BY <1>9 DEF AbortDone
  <2>2. Members(running)' = {}
    BY <2>1 DEF Members
  <2>. QED
    BY <1>4, <2>2
<1>10. CASE GrowOne
  <2>. DEFINE s == running[at]
  <2>1. /\ at \in 1..Len(running) /\ pc = "grow" /\ pc' = "grow"
        /\ AppendTokens(s, 1) /\ s \in SeqId /\ len'[s] = len[s] + 1
        /\ \E d \in DecodeItem :
             /\ d = [seq |-> s, slot |-> SlotAt(table'[s], len[s]), table |-> table'[s]]
             /\ plan'.decodes = Append(plan.decodes, d)
             /\ plan'.prefills = plan.prefills
        /\ running' = running
    BY <1>1, <1>10, GrowFacts DEF schedVars
  <2>2. kv' = kv /\ tokens' = tokens
    BY <1>10 DEF GrowOne, Panic, engineVars
  <2>3. StepSlots \cup {SlotAt(table'[s], len[s])} \subseteq StepSlots'
    <3>1. PICK d \in DecodeItem :
            /\ d.slot = SlotAt(table'[s], len[s])
            /\ plan'.decodes = Append(plan.decodes, d) /\ plan'.prefills = plan.prefills
      BY <2>1
    <3>2. plan.decodes \in Seq(DecodeItem)
      BY <1>1, PlanFacts
    <3>3. Members(plan'.decodes) = Members(plan.decodes) \cup {d}
          /\ Members(plan'.prefills) = Members(plan.prefills)
      BY <3>1, <3>2, AppendFacts
    <3>4. StepSlots' = (UNION {Members(p.slots) : p \in Members(plan'.prefills)})
                         \cup {e.slot : e \in Members(plan'.decodes)}
      BY DEF StepSlots, Members
    <3>5. {e.slot : e \in Members(plan.decodes)} \cup {d.slot}
            \subseteq {e.slot : e \in Members(plan'.decodes)}
      BY <3>3
    <3>. QED
      BY <3>1, <3>3, <3>4, <3>5 DEF StepSlots
  <2>4. /\ s \in live /\ len[s] \in Nat /\ \A t \in SeqId \ {s} : SeqKept(t)
    BY <1>1, <2>1, AppendKept, HeldInTable
  <2>5. Members(running)' = Members(running)
    BY <2>1 DEF Members
  <2>6. s \in Members(running)
    BY <1>2, <2>1
  <2>7. pc \in Exempting /\ pc' \in Exempting
    BY <2>1 DEF Exempting
  <2>. HIDE DEF s
  <2>8. ASSUME NEW t \in Members(running), NEW p \in 0..(len'[t] - 1)
        PROVE  \/ kv'[SlotAt(table'[t], p)[1]][SlotAt(table'[t], p)[2]]
                    = SubSeq(Prompt[t] \o tokens'[t], 1, p + 1)
               \/ pc' \in Exempting /\ SlotAt(table'[t], p) \in StepSlots'
    <3>1. CASE t = s /\ p = len[s]
      BY <2>3, <2>7, <3>1
    <3>2. CASE ~(t = s /\ p = len[s])
      <4>1. p \in 0..(len[t] - 1) /\ SlotAt(table'[t], p) = SlotAt(table[t], p)
        <5>1. CASE t = s
          <6>1. p \in 0..(len[s] - 1) /\ p < len[s] /\ p \in Nat
            BY <2>1, <2>4, <3>2, <5>1
          <6>2. SlotAt(table'[s], p) = SlotAt(table[s], p)
            BY <1>1, <2>1, <6>1, GrownSlots
          <6>. QED
            BY <5>1, <6>1, <6>2
        <5>2. CASE t # s
          <6>1. SeqKept(t)
            BY <1>2, <2>4, <5>2
          <6>. QED
            BY <6>1 DEF SeqKept
        <5>. QED
          BY <5>1, <5>2
      <4>2. \/ KvAt(SlotAt(table[t], p)) = SubSeq(History(t), 1, p + 1)
            \/ SlotAt(table[t], p) \in StepSlots
        BY <1>3, <4>1
      <4>. QED
        BY <2>2, <2>3, <2>7, <4>1, <4>2 DEF KvAt, History
    <3>. QED
      BY <3>1, <3>2
  <2>. QED
    BY <1>4, <2>5, <2>8
<1>11. CASE Preempt
  <2>. DEFINE v == running[Newest]
  <2>1. /\ Newest \in 1..Len(running) /\ pc' = pc
        /\ Free(v) /\ running' = RemoveIndex(running, Newest)
        /\ UNCHANGED <<kv, tokens, plan>>
    BY <1>2, <1>11 DEF Preempt, Newest, stepVars, engineVars
  <2>2. v \in SeqId
    BY <1>2, <2>1
  <2>3. Members(RemoveIndex(running, Newest)) = Members(running) \ {v}
    BY <2>1, RunningRemoved
  <2>4. Members(running)' = Members(running) \ {v}
    BY <2>1, <2>3 DEF Members
  <2>5. StepSlots' = StepSlots
    BY <2>1, StepSlotsKept
  <2>6. \A t \in SeqId \ {v} : SeqKept(t)
    BY <1>1, <2>1, <2>2, FreeKept
  <2>. HIDE DEF v
  <2>. QED
    BY <1>2, <1>5, <2>1, <2>4, <2>5, <2>6
<1>12. CASE Admit
  <2>. DEFINE s == Head(waiting)
  <2>1. /\ pc' = "extend" /\ s \in SeqId /\ s \notin live /\ AllocateWithPrefix(s)
        /\ plan' = plan /\ running' = running /\ pc = "admit"
    BY <1>1, <1>12, AdmitFacts DEF schedVars
  <2>2. kv' = kv /\ tokens' = tokens
    BY <1>12 DEF Admit, Panic, engineVars
  <2>3. \A t \in SeqId \ {s} : SeqKept(t)
    BY <1>1, <2>1, AllocateKept
  <2>4. \A t \in Members(running) : t \in SeqId \ {s}
    BY <1>1, <2>1, RunningLive
  <2>5. Members(running)' = Members(running)
    BY <2>1 DEF Members
  <2>6. StepSlots' = StepSlots /\ pc' \in Exempting
    BY <2>1, StepSlotsKept DEF Exempting
  <2>. HIDE DEF s
  <2>. QED
    BY <1>5, <2>2, <2>3, <2>4, <2>5, <2>6
<1>13. CASE Extend
  <2>. DEFINE s == Head(waiting)
  <2>1. /\ pc = "extend" /\ pc' = "admit" /\ waiting # <<>> /\ s \in SeqId /\ s \in live'
        /\ gen[s] \in Nat
        /\ \/ gen[s] > 0 /\ AppendTokens(s, gen[s])
           \/ gen[s] = 0 /\ UNCHANGED kvVars
        /\ \E p \in PrefillItem :
             /\ p.seq = s /\ p.cached = held[s] * BlockSize
             /\ p.slots = [i \in 1..(CtxLen(s) - p.cached) |-> SlotAt(table'[s], p.cached + i - 1)]
             /\ plan'.prefills = Append(plan.prefills, p)
             /\ plan'.decodes = plan.decodes
        /\ len'[s] = CtxLen(s) /\ held' = held
        /\ running' = Append(running, s)
    BY <1>1, <1>13, ExtendFacts
  <2>2. kv' = kv /\ tokens' = tokens
    BY <1>13 DEF Extend, Panic, engineVars
  <2>3. PICK p \in PrefillItem :
          /\ p.seq = s /\ p.cached = held[s] * BlockSize
          /\ p.slots = [i \in 1..(CtxLen(s) - p.cached) |-> SlotAt(table'[s], p.cached + i - 1)]
          /\ plan'.prefills = Append(plan.prefills, p)
          /\ plan'.decodes = plan.decodes
    BY <2>1
  <2>4. \A t \in SeqId \ {s} : SeqKept(t)
    BY <1>1, <2>1, AppendKept, KvVarsKept
  <2>5. StepSlots \cup Members(p.slots) \subseteq StepSlots'
    <3>1. plan.prefills \in Seq(PrefillItem)
      BY <1>1, PlanFacts
    <3>2. Members(plan'.prefills) = Members(plan.prefills) \cup {p}
          /\ Members(plan'.decodes) = Members(plan.decodes)
      BY <2>3, <3>1, AppendFacts
    <3>3. StepSlots' = (UNION {Members(e.slots) : e \in Members(plan'.prefills)})
                         \cup {e.slot : e \in Members(plan'.decodes)}
      BY DEF StepSlots, Members
    <3>. QED
      BY <3>2, <3>3 DEF StepSlots
  <2>6. Members(running)' = Members(running) \cup {s}
    <3>1. Members(Append(running, s)) = Members(running) \cup {s}
      BY <1>2, <2>1, AppendFacts
    <3>. QED
      BY <2>1, <3>1 DEF Members
  <2>7. \A t \in Members(running) : t \in SeqId \ {s}
    <3>1. s \in Members(waiting)
      BY <1>1, <2>1, TailFacts DEF StageShape
    <3>2. \A t \in Members(running) : arrival[t] < arrival[s]
      BY <3>1 DEF BatchIInv, OrderShape
    <3>3. ~(arrival[s] < arrival[s])
      BY <1>2, <2>1
    <3>. QED
      BY <1>2, <3>2, <3>3
  <2>8. pc \in Exempting /\ pc' \in Exempting
    BY <2>1 DEF Exempting
  <2>9. SharedHolds'
    <3>1. KvInv' /\ CachedKvFaithful' /\ (tokens \in [SeqId -> Seq(GenToken)])'
      BY <1>1 DEF TokenShape
    <3>. QED
      BY <3>1, SharedAll, PTL
  <2>10. CtxLen(s) \in Nat /\ held[s] * BlockSize \in Nat
    <3>1. s \in Members(waiting)
      BY <1>1, <2>1, TailFacts DEF StageShape
    <3>2. held[s] \in Nat
      BY <1>1, <2>1 DEF KvInv, KvTypeOK
    <3>. QED
      BY <1>1, <3>1, <3>2, QueuedFacts, BlockSizeAssumption DEF BatchIInv
  <2>. HIDE DEF s
  <2>11. ASSUME NEW pos \in 0..(len'[s] - 1)
         PROVE  \/ kv'[SlotAt(table'[s], pos)[1]][SlotAt(table'[s], pos)[2]]
                     = SubSeq(Prompt[s] \o tokens'[s], 1, pos + 1)
                \/ SlotAt(table'[s], pos) \in StepSlots'
    <3>1. CASE pos < held[s] * BlockSize
      <4>1. pos < held'[s] * BlockSize
        BY <2>1, <3>1
      <4>. QED
        BY <2>1, <2>9, <4>1 DEF SharedHolds, KvAt, SlotAt, History
    <3>2. CASE ~(pos < held[s] * BlockSize)
      <4>. DEFINE c == held[s] * BlockSize
                  j == pos - c + 1
      <4>1. c \in Nat /\ c = p.cached /\ ~(pos < c)
        BY <2>3, <2>10, <3>2
      <4>. HIDE DEF c
      <4>2. j \in 1..(CtxLen(s) - c) /\ CtxLen(s) - c \in Nat /\ c + j - 1 = pos
        <5>. DEFINE n == CtxLen(s)
        <5>1. n \in Nat /\ pos \in 0..(n - 1)
          BY <2>1, <2>10
        <5>. HIDE DEF n
        <5>2. j \in 1..(n - c) /\ n - c \in Nat /\ c + j - 1 = pos
          BY <4>1, <5>1
        <5>. QED
          BY <5>2 DEF n
      <4>3. Len(p.slots) = CtxLen(s) - c /\ p.slots[j] = SlotAt(table'[s], c + j - 1)
        BY <2>3, <4>1, <4>2
      <4>4. SlotAt(table'[s], pos) \in Members(p.slots)
        BY <4>2, <4>3 DEF Members
      <4>. QED
        BY <2>5, <4>4
    <3>. QED
      BY <3>1, <3>2
  <2>12. ASSUME NEW t \in Members(running), NEW pos \in 0..(len'[t] - 1)
         PROVE  \/ kv'[SlotAt(table'[t], pos)[1]][SlotAt(table'[t], pos)[2]]
                     = SubSeq(Prompt[t] \o tokens'[t], 1, pos + 1)
                \/ SlotAt(table'[t], pos) \in StepSlots'
    <3>1. pos \in 0..(len[t] - 1) /\ SlotAt(table'[t], pos) = SlotAt(table[t], pos)
      BY <2>4, <2>7 DEF SeqKept
    <3>2. \/ KvAt(SlotAt(table[t], pos)) = SubSeq(History(t), 1, pos + 1)
          \/ SlotAt(table[t], pos) \in StepSlots
      BY <1>3, <3>1
    <3>. QED
      BY <2>2, <2>5, <3>1, <3>2 DEF KvAt, History
  <2>. QED
    BY <1>4, <2>6, <2>8, <2>11, <2>12
<1>14. CASE ForwardOk \/ ForwardErr
  <2>1. /\ UNCHANGED <<kvVars, tokens, running, plan>> /\ pc = "forward"
        /\ ForwardErr => pc' \in Exempting
    BY <1>14 DEF ForwardOk, ForwardErr, schedVars, engineVars, stepVars, Exempting
  <2>2. Members(running)' = Members(running) /\ StepSlots' = StepSlots
    BY <2>1, StepSlotsKept DEF Members
  <2>3. ASSUME NEW s \in Members(running), NEW p \in 0..(len[s] - 1)
        PROVE  \/ kv'[SlotAt(table[s], p)[1]][SlotAt(table[s], p)[2]]
                    = SubSeq(History(s), 1, p + 1)
               \/ pc' \in Exempting /\ SlotAt(table[s], p) \in StepSlots
    <3>1. s \in live /\ len[s] \in Nat
      BY <2>1, ForwardFacts
    <3>2. p \in Nat /\ p < len[s]
      BY <3>1
    <3>3. SlotAt(table[s], p) \in Slot
      BY <1>1, <3>1, <3>2, PositionInTable
    <3>4. PICK b \in Block, o \in 0..(BlockSize - 1) : SlotAt(table[s], p) = <<b, o>>
      BY <3>3 DEF Slot
    <3>5. CASE <<b, o>> \notin StepSlots
      <4>1. kv'[b][o] = kv[b][o]
        BY <1>14, <3>5, ForwardWrites
      <4>2. KvAt(SlotAt(table[s], p)) = SubSeq(History(s), 1, p + 1)
        BY <2>1, <3>2, <3>4, <3>5, EarlierHolds
      <4>3. KvAt(SlotAt(table[s], p)) = kv[b][o]
        BY <3>4 DEF KvAt
      <4>. QED
        BY <3>4, <4>1, <4>2, <4>3
    <3>6. CASE <<b, o>> \in StepSlots /\ ForwardOk
      <4>1. kv'[b][o] = Computed(<<b, o>>)
        BY <3>6, ForwardWrites
      <4>2. Computed(<<b, o>>) = SubSeq(History(s), 1, p + 1)
        BY <2>1, <3>2, <3>4, <3>6, ComputedHolds
      <4>. QED
        BY <3>4, <4>1, <4>2, SMTT(30)
    <3>7. CASE <<b, o>> \in StepSlots /\ ForwardErr
      BY <2>1, <3>4, <3>7
    <3>. QED
      BY <1>14, <3>5, <3>6, <3>7
  <2>4. table' = table /\ len' = len
    BY <2>1 DEF kvVars
  <2>. QED
    BY <1>4, <2>1, <2>2, <2>3, <2>4 DEF History
<1>15. CASE Publish
  <2>. DEFINE s == plan.prefills[at].seq
  <2>1. /\ pc = "publish" /\ at \in 1..Len(plan.prefills) /\ CommitPrefix(s)
        /\ UNCHANGED <<kv, tokens, running>>
    BY <1>1, <1>15, PlanFacts DEF Publish, StageShape, engineVars, schedVars
  <2>2. s \in Members(running) /\ s \in SeqId
    <3>1. plan.prefills[at] \in Members(plan.prefills)
      BY <2>1 DEF Members
    <3>2. s \in Members(running)
      BY <1>1, <2>1, <3>1, PlannedRuns
    <3>. QED
      BY <1>2, <3>2
  <2>. HIDE DEF s
  <2>3. pc \notin Exempting /\ Members(running)' = Members(running)
    BY <2>1 DEF Exempting, Members
  <2>4. len' = len /\ \A t \in SeqId \ {s} : SeqKept(t)
    BY <1>1, <2>1, <2>2, CommitKept
  <2>5. ASSUME NEW t \in Members(running), NEW p \in 0..(len[t] - 1)
        PROVE  KvAt(SlotAt(table'[t], p)) = SubSeq(History(t), 1, p + 1)
    <3>1. KvAt(SlotAt(table[t], p)) = SubSeq(History(t), 1, p + 1)
      BY <1>3, <2>3
    <3>2. CASE t # s
      <4>1. SeqKept(t)
        BY <1>2, <2>4, <3>2
      <4>. QED
        BY <3>1, <4>1 DEF SeqKept
    <3>3. CASE t = s
      <4>1. p \in Nat /\ p < len[s]
        BY <1>1, <2>2, <3>3 DEF KvInv, KvTypeOK
      <4>. QED
        BY <1>1, <2>1, <2>2, <3>1, <3>3, <4>1, CommitReads
    <3>. QED
      BY <3>2, <3>3
  <2>. QED
    BY <1>4, <2>1, <2>3, <2>4, <2>5 DEF KvAt, History
<1>16. CASE Record
  <2>1. /\ UNCHANGED <<kvVars, kv, running>> /\ pc = "publish"
        /\ tokens' = [s \in SeqId |->
             IF s \in Prefilled \cup Decoded
             THEN Append(tokens[s], <<s, Len(tokens[s]) + 1>>) ELSE tokens[s]]
    BY <1>16 DEF Record, schedVars
  <2>2. pc \notin Exempting /\ Members(running)' = Members(running)
    BY <2>1 DEF Exempting, Members
  <2>3. ASSUME NEW s \in Members(running), NEW p \in 0..(len[s] - 1)
        PROVE  KvAt(SlotAt(table[s], p)) = SubSeq(Prompt[s] \o tokens'[s], 1, p + 1)
    <3>1. KvAt(SlotAt(table[s], p)) = SubSeq(History(s), 1, p + 1)
      BY <1>3, <2>2
    <3>2. /\ s \in SeqId /\ len[s] \in Nat /\ Len(tokens[s]) = gen[s]
          /\ len[s] = Len(Prompt[s]) + gen[s]
      BY <2>1, ForwardFacts
    <3>3. /\ Prompt[s] \in Seq(Content) /\ tokens[s] \in Seq(Content)
          /\ Len(tokens[s]) \in Nat
      BY <1>1, <3>2, HistoryFacts
    <3>4. <<s, Len(tokens[s]) + 1>> \in Content
      BY <3>2, <3>3 DEF Content, GenToken
    <3>5. p + 1 \in Nat /\ p + 1 <= Len(Prompt[s]) + Len(tokens[s])
      BY <3>2
    <3>6. SubSeq(Prompt[s] \o Append(tokens[s], <<s, Len(tokens[s]) + 1>>), 1, p + 1)
            = SubSeq(Prompt[s] \o tokens[s], 1, p + 1)
      BY <3>3, <3>4, <3>5, AppendedPrefix
    <3>. QED
      BY <2>1, <3>1, <3>2, <3>6 DEF History
  <2>4. table' = table /\ len' = len
    BY <2>1 DEF kvVars
  <2>. QED
    BY <1>4, <2>1, <2>2, <2>3, <2>4 DEF KvAt
<1>17. CASE Finish
  <2>. DEFINE s == running[at]
  <2>1. /\ at \in 1..Len(running) /\ pc = "finish" /\ UNCHANGED <<kv, tokens>>
        /\ \/ UNCHANGED <<kvVars, running>>
           \/ Free(s) /\ running' = RemoveIndex(running, at)
    BY <1>2, <1>17 DEF Finish
  <2>2. s \in SeqId /\ Members(RemoveIndex(running, at)) = Members(running) \ {s}
    BY <1>2, <2>1, RunningRemoved
  <2>3. pc \notin Exempting
    BY <2>1 DEF Exempting
  <2>. HIDE DEF s
  <2>4. CASE UNCHANGED <<kvVars, running>>
    <3>1. Members(running)' = Members(running)
      BY <2>4 DEF Members
    <3>. QED
      BY <1>5, <2>1, <2>3, <2>4, <3>1, KvVarsKept
  <2>5. CASE Free(s) /\ running' = RemoveIndex(running, at)
    <3>1. Members(running)' = Members(running) \ {s}
      BY <2>2, <2>5 DEF Members
    <3>2. \A t \in SeqId \ {s} : SeqKept(t)
      BY <1>1, <2>2, <2>5, FreeKept
    <3>. QED
      BY <1>2, <1>5, <2>1, <2>3, <3>1, <3>2
  <2>. QED
    BY <2>1, <2>4, <2>5
<1>18. CASE AbortOne
  <2>. DEFINE s == Head(running)
  <2>1. /\ running # <<>> /\ pc' = pc /\ UNCHANGED <<kv, tokens, plan>>
        /\ Free(s) /\ running' = Tail(running)
    BY <1>18 DEF AbortOne, engineVars, stepVars
  <2>2. /\ s \in SeqId /\ Members(running) = {s} \cup Members(Tail(running))
        /\ s \notin Members(Tail(running))
    BY <1>2, <2>1, TailFacts, HeadRanked
  <2>3. Members(running)' = Members(running) \ {s}
    <3>1. Members(running)' = Members(Tail(running))
      BY <2>1 DEF Members
    <3>. QED
      BY <2>2, <3>1
  <2>4. \A t \in SeqId \ {s} : SeqKept(t)
    BY <1>1, <2>1, <2>2, FreeKept
  <2>5. StepSlots' = StepSlots
    BY <2>1, StepSlotsKept
  <2>. HIDE DEF s
  <2>. QED
    BY <1>2, <1>5, <2>1, <2>3, <2>4, <2>5
<1>. QED
  BY <1>6, <1>7, <1>8, <1>9, <1>10, <1>11, <1>12, <1>13, <1>14, <1>15, <1>16, <1>17, <1>18
     DEF Next, Worker

-----------------------------------------------------------------------------
(* The rest of the state *)

\* What the step in progress has sampled, who finished, and how many steps in a
\* row have failed.
StateShape ==
    /\ connected \in BOOLEAN
    /\ reqs \subseteq SeqId /\ admitted \subseteq SeqId /\ notices \subseteq SeqId
    /\ ends \subseteq SeqId /\ done \subseteq SeqId \X {"Eos", "Length"}
    /\ kv \in [Block -> [0..(BlockSize - 1) -> Seq(Content)]]
    /\ out \in [SeqId -> Seq(Message)]
    /\ fails \in 0..MaxFails
    /\ pc \notin {"abort", "stopped"} => fails < MaxFails
    /\ budget \in 0..MaxPrefillTokens
    /\ pc = "finish" => \A s \in Prefilled \cup Decoded : s \in SeqId /\ tokens[s] # <<>>

\* What one step sends to one client: a part that announces it, a token and an
\* end, each of them there or not.
OpenPart(s) == IF s \in notices THEN <<[type |-> "Admitted"]>> ELSE <<>>
TokPart(s) ==
    IF s \in (Prefilled \cup Decoded) /\ <<s, "Eos">> \notin done
    THEN <<[type |-> "Tok", tok |-> tokens[s][Len(tokens[s])]]>> ELSE <<>>
DonePart(s) ==
    IF \E d \in done : d[1] = s
    THEN <<[type |-> "Done", reason |-> (CHOOSE d \in done : d[1] = s)[2]]>> ELSE <<>>

LEMMA MessageParts ==
    ASSUME StateShape, tokens \in [SeqId -> Seq(GenToken)], pc = "finish", NEW s \in SeqId
    PROVE  /\ StepMessages(s) = OpenPart(s) \o TokPart(s) \o DonePart(s)
           /\ OpenPart(s) \in Seq(Message) /\ TokPart(s) \in Seq(Message)
           /\ DonePart(s) \in Seq(Message)
           /\ StepMessages(s) \in Seq(Message)
<1>1. StepMessages(s) = OpenPart(s) \o TokPart(s) \o DonePart(s)
  BY DEF StepMessages, OpenPart, TokPart, DonePart
<1>2. \A m \in Message : <<m>> \in Seq(Message)
  OBVIOUS
<1>3. <<>> \in Seq(Message)
  OBVIOUS
<1>4. OpenPart(s) \in Seq(Message)
  <2>1. [type |-> "Admitted"] \in Message
    BY DEF Message
  <2>. QED
    BY <1>2, <1>3, <2>1 DEF OpenPart
<1>5. TokPart(s) \in Seq(Message)
  <2>1. CASE s \in (Prefilled \cup Decoded) /\ <<s, "Eos">> \notin done
    <3>1. tokens[s] # <<>> /\ tokens[s] \in Seq(GenToken)
      BY <2>1 DEF StateShape
    <3>2. tokens[s][Len(tokens[s])] \in GenToken
      BY <3>1
    <3>3. [type |-> "Tok", tok |-> tokens[s][Len(tokens[s])]] \in Message
      BY <3>2 DEF Message
    <3>. QED
      BY <1>2, <2>1, <3>3 DEF TokPart
  <2>2. CASE ~(s \in (Prefilled \cup Decoded) /\ <<s, "Eos">> \notin done)
    BY <1>3, <2>2 DEF TokPart
  <2>. QED
    BY <2>1, <2>2
<1>6. DonePart(s) \in Seq(Message)
  <2>1. CASE \E d \in done : d[1] = s
    <3>. DEFINE c == CHOOSE d \in done : d[1] = s
    <3>1. c \in done
      BY <2>1
    <3>2. c[2] \in {"Eos", "Length"}
      BY <3>1 DEF StateShape
    <3>. HIDE DEF c
    <3>3. [type |-> "Done", reason |-> c[2]] \in Message
      BY <3>2 DEF Message
    <3>4. DonePart(s) = <<[type |-> "Done", reason |-> c[2]]>>
      BY <2>1 DEF DonePart, c
    <3>. QED
      BY <1>2, <3>3, <3>4
  <2>2. CASE ~(\E d \in done : d[1] = s)
    BY <1>3, <2>2 DEF DonePart
  <2>. QED
    BY <2>1, <2>2
<1>7. OpenPart(s) \o TokPart(s) \o DonePart(s) \in Seq(Message)
  BY <1>4, <1>5, <1>6
<1>. QED
  BY <1>1, <1>4, <1>5, <1>6, <1>7

\* A forward leaves histories in the slots of its step.
LEMMA ComputedTyped ==
    ASSUME ContentIInv, pc = "forward", NEW slot \in StepSlots
    PROVE  Computed(slot) \in Seq(Content)
<1>. USE DEF ContentIInv
<1>1. PICK s \in Members(running), pos \in Nat :
        slot = SlotAt(table[s], pos) /\ pos < len[s]
  BY StepSlotOwn DEF Planning
<1>2. Computed(slot) = SubSeq(History(s), 1, pos + 1)
  BY <1>1, ComputedHolds
<1>3. len[s] \in Nat /\ Len(History(s)) = len[s] /\ History(s) \in Seq(Content)
  BY ForwardFacts
<1>4. pos + 1 \in Nat /\ pos + 1 <= Len(History(s))
  BY <1>1, <1>3
<1>. QED
  BY <1>2, <1>3, <1>4, PrefixFacts

LEMMA StateInit == Init => StateShape
<1>. SUFFICES ASSUME Init PROVE StateShape
  OBVIOUS
<1>1. \A t \in SeqId : <<>> \in Seq(Message)
  OBVIOUS
<1>2. kv \in [Block -> [0..(BlockSize - 1) -> Seq(Content)]]
  <2>1. <<>> \in Seq(Content)
    OBVIOUS
  <2>. QED
    BY <2>1 DEF Init
<1>. QED
  BY <1>1, <1>2, SchedulerAssumption DEF Init, StateShape, MaxFails

LEMMA StateInv ==
    ASSUME ContentIInv, StateShape, [Next]_vars
    PROVE  StateShape'
<1>. USE DEF ContentIInv
<1>1. /\ BatchIInv /\ StageShape /\ tokens \in [SeqId -> Seq(GenToken)]
      /\ running \in Seq(SeqId) /\ waiting \in Seq(SeqId) /\ inbox \in Seq(SeqId)
      /\ Len(running) \in Nat /\ at \in Nat \ {0}
      /\ \A i \in 1..Len(running) : running[i] \in SeqId
      /\ Prefilled \subseteq SeqId /\ Decoded \subseteq SeqId
  <2>1. /\ BatchIInv /\ StageShape /\ tokens \in [SeqId -> Seq(GenToken)]
        /\ running \in Seq(SeqId) /\ waiting \in Seq(SeqId) /\ inbox \in Seq(SeqId)
        /\ at \in Nat \ {0}
    BY DEF BatchIInv, StageShape, TokenShape
  <2>2. plan.prefills \in Seq(PrefillItem) /\ plan.decodes \in Seq(DecodeItem)
    BY <2>1, PlanFacts
  <2>3. Members(plan.prefills) \subseteq PrefillItem /\ Members(plan.decodes) \subseteq DecodeItem
    BY <2>2, MembersFacts
  <2>4. Prefilled \subseteq SeqId /\ Decoded \subseteq SeqId
    BY <2>3 DEF Prefilled, Decoded, PrefillItem, DecodeItem
  <2>. QED
    BY <2>1, <2>4, MembersFacts
\* The step only moves in the queues and the allocator.
<1>2. ASSUME UNCHANGED <<connected, reqs, admitted, notices, ends, done, kv, out, fails>>,
             budget' \in 0..MaxPrefillTokens,
             pc' \notin {"abort", "stopped"} => pc \notin {"abort", "stopped"},
             pc' # "finish"
      PROVE  StateShape'
  BY <1>2 DEF StateShape
<1>3. CASE Stop \/ UNCHANGED vars \/ \E s \in SeqId : Submit(s)
  <2>1. UNCHANGED <<schedVars, engineVars, stepVars, kv, out, fails, pc, at>> /\ connected' \in BOOLEAN
    BY <1>3 DEF Stop, Submit, vars, clientVars, StateShape
  <2>2. UNCHANGED <<reqs, admitted, notices, ends, done, tokens, budget, plan>>
    BY <2>1 DEF engineVars, stepVars
  <2>3. Prefilled' = Prefilled /\ Decoded' = Decoded
    BY <2>2 DEF Prefilled, Decoded, Members
  <2>. QED
    BY <2>1, <2>2, <2>3 DEF StateShape
<1>4. CASE Receive
  <2>1. Head(inbox) \in SeqId
    BY <1>1, <1>4, TailFacts DEF Receive
  <2>2. /\ UNCHANGED <<connected, admitted, notices, ends, done, kv, out, fails, budget>>
        /\ reqs' = reqs \cup {Head(inbox)} /\ pc = "drain" /\ pc' = "drain"
    BY <1>4 DEF Receive, stepVars
  <2>. QED
    BY <2>1, <2>2 DEF StateShape
<1>5. CASE Exit \/ BeginStep \/ Preempt \/ GrowDone \/ GrowOne \/ Admit
  <2>1. /\ UNCHANGED <<connected, reqs, admitted, notices, ends, done, kv, out, fails>>
        /\ budget' = budget \/ budget' = MaxPrefillTokens
        /\ pc \notin {"abort", "stopped"} /\ pc' # "finish"
    BY <1>5 DEF Exit, BeginStep, Preempt, GrowDone, GrowOne, Admit, Panic, clientVars, engineVars,
                stepVars
  <2>2. budget' \in 0..MaxPrefillTokens
    BY <2>1, SchedulerAssumption DEF StateShape
  <2>. QED
    BY <1>2, <2>1, <2>2
<1>6. CASE Extend
  <2>. DEFINE need == CtxLen(Head(waiting))
  <2>1. /\ UNCHANGED <<connected, reqs, admitted, notices, ends, done, kv, out, fails>>
        /\ budget' = budget \/ budget' = BudgetLess(need)
        /\ pc = "extend" /\ pc' # "finish"
    BY <1>6 DEF Extend, Panic, clientVars, engineVars, stepVars
  <2>2. need \in Nat
    <3>1. Head(waiting) \in Members(waiting)
      BY <1>1, <2>1, TailFacts DEF BatchIInv, HoldShape
    <3>. QED
      BY <1>1, <3>1, QueuedFacts DEF BatchIInv
  <2>3. budget \in 0..MaxPrefillTokens /\ MaxPrefillTokens \in Nat
    BY SchedulerAssumption DEF StateShape
  <2>. HIDE DEF need
  <2>4. BudgetLess(need) \in 0..MaxPrefillTokens
    BY <2>2, <2>3 DEF BudgetLess
  <2>5. pc \notin {"abort", "stopped"}
    BY <2>1
  <2>. QED
    BY <1>2, <2>1, <2>3, <2>4, <2>5
<1>7. CASE AdmitDone
  <2>1. /\ UNCHANGED <<connected, reqs, ends, done, kv, out, budget>>
        /\ pc = "admit" /\ pc' \in {"drain", "forward"}
        /\ fails' \in {fails, 0} /\ notices' \in {{}, notices \cup NewlyStarted}
        /\ admitted' \in {admitted, admitted \cup Prefilled}
    BY <1>7 DEF AdmitDone, clientVars, stepVars
  <2>2. NewlyStarted \subseteq SeqId
    BY <1>1 DEF NewlyStarted
  <2>3. 0 \in 0..MaxFails /\ 0 < MaxFails /\ pc \notin {"abort", "stopped"}
    BY <2>1 DEF MaxFails
  <2>4. reqs' \subseteq SeqId /\ admitted' \subseteq SeqId /\ notices' \subseteq SeqId
    BY <1>1, <2>1, <2>2 DEF StateShape
  <2>5. fails' \in 0..MaxFails /\ fails' < MaxFails
    BY <2>1, <2>3 DEF StateShape
  <2>6. pc' # "finish"
    BY <2>1
  <2>. QED
    BY <2>1, <2>4, <2>5, <2>6 DEF StateShape
<1>8. CASE ForwardOk
  <2>1. /\ UNCHANGED <<connected, reqs, admitted, notices, done, out, fails, budget>>
        /\ ends' \subseteq Prefilled \cup Decoded /\ pc = "forward" /\ pc' = "publish"
        /\ kv' = Written([slot \in StepSlots |-> Computed(slot)])
    BY <1>8 DEF ForwardOk, clientVars, engineVars
  <2>2. ASSUME NEW b \in Block, NEW o \in 0..(BlockSize - 1)
        PROVE  kv'[b][o] \in Seq(Content)
    <3>1. CASE <<b, o>> \in StepSlots
      BY <1>8, <2>1, <3>1, ForwardWrites, ComputedTyped
    <3>2. CASE <<b, o>> \notin StepSlots
      <4>1. kv'[b][o] = kv[b][o]
        BY <1>8, <3>2, ForwardWrites
      <4>. QED
        BY <4>1 DEF StateShape
    <3>. QED
      BY <3>1, <3>2
  <2>3. kv' \in [Block -> [0..(BlockSize - 1) -> Seq(Content)]]
    <3>1. /\ kv' = [b \in Block |-> kv'[b]]
          /\ \A b \in Block : kv'[b] = [o \in 0..(BlockSize - 1) |-> kv'[b][o]]
      BY <2>1 DEF Written
    <3>2. \A b \in Block : kv'[b] \in [0..(BlockSize - 1) -> Seq(Content)]
      BY <2>2, <3>1
    <3>. QED
      BY <3>1, <3>2
  <2>4. ends' \subseteq SeqId
    BY <1>1, <2>1
  <2>. QED
    BY <2>1, <2>3, <2>4 DEF StateShape
<1>9. CASE ForwardErr
  <2>1. /\ UNCHANGED <<connected, reqs, admitted, notices, ends, done, out, budget>>
        /\ pc = "forward" /\ pc' = "abort" /\ fails' = fails + 1
        /\ kv' = Written([slot \in StepSlots |-> <<>>])
    BY <1>9 DEF ForwardErr, clientVars, engineVars, stepVars
  <2>2. ASSUME NEW b \in Block, NEW o \in 0..(BlockSize - 1)
        PROVE  kv'[b][o] \in Seq(Content)
    <3>1. CASE <<b, o>> \in StepSlots
      <4>. DEFINE content == [slot \in StepSlots |-> <<>>]
      <4>1. content[<<b, o>>] = <<>>
        BY <3>1
      <4>. HIDE DEF content
      <4>2. kv' = Written(content)
        BY <2>1 DEF content
      <4>3. kv'[b][o] = <<>>
        BY <3>1, <4>1, <4>2 DEF Written
      <4>. QED
        BY <4>3
    <3>2. CASE <<b, o>> \notin StepSlots
      <4>1. kv'[b][o] = kv[b][o]
        BY <1>9, <3>2, ForwardWrites
      <4>. QED
        BY <4>1 DEF StateShape
    <3>. QED
      BY <3>1, <3>2
  <2>3. kv' \in [Block -> [0..(BlockSize - 1) -> Seq(Content)]]
    <3>1. /\ kv' = [b \in Block |-> kv'[b]]
          /\ \A b \in Block : kv'[b] = [o \in 0..(BlockSize - 1) |-> kv'[b][o]]
      BY <2>1 DEF Written
    <3>2. \A b \in Block : kv'[b] \in [0..(BlockSize - 1) -> Seq(Content)]
      BY <2>2, <3>1
    <3>. QED
      BY <3>1, <3>2
  <2>4. fails' \in 0..MaxFails
    BY <2>1 DEF StateShape, MaxFails
  <2>. QED
    BY <2>1, <2>3, <2>4 DEF StateShape
<1>10. CASE Publish \/ AbortOne
  <2>1. /\ UNCHANGED <<connected, reqs, admitted, notices, ends, done, kv, out, fails, budget>>
        /\ pc' = pc /\ pc # "finish"
    BY <1>10 DEF Publish, AbortOne, clientVars, engineVars, stepVars
  <2>. QED
    BY <1>2, <2>1 DEF StateShape
<1>11. CASE Record
  <2>1. /\ UNCHANGED <<connected, reqs, admitted, notices, ends, done, kv, out, fails, budget, plan>>
        /\ pc = "publish" /\ pc' = "finish"
        /\ tokens' = [s \in SeqId |->
             IF s \in Prefilled \cup Decoded
             THEN Append(tokens[s], <<s, Len(tokens[s]) + 1>>) ELSE tokens[s]]
    BY <1>11 DEF Record, clientVars, stepVars
  <2>2. Prefilled' = Prefilled /\ Decoded' = Decoded
    BY <2>1 DEF Prefilled, Decoded, Members
  <2>3. ASSUME NEW s \in Prefilled \cup Decoded
        PROVE  s \in SeqId /\ tokens'[s] # <<>>
    <3>0. s \in SeqId /\ tokens[s] \in Seq(GenToken)
      BY <1>1
    <3>1. <<s, Len(tokens[s]) + 1>> \in GenToken
      <4>1. Len(tokens[s]) + 1 \in Nat
        BY <3>0
      <4>. QED
        BY <3>0, <4>1 DEF GenToken
    <3>2. Append(tokens[s], <<s, Len(tokens[s]) + 1>>) # <<>>
      <4>1. /\ Len(Append(tokens[s], <<s, Len(tokens[s]) + 1>>)) = Len(tokens[s]) + 1
            /\ Len(tokens[s]) \in Nat
        BY <3>0, <3>1, AppendFacts
      <4>2. Len(Append(tokens[s], <<s, Len(tokens[s]) + 1>>)) # 0
        BY <4>1
      <4>3. Len(<<>>) = 0
        OBVIOUS
      <4>. QED
        BY <4>2, <4>3, Zenon
    <3>. QED
      BY <2>1, <3>0, <3>2
  <2>4. pc \notin {"abort", "stopped"}
    BY <2>1
  <2>. QED
    BY <2>1, <2>2, <2>3, <2>4 DEF StateShape
<1>12. CASE Finish
  <2>. DEFINE s == running[at]
  <2>1. /\ UNCHANGED <<connected, tokens, admitted, notices, plan, ends, kv, out, fails, budget>>
        /\ pc = "finish" /\ pc' = pc /\ at \in 1..Len(running)
        /\ \/ UNCHANGED <<reqs, done>>
           \/ /\ reqs' = reqs \ {s} /\ done' = done \cup {<<s, Outcome(s)>>}
              /\ Outcome(s) # "Runs"
    BY <1>1, <1>12 DEF Finish, clientVars
  <2>2. Outcome(s) # "Runs" => Outcome(s) \in {"Eos", "Length"}
    BY DEF Outcome
  <2>3. s \in SeqId
    BY <1>1, <2>1
  <2>4. Prefilled' = Prefilled /\ Decoded' = Decoded
    BY <2>1 DEF Prefilled, Decoded, Members
  <2>. HIDE DEF s
  <2>. QED
    BY <2>1, <2>2, <2>3, <2>4 DEF StateShape
<1>13. CASE Emit
  <2>1. /\ UNCHANGED <<connected, reqs, admitted, kv, budget>>
        /\ pc = "finish" /\ pc' = "drain" /\ fails' = 0 /\ notices' = {}
        /\ ends' = {} /\ done' = {}
        /\ out' = [s \in SeqId |-> IF s \in Open THEN out[s] \o StepMessages(s) ELSE out[s]]
    BY <1>13 DEF Emit
  <2>2. \A s \in SeqId : StepMessages(s) \in Seq(Message) /\ out[s] \in Seq(Message)
    BY <1>1, <2>1, MessageParts DEF StateShape
  <2>3. \A s \in SeqId : out[s] \o StepMessages(s) \in Seq(Message)
    BY <2>2
  <2>4. out' \in [SeqId -> Seq(Message)]
    BY <2>1, <2>2, <2>3
  <2>5. 0 \in 0..MaxFails /\ 0 < MaxFails
    BY DEF MaxFails
  <2>. QED
    BY <2>1, <2>4, <2>5 DEF StateShape
<1>14. CASE AbortDone
  <2>1. /\ UNCHANGED <<connected, admitted, notices, ends, done, budget, kv, fails>>
        /\ reqs' = {} /\ pc' = IF fails >= MaxFails THEN "stopped" ELSE "drain"
        /\ out' = [s \in SeqId |->
             IF s \in Open /\ (s \in reqs \/ fails >= MaxFails)
             THEN Append(out[s], [type |-> "Done", reason |-> "Stop"]) ELSE out[s]]
    BY <1>14 DEF AbortDone
  <2>2. [type |-> "Done", reason |-> "Stop"] \in Message
    BY DEF Message
  <2>3. \A s \in SeqId : /\ out[s] \in Seq(Message)
                         /\ Append(out[s], [type |-> "Done", reason |-> "Stop"]) \in Seq(Message)
    BY <2>2 DEF StateShape
  <2>4. out' \in [SeqId -> Seq(Message)]
    BY <2>1, <2>3
  <2>5. pc' # "finish" /\ (pc' \notin {"abort", "stopped"} => fails < MaxFails)
    BY <2>1 DEF MaxFails, StateShape
  <2>. QED
    BY <2>1, <2>4, <2>5 DEF StateShape
<1>. QED
  BY <1>3, <1>4, <1>5, <1>6, <1>7, <1>8, <1>9, <1>10, <1>11, <1>12, <1>13, <1>14 DEF Next, Worker

-----------------------------------------------------------------------------
(* The theorems *)

LEMMA ContentInit == Init => ContentIInv
<1>. SUFFICES ASSUME Init PROVE ContentIInv
  OBVIOUS
<1>1. BatchIInv
  BY BatchInit
<1>2. /\ tokens = [s \in SeqId |-> <<>>] /\ waiting = <<>> /\ running = <<>>
      /\ pc = "drain" /\ cache = [h \in Hash |-> NoBlock]
  BY DEF Init, KvInit
<1>3. Len(<<>>) = 0 /\ \A i \in 1..0 : FALSE
  OBVIOUS
<1>4. Members(running) = {} /\ Members(waiting) = {}
  BY <1>2 DEF Members
<1>5. TokenShape
  <2>1. tokens \in [SeqId -> Seq(GenToken)]
    BY <1>2
  <2>. QED
    BY <1>2, <1>3, <1>4, <2>1 DEF TokenShape
<1>6. PlanKv
  BY <1>2 DEF PlanKv, Planning
<1>7. SequenceKvFaithful
  BY <1>4 DEF SequenceKvFaithful
<1>8. Cached = {}
  BY <1>2 DEF Cached
<1>9. CachedKvFaithful
  BY <1>8 DEF CachedKvFaithful
<1>. QED
  BY <1>1, <1>5, <1>6, <1>7, <1>9 DEF ContentIInv

LEMMA ContentStep == ContentIInv /\ [Next]_vars => ContentIInv'
<1>. SUFFICES ASSUME ContentIInv, [Next]_vars PROVE ContentIInv'
  OBVIOUS
<1>1. BatchIInv'
  BY BatchStep DEF ContentIInv
<1>2. TokenShape' /\ PlanKv' /\ CachedKvFaithful'
  BY <1>1, TokenInv, PlanKvInv, CachedKvInv
<1>3. SequenceKvFaithful'
  BY <1>1, <1>2, SeqKvInv
<1>. QED
  BY <1>1, <1>2, <1>3 DEF ContentIInv

\* In every state the tokens, the plan, the block tables and what the blocks
\* hold agree.
THEOREM ContentInvariant == Spec => []ContentIInv
<1>. QED
  BY ContentInit, ContentStep, PTL DEF Spec

\* Through sharing, eviction, preemption, recomputation and failed steps
\* (scheduler.rs, continuous_batch.rs), what a sequence reads through its block
\* table is the KV of its own prompt and tokens.
THEOREM BatchSequenceKvFaithful == Spec => []SequenceKvFaithful
<1>1. ContentIInv => SequenceKvFaithful
  BY DEF ContentIInv
<1>. QED
  BY <1>1, ContentInvariant, PTL

\* A block that commit_prefix published holds the KV its hash stands for until
\* it is evicted.
THEOREM BatchCachedKvFaithful == Spec => []CachedKvFaithful
<1>1. ContentIInv => CachedKvFaithful
  BY DEF ContentIInv
<1>. QED
  BY <1>1, ContentInvariant, PTL

-----------------------------------------------------------------------------
(* Who runs and who holds KV *)

StateIInv == ContentIInv /\ StateShape

LEMMA StateTyped == StateIInv => TypeOK
<1>. SUFFICES ASSUME StateIInv PROVE TypeOK
  OBVIOUS
<1>. USE DEF StateIInv, ContentIInv
<1>1. KvTypeOK /\ StageShape
  BY DEF BatchIInv, KvInv
<1>2. /\ plan.prefills \in Seq(PrefillItem) /\ plan.decodes \in Seq(DecodeItem)
      /\ inbox \in Seq(SeqId) /\ waiting \in Seq(SeqId) /\ running \in Seq(SeqId)
      /\ arrival \in [SeqId -> Nat] /\ gen \in [SeqId -> Nat] /\ at \in Nat \ {0}
      /\ pc \in Stage
  BY <1>1, PlanFacts DEF StageShape
<1>3. tokens \in [SeqId -> Seq(GenToken)]
  BY DEF TokenShape
<1>4. /\ connected \in BOOLEAN
      /\ reqs \subseteq SeqId /\ admitted \subseteq SeqId /\ notices \subseteq SeqId
      /\ ends \subseteq SeqId /\ done \subseteq SeqId \X {"Eos", "Length"}
      /\ kv \in [Block -> [0..(BlockSize - 1) -> Seq(Token \cup GenToken)]]
      /\ out \in [SeqId -> Seq(Message)]
      /\ fails \in 0..MaxFails /\ budget \in 0..MaxPrefillTokens
  BY DEF StateShape, Content
<1>. QED
  BY <1>1, <1>2, <1>3, <1>4 DEF TypeOK, PrefillItem, DecodeItem, Stage

\* The step holds every running sequence once.
LEMMA StepCovers == StateIInv => StepCoversRunning
<1>. SUFFICES ASSUME StateIInv, pc = "forward"
              PROVE  /\ Members(running) = Prefilled \cup Decoded
                     /\ Prefilled \cap Decoded = {}
                     /\ Len(running) = Len(plan.prefills) + Len(plan.decodes)
  BY DEF StepCoversRunning
<1>. USE DEF StateIInv, ContentIInv
<1>1. Members(running) = Prefilled \cup Decoded
  BY PlannedAll
<1>2. Prefilled \cap Decoded = {}
  BY PlannedOnce DEF Prefilled, Decoded
<1>3. Len(running) = Len(plan.prefills) + Len(plan.decodes)
  <2>. DEFINE np == Len(plan.prefills)
              nd == Len(plan.decodes)
  <2>1. np \in Nat /\ nd \in Nat
    BY PlanFacts DEF BatchIInv
  <2>2. Len(running) = nd + np
    BY DEF BatchIInv, PlanShape
  <2>. HIDE DEF np, nd
  <2>3. Len(running) = np + nd
    BY <2>1, <2>2
  <2>. QED
    BY <2>3 DEF np, nd
<1>. QED
  BY <1>1, <1>2, <1>3

\* Every cached hash has a block of its own.
LEMMA CachedCount ==
    ASSUME KvInv
    PROVE  /\ IsFiniteSet(Cached) /\ IsFiniteSet(CachedBlocks)
           /\ Cardinality(CachedBlocks) = Cardinality(Cached)
<1>. DEFINE f == [h \in Cached |-> cache[h]]
<1>1. \A g, h \in Cached : cache[g] = cache[h] => g = h
  BY DEF KvInv, NoDoubleUse
<1>2. f \in Bijection(Cached, CachedBlocks)
  BY <1>1 DEF Bijection, Injection, Surjection, IsInjective, CachedBlocks
<1>3. IsFiniteSet(Cached)
  BY CachedFinite
<1>. QED
  BY <1>2, <1>3, FS_Bijection DEF ExistsBijection

\* KV is held for those that run, and for nobody else when nobody runs.
LEMMA HoldersAgree == StateIInv => HoldersRun
<1>. SUFFICES ASSUME StateIInv PROVE HoldersRun
  OBVIOUS
<1>. USE DEF StateIInv, ContentIInv
<1>1. KvInv /\ HoldShape /\ StageShape
  BY DEF BatchIInv
<1>2. pc # "extend" => live = Members(running)
  BY <1>1 DEF HoldShape
<1>3. ASSUME pc \in {"drain", "stopped"}, running = <<>>
      PROVE  Cardinality(free) + Cardinality(Idle) = Cardinality(Block)
  <2>1. Members(running) = {}
    BY <1>3 DEF Members
  <2>2. live = {}
    BY <1>2, <1>3, <2>1
  <2>3. Idle = Cached
    <3>1. \A h \in Hash : refs[h] = 0
      BY <1>1, <2>2, FS_EmptySet DEF KvInv, RefsExact
    <3>. QED
      BY <3>1 DEF Idle, Cached
  <2>4. Block = free \cup CachedBlocks /\ free \cap CachedBlocks = {}
    BY <1>1, <2>2 DEF KvInv, NoLeak, NoDoubleUse
  <2>5. IsFiniteSet(free) /\ Cardinality(free) \in Nat
    BY <2>4, BlockAssumption, FS_Subset, FS_CardinalityType
  <2>6. /\ IsFiniteSet(CachedBlocks) /\ Cardinality(CachedBlocks) = Cardinality(Cached)
        /\ Cardinality(CachedBlocks) \in Nat
    BY <1>1, CachedCount, FS_CardinalityType
  <2>7. Cardinality(Block) = Cardinality(free) + Cardinality(CachedBlocks) - 0
    <3>1. Cardinality(free \cup CachedBlocks) =
            Cardinality(free) + Cardinality(CachedBlocks) - Cardinality(free \cap CachedBlocks)
      BY <2>5, <2>6, FS_Union
    <3>2. Cardinality(free \cap CachedBlocks) = 0
      BY <2>4, FS_EmptySet
    <3>. QED
      BY <2>4, <3>1, <3>2
  <2>. QED
    BY <2>3, <2>5, <2>6, <2>7
<1>. QED
  BY <1>2, <1>3 DEF HoldersRun

THEOREM StateInvariant == Spec => []StateIInv
<1>1. Init => StateIInv
  BY ContentInit, StateInit DEF StateIInv
<1>2. StateIInv /\ [Next]_vars => StateIInv'
  BY ContentStep, StateInv DEF StateIInv
<1>. QED
  BY <1>1, <1>2, PTL DEF Spec

\* The scheduler, the engine and the allocator agree on who runs: schedule puts
\* every running sequence in the step once, and a worker that serves nobody
\* holds no block.
THEOREM BatchRunningAgreed == Spec => []RunningAgreed
<1>1. StateIInv => RunningAgreed
  BY StateTyped, StepCovers, HoldersAgree DEF RunningAgreed
<1>. QED
  BY <1>1, StateInvariant, PTL

-----------------------------------------------------------------------------
(* The streams *)

\* What a stream holds at position i unless it is its end.
Item(s, i) ==
    IF i = 1 THEN [type |-> "Admitted"] ELSE [type |-> "Tok", tok |-> <<s, i - 1>>]

OpenItems(s, m) == \A i \in 1..Len(m) : m[i] = Item(s, i)

\* An ended stream; one that ran out of budget has sent exactly the budget.
ClosedItems(s, m) ==
    /\ m # <<>>
    /\ \A i \in 1..(Len(m) - 1) : m[i] = Item(s, i)
    /\ m[Len(m)].type = "Done"
    /\ m[Len(m)].reason = "Length" => Len(m) = MaxNew[s] + 2

OpenStream(s) == OpenItems(s, out[s])

\* A message of the step in progress that the client has not seen.
Noticed(s) == IF s \in notices THEN 1 ELSE 0
Sampled(s) == IF pc = "finish" /\ s \in Prefilled \cup Decoded THEN 1 ELSE 0

\* Before the step has its inputs nobody is announced.
Unannounced == {"drain", "grow", "admit", "extend"}

\* How far the stream of an open request is.
Progress(s) ==
    /\ arrival[s] > 0 => s \in reqs \/ \E d \in done : d[1] = s
    /\ s \notin admitted => out[s] = <<>> /\ tokens[s] = <<>> /\ s \notin notices
    /\ s \in admitted => Len(out[s]) + Noticed(s) + Sampled(s) = 1 + Len(tokens[s])
    /\ s \in notices => out[s] = <<>> /\ pc \notin Unannounced

DoneShape ==
    /\ Members(running) \subseteq Prefilled \cup Decoded
    /\ Prefilled \cup Decoded \subseteq admitted
    /\ \A d \in done : /\ d[1] \in Prefilled \cup Decoded /\ d[1] \notin Members(running)
                       /\ d[2] = "Length" => Len(tokens[d[1]]) = MaxNew[d[1]]
    /\ \A d, e \in done : d[1] = e[1] => d = e

\* Whose prompt this step starts counts as admitted from AdmitDone on.
Starting == IF pc \in {"admit", "extend"} THEN Prefilled ELSE {}

StreamShape ==
    /\ \A s \in SeqId : OpenStream(s) \/ ClosedItems(s, out[s])
    /\ \A s \in SeqId : \A n \in 1..Len(tokens[s]) : tokens[s][n] = <<s, n>>
    /\ \A s \in SeqId : arrival[s] = 0 => s \notin admitted
    /\ \A s \in SeqId : OpenStream(s) => Progress(s)
    /\ pc \in Stage \ {"abort", "stopped"} => Members(running) \subseteq admitted \cup Starting
    /\ IF pc = "finish" THEN DoneShape ELSE done = {}

\* An open stream has not ended.
LEMMA StreamEnds ==
    ASSUME StateShape, StreamShape, NEW s \in SeqId
    PROVE  /\ IsDone(s) <=> ~OpenStream(s)
           /\ s \in Open <=> arrival[s] > 0 /\ OpenStream(s)
<1>1. out[s] \in Seq(Message) /\ Len(out[s]) \in Nat
  <2>1. out[s] \in Seq(Message)
    BY DEF StateShape
  <2>. QED
    BY <2>1
<1>2. OpenStream(s) => ~IsDone(s)
  <2>1. \A i \in 1..Len(out[s]) : Item(s, i).type # "Done"
    BY DEF Item
  <2>. QED
    BY <2>1 DEF OpenStream, OpenItems, IsDone
<1>3. ClosedItems(s, out[s]) => IsDone(s)
  <2>. SUFFICES ASSUME ClosedItems(s, out[s]) PROVE IsDone(s)
    OBVIOUS
  <2>1. out[s] # <<>> /\ out[s][Len(out[s])].type = "Done"
    BY DEF ClosedItems
  <2>2. Len(out[s]) \in 1..Len(out[s])
    BY <1>1, <2>1
  <2>. QED
    BY <2>1, <2>2 DEF IsDone
<1>4. OpenStream(s) \/ ClosedItems(s, out[s])
  BY DEF StreamShape
<1>. QED
  BY <1>2, <1>3, <1>4 DEF Open

LEMMA ItemAppended ==
    ASSUME NEW s \in SeqId, NEW m \in Seq(Message), OpenItems(s, m),
           NEW x \in Message, x = Item(s, Len(m) + 1)
    PROVE  /\ OpenItems(s, Append(m, x)) /\ Append(m, x) \in Seq(Message)
           /\ Len(Append(m, x)) = Len(m) + 1
<1>. DEFINE n == Len(m)
            w == Append(m, x)
<1>1. /\ w \in Seq(Message) /\ Len(w) = n + 1 /\ w[n + 1] = x
      /\ \A i \in 1..n : w[i] = m[i]
  BY AppendFacts
<1>2. n \in Nat /\ \A i \in 1..n : m[i] = Item(s, i)
  BY DEF OpenItems
<1>. HIDE DEF n, w
<1>3. \A i \in 1..(n + 1) : i \in 1..n \/ i = n + 1
  BY <1>2
<1>4. x = Item(s, n + 1)
  BY DEF n
<1>5. OpenItems(s, w)
  BY <1>1, <1>2, <1>3, <1>4 DEF OpenItems
<1>. QED
  BY <1>1, <1>5 DEF n, w

LEMMA EndAppended ==
    ASSUME NEW s \in SeqId, NEW m \in Seq(Message), OpenItems(s, m),
           NEW x \in Message, x.type = "Done",
           x.reason = "Length" => Len(m) + 1 = MaxNew[s] + 2
    PROVE  ClosedItems(s, Append(m, x))
<1>. DEFINE n == Len(m)
            w == Append(m, x)
<1>1. /\ w \in Seq(Message) /\ Len(w) = n + 1 /\ w[n + 1] = x
      /\ \A i \in 1..n : w[i] = m[i]
  BY AppendFacts
<1>2. n \in Nat /\ \A i \in 1..n : m[i] = Item(s, i)
  BY DEF OpenItems
<1>3. x.reason = "Length" => n + 1 = MaxNew[s] + 2
  OBVIOUS
<1>. HIDE DEF n, w
<1>4. w # <<>>
  <2>1. Len(<<>>) = 0
    OBVIOUS
  <2>. QED
    BY <1>1, <1>2, <2>1
<1>5. (n + 1) - 1 = n
  BY <1>2
<1>6. w[Len(w)].type = "Done" /\ (w[Len(w)].reason = "Length" => Len(w) = MaxNew[s] + 2)
  BY <1>1, <1>3
<1>7. \A i \in 1..(Len(w) - 1) : w[i] = Item(s, i)
  BY <1>1, <1>2, <1>5
<1>8. ClosedItems(s, w)
  BY <1>4, <1>6, <1>7 DEF ClosedItems
<1>. QED
  BY <1>8 DEF w

\* The step touches no stream.
LEMMA StreamQuiet ==
    ASSUME StreamShape, UNCHANGED <<out, tokens, notices, admitted, reqs, done, arrival>>,
           pc # "finish", pc' # "finish",
           pc' \in Unannounced => pc \in Unannounced,
           pc' \in Stage \ {"abort", "stopped"} =>
              Members(running') \subseteq admitted \cup Starting'
    PROVE  StreamShape'
<1>1. \A s \in SeqId : /\ OpenStream(s)' <=> OpenStream(s)
                       /\ ClosedItems(s, out'[s]) <=> ClosedItems(s, out[s])
                       /\ Noticed(s)' = Noticed(s)
                       /\ Sampled(s)' = 0 /\ Sampled(s) = 0
  BY DEF OpenStream, OpenItems, Noticed, Sampled
<1>2. \A s \in SeqId : Progress(s) => Progress(s)'
  BY <1>1 DEF Progress
<1>. QED
  BY <1>1, <1>2 DEF StreamShape, Members

LEMMA StreamInit == Init => StreamShape
<1>. SUFFICES ASSUME Init PROVE StreamShape
  OBVIOUS
<1>1. Len(<<>>) = 0 /\ \A i \in 1..0 : FALSE
  OBVIOUS
<1>2. /\ \A s \in SeqId : out[s] = <<>> /\ tokens[s] = <<>> /\ arrival[s] = 0
      /\ admitted = {} /\ notices = {} /\ done = {} /\ running = <<>> /\ pc = "drain"
  BY DEF Init
<1>3. \A s \in SeqId : OpenStream(s)
  BY <1>1, <1>2 DEF OpenStream, OpenItems
<1>4. \A s \in SeqId : Progress(s)
  BY <1>2 DEF Progress
<1>5. Members(running) = {}
  BY <1>1, <1>2 DEF Members
<1>6. \A s \in SeqId : \A n \in 1..Len(tokens[s]) : tokens[s][n] = <<s, n>>
  BY <1>1, <1>2
<1>. QED
  BY <1>2, <1>3, <1>4, <1>5, <1>6 DEF StreamShape

\* What one step sends leaves a stream open and up to date, or ends it.
LEMMA EmitStream ==
    ASSUME StateIInv, StreamShape, pc = "finish", NEW s \in SeqId, s \in Open
    PROVE  LET w == out[s] \o StepMessages(s)
           IN \/ /\ OpenItems(s, w)
                 /\ ~\E d \in done : d[1] = s
                 /\ s \notin admitted => w = <<>>
                 /\ s \in admitted => Len(w) = 1 + Len(tokens[s])
              \/ ClosedItems(s, w)
<1>. DEFINE w == out[s] \o StepMessages(s)
            w1 == out[s] \o OpenPart(s)
            w2 == w1 \o TokPart(s)
            L == Len(tokens[s])
<1>. USE DEF StateIInv, ContentIInv
<1>1. /\ tokens \in [SeqId -> Seq(GenToken)] /\ tokens[s] \in Seq(GenToken)
      /\ out[s] \in Seq(Message) /\ L \in Nat /\ Len(out[s]) \in Nat
  <2>1. tokens \in [SeqId -> Seq(GenToken)] /\ out[s] \in Seq(Message)
    BY DEF TokenShape, StateShape
  <2>. QED
    BY <2>1
<1>2. /\ StepMessages(s) = OpenPart(s) \o TokPart(s) \o DonePart(s)
      /\ OpenPart(s) \in Seq(Message) /\ TokPart(s) \in Seq(Message)
      /\ DonePart(s) \in Seq(Message)
  BY <1>1, MessageParts
<1>3. w = w2 \o DonePart(s)
  <2>1. OpenPart(s) \o TokPart(s) \in Seq(Message)
    BY <1>2, ConcatProperties
  <2>2. \A u, v, x \in Seq(Message) : (u \o v) \o x = u \o (v \o x)
    BY ConcatAssociative
  <2>3. out[s] \o ((OpenPart(s) \o TokPart(s)) \o DonePart(s))
          = (out[s] \o (OpenPart(s) \o TokPart(s))) \o DonePart(s)
    BY <1>1, <1>2, <2>1, <2>2, Zenon
  <2>4. out[s] \o (OpenPart(s) \o TokPart(s)) = (out[s] \o OpenPart(s)) \o TokPart(s)
    BY <1>1, <1>2, <2>2, Zenon
  <2>. QED
    BY <1>2, <2>3, <2>4, Zenon
<1>4. OpenStream(s) /\ Progress(s) /\ arrival[s] > 0 /\ DoneShape
  BY StreamEnds DEF StreamShape
<1>5. /\ OpenItems(s, w1) /\ w1 \in Seq(Message)
      /\ Len(w1) = Len(out[s]) + Noticed(s)
      /\ s \notin admitted => w1 = <<>>
  <2>1. CASE s \in notices
    <3>1. [type |-> "Admitted"] \in Message /\ [type |-> "Admitted"] = Item(s, 1)
      BY DEF Message, Item
    <3>2. out[s] = <<>> /\ s \in admitted
      BY <1>4, <2>1 DEF Progress
    <3>3. Len(out[s]) + 1 = 1
      BY <3>2
    <3>4. w1 = Append(out[s], [type |-> "Admitted"])
      BY <1>1, <2>1, <3>1, AppendIsConcat DEF OpenPart
    <3>. QED
      BY <1>1, <1>4, <2>1, <3>1, <3>2, <3>3, <3>4, ItemAppended DEF Noticed, OpenStream
  <2>2. CASE s \notin notices
    <3>1. w1 = out[s]
      BY <1>1, <2>2, ConcatEmptySeq DEF OpenPart
    <3>. QED
      BY <1>1, <1>4, <2>2, <3>1 DEF Noticed, OpenStream, Progress
  <2>. QED
    BY <2>1, <2>2
<1>6. Sampled(s) \in {0, 1} /\ Noticed(s) \in {0, 1}
  BY DEF Sampled, Noticed
<1>7. s \in admitted => Len(w1) + Sampled(s) = 1 + L
  BY <1>4, <1>5 DEF Progress
<1>8. Sampled(s) = 1 <=> s \in Prefilled \cup Decoded
  BY DEF Sampled
<1>9. s \in Prefilled \cup Decoded => s \in admitted /\ Len(w1) = L /\ L # 0
  <2>. SUFFICES ASSUME s \in Prefilled \cup Decoded
                PROVE  s \in admitted /\ Len(w1) = L /\ L # 0
    OBVIOUS
  <2>1. s \in admitted
    BY <1>4 DEF DoneShape
  <2>2. tokens[s] # <<>>
    BY DEF StateShape
  <2>3. L # 0
    BY <1>1, <2>2
  <2>4. Len(w1) \in Nat
    BY <1>5
  <2>. HIDE DEF w1, L
  <2>. QED
    BY <1>1, <1>7, <1>8, <2>1, <2>3, <2>4
<1>10. ASSUME s \in Prefilled \cup Decoded, <<s, "Eos">> \notin done
       PROVE  /\ OpenItems(s, w2) /\ w2 \in Seq(Message)
              /\ Len(w2) = 1 + L
  <2>. DEFINE x == [type |-> "Tok", tok |-> tokens[s][L]]
  <2>1. tokens[s][L] = <<s, L>>
    <3>1. L \in 1..L
      BY <1>1, <1>9, <1>10
    <3>. QED
      BY <3>1 DEF StreamShape
  <2>2. tokens[s][L] \in GenToken
    BY <1>1, <2>1 DEF GenToken
  <2>3. x \in Message
    BY <2>2 DEF Message
  <2>4. x = Item(s, Len(w1) + 1)
    <3>1. Len(w1) = L /\ L # 0 /\ L \in Nat
      BY <1>1, <1>9, <1>10
    <3>. HIDE DEF L, w1
    <3>2. Len(w1) + 1 # 1 /\ (Len(w1) + 1) - 1 = L
      BY <3>1
    <3>. QED
      BY <2>1, <3>2 DEF Item
  <2>5. TokPart(s) = <<x>>
    BY <1>10 DEF TokPart
  <2>. HIDE DEF x
  <2>6. w2 = Append(w1, x)
    BY <1>5, <2>3, <2>5, AppendIsConcat
  <2>7. OpenItems(s, Append(w1, x)) /\ Append(w1, x) \in Seq(Message)
        /\ Len(Append(w1, x)) = Len(w1) + 1
    <3>. HIDE DEF w1
    <3>. QED
      BY <1>5, <2>3, <2>4, ItemAppended
  <2>8. Len(w1) + 1 = 1 + L
    <3>1. Len(w1) = L /\ L \in Nat
      BY <1>1, <1>9, <1>10
    <3>. HIDE DEF w1, L
    <3>. QED
      BY <3>1
  <2>. QED
    BY <2>6, <2>7, <2>8
<1>11. ASSUME ~(s \in Prefilled \cup Decoded /\ <<s, "Eos">> \notin done)
       PROVE  w2 = w1
  BY <1>5, <1>11, ConcatEmptySeq DEF TokPart
<1>12. OpenItems(s, w2) /\ w2 \in Seq(Message)
  BY <1>5, <1>10, <1>11
<1>13. CASE ~\E d \in done : d[1] = s
  <2>1. w = w2
    BY <1>3, <1>12, <1>13, ConcatEmptySeq DEF DonePart
  <2>2. <<s, "Eos">> \notin done
    <3>1. <<s, "Eos">>[1] = s
      OBVIOUS
    <3>. QED
      BY <1>13, <3>1
  <2>3. s \notin admitted => w = <<>>
    BY <1>5, <1>9, <1>11, <2>1
  <2>4. s \in admitted => Len(w) = 1 + L
    <3>1. CASE s \in Prefilled \cup Decoded
      BY <1>10, <2>1, <2>2, <3>1
    <3>2. CASE s \notin Prefilled \cup Decoded
      <4>1. w = w1 /\ Sampled(s) = 0 /\ Len(w1) \in Nat
        BY <1>5, <1>6, <1>8, <1>11, <2>1, <3>2
      <4>. HIDE DEF w, w1, L
      <4>. QED
        BY <1>1, <1>7, <4>1
    <3>. QED
      BY <3>1, <3>2
  <2>. QED
    BY <1>12, <1>13, <2>1, <2>3, <2>4
<1>14. CASE \E d \in done : d[1] = s
  <2>. DEFINE c == CHOOSE d \in done : d[1] = s
              x == [type |-> "Done", reason |-> c[2]]
  <2>1. c \in done /\ c[1] = s
    BY <1>14
  <2>2. DonePart(s) = <<x>>
    BY <1>14 DEF DonePart
  <2>3. c \in SeqId \X {"Eos", "Length"}
    BY <2>1 DEF StateShape
  <2>. HIDE DEF c
  <2>4. /\ c[2] \in {"Eos", "Length"} /\ s \in Prefilled \cup Decoded
        /\ c[2] = "Length" => L = MaxNew[s]
        /\ \A d \in done : d[1] = s => d = c
    BY <1>4, <2>1, <2>3 DEF DoneShape
  <2>5. x \in Message /\ x.type = "Done" /\ x.reason = c[2]
    BY <2>4 DEF Message
  <2>6. c[2] = "Length" => Len(w2) + 1 = MaxNew[s] + 2
    <3>. SUFFICES ASSUME c[2] = "Length" PROVE Len(w2) + 1 = MaxNew[s] + 2
      OBVIOUS
    <3>1. <<s, "Eos">> \notin done
      <4>1. <<s, "Eos">>[1] = s /\ <<s, "Eos">>[2] = "Eos"
        OBVIOUS
      <4>. QED
        BY <2>4, <4>1
    <3>2. Len(w2) = 1 + L /\ L = MaxNew[s] /\ L \in Nat
      BY <1>1, <1>10, <2>4, <3>1
    <3>. HIDE DEF w2, L
    <3>. QED
      BY <3>2
  <2>7. w = Append(w2, x)
    <3>. HIDE DEF x, w2, w
    <3>. QED
      BY <1>3, <1>12, <2>2, <2>5, AppendIsConcat
  <2>8. ClosedItems(s, Append(w2, x))
    <3>. HIDE DEF x, w2
    <3>. QED
      BY <1>12, <2>5, <2>6, EndAppended
  <2>. QED
    BY <2>7, <2>8
<1>. QED
  BY <1>13, <1>14

LEMMA ClosedNotOpen ==
    ASSUME NEW s \in SeqId, NEW m \in Seq(Message), ClosedItems(s, m)
    PROVE  ~OpenItems(s, m)
<1>1. m # <<>> /\ m[Len(m)].type = "Done"
  BY DEF ClosedItems
<1>2. Len(m) \in 1..Len(m)
  BY <1>1
<1>3. Item(s, Len(m)).type # "Done"
  BY DEF Item
<1>. QED
  BY <1>1, <1>2, <1>3 DEF OpenItems

LEMMA StreamInv ==
    ASSUME StateIInv, StreamShape, [Next]_vars
    PROVE  StreamShape'
<1>. USE DEF StateIInv, ContentIInv
<1>1. /\ BatchIInv /\ StageShape /\ OrderShape
      /\ tokens \in [SeqId -> Seq(GenToken)] /\ out \in [SeqId -> Seq(Message)]
      /\ arrival \in [SeqId -> Nat]
      /\ running \in Seq(SeqId) /\ waiting \in Seq(SeqId) /\ inbox \in Seq(SeqId)
      /\ Len(running) \in Nat /\ at \in Nat \ {0}
      /\ Members(running) \subseteq SeqId
  <2>1. /\ BatchIInv /\ StageShape /\ OrderShape
        /\ tokens \in [SeqId -> Seq(GenToken)] /\ out \in [SeqId -> Seq(Message)]
        /\ arrival \in [SeqId -> Nat]
        /\ running \in Seq(SeqId) /\ waiting \in Seq(SeqId) /\ inbox \in Seq(SeqId)
        /\ at \in Nat \ {0}
    BY DEF BatchIInv, StageShape, TokenShape, StateShape
  <2>. QED
    BY <2>1, MembersFacts
<1>2. pc \in Stage \ {"abort", "stopped", "admit", "extend"} => Members(running) \subseteq admitted
  BY DEF StreamShape, Starting
<1>3. pc \in {"admit", "extend"} => Members(running) \subseteq admitted \cup Prefilled
  BY DEF StreamShape, Starting, Stage
<1>4. plan' = plan => Prefilled' = Prefilled /\ Decoded' = Decoded
  BY DEF Prefilled, Decoded, Members
<1>5. out' = out => \A s \in SeqId : /\ OpenStream(s)' <=> OpenStream(s)
                                     /\ ClosedItems(s, out'[s]) <=> ClosedItems(s, out[s])
  BY DEF OpenStream, OpenItems
<1>6. pc # "finish" => \A s \in SeqId : Sampled(s) = 0
  BY DEF Sampled
<1>7. pc' # "finish" => \A s \in SeqId : Sampled(s)' = 0
  BY DEF Sampled
<1>8. CASE Stop \/ UNCHANGED vars \/ \E s \in SeqId : Submit(s)
  <2>1. UNCHANGED <<schedVars, engineVars, stepVars, out, pc>>
    BY <1>8 DEF Stop, Submit, vars, clientVars
  <2>2. UNCHANGED <<arrival, running, reqs, tokens, admitted, notices, plan, done, out, pc>>
    BY <2>1 DEF schedVars, engineVars, stepVars
  <2>3. \A s \in SeqId : Noticed(s)' = Noticed(s) /\ Sampled(s)' = Sampled(s)
    BY <1>4, <2>2 DEF Noticed, Sampled
  <2>4. \A s \in SeqId : Progress(s)' <=> Progress(s)
    BY <2>2, <2>3 DEF Progress
  <2>5. Members(running') = Members(running) /\ Starting' = Starting
    BY <1>4, <2>2 DEF Starting
  <2>6. DoneShape' <=> DoneShape
    BY <1>4, <2>2, <2>5 DEF DoneShape
  <2>. QED
    BY <1>5, <2>2, <2>4, <2>5, <2>6 DEF StreamShape
<1>9. CASE Receive
  <2>. DEFINE x == Head(inbox)
              k == 1 + Cardinality({t \in SeqId : arrival[t] > 0})
  <2>1. /\ UNCHANGED <<running, tokens, admitted, notices, plan, done, out, pc>>
        /\ arrival' = [arrival EXCEPT ![x] = k] /\ reqs' = reqs \cup {x}
        /\ pc = "drain" /\ inbox # <<>>
    BY <1>9 DEF Receive, stepVars
  <2>2. x \in SeqId
    BY <1>1, <2>1, TailFacts
  <2>3. k \in Nat \ {0}
    <3>1. IsFiniteSet({t \in SeqId : arrival[t] > 0})
      BY SeqIdAssumption, FS_Subset
    <3>. QED
      BY <3>1, FS_CardinalityType
  <2>. HIDE DEF x, k
  <2>4. \A s \in SeqId : IF s = x THEN arrival'[s] > 0 /\ s \in reqs'
                                  ELSE arrival'[s] = arrival[s] /\ (s \in reqs => s \in reqs')
    BY <1>1, <2>1, <2>2, <2>3
  <2>5. \A s \in SeqId : Noticed(s)' = Noticed(s) /\ Sampled(s)' = Sampled(s)
    BY <1>4, <2>1 DEF Noticed, Sampled
  <2>6. \A s \in SeqId : Progress(s) => Progress(s)'
    BY <2>1, <2>4, <2>5 DEF Progress
  <2>7. \A s \in SeqId : arrival'[s] = 0 => s \notin admitted'
    BY <2>1, <2>4 DEF StreamShape
  <2>8. Members(running') \subseteq admitted'
    BY <1>2, <2>1 DEF Stage
  <2>. QED
    BY <1>5, <2>1, <2>6, <2>7, <2>8 DEF StreamShape
<1>10. CASE Exit
  <2>1. UNCHANGED <<out, tokens, notices, admitted, reqs, done, arrival>>
        /\ pc = "drain" /\ pc' = "stopped"
    BY <1>10 DEF Exit, engineVars, schedVars, stepVars, clientVars
  <2>. QED
    BY <2>1, StreamQuiet DEF Unannounced
<1>11. CASE BeginStep
  <2>1. UNCHANGED <<out, tokens, notices, admitted, reqs, done, arrival>>
        /\ pc = "drain" /\ pc' = "grow" /\ running' = ByArrival(running)
    BY <1>11 DEF BeginStep, engineVars, clientVars
  <2>2. running' = running
    BY <1>1, <2>1, SortedStays DEF OrderShape
  <2>3. Members(running') \subseteq admitted
    BY <1>2, <2>1, <2>2 DEF Stage
  <2>. QED
    BY <2>1, <2>3, StreamQuiet DEF Unannounced
<1>12. CASE GrowOne \/ GrowDone
  <2>1. UNCHANGED <<out, tokens, notices, admitted, reqs, done, arrival, running>>
        /\ pc = "grow" /\ pc' \in {"grow", "admit", "panicked"}
    BY <1>12 DEF GrowOne, GrowDone, Panic, engineVars, clientVars, schedVars, stepVars
  <2>2. Members(running') \subseteq admitted
    BY <1>2, <2>1 DEF Stage
  <2>. QED
    BY <2>1, <2>2, StreamQuiet DEF Unannounced, Stage
<1>13. CASE Preempt
  <2>1. UNCHANGED <<out, tokens, notices, admitted, reqs, done, arrival>>
        /\ pc = "grow" /\ pc' = "grow" /\ Newest \in 1..Len(running)
        /\ running' = RemoveIndex(running, Newest)
    BY <1>1, <1>13 DEF Preempt, Newest, engineVars, clientVars, stepVars
  <2>2. Members(RemoveIndex(running, Newest)) \subseteq Members(running)
    BY <2>1, RunningRemoved
  <2>3. Members(running') \subseteq admitted
    BY <1>2, <2>1, <2>2 DEF Stage
  <2>. QED
    BY <2>1, <2>3, StreamQuiet DEF Unannounced, Stage
<1>14. CASE Admit
  <2>1. UNCHANGED <<out, tokens, notices, admitted, reqs, done, arrival, running, plan>>
        /\ pc = "admit" /\ pc' \in {"extend", "panicked"}
    BY <1>14 DEF Admit, Panic, engineVars, clientVars, stepVars, schedVars
  <2>2. pc' = "extend" => Members(running') \subseteq admitted \cup Starting'
    BY <1>3, <1>4, <2>1 DEF Starting
  <2>. QED
    BY <2>1, <2>2, StreamQuiet DEF Unannounced, Stage
<1>15. CASE Extend
  <2>. DEFINE x == Head(waiting)
  <2>1. /\ UNCHANGED <<out, tokens, notices, admitted, reqs, done, arrival>>
        /\ pc = "extend"
        /\ \/ pc' = "panicked"
           \/ /\ pc' = "admit" /\ running' = Append(running, x)
              /\ \E p : p.seq = x /\ plan' = [plan EXCEPT !.prefills = Append(@, p)]
    <3>1. CASE AppendFits(x, gen[x])
      <4>. DEFINE p == [seq |-> x, cached |-> held[x] * BlockSize, table |-> table'[x],
                        slots |-> [i \in 1..(CtxLen(x) - held[x] * BlockSize) |->
                                     SlotAt(table'[x], held[x] * BlockSize + i - 1)]]
      <4>1. /\ UNCHANGED <<out, tokens, notices, admitted, reqs, done, arrival>>
            /\ pc = "extend" /\ pc' = "admit" /\ running' = Append(running, x)
            /\ plan' = [plan EXCEPT !.prefills = Append(@, p)]
        BY <1>15, <3>1 DEF Extend, engineVars, clientVars
      <4>2. p.seq = x
        OBVIOUS
      <4>. HIDE DEF p
      <4>. QED
        BY <4>1, <4>2
    <3>2. CASE ~AppendFits(x, gen[x])
      BY <1>15, <3>2 DEF Extend, Panic, engineVars, clientVars, schedVars, stepVars
    <3>. QED
      BY <3>1, <3>2
  <2>2. x \in SeqId
    <3>1. waiting # <<>>
      BY <2>1 DEF BatchIInv, HoldShape
    <3>. QED
      BY <1>1, <3>1, TailFacts
  <2>3. pc' = "admit" => Members(running') \subseteq admitted \cup Starting'
    <3>. SUFFICES ASSUME pc' = "admit" PROVE Members(running') \subseteq admitted \cup Starting'
      OBVIOUS
    <3>1. PICK p : p.seq = x /\ plan' = [plan EXCEPT !.prefills = Append(@, p)]
      BY <2>1
    <3>2. plan.prefills \in Seq(PrefillItem) /\ plan \in [prefills : Seq(PrefillItem), decodes : Seq(DecodeItem)]
      BY <1>1 DEF StageShape
    <3>3. plan'.prefills = Append(plan.prefills, p)
      BY <3>1, <3>2
    <3>4. p \in Members(plan'.prefills) /\ Members(plan.prefills) \subseteq Members(plan'.prefills)
      <4>. DEFINE q == plan.prefills
                  n == Len(q)
                  w == Append(q, p)
      <4>1. /\ n \in Nat /\ Len(w) = n + 1 /\ w[n + 1] = p
            /\ \A i \in 1..n : w[i] = q[i]
        BY <3>2
      <4>. HIDE DEF w, q, n
      <4>2. n + 1 \in 1..(n + 1) /\ \A i \in 1..n : i \in 1..(n + 1)
        BY <4>1
      <4>3. p \in Members(w)
        BY <4>1, <4>2 DEF Members
      <4>4. Members(q) \subseteq Members(w)
        BY <4>1, <4>2 DEF Members, n
      <4>. QED
        BY <3>3, <4>3, <4>4 DEF w, q
    <3>5. Prefilled \subseteq Prefilled' /\ x \in Prefilled'
      <4>1. Prefilled' = {q.seq : q \in Members(plan'.prefills)}
        BY DEF Prefilled, Members
      <4>. QED
        BY <3>1, <3>4, <4>1 DEF Prefilled
    <3>6. Members(running') = Members(running) \cup {x}
      <4>. HIDE DEF x
      <4>1. Members(Append(running, x)) = Members(running) \cup {x}
        BY <1>1, <2>2, AppendFacts
      <4>. QED
        BY <2>1, <4>1
    <3>7. Starting' = Prefilled'
      BY DEF Starting
    <3>. QED
      BY <1>3, <2>1, <3>5, <3>6, <3>7
  <2>. QED
    BY <2>1, <2>3, StreamQuiet DEF Unannounced, Stage
<1>16. CASE AdmitDone
  <2>1. /\ UNCHANGED <<out, tokens, reqs, done, arrival, running>>
        /\ pc = "admit"
        /\ IF plan = NoPlan
           THEN pc' = "drain" /\ notices' = {} /\ admitted' = admitted
           ELSE /\ pc' = "forward" /\ admitted' = admitted \cup Prefilled
                /\ notices' = notices \cup (Prefilled \ admitted)
    BY <1>16 DEF AdmitDone, clientVars, stepVars, schedVars, NewlyStarted
  <2>2. \A s \in SeqId : OpenStream(s) => s \notin notices
    BY <2>1 DEF StreamShape, Progress, Unannounced
  <2>3. done = {} /\ pc' # "finish"
    BY <2>1 DEF StreamShape
  <2>4. CASE plan = NoPlan
    <3>1. Prefilled = {}
      BY <2>4 DEF Prefilled, NoPlan, Members
    <3>2. ASSUME NEW s \in SeqId, OpenStream(s)
          PROVE  Progress(s)'
      <4>1. Noticed(s)' = 0 /\ Noticed(s) = 0
        BY <2>1, <2>2, <2>4, <3>2 DEF Noticed
      <4>2. Progress(s) /\ Sampled(s) = 0 /\ Sampled(s)' = 0
        BY <1>6, <1>7, <2>1, <2>3, <3>2 DEF StreamShape
      <4>. QED
        BY <2>1, <2>4, <4>1, <4>2 DEF Progress
    <3>3. Members(running') \subseteq admitted'
      BY <1>3, <2>1, <2>4, <3>1
    <3>. QED
      BY <1>5, <2>1, <2>3, <2>4, <3>2, <3>3 DEF StreamShape
  <2>5. CASE plan # NoPlan
    <3>1. Prefilled \subseteq Members(running)
      BY <2>1, PlannedRuns DEF Prefilled, Planning
    <3>2. \A s \in Prefilled : s \in SeqId /\ arrival[s] > 0
      BY <1>1, <3>1 DEF OrderShape
    <3>3. ASSUME NEW s \in SeqId, OpenStream(s)
          PROVE  Progress(s)'
      <4>1. Progress(s) /\ Sampled(s) = 0 /\ Sampled(s)' = 0
        BY <1>6, <1>7, <2>1, <2>3, <3>3 DEF StreamShape
      <4>2. s \notin notices /\ Noticed(s) = 0
        BY <2>2, <3>3 DEF Noticed
      <4>3. CASE s \in admitted
        <5>1. Noticed(s)' = 0 /\ s \notin notices' /\ s \in admitted'
          BY <2>1, <2>5, <4>2, <4>3 DEF Noticed
        <5>. QED
          BY <2>1, <2>5, <4>1, <4>2, <4>3, <5>1 DEF Progress
      <4>4. CASE s \notin admitted /\ s \notin Prefilled
        <5>1. s \notin notices' /\ s \notin admitted'
          BY <2>1, <2>5, <4>2, <4>4
        <5>. QED
          BY <2>1, <4>1, <4>4, <5>1 DEF Progress
      <4>5. CASE s \notin admitted /\ s \in Prefilled
        <5>1. Noticed(s)' = 1 /\ s \in notices' /\ s \in admitted'
          BY <2>1, <2>5, <4>5 DEF Noticed
        <5>2. out'[s] = <<>> /\ tokens'[s] = <<>>
          BY <2>1, <4>1, <4>5 DEF Progress
        <5>3. Len(<<>>) = 0
          OBVIOUS
        <5>4. Len(out'[s]) + Noticed(s)' + Sampled(s)' = 1 + Len(tokens'[s])
          BY <4>1, <5>1, <5>2, <5>3
        <5>. QED
          BY <2>1, <2>5, <4>1, <5>1, <5>2, <5>4 DEF Progress, Unannounced
      <4>. QED
        BY <4>3, <4>4, <4>5
    <3>4. Members(running') \subseteq admitted'
      BY <1>3, <2>1, <2>5
    <3>5. \A s \in SeqId : arrival'[s] = 0 => s \notin admitted'
      BY <2>1, <2>5, <3>2 DEF StreamShape
    <3>. QED
      BY <1>5, <2>1, <2>3, <3>3, <3>4, <3>5 DEF StreamShape
  <2>. QED
    BY <2>4, <2>5
<1>17. CASE ForwardOk \/ ForwardErr \/ Publish
  <2>1. UNCHANGED <<out, tokens, notices, admitted, reqs, done, arrival, running>>
        /\ pc \in {"forward", "publish"} /\ pc' \in {"publish", "abort"}
    BY <1>17 DEF ForwardOk, ForwardErr, Publish, engineVars, clientVars, schedVars, stepVars
  <2>2. Members(running') \subseteq admitted
    BY <1>2, <2>1 DEF Stage
  <2>. QED
    BY <2>1, <2>2, StreamQuiet DEF Unannounced, Stage
<1>18. CASE Record
  <2>1. /\ UNCHANGED <<out, notices, admitted, reqs, done, arrival, running, plan>>
        /\ pc = "publish" /\ pc' = "finish"
        /\ tokens' = [s \in SeqId |->
             IF s \in Prefilled \cup Decoded
             THEN Append(tokens[s], <<s, Len(tokens[s]) + 1>>) ELSE tokens[s]]
    BY <1>18 DEF Record, clientVars, stepVars, schedVars
  <2>2. Prefilled' = Prefilled /\ Decoded' = Decoded /\ done = {}
    BY <1>4, <2>1 DEF StreamShape
  <2>3. Prefilled \cup Decoded = Members(running) /\ Members(running) \subseteq admitted
    BY <1>2, <2>1, PlannedAll DEF Stage
  <2>4. DoneShape'
    BY <2>1, <2>2, <2>3 DEF DoneShape, Members
  <2>5. ASSUME NEW s \in SeqId
        PROVE  /\ \A n \in 1..Len(tokens'[s]) : tokens'[s][n] = <<s, n>>
               /\ s \in Prefilled \cup Decoded => Len(tokens'[s]) = Len(tokens[s]) + 1
               /\ Len(tokens[s]) \in Nat
    <3>. DEFINE q == tokens[s]
                m == Len(q)
                x == <<s, m + 1>>
                w == Append(q, x)
    <3>1. q \in Seq(GenToken) /\ m \in Nat /\ \A n \in 1..m : q[n] = <<s, n>>
      BY <1>1 DEF StreamShape
    <3>2. x \in GenToken
      BY <3>1 DEF GenToken
    <3>3. Len(w) = m + 1 /\ w[m + 1] = x /\ \A n \in 1..m : w[n] = q[n]
      BY <3>1, <3>2, AppendFacts
    <3>4. tokens'[s] = IF s \in Prefilled \cup Decoded THEN w ELSE q
      BY <2>1
    <3>5. x = <<s, m + 1>>
      OBVIOUS
    <3>. HIDE DEF x, w, m, q
    <3>6. \A n \in 1..(m + 1) : n \in 1..m \/ n = m + 1
      BY <3>1
    <3>7. \A n \in 1..Len(w) : w[n] = <<s, n>>
      BY <3>1, <3>3, <3>5, <3>6
    <3>. QED
      BY <3>1, <3>3, <3>4, <3>7 DEF m, q
  <2>6. ASSUME NEW s \in SeqId, OpenStream(s)
        PROVE  Progress(s)'
    <3>1. Progress(s) /\ Sampled(s) = 0 /\ Noticed(s)' = Noticed(s)
      BY <1>6, <2>1, <2>6 DEF StreamShape, Noticed
    <3>2. Sampled(s)' = IF s \in Prefilled \cup Decoded THEN 1 ELSE 0
      BY <2>1, <2>2 DEF Sampled
    <3>3. CASE s \in Prefilled \cup Decoded
      <4>1. s \in admitted /\ Len(out[s]) + Noticed(s) + 0 = 1 + Len(tokens[s])
        BY <2>3, <3>1, <3>3 DEF Progress
      <4>2. Len(tokens'[s]) = Len(tokens[s]) + 1 /\ Len(tokens[s]) \in Nat
        BY <2>5, <3>3
      <4>3. Noticed(s) \in {0, 1} /\ Len(out[s]) \in Nat
        BY <1>1 DEF Noticed
      <4>. DEFINE a == Len(out[s])
                  b == Len(tokens[s])
                  c == Noticed(s)
      <4>4. Len(out[s]) + Noticed(s) + 1 = 1 + (Len(tokens[s]) + 1)
        <5>1. a \in Nat /\ b \in Nat /\ c \in {0, 1} /\ a + c + 0 = 1 + b
          BY <4>1, <4>2, <4>3
        <5>. HIDE DEF a, b, c
        <5>2. a + c + 1 = 1 + (b + 1)
          BY <5>1
        <5>. QED
          BY <5>2 DEF a, b, c
      <4>5. Len(out'[s]) + Noticed(s)' + Sampled(s)' = 1 + Len(tokens'[s])
        BY <2>1, <3>1, <3>2, <3>3, <4>2, <4>4
      <4>. QED
        BY <2>1, <3>1, <4>1, <4>5 DEF Progress, Unannounced
    <3>4. CASE s \notin Prefilled \cup Decoded
      <4>1. tokens'[s] = tokens[s]
        BY <2>1, <3>4
      <4>. QED
        BY <2>1, <3>1, <3>2, <3>4, <4>1 DEF Progress, Unannounced
    <3>. QED
      BY <3>3, <3>4
  <2>7. Members(running') \subseteq admitted'
    BY <2>1, <2>3 DEF Members
  <2>. QED
    BY <1>5, <2>1, <2>4, <2>5, <2>6, <2>7 DEF StreamShape
<1>19. CASE Finish
  <2>. DEFINE x == running[at]
  <2>1. /\ UNCHANGED <<out, tokens, notices, admitted, arrival, plan, pc>>
        /\ pc = "finish" /\ at \in 1..Len(running)
        /\ \/ UNCHANGED <<running, reqs, done>>
           \/ /\ reqs' = reqs \ {x} /\ done' = done \cup {<<x, Outcome(x)>>}
              /\ running' = RemoveIndex(running, at)
    BY <1>1, <1>19 DEF Finish, clientVars
  <2>2. /\ x \in SeqId /\ x \in Members(running)
        /\ Members(RemoveIndex(running, at)) = Members(running) \ {x}
    BY <1>1, <2>1, RunningRemoved, MembersFacts
  <2>3. Outcome(x) = "Length" => Len(tokens[x]) = MaxNew[x]
    <3>. SUFFICES ASSUME Outcome(x) = "Length" PROVE Len(tokens[x]) = MaxNew[x]
      OBVIOUS
    <3>1. gen[x] + 1 >= MaxNew[x]
      BY DEF Outcome
    <3>2. gen[x] < MaxNew[x] /\ gen[x] \in Nat /\ MaxNew[x] \in Nat
      BY <2>2, SchedulerAssumption DEF BatchIInv, BudgetShape, StageShape
    <3>3. Len(tokens[x]) = gen[x] + 1
      BY <2>1 DEF TokenShape, Uncounted
    <3>. HIDE DEF x
    <3>. QED
      BY <3>1, <3>2, <3>3
  <2>4. DoneShape
    BY <2>1 DEF StreamShape
  <2>. DEFINE e == <<x, Outcome(x)>>
  <2>5. e[1] = x /\ (e[2] = "Length" => Len(tokens[x]) = MaxNew[x])
    BY <2>3
  <2>6. CASE UNCHANGED <<running, reqs, done>>
    <3>1. DoneShape'
      BY <1>4, <2>1, <2>4, <2>6 DEF DoneShape, Members
    <3>2. \A s \in SeqId : Noticed(s)' = Noticed(s) /\ Sampled(s)' = Sampled(s)
      BY <1>4, <2>1 DEF Noticed, Sampled
    <3>3. \A s \in SeqId : Progress(s) => Progress(s)'
      BY <2>1, <2>6, <3>2 DEF Progress
    <3>4. Members(running') \subseteq admitted
      BY <1>2, <2>1, <2>6 DEF Stage
    <3>. QED
      BY <1>5, <2>1, <3>1, <3>3, <3>4 DEF StreamShape
  <2>7. CASE /\ reqs' = reqs \ {x} /\ done' = done \cup {e}
             /\ running' = RemoveIndex(running, at)
    <3>1. Members(running') = Members(running) \ {x}
      BY <2>2, <2>7
    <3>. HIDE DEF x, e
    <3>2. x \in Prefilled \cup Decoded /\ \A d \in done : d[1] # x
      BY <2>2, <2>4 DEF DoneShape
    <3>3. \A d \in done' : /\ d[1] \in Prefilled \cup Decoded /\ d[1] \notin Members(running')
                           /\ d[2] = "Length" => Len(tokens[d[1]]) = MaxNew[d[1]]
      BY <2>4, <2>5, <2>7, <3>1, <3>2 DEF DoneShape
    <3>4. \A d, f \in done' : d[1] = f[1] => d = f
      BY <2>4, <2>5, <2>7, <3>2 DEF DoneShape
    <3>5. Members(running') \subseteq Prefilled \cup Decoded
          /\ Prefilled \cup Decoded \subseteq admitted
      BY <2>4, <3>1 DEF DoneShape
    <3>6. DoneShape'
      BY <1>4, <2>1, <3>3, <3>4, <3>5 DEF DoneShape, Members
    <3>7. \A s \in SeqId : Noticed(s)' = Noticed(s) /\ Sampled(s)' = Sampled(s)
      BY <1>4, <2>1 DEF Noticed, Sampled
    <3>8. \A s \in SeqId : (s \in reqs \/ \E d \in done : d[1] = s)
                             => (s \in reqs' \/ \E d \in done' : d[1] = s)
      BY <2>5, <2>7
    <3>9. \A s \in SeqId : Progress(s) => Progress(s)'
      BY <2>1, <3>7, <3>8 DEF Progress
    <3>10. Members(running') \subseteq admitted
      BY <3>5
    <3>. QED
      BY <1>5, <2>1, <3>6, <3>9, <3>10 DEF StreamShape
  <2>. QED
    BY <2>1, <2>6, <2>7
<1>20. CASE Emit
  <2>1. /\ UNCHANGED <<tokens, admitted, reqs, arrival, running>>
        /\ pc = "finish" /\ pc' = "drain" /\ notices' = {} /\ done' = {}
        /\ out' = [s \in SeqId |-> IF s \in Open THEN out[s] \o StepMessages(s) ELSE out[s]]
    BY <1>20 DEF Emit, schedVars
  <2>2. ASSUME NEW s \in SeqId
        PROVE  /\ OpenStream(s)' \/ ClosedItems(s, out'[s])
               /\ OpenStream(s)' => Progress(s)'
    <3>. DEFINE w == out[s] \o StepMessages(s)
    <3>1. Noticed(s)' = 0 /\ Sampled(s)' = 0 /\ s \notin notices'
      BY <1>7, <2>1 DEF Noticed
    <3>2. OpenStream(s)' <=> OpenItems(s, out'[s])
      BY DEF OpenStream, OpenItems
    <3>3. CASE s \in Open
      <4>1. out'[s] = w
        BY <2>1, <3>3
      <4>2. w \in Seq(Message)
        BY <1>1, <2>1, MessageParts, ConcatProperties
      <4>. HIDE DEF w
      <4>3. CASE /\ OpenItems(s, w) /\ ~\E d \in done : d[1] = s
                 /\ s \notin admitted => w = <<>>
                 /\ s \in admitted => Len(w) = 1 + Len(tokens[s])
        <5>1. OpenStream(s) /\ Progress(s)
          BY <3>3, StreamEnds DEF StreamShape
        <5>2. arrival'[s] > 0 => s \in reqs'
          BY <2>1, <4>3, <5>1 DEF Progress
        <5>3. Len(w) \in Nat /\ Len(tokens[s]) \in Nat
          BY <1>1, <4>2
        <5>4. s \in admitted => Len(w) + 0 + 0 = 1 + Len(tokens[s])
          BY <4>3, <5>3
        <5>5. s \notin admitted => tokens[s] = <<>>
          BY <5>1 DEF Progress
        <5>6. Progress(s)'
          BY <2>1, <3>1, <4>1, <4>3, <5>2, <5>4, <5>5 DEF Progress
        <5>. QED
          BY <3>2, <4>1, <4>3, <5>6
      <4>4. CASE ClosedItems(s, w)
        <5>1. ~OpenItems(s, w)
          BY <4>2, <4>4, ClosedNotOpen
        <5>. QED
          BY <3>2, <4>1, <4>4, <5>1
      <4>. QED
        BY <2>1, <3>3, <4>3, <4>4, EmitStream DEF w
    <3>4. CASE s \notin Open
      <4>1. out'[s] = out[s]
        BY <2>1, <3>4
      <4>2. OpenStream(s)' <=> OpenStream(s)
        BY <3>2, <4>1 DEF OpenStream
      <4>3. OpenStream(s) => Progress(s)'
        <5>. SUFFICES ASSUME OpenStream(s) PROVE Progress(s)'
          OBVIOUS
        <5>1. arrival[s] = 0
          BY <1>1, <3>4, StreamEnds
        <5>2. s \notin admitted /\ out[s] = <<>> /\ tokens[s] = <<>>
          BY <5>1 DEF StreamShape, Progress
        <5>. QED
          BY <2>1, <3>1, <4>1, <5>1, <5>2 DEF Progress
      <4>. QED
        BY <4>1, <4>2, <4>3 DEF StreamShape
    <3>. QED
      BY <3>3, <3>4
  <2>3. Members(running') \subseteq admitted
    BY <1>2, <2>1 DEF Stage
  <2>. QED
    BY <2>1, <2>2, <2>3 DEF StreamShape
<1>21. CASE AbortOne
  <2>1. UNCHANGED <<out, tokens, notices, admitted, reqs, done, arrival>>
        /\ pc = "abort" /\ pc' = "abort"
    BY <1>21 DEF AbortOne, engineVars, clientVars, stepVars
  <2>. QED
    BY <2>1, StreamQuiet DEF Unannounced
<1>22. CASE AbortDone
  <2>. DEFINE x == [type |-> "Done", reason |-> "Stop"]
  <2>1. /\ UNCHANGED <<tokens, admitted, notices, arrival, running, done>>
        /\ pc = "abort" /\ pc' \in {"stopped", "drain"} /\ running = <<>> /\ reqs' = {}
        /\ out' = [s \in SeqId |-> IF s \in Open /\ (s \in reqs \/ fails >= MaxFails)
                                   THEN Append(out[s], x) ELSE out[s]]
    BY <1>22 DEF AbortDone
  <2>2. done = {}
    BY <2>1 DEF StreamShape
  <2>3. x \in Message /\ x.type = "Done" /\ x.reason # "Length"
    BY DEF Message
  <2>. HIDE DEF x
  <2>4. ASSUME NEW s \in SeqId
        PROVE  /\ OpenStream(s)' \/ ClosedItems(s, out'[s])
               /\ OpenStream(s)' => Progress(s)'
    <3>1. OpenStream(s)' <=> OpenItems(s, out'[s])
      BY DEF OpenStream, OpenItems
    <3>2. CASE s \in Open
      <4>1. OpenStream(s) /\ s \in reqs
        BY <2>2, <3>2, StreamEnds DEF StreamShape, Progress
      <4>2. out'[s] = Append(out[s], x)
        BY <2>1, <3>2, <4>1
      <4>3. out[s] \in Seq(Message)
        BY <1>1
      <4>4. ClosedItems(s, Append(out[s], x)) /\ Append(out[s], x) \in Seq(Message)
        BY <2>3, <4>1, <4>3, EndAppended, AppendProperties DEF OpenStream
      <4>. QED
        BY <3>1, <4>2, <4>4, ClosedNotOpen
    <3>3. CASE s \notin Open
      <4>1. out'[s] = out[s]
        BY <2>1, <3>3
      <4>2. OpenStream(s)' <=> OpenStream(s)
        BY <3>1, <4>1 DEF OpenStream
      <4>3. OpenStream(s) => Progress(s)'
        <5>. SUFFICES ASSUME OpenStream(s) PROVE Progress(s)'
          OBVIOUS
        <5>1. arrival[s] = 0
          BY <1>1, <3>3, StreamEnds
        <5>2. s \notin admitted /\ out[s] = <<>> /\ tokens[s] = <<>> /\ s \notin notices
          BY <5>1 DEF StreamShape, Progress
        <5>. QED
          BY <2>1, <4>1, <5>1, <5>2 DEF Progress
      <4>. QED
        BY <4>1, <4>2, <4>3 DEF StreamShape
    <3>. QED
      BY <3>2, <3>3
  <2>5. Members(running') = {}
    BY <2>1 DEF Members
  <2>. QED
    BY <2>1, <2>2, <2>4, <2>5 DEF StreamShape
<1>. QED
  BY <1>8, <1>9, <1>10, <1>11, <1>12, <1>13, <1>14, <1>15, <1>16, <1>17, <1>18, <1>19, <1>20,
     <1>21, <1>22 DEF Next, Worker

\* Whatever the stream shape allows is a faithful stream.
LEMMA StreamsFaithful == StateIInv /\ StreamShape => StreamFaithful
<1>. SUFFICES ASSUME StateIInv, StreamShape, NEW s \in SeqId
              PROVE  LET m == out[s]
                         toks == {i \in 1..Len(m) : m[i].type = "Tok"}
                     IN /\ \A i \in 1..Len(m) :
                             /\ m[i].type = "Admitted" <=> i = 1 /\ m[1].type # "Done"
                             /\ m[i].type = "Done" => i = Len(m)
                             /\ i \in toks => m[i].tok = <<s, i - 1>>
                        /\ (m # <<>> /\ m[Len(m)] = [type |-> "Done", reason |-> "Length"])
                             => Cardinality(toks) = MaxNew[s]
  BY DEF StreamFaithful
<1>. DEFINE m == out[s]
            n == Len(m)
            toks == {i \in 1..n : m[i].type = "Tok"}
<1>1. m \in Seq(Message) /\ n \in Nat
  <2>1. m \in Seq(Message)
    BY DEF StateIInv, StateShape
  <2>. QED
    BY <2>1
<1>2. m = <<>> <=> n = 0
  BY <1>1
<1>3. Item(s, 1).type = "Admitted" /\ \A i \in Nat \ {0, 1} : /\ Item(s, i).type = "Tok"
                                                           /\ Item(s, i).tok = <<s, i - 1>>
  BY DEF Item
<1>4. CASE OpenStream(s)
  <2>1. \A i \in 1..n : m[i] = Item(s, i)
    BY <1>4 DEF OpenStream, OpenItems
  <2>. HIDE DEF n, m
  <2>2. \A i \in 1..n : /\ m[i].type = "Admitted" <=> i = 1 /\ m[1].type # "Done"
                        /\ m[i].type # "Done"
                        /\ i \in toks => m[i].tok = <<s, i - 1>>
    BY <1>1, <1>3, <2>1
  <2>3. ~(m # <<>> /\ m[n] = [type |-> "Done", reason |-> "Length"])
    <3>. SUFFICES ASSUME m # <<>>, m[n] = [type |-> "Done", reason |-> "Length"] PROVE FALSE
      OBVIOUS
    <3>1. n \in 1..n
      BY <1>1, <1>2
    <3>. QED
      BY <2>2, <3>1
  <2>. QED
    BY <2>2, <2>3 DEF n, m
<1>5. CASE ClosedItems(s, m)
  <2>1. /\ \A i \in 1..(n - 1) : m[i] = Item(s, i)
        /\ m[n].type = "Done" /\ n # 0
        /\ m[n].reason = "Length" => n = MaxNew[s] + 2
    BY <1>2, <1>5 DEF ClosedItems
  <2>2. MaxNew[s] \in Nat \ {0}
    BY SchedulerAssumption
  <2>. HIDE DEF n, m
  <2>3. \A i \in 1..n : i \in 1..(n - 1) \/ i = n
    BY <1>1
  <2>4. \A i \in 1..n : /\ m[i].type = "Admitted" <=> i = 1 /\ m[1].type # "Done"
                        /\ m[i].type = "Done" => i = n
                        /\ m[i].type = "Tok" => m[i].tok = <<s, i - 1>>
    BY <1>1, <1>3, <2>1, <2>3
  <2>5. ASSUME m[n] = [type |-> "Done", reason |-> "Length"]
        PROVE  Cardinality(toks) = MaxNew[s]
    <3>1. n = MaxNew[s] + 2
      BY <2>1, <2>5
    <3>2. toks = 2..(n - 1)
      BY <1>1, <1>3, <2>1, <2>3
    <3>3. n - 1 \in Int /\ ~(2 > n - 1) /\ (n - 1) - 2 + 1 = MaxNew[s]
      BY <1>1, <2>2, <3>1
    <3>4. Cardinality(2..(n - 1)) = (n - 1) - 2 + 1
      BY <3>3, FS_Interval
    <3>. HIDE DEF toks
    <3>. QED
      BY <3>2, <3>3, <3>4
  <2>. QED
    BY <2>4, <2>5 DEF n, m
<1>. QED
  BY <1>4, <1>5 DEF StreamShape

\* The stream of every request (continuous_serve.rs, StreamMsg) opens with
\* Admitted, carries each of its tokens once and in order through preemption and
\* failed steps, and is closed by Done; one that ends on its budget carries
\* exactly the budget.
THEOREM BatchStreamFaithful == Spec => []StreamFaithful
<1>. DEFINE IInv == StateIInv /\ StreamShape
<1>1. Init => IInv
  BY ContentInit, StateInit, StreamInit DEF StateIInv
<1>2. IInv /\ [Next]_vars => IInv'
  BY ContentStep, StateInv, StreamInv DEF StateIInv
<1>3. IInv => StreamFaithful
  BY StreamsFaithful
<1>. HIDE DEF IInv
<1>. QED
  BY <1>1, <1>2, <1>3, PTL DEF Spec
==============================================================================
