---------------------------- MODULE GatherProofs ----------------------------
(* Proofs about gathering, for every set of requests, keys and caps: one      *)
(* runner per key, each answer to its own request, and the queues, runners    *)
(* and leases implement SerialGroups.                                         *)
EXTENDS Gather, FiniteSetTheorems, SequenceTheorems, TLAPS

Distinct(s) == \A i, j \in DOMAIN s : s[i] = s[j] => i = j
Capped(j) == IF Cap[j] > 1 THEN Cap[j] ELSE 1
Waiting(j) == answer[j] = NoAnswer /\ client[j] # "new"

\* Two runners never work for one key.
Single ==
    \A d, e \in Job :
        runner[d] # "none" /\ runner[e] # "none" /\ KeyOf[d] = KeyOf[e] => d = e

\* A key is in the map exactly while somebody runs it.
Open == \A k \in Key : k \in running <=> \E d \in Job : KeyOf[d] = k /\ runner[d] # "none"

\* A runner about to begin or in a run has a group no larger than its cap.
Handed ==
    \A d \in Job :
        IF runner[d] \in {"taken", "run"}
        THEN members[d] # <<>> /\ Len(members[d]) <= Capped(members[d][1])
        ELSE members[d] = <<>>

\* A job stands in the queue of its key or in the hands of its runner, once
\* and while it waits.
Lined ==
    \A k \in Key : /\ Distinct(queue[k])
                   /\ \A j \in Items(queue[k]) : KeyOf[j] = k /\ Waiting(j)

Grouped ==
    \A d \in Job : /\ Distinct(members[d])
                   /\ \A j \in Items(members[d]) :
                        KeyOf[j] = KeyOf[d] /\ Waiting(j) /\ j \notin Items(queue[KeyOf[d]])

Fresh == \A j \in Job : client[j] = "new" => answer[j] = NoAnswer

GatherIInv ==
    /\ GatherTypeOK /\ Single /\ Open /\ Handed /\ Lined /\ Grouped /\ Fresh /\ OwnAnswer

-----------------------------------------------------------------------------
(* Sequences *)

\* A sequence cut after n elements.
LEMMA Cut ==
    ASSUME NEW S, NEW s \in Seq(S), NEW n \in 0..Len(s)
    PROVE  /\ SubSeq(s, 1, n) \in Seq(S) /\ Len(SubSeq(s, 1, n)) = n
           /\ \A i \in 1..n : SubSeq(s, 1, n)[i] = s[i]
           /\ SubSeq(s, n + 1, Len(s)) \in Seq(S)
           /\ Len(SubSeq(s, n + 1, Len(s))) = Len(s) - n
           /\ \A i \in 1..(Len(s) - n) : SubSeq(s, n + 1, Len(s))[i] = s[n + i]
           /\ SubSeq(s, 1, n) \o SubSeq(s, n + 1, Len(s)) = s
<1>1. Len(s) \in Nat /\ DOMAIN s = 1..Len(s) /\ \A i \in 1..Len(s) : s[i] \in S
  BY LenProperties, ElementOfSeq
<1>2. /\ SubSeq(s, 1, n) \in Seq(S)
      /\ Len(SubSeq(s, 1, n)) = n
      /\ \A i \in 1..n : SubSeq(s, 1, n)[i] = s[i]
  <2>1. \A i \in 1..n : s[i] \in S
    BY <1>1
  <2>2. /\ SubSeq(s, 1, n) \in Seq(S)
        /\ Len(SubSeq(s, 1, n)) = IF 1 <= n THEN n - 1 + 1 ELSE 0
        /\ \A i \in 1..(n - 1 + 1) : SubSeq(s, 1, n)[i] = s[1 + i - 1]
    BY <1>1, <2>1, SubSeqProperties
  <2>. QED
    BY <1>1, <2>2
<1>3. /\ SubSeq(s, n + 1, Len(s)) \in Seq(S)
      /\ Len(SubSeq(s, n + 1, Len(s))) = Len(s) - n
      /\ \A i \in 1..(Len(s) - n) : SubSeq(s, n + 1, Len(s))[i] = s[n + i]
  <2>1. \A i \in (n + 1)..Len(s) : s[i] \in S
    BY <1>1
  <2>2. /\ SubSeq(s, n + 1, Len(s)) \in Seq(S)
        /\ Len(SubSeq(s, n + 1, Len(s))) =
             IF n + 1 <= Len(s) THEN Len(s) - (n + 1) + 1 ELSE 0
        /\ \A i \in 1..(Len(s) - (n + 1) + 1) :
             SubSeq(s, n + 1, Len(s))[i] = s[(n + 1) + i - 1]
    BY <1>1, <2>1, SubSeqProperties
  <2>. QED
    BY <1>1, <2>2
<1>4. SubSeq(s, 1, n) \o SubSeq(s, n + 1, Len(s)) = s
  <2>0. 1 \in 1..(Len(s) + 1) /\ n \in (1 - 1)..Len(s) /\ Len(s) \in n..Len(s)
    BY <1>1
  <2>1. SubSeq(s, 1, n) \o SubSeq(s, n + 1, Len(s)) = SubSeq(s, 1, Len(s))
    BY <2>0, ConcatAdjacentSubSeq
  <2>. QED
    BY <2>1, SubSeqFull
<1>. QED
  BY <1>2, <1>3, <1>4

\* The two parts of a sequence without repetitions share nothing.
LEMMA CutItems ==
    ASSUME NEW S, NEW s \in Seq(S), NEW n \in 0..Len(s), Distinct(s)
    PROVE  LET front == SubSeq(s, 1, n)
               back == SubSeq(s, n + 1, Len(s))
           IN /\ Distinct(front) /\ Distinct(back)
              /\ Items(front) \subseteq Items(s) /\ Items(back) \subseteq Items(s)
              /\ Items(front) \cap Items(back) = {}
              /\ Items(front) = {s[i] : i \in 1..n}
              /\ Items(back) = {s[i] : i \in (n + 1)..Len(s)}
<1>. DEFINE front == SubSeq(s, 1, n)
            back == SubSeq(s, n + 1, Len(s))
<1>1. /\ Len(s) \in Nat /\ DOMAIN s = 1..Len(s)
      /\ DOMAIN front = 1..n /\ DOMAIN back = 1..(Len(s) - n)
  <2>1. front \in Seq(S) /\ Len(front) = n /\ back \in Seq(S) /\ Len(back) = Len(s) - n
    BY Cut
  <2>. HIDE DEF front, back
  <2>. QED
    BY <2>1, LenProperties
<1>2. /\ \A i \in 1..n : front[i] = s[i]
      /\ \A i \in 1..(Len(s) - n) : back[i] = s[n + i]
  BY Cut
<1>. HIDE DEF front, back
<1>3. Distinct(front) /\ Distinct(back)
  <2>1. \A i, j \in 1..Len(s) : s[i] = s[j] => i = j
    BY <1>1 DEF Distinct
  <2>2. 1..n \subseteq 1..Len(s) /\ \A i \in 1..(Len(s) - n) : n + i \in 1..Len(s)
    BY <1>1
  <2>3. Distinct(front)
    BY <1>1, <1>2, <2>1, <2>2 DEF Distinct
  <2>4. \A i, j \in 1..(Len(s) - n) : n + i = n + j => i = j
    BY <1>1
  <2>5. Distinct(back)
    BY <1>1, <1>2, <2>1, <2>2, <2>4 DEF Distinct
  <2>. QED
    BY <2>3, <2>5
<1>4. Items(front) = {s[i] : i \in 1..n}
  BY <1>1, <1>2 DEF Items
<1>5. Items(back) = {s[i] : i \in (n + 1)..Len(s)}
  <2>1. \A i \in (n + 1)..Len(s) : i - n \in 1..(Len(s) - n) /\ n + (i - n) = i
    BY <1>1
  <2>3. \A i \in (n + 1)..Len(s) : s[i] = back[i - n]
    BY <1>2, <2>1
  <2>2. \A i \in 1..(Len(s) - n) : n + i \in (n + 1)..Len(s) /\ back[i] = s[n + i]
    BY <1>1, <1>2
  <2>4. Items(back) = {back[i] : i \in 1..(Len(s) - n)}
    BY <1>1 DEF Items
  <2>5. Items(back) \subseteq {s[i] : i \in (n + 1)..Len(s)}
    BY <2>2, <2>4
  <2>6. {s[i] : i \in (n + 1)..Len(s)} \subseteq Items(back)
    BY <2>1, <2>3, <2>4
  <2>. QED
    BY <2>5, <2>6
<1>6. Items(front) \cap Items(back) = {}
  BY <1>1, <1>4, <1>5 DEF Distinct
<1>7. Items(front) \subseteq Items(s) /\ Items(back) \subseteq Items(s)
  <2>1. 1..n \subseteq 1..Len(s) /\ (n + 1)..Len(s) \subseteq 1..Len(s)
    BY <1>1
  <2>. QED
    BY <1>1, <1>4, <1>5, <2>1 DEF Items
<1>. QED
  BY <1>3, <1>4, <1>5, <1>6, <1>7 DEF front, back

\* One more element that is not there yet.
LEMMA AppendItems ==
    ASSUME NEW S, NEW s \in Seq(S), NEW e \in S, Distinct(s), e \notin Items(s)
    PROVE  /\ Distinct(Append(s, e))
           /\ Items(Append(s, e)) = Items(s) \cup {e}
<1>1. /\ Len(s) \in Nat /\ DOMAIN s = 1..Len(s) /\ DOMAIN Append(s, e) = 1..(Len(s) + 1)
      /\ \A i \in 1..Len(s) : Append(s, e)[i] = s[i]
      /\ Append(s, e)[Len(s) + 1] = e
  BY LenProperties, AppendProperties
<1>. QED
  BY <1>1 DEF Distinct, Items

\* What is joined comes apart again.
LEMMA Joined ==
    ASSUME NEW S, NEW s \in Seq(S), NEW t \in Seq(S)
    PROVE  /\ SubSeq(s \o t, 1, Len(s)) = s
           /\ SubSeq(s \o t, Len(s) + 1, Len(s \o t)) = t
<1>1. /\ s \o t \in Seq(S) /\ Len(s) \in Nat /\ Len(t) \in Nat
      /\ Len(s \o t) = Len(s) + Len(t) /\ Len(s) \in 0..Len(s \o t)
      /\ \A i \in 1..(Len(s) + Len(t)) :
           (s \o t)[i] = IF i <= Len(s) THEN s[i] ELSE t[i - Len(s)]
  BY ConcatProperties, LenProperties
<1>2. /\ SubSeq(s \o t, 1, Len(s)) \in Seq(S)
      /\ Len(SubSeq(s \o t, 1, Len(s))) = Len(s)
      /\ \A i \in 1..Len(s) : SubSeq(s \o t, 1, Len(s))[i] = s[i]
  BY <1>1, Cut
<1>3. /\ SubSeq(s \o t, Len(s) + 1, Len(s \o t)) \in Seq(S)
      /\ Len(SubSeq(s \o t, Len(s) + 1, Len(s \o t))) = Len(t)
      /\ \A i \in 1..Len(t) : SubSeq(s \o t, Len(s) + 1, Len(s \o t))[i] = (s \o t)[Len(s) + i]
  BY <1>1, Cut
<1>4. \A i \in 1..Len(t) : (s \o t)[Len(s) + i] = t[i]
  BY <1>1
<1>. QED
  BY <1>1, <1>2, <1>3, <1>4, SeqEqual

\* Where an element stands in a sequence without repetitions.
LEMMA PlaceFacts ==
    ASSUME NEW S, NEW s \in Seq(S)
    PROVE  /\ \A j \in Items(s) : Place(s, j) \in 1..Len(s) /\ s[Place(s, j)] = j
           /\ Distinct(s) => \A i \in 1..Len(s) : s[i] \in Items(s) /\ Place(s, s[i]) = i
<1>1. DOMAIN s = 1..Len(s)
  BY LenProperties
<1>2. \A j \in Items(s) : Place(s, j) \in 1..Len(s) /\ s[Place(s, j)] = j
  BY <1>1 DEF Items, Place
<1>3. ASSUME Distinct(s), NEW i \in 1..Len(s)
      PROVE  s[i] \in Items(s) /\ Place(s, s[i]) = i
  BY <1>1, <1>2, <1>3 DEF Distinct, Items
<1>. QED
  BY <1>2, <1>3

\* The empty sequence, and a sequence of one.
LEMMA SmallSequences ==
    /\ Distinct(<<>>) /\ Items(<<>>) = {} /\ Len(<<>>) = 0
    /\ \A j \in Job : /\ <<j>> \in Seq(Job) /\ Len(<<j>>) = 1 /\ <<j>> # <<>> /\ <<j>>[1] = j
                      /\ Distinct(<<j>>) /\ Items(<<j>>) = {j}
BY DEF Distinct, Items

\* The group the runner takes from the queue: at least one, no more than there
\* are and than the first of them asked for.
LEMMA GroupSizeFacts ==
    ASSUME NEW q \in Seq(Job), q # <<>>
    PROVE  /\ q[1] \in Job
           /\ GroupSize(q) \in 1..Len(q) /\ GroupSize(q) <= Capped(q[1])
<1>1. Len(q) \in Nat \ {0}
  BY EmptySeq
<1>2. q[1] \in Job
  BY <1>1, ElementOfSeq
<1>3. Cap[q[1]] \in Nat
  BY <1>2, JobAssumption
<1>. QED
  BY <1>1, <1>2, <1>3 DEF GroupSize, Smaller, Capped

-----------------------------------------------------------------------------
(* The inductive invariant *)

\* Before any request nothing is in the map, in a queue or in a hand.
LEMMA GatherInitEstablishes == Init => GatherIInv
<1>. SUFFICES ASSUME Init PROVE GatherIInv
  OBVIOUS
<1>1. <<>> \in Seq(Job)
  BY EmptySeq
<1>2. GatherTypeOK
  BY <1>1 DEF Init, GatherTypeOK, Step
<1>3. Single /\ Open /\ Fresh /\ OwnAnswer
  BY DEF Init, Single, Open, Fresh, OwnAnswer
<1>4. Handed
  BY DEF Init, Handed
<1>5. Lined /\ Grouped
  BY SmallSequences, JobAssumption DEF Init, Lined, Grouped
<1>. QED
  BY <1>2, <1>3, <1>4, <1>5 DEF GatherIInv

\* What the invariant says of the types, and of a job that is not submitted.
LEMMA GatherFacts ==
    ASSUME GatherIInv
    PROVE  /\ running \subseteq Key /\ queue \in [Key -> Seq(Job)]
           /\ runner \in [Job -> Step] /\ members \in [Job -> Seq(Job)]
           /\ answer \in [Job -> Job \cup {NoAnswer, Dropped}]
           /\ client \in [Job -> {"new", "waiting", "away"}]
           /\ \A k \in Key \ running : queue[k] = <<>>
           /\ \A j \in Job : KeyOf[j] \in Key
           /\ \A k \in Key : Items(queue[k]) \subseteq Job
           /\ \A d \in Job : Items(members[d]) \subseteq Job
<1>1. /\ GatherTypeOK /\ queue \in [Key -> Seq(Job)] /\ members \in [Job -> Seq(Job)]
  BY DEF GatherIInv, GatherTypeOK
<1>2. \A s \in Seq(Job) : Items(s) \subseteq Job
  <2>. SUFFICES ASSUME NEW s \in Seq(Job) PROVE Items(s) \subseteq Job
    OBVIOUS
  <2>1. DOMAIN s = 1..Len(s) /\ \A i \in 1..Len(s) : s[i] \in Job
    BY LenProperties, ElementOfSeq
  <2>. QED
    BY <2>1 DEF Items
<1>. QED
  BY <1>1, <1>2, JobAssumption DEF GatherTypeOK

\* A request that comes, behind a runner or with one of its own.
LEMMA SubmitKeeps ==
    ASSUME GatherIInv, NEW j \in Job, Submit(j)
    PROVE  GatherIInv'
<1>. DEFINE k == KeyOf[j]
<1>1. k \in Key /\ client[j] = "new" /\ answer[j] = NoAnswer
  BY GatherFacts DEF Submit, GatherIInv, Fresh
<1>2. /\ \A q \in Key : j \notin Items(queue[q])
      /\ \A d \in Job : j \notin Items(members[d])
  BY <1>1 DEF GatherIInv, Lined, Grouped, Waiting
<1>3. answer' = answer /\ client' = [client EXCEPT ![j] = "waiting"]
  BY DEF Submit
<1>4. /\ Fresh' /\ OwnAnswer' /\ Waiting(j)'
      /\ \A x \in Job : Waiting(x) => Waiting(x)'
  BY <1>1, <1>3, GatherFacts DEF GatherIInv, Fresh, OwnAnswer, Waiting
<1>5. CASE /\ k \in running
           /\ queue' = [queue EXCEPT ![k] = Append(@, j)]
           /\ UNCHANGED <<running, runner, members>>
  <2>1. /\ Append(queue[k], j) \in Seq(Job)
        /\ Distinct(Append(queue[k], j))
        /\ Items(Append(queue[k], j)) = Items(queue[k]) \cup {j}
    <3>1. queue[k] \in Seq(Job) /\ Distinct(queue[k]) /\ j \notin Items(queue[k])
      BY <1>1, <1>2, GatherFacts DEF GatherIInv, Lined
    <3>. QED
      BY <3>1, AppendItems, AppendProperties
  <2>. HIDE DEF k
  <2>2. \A q \in Key : queue'[q] = IF q = k THEN Append(queue[k], j) ELSE queue[q]
    BY <1>1, <1>5, GatherFacts
  <2>3. GatherTypeOK'
    BY <1>1, <1>3, <1>5, <2>1, GatherFacts DEF GatherTypeOK
  <2>4. Single' /\ Open' /\ Handed'
    BY <1>5 DEF GatherIInv, Single, Open, Handed
  <2>5. Lined'
    BY <1>4, <2>1, <2>2, GatherFacts DEF GatherIInv, Lined, k
  <2>6. Grouped'
    <3>. SUFFICES ASSUME NEW d \in Job
                  PROVE  /\ Distinct(members[d])
                         /\ \A y \in Items(members[d]) :
                              /\ KeyOf[y] = KeyOf[d] /\ Waiting(y)'
                              /\ y \notin Items(queue'[KeyOf[d]])
      BY <1>5 DEF Grouped
    <3>1. Distinct(members[d])
      BY DEF GatherIInv, Grouped
    <3>2. \A y \in Items(members[d]) :
            y \in Job /\ y # j /\ KeyOf[y] = KeyOf[d] /\ Waiting(y) /\ y \notin Items(queue[KeyOf[d]])
      BY <1>2, GatherFacts DEF GatherIInv, Grouped
    <3>3. Items(queue'[KeyOf[d]]) \subseteq Items(queue[KeyOf[d]]) \cup {j}
      BY <2>1, <2>2, GatherFacts
    <3>. QED
      BY <1>4, <3>1, <3>2, <3>3
  <2>. QED
    BY <1>4, <2>3, <2>4, <2>5, <2>6 DEF GatherIInv
<1>6. CASE /\ k \notin running
           /\ running' = running \cup {k}
           /\ runner' = [runner EXCEPT ![j] = "taken"]
           /\ members' = [members EXCEPT ![j] = <<j>>]
           /\ UNCHANGED queue
  <2>1. \A d \in Job : KeyOf[d] = k => runner[d] = "none"
    BY <1>1, <1>6 DEF GatherIInv, Open
  <2>2. queue[k] = <<>>
    BY <1>1, <1>6, GatherFacts
  <2>3. /\ \A d \in Job : runner'[d] = IF d = j THEN "taken" ELSE runner[d]
        /\ \A d \in Job : members'[d] = IF d = j THEN <<j>> ELSE members[d]
    BY <1>6, GatherFacts
  <2>4. GatherTypeOK'
    BY <1>1, <1>3, <1>6, GatherFacts, SmallSequences DEF GatherTypeOK, Step
  <2>5. Single' /\ Open'
    BY <1>1, <1>6, <2>1, <2>3, GatherFacts DEF GatherIInv, Single, Open
  <2>6. Handed'
    <3>. SUFFICES ASSUME NEW d \in Job
                  PROVE  IF runner'[d] \in {"taken", "run"}
                         THEN members'[d] # <<>> /\ Len(members'[d]) <= Capped(members'[d][1])
                         ELSE members'[d] = <<>>
      BY DEF Handed
    <3>1. CASE d = j
      <4>1. 1 <= Capped(j)
        BY JobAssumption DEF Capped
      <4>2. members'[d] # <<>> /\ Len(members'[d]) = 1 /\ members'[d][1] = j
        BY <2>3, <3>1, SmallSequences
      <4>. QED
        BY <2>3, <3>1, <4>1, <4>2
    <3>2. CASE d # j
      BY <2>3, <3>2 DEF GatherIInv, Handed
    <3>. QED
      BY <3>1, <3>2
  <2>7. Lined'
    BY <1>4, <1>6, GatherFacts DEF GatherIInv, Lined
  <2>8. Grouped'
    BY <1>4, <1>6, <2>2, <2>3, SmallSequences, GatherFacts DEF GatherIInv, Grouped
  <2>. QED
    BY <1>4, <2>4, <2>5, <2>6, <2>7, <2>8 DEF GatherIInv
<1>. QED
  BY <1>5, <1>6 DEF Submit

\* The runner of a key moves on with nobody else at work for the key.
LEMMA BeginKeeps ==
    ASSUME GatherIInv, NEW d \in Job, Begin(d)
    PROVE  GatherIInv'
<1>1. /\ runner[d] = "taken" /\ UNCHANGED <<running, queue, members, answer, client>>
      /\ \A e \in Job : runner'[e] = IF e = d THEN "run" ELSE runner[e]
      /\ runner' \in [Job -> Step]
  BY GatherFacts DEF Begin, Step
<1>2. GatherTypeOK' /\ Fresh' /\ OwnAnswer' /\ Lined' /\ Grouped'
  BY <1>1 DEF GatherIInv, GatherTypeOK, Fresh, OwnAnswer, Lined, Grouped, Waiting
<1>3. Single' /\ Open'
  BY <1>1, GatherFacts DEF GatherIInv, Single, Open
<1>4. Handed'
  BY <1>1 DEF GatherIInv, Handed
<1>. QED
  BY <1>2, <1>3, <1>4 DEF GatherIInv

\* A run that ends, well or not, settles its group and nobody else.
LEMMA RunEndsKeeps ==
    ASSUME GatherIInv, NEW d \in Job, Answer(d) \/ Panic(d)
    PROVE  GatherIInv'
<1>1. runner[d] = "run" /\ UNCHANGED <<running, queue, client>>
  BY DEF Answer, Panic
<1>2. PICK p \in {"ended", "leaving"} : runner' = [runner EXCEPT ![d] = p]
  BY DEF Answer, Panic
<1>3. members' = [members EXCEPT ![d] = <<>>]
  BY DEF Answer, Panic
<1>4. /\ \A x \in Job \ Items(members[d]) : answer'[x] = answer[x]
      /\ \A x \in Items(members[d]) : answer'[x] \in {x, Dropped}
      /\ answer' \in [Job -> Job \cup {NoAnswer, Dropped}]
  <2>1. CASE Panic(d)
    BY <2>1, GatherFacts DEF Panic, Lost
  <2>2. CASE Answer(d)
    <3>1. PICK n \in 0..Len(members[d]) :
            answer' = [x \in Job |->
              IF x \notin Items(members[d]) THEN answer[x]
              ELSE IF Place(members[d], x) <= n
                   THEN SubSeq(members[d], 1, n)[Place(members[d], x)] ELSE Dropped]
      BY <2>2 DEF Answer
    <3>2. members[d] \in Seq(Job)
      BY GatherFacts
    <3>3. \A i \in 1..n : SubSeq(members[d], 1, n)[i] = members[d][i]
      BY <3>2, Cut
    <3>4. \A x \in Items(members[d]) :
            /\ Place(members[d], x) \in 1..Len(members[d])
            /\ members[d][Place(members[d], x)] = x
      BY <3>2, PlaceFacts
    <3>5. Len(members[d]) \in Nat
      BY <3>2, LenProperties
    <3>6. \A x \in Items(members[d]) : answer'[x] \in {x, Dropped}
      <4>. SUFFICES ASSUME NEW x \in Items(members[d]), Place(members[d], x) <= n
                    PROVE  answer'[x] = x
        BY <3>1, GatherFacts
      <4>1. Place(members[d], x) \in 1..n
        BY <3>4, <3>5
      <4>. QED
        BY <3>1, <3>3, <3>4, <4>1, GatherFacts
    <3>. QED
      BY <3>1, <3>6, GatherFacts
  <2>. QED
    BY <2>1, <2>2
<1>5. /\ \A e \in Job : runner'[e] = IF e = d THEN p ELSE runner[e]
      /\ \A e \in Job : members'[e] = IF e = d THEN <<>> ELSE members[e]
      /\ runner' \in [Job -> Step] /\ members' \in [Job -> Seq(Job)]
  BY <1>2, <1>3, GatherFacts, EmptySeq DEF Step
<1>6. GatherTypeOK'
  BY <1>1, <1>4, <1>5, GatherFacts DEF GatherTypeOK
<1>7. Single' /\ Open' /\ Handed'
  <2>1. \A e \in Job : runner'[e] = "none" <=> runner[e] = "none"
    BY <1>1, <1>5
  <2>2. Single' /\ Open'
    BY <1>1, <2>1, GatherFacts DEF GatherIInv, Single, Open
  <2>3. Handed'
    BY <1>1, <1>5 DEF GatherIInv, Handed
  <2>. QED
    BY <2>2, <2>3
<1>8. Fresh' /\ OwnAnswer'
  BY <1>1, <1>4, GatherFacts DEF GatherIInv, Fresh, OwnAnswer, Grouped, Waiting
<1>9. Lined'
  <2>. SUFFICES ASSUME NEW k \in Key, NEW x \in Items(queue[k])
                PROVE  x \notin Items(members[d])
    BY <1>1, <1>4, GatherFacts DEF GatherIInv, Lined, Waiting
  <2>. QED
    BY DEF GatherIInv, Lined, Grouped
<1>10. Grouped'
  <2>1. \A e \in Job : e # d => Items(members[e]) \cap Items(members[d]) = {}
    <3>. SUFFICES ASSUME NEW e \in Job, e # d, NEW x \in Items(members[e]),
                         x \in Items(members[d])
                  PROVE  FALSE
      OBVIOUS
    <3>1. KeyOf[e] = KeyOf[d]
      BY DEF GatherIInv, Grouped
    <3>2. members[e] # <<>>
      BY SmallSequences
    <3>3. runner[e] # "none"
      BY <3>2 DEF GatherIInv, Handed
    <3>. QED
      BY <1>1, <3>1, <3>3 DEF GatherIInv, Single
  <2>. QED
    BY <1>1, <1>4, <1>5, <2>1, SmallSequences, GatherFacts DEF GatherIInv, Grouped, Waiting
<1>. QED
  BY <1>6, <1>7, <1>8, <1>9, <1>10 DEF GatherIInv

\* A runner that takes the front of the queue, or leaves.
LEMMA TakeNextKeeps ==
    ASSUME GatherIInv, NEW d \in Job, TakeNext(d)
    PROVE  GatherIInv'
<1>. DEFINE k == KeyOf[d]
            q == queue[k]
            n == GroupSize(q)
<1>1. runner[d] = "ended" /\ UNCHANGED <<running, answer, client>> /\ k \in Key
  BY GatherFacts DEF TakeNext
<1>2. CASE /\ k \notin running \/ q = <<>>
           /\ runner' = [runner EXCEPT ![d] = "leaving"]
           /\ UNCHANGED <<queue, members>>
  <2>1. /\ \A e \in Job : runner'[e] = IF e = d THEN "leaving" ELSE runner[e]
        /\ runner' \in [Job -> Step]
    BY <1>2, GatherFacts DEF Step
  <2>2. GatherTypeOK' /\ Fresh' /\ OwnAnswer' /\ Lined' /\ Grouped'
    BY <1>1, <1>2, <2>1 DEF GatherIInv, GatherTypeOK, Fresh, OwnAnswer, Lined, Grouped, Waiting
  <2>3. Single' /\ Open' /\ Handed'
    BY <1>1, <1>2, <2>1, GatherFacts DEF GatherIInv, Single, Open, Handed
  <2>. QED
    BY <2>2, <2>3 DEF GatherIInv
<1>3. CASE /\ k \in running /\ q # <<>>
           /\ runner' = [runner EXCEPT ![d] = "taken"]
           /\ members' = [members EXCEPT ![d] = SubSeq(q, 1, n)]
           /\ queue' = [queue EXCEPT ![k] = SubSeq(q, n + 1, Len(q))]
  <2>. DEFINE front == SubSeq(q, 1, n)
              back == SubSeq(q, n + 1, Len(q))
  <2>1. q \in Seq(Job) /\ Distinct(q) /\ Len(q) \in Nat
    BY <1>1, GatherFacts, LenProperties DEF GatherIInv, Lined
  <2>2. n \in 1..Len(q) /\ n <= Capped(q[1])
    BY <1>3, <2>1, GroupSizeFacts
  <2>3. n \in 0..Len(q)
    BY <2>1, <2>2
  <2>4. /\ front \in Seq(Job) /\ Len(front) = n /\ front[1] = q[1] /\ back \in Seq(Job)
    <3>. HIDE DEF q, n
    <3>1. 1 \in 1..n
      BY <2>1, <2>2
    <3>. QED
      BY <2>1, <2>3, <3>1, Cut
  <2>5. /\ Distinct(front) /\ Distinct(back)
        /\ Items(front) \subseteq Items(q) /\ Items(back) \subseteq Items(q)
        /\ Items(front) \cap Items(back) = {}
    <3>. HIDE DEF q, n
    <3>. QED
      BY <2>1, <2>3, CutItems
  <2>6. front # <<>>
    BY <2>1, <2>2, <2>4, SmallSequences
  <2>. HIDE DEF front, back, n
  <2>7. /\ \A e \in Job : runner'[e] = IF e = d THEN "taken" ELSE runner[e]
        /\ \A e \in Job : members'[e] = IF e = d THEN front ELSE members[e]
        /\ \A x \in Key : queue'[x] = IF x = k THEN back ELSE queue[x]
    BY <1>1, <1>3, GatherFacts DEF front, back
  <2>8. GatherTypeOK'
    BY <1>1, <1>3, <2>4, GatherFacts DEF GatherTypeOK, Step, front, back
  <2>9. Single' /\ Open'
    <3>1. \A e \in Job : runner'[e] = "none" <=> runner[e] = "none"
      BY <1>1, <2>7
    <3>. QED
      BY <1>1, <3>1, GatherFacts DEF GatherIInv, Single, Open
  <2>10. Handed'
    BY <2>2, <2>4, <2>6, <2>7 DEF GatherIInv, Handed
  <2>11. Fresh' /\ OwnAnswer'
    BY <1>1 DEF GatherIInv, Fresh, OwnAnswer
  <2>12. \A x \in Items(q) : KeyOf[x] = k /\ Waiting(x)
    BY <1>1 DEF GatherIInv, Lined
  <2>13. \A x \in Job : Waiting(x)' <=> Waiting(x)
    BY <1>1 DEF Waiting
  <2>. HIDE DEF q, k
  <2>14. Lined'
    <3>. SUFFICES ASSUME NEW x \in Key
                  PROVE  /\ Distinct(queue'[x])
                         /\ \A y \in Items(queue'[x]) : KeyOf[y] = x /\ Waiting(y)'
      BY DEF Lined
    <3>1. CASE x = k
      BY <2>5, <2>7, <2>12, <2>13, <3>1, <1>1, GatherFacts DEF q
    <3>2. CASE x # k
      BY <2>7, <2>13, <3>2, GatherFacts DEF GatherIInv, Lined
    <3>. QED
      BY <3>1, <3>2
  <2>15. Grouped'
    <3>. SUFFICES ASSUME NEW e \in Job
                  PROVE  /\ Distinct(members'[e])
                         /\ \A y \in Items(members'[e]) :
                              /\ KeyOf[y] = KeyOf[e] /\ Waiting(y)'
                              /\ y \notin Items(queue'[KeyOf[e]])
      BY DEF Grouped
    <3>1. CASE e = d
      BY <2>5, <2>7, <2>12, <2>13, <3>1, <1>1, GatherFacts DEF q, k
    <3>2. CASE e # d
      BY <2>5, <2>7, <2>13, <3>2, <1>1, GatherFacts DEF GatherIInv, Grouped, q
    <3>. QED
      BY <3>1, <3>2
  <2>. QED
    BY <2>8, <2>9, <2>10, <2>11, <2>14, <2>15 DEF GatherIInv
<1>. QED
  BY <1>2, <1>3 DEF TakeNext

\* A lease that goes with its key, and refuses whoever is queued.
LEMMA LeaseDropKeeps ==
    ASSUME GatherIInv, NEW d \in Job, LeaseDrop(d)
    PROVE  GatherIInv'
<1>. DEFINE k == KeyOf[d]
<1>1. /\ runner[d] = "leaving" /\ k \in Key /\ running' = running \ {k}
      /\ UNCHANGED <<members, client>>
  BY GatherFacts DEF LeaseDrop
<1>2. /\ \A e \in Job : runner'[e] = IF e = d THEN "none" ELSE runner[e]
      /\ \A x \in Key : queue'[x] = IF x = k THEN <<>> ELSE queue[x]
      /\ \A x \in Job : answer'[x] = IF x \in Items(queue[k]) THEN Dropped ELSE answer[x]
      /\ runner' \in [Job -> Step] /\ queue' \in [Key -> Seq(Job)]
      /\ answer' \in [Job -> Job \cup {NoAnswer, Dropped}]
  BY <1>1, GatherFacts, EmptySeq DEF LeaseDrop, Lost, Step
<1>. HIDE DEF k
<1>3. \A e \in Job : KeyOf[e] = k => e = d \/ runner[e] = "none"
  BY <1>1 DEF GatherIInv, Single, k
<1>4. GatherTypeOK'
  BY <1>1, <1>2, GatherFacts DEF GatherTypeOK
<1>5. Single' /\ Open' /\ Handed'
  <2>1. \A e \in Job : runner'[e] # "none" <=> runner[e] # "none" /\ KeyOf[e] # k
    BY <1>1, <1>2, <1>3 DEF k
  <2>2. Single'
    BY <2>1 DEF GatherIInv, Single
  <2>3. Open'
    <3>. SUFFICES ASSUME NEW x \in Key
                  PROVE  x \in running' <=> \E e \in Job : KeyOf[e] = x /\ runner'[e] # "none"
      BY DEF Open
    <3>1. x \in running' <=> x \in running /\ x # k
      BY <1>1
    <3>2. x \in running <=> \E e \in Job : KeyOf[e] = x /\ runner[e] # "none"
      BY DEF GatherIInv, Open
    <3>. QED
      BY <2>1, <3>1, <3>2
  <2>4. Handed'
    BY <1>1, <1>2 DEF GatherIInv, Handed
  <2>. QED
    BY <2>2, <2>3, <2>4
<1>6. Fresh' /\ OwnAnswer'
  BY <1>1, <1>2, GatherFacts DEF GatherIInv, Fresh, OwnAnswer, Lined, Waiting
<1>7. Lined'
  <2>. SUFFICES ASSUME NEW x \in Key
                PROVE  /\ Distinct(queue'[x])
                       /\ \A y \in Items(queue'[x]) : KeyOf[y] = x /\ Waiting(y)'
    BY DEF Lined
  <2>1. CASE x = k
    BY <1>2, <2>1, SmallSequences
  <2>2. CASE x # k
    BY <1>1, <1>2, <2>2, GatherFacts DEF GatherIInv, Lined, Waiting
  <2>. QED
    BY <2>1, <2>2
<1>8. Grouped'
  <2>. SUFFICES ASSUME NEW e \in Job
                PROVE  /\ Distinct(members[e])
                       /\ \A y \in Items(members[e]) :
                            /\ KeyOf[y] = KeyOf[e] /\ Waiting(y)'
                            /\ y \notin Items(queue'[KeyOf[e]])
    BY <1>1 DEF Grouped
  <2>1. CASE KeyOf[e] = k
    <3>1. members[e] = <<>>
      BY <1>1, <1>3, <2>1 DEF GatherIInv, Handed
    <3>. QED
      BY <3>1, SmallSequences
  <2>2. CASE KeyOf[e] # k
    BY <1>1, <1>2, <2>2, GatherFacts DEF GatherIInv, Grouped, Lined, Waiting
  <2>. QED
    BY <2>1, <2>2
<1>. QED
  BY <1>4, <1>5, <1>6, <1>7, <1>8 DEF GatherIInv

\* Every step keeps the invariant.
LEMMA GatherStepKeeps ==
    ASSUME GatherIInv, [Next]_vars
    PROVE  GatherIInv'
<1>1. CASE UNCHANGED vars
  BY <1>1 DEF vars, GatherIInv, GatherTypeOK, Single, Open, Handed, Lined, Grouped, Waiting,
     Fresh, OwnAnswer
<1>2. ASSUME NEW j \in Job, GoAway(j) PROVE GatherIInv'
  <2>1. UNCHANGED <<running, queue, runner, members, answer>>
    BY <1>2 DEF GoAway
  <2>2. client' = [client EXCEPT ![j] = "away"] /\ client[j] = "waiting"
    BY <1>2 DEF GoAway
  <2>3. GatherTypeOK' /\ Fresh' /\ \A x \in Job : Waiting(x)' <=> Waiting(x)
    BY <2>1, <2>2, GatherFacts DEF GatherIInv, GatherTypeOK, Fresh, Waiting
  <2>4. Single' /\ Open' /\ Handed' /\ OwnAnswer'
    BY <2>1 DEF GatherIInv, Single, Open, Handed, OwnAnswer
  <2>5. Lined' /\ Grouped'
    BY <2>1, <2>3, GatherFacts DEF GatherIInv, Lined, Grouped
  <2>. QED
    BY <2>3, <2>4, <2>5 DEF GatherIInv
<1>. QED
  BY <1>1, <1>2, SubmitKeeps, BeginKeeps, RunEndsKeeps, TakeNextKeeps, LeaseDropKeeps
     DEF Next, Drive

\* The invariant holds throughout.
LEMMA GatherInvariant == Spec => []GatherIInv
<1>1. Init => GatherIInv
  BY GatherInitEstablishes
<1>2. GatherIInv /\ [Next]_vars => GatherIInv'
  BY GatherStepKeeps
<1>. QED
  BY <1>1, <1>2, PTL DEF Spec

\* A key is in the map exactly while one runner works for it.
THEOREM GatherOneRunner == Spec => []OneRunner
<1>1. GatherIInv => OneRunner
  <2>. SUFFICES ASSUME GatherIInv, NEW k \in Key
                PROVE  Cardinality(Runners(k)) <= 1 /\ (k \in running <=> Runners(k) # {})
    BY DEF OneRunner, GatherIInv
  <2>1. k \in running <=> Runners(k) # {}
    BY DEF GatherIInv, Open, Runners
  <2>2. CASE Runners(k) = {}
    BY <2>1, <2>2, FS_EmptySet
  <2>3. CASE Runners(k) # {}
    <3>. PICK d : d \in Runners(k)
      BY <2>3
    <3>1. Runners(k) = {d}
      BY DEF GatherIInv, Single, Runners
    <3>2. Cardinality(Runners(k)) = 1
      BY <3>1, FS_Singleton
    <3>. QED
      BY <2>1, <3>2
  <2>. QED
    BY <2>2, <2>3
<1>. QED
  BY <1>1, GatherInvariant, PTL

\* Whatever answers a request is its own.
THEOREM GatherOwnAnswer == Spec => []OwnAnswer
<1>1. GatherIInv => OwnAnswer
  BY DEF GatherIInv
<1>. QED
  BY <1>1, GatherInvariant, PTL

-----------------------------------------------------------------------------
(* The refinement: what Gather shows of itself as SerialGroups *)

Line(k) == TheirMembers(InHand(k, "taken")) \o queue[k]
Group(k) == TheirMembers(InHand(k, "run"))
FateOf(j) == IF client[j] = "new" THEN "new"
             ELSE CASE answer[j] = NoAnswer -> "waiting"
                    [] answer[j] = Dropped -> "refused"
                    [] OTHER -> "answered"

LineShown == [k \in Key |-> Line(k)]
GroupShown == [k \in Key |-> Group(k)]
FateShown == [j \in Job |-> FateOf(j)]

\* A key shows the group of its one runner: in the line until its run begins.
Shows(k) ==
    /\ \A d \in Job :
         /\ KeyOf[d] = k /\ runner[d] = "taken" =>
              Line(k) = members[d] \o queue[k] /\ Group(k) = <<>>
         /\ KeyOf[d] = k /\ runner[d] = "run" =>
              Line(k) = queue[k] /\ Group(k) = members[d]
    /\ (\A d \in Job : KeyOf[d] = k => runner[d] \notin {"taken", "run"}) =>
         Line(k) = queue[k] /\ Group(k) = <<>>

\* What a key shows follows from the invariant: it has one runner at most.
LEMMA ShownOf == GatherIInv => \A k \in Key : Shows(k)
<1>. SUFFICES ASSUME GatherIInv, NEW k \in Key PROVE Shows(k)
  OBVIOUS
<1>1. queue[k] \in Seq(Job)
  BY GatherFacts
<1>2. <<>> \o queue[k] = queue[k]
  BY <1>1, ConcatEmptySeq
<1>3. \A d \in Job : TheirMembers({d}) = members[d]
  BY DEF TheirMembers
<1>4. TheirMembers({}) = <<>>
  BY DEF TheirMembers
<1>5. ASSUME NEW d \in Job, KeyOf[d] = k, runner[d] \in {"taken", "run"}
      PROVE  /\ InHand(k, runner[d]) = {d}
             /\ \A st \in {"taken", "run"} : st # runner[d] => InHand(k, st) = {}
  BY <1>5 DEF GatherIInv, Single, InHand, Runners
<1>6. ASSUME \A d \in Job : KeyOf[d] = k => runner[d] \notin {"taken", "run"}
      PROVE  InHand(k, "taken") = {} /\ InHand(k, "run") = {}
  BY <1>6 DEF InHand, Runners
<1>7. ASSUME NEW d \in Job, KeyOf[d] = k, runner[d] = "taken"
      PROVE  Line(k) = members[d] \o queue[k] /\ Group(k) = <<>>
  <2>1. InHand(k, "taken") = {d} /\ InHand(k, "run") = {}
    BY <1>5, <1>7
  <2>. QED
    BY <1>3, <1>4, <2>1 DEF Line, Group
<1>8. ASSUME NEW d \in Job, KeyOf[d] = k, runner[d] = "run"
      PROVE  Line(k) = queue[k] /\ Group(k) = members[d]
  <2>1. InHand(k, "run") = {d} /\ InHand(k, "taken") = {}
    BY <1>5, <1>8
  <2>. QED
    BY <1>2, <1>3, <1>4, <2>1 DEF Line, Group
<1>9. ASSUME \A d \in Job : KeyOf[d] = k => runner[d] \notin {"taken", "run"}
      PROVE  Line(k) = queue[k] /\ Group(k) = <<>>
  BY <1>2, <1>4, <1>6, <1>9 DEF Line, Group
<1>. QED
  BY <1>7, <1>8, <1>9 DEF Shows

\* What a key shows changes with its own runner and queue only.
LEMMA Elsewhere ==
    ASSUME NEW k \in Key,
           \A e \in Job : KeyOf[e] # k => runner'[e] = runner[e] /\ members'[e] = members[e],
           \A x \in Key \ {k} : queue'[x] = queue[x]
    PROVE  \A x \in Key \ {k} : Line(x)' = Line(x) /\ Group(x)' = Group(x)
<1>. SUFFICES ASSUME NEW x \in Key \ {k}
              PROVE  Line(x)' = Line(x) /\ Group(x)' = Group(x)
  OBVIOUS
<1>1. ASSUME NEW st \in {"taken", "run"}
      PROVE  TheirMembers(InHand(x, st))' = TheirMembers(InHand(x, st))
  <2>1. InHand(x, st)' = InHand(x, st)
    BY DEF InHand, Runners
  <2>2. \A e \in InHand(x, st) : members'[e] = members[e]
    BY DEF InHand, Runners
  <2>. QED
    BY <2>1, <2>2 DEF TheirMembers
<1>. QED
  BY <1>1 DEF Line, Group

\* What is seen of a job.
LEMMA FateFacts ==
    /\ \A j \in Job : client[j] = "new" => FateOf(j) = "new"
    /\ \A j \in Job : Waiting(j) => FateOf(j) = "waiting"
    /\ \A j \in Job : client[j] # "new" /\ answer[j] = Dropped => FateOf(j) = "refused"
    /\ \A j \in Job : client[j] # "new" /\ answer[j] \in Job => FateOf(j) = "answered"
BY AnswerAssumption DEF FateOf, Waiting, NoAnswer, Dropped

\* The shown functions, and how one of their values is replaced.
LEMMA ShownFacts ==
    /\ \A k \in Key : LineShown[k] = Line(k) /\ GroupShown[k] = Group(k)
    /\ \A j \in Job : FateShown[j] = FateOf(j)
    /\ \A k \in Key : \A v :
         Line(k)' = v /\ (\A x \in Key \ {k} : Line(x)' = Line(x)) =>
                         LineShown' = [LineShown EXCEPT ![k] = v]
    /\ \A k \in Key : \A v :
         Group(k)' = v /\ (\A x \in Key \ {k} : Group(x)' = Group(x)) =>
                         GroupShown' = [GroupShown EXCEPT ![k] = v]
    /\ (\A k \in Key : Line(k)' = Line(k)) => LineShown' = LineShown
    /\ (\A k \in Key : Group(k)' = Group(k)) => GroupShown' = GroupShown
    /\ (\A j \in Job : FateOf(j)' = FateOf(j)) => FateShown' = FateShown
<1>. HIDE DEF Line, Group, FateOf
<1>. QED
  BY DEF LineShown, GroupShown, FateShown

\* A request that comes stands at the end of its key's line.
LEMMA SubmitArrives ==
    ASSUME GatherIInv, GatherIInv', \A k \in Key : Shows(k), (\A k \in Key : Shows(k))',
           NEW j \in Job, Submit(j)
    PROVE  /\ FateShown[j] = "new" /\ FateShown' = [FateShown EXCEPT ![j] = "waiting"]
           /\ LineShown' = [LineShown EXCEPT ![KeyOf[j]] = Append(@, j)]
           /\ GroupShown' = GroupShown
<1>. DEFINE k == KeyOf[j]
<1>1. k \in Key /\ client[j] = "new" /\ answer[j] = NoAnswer
  BY GatherFacts DEF Submit, GatherIInv, Fresh
<1>2. /\ FateShown[j] = "new" /\ FateShown' = [FateShown EXCEPT ![j] = "waiting"]
  <2>1. answer' = answer /\ client' = [client EXCEPT ![j] = "waiting"]
    BY DEF Submit
  <2>2. FateOf(j) = "new" /\ FateOf(j)' = "waiting"
    <3>1. client'[j] = "waiting" /\ answer'[j] = NoAnswer
      BY <1>1, <2>1, GatherFacts
    <3>2. FateOf(j)' = "waiting"
      BY <3>1 DEF FateOf, NoAnswer, Dropped
    <3>3. FateOf(j) = "new"
      BY <1>1 DEF FateOf
    <3>. QED
      BY <3>2, <3>3
  <2>3. \A x \in Job \ {j} : FateOf(x)' = FateOf(x)
    BY <2>1, GatherFacts DEF FateOf
  <2>. HIDE DEF FateOf
  <2>. QED
    BY <2>2, <2>3 DEF FateShown
<1>3. CASE /\ k \in running
           /\ queue' = [queue EXCEPT ![k] = Append(@, j)]
           /\ UNCHANGED <<running, runner, members>>
  <2>1. /\ queue[k] \in Seq(Job) /\ queue'[k] = Append(queue[k], j)
        /\ \A x \in Key \ {k} : queue'[x] = queue[x]
    BY <1>1, <1>3, GatherFacts
  <2>2. TheirMembers(InHand(k, "taken")) \in Seq(Job)
    BY GatherFacts, EmptySeq DEF TheirMembers, InHand, Runners
  <2>3. Line(k)' = Append(Line(k), j)
    <3>0. TheirMembers(InHand(k, "taken"))' = TheirMembers(InHand(k, "taken"))
      BY <1>3 DEF TheirMembers, InHand, Runners
    <3>1. Line(k)' = TheirMembers(InHand(k, "taken")) \o Append(queue[k], j)
      BY <2>1, <3>0 DEF Line
    <3>2. <<j>> \in Seq(Job)
      BY SmallSequences
    <3>3. Append(queue[k], j) = queue[k] \o <<j>>
      BY <2>1, AppendIsConcat
    <3>4. Line(k) \in Seq(Job) /\ Append(Line(k), j) = Line(k) \o <<j>>
      BY <2>1, <2>2, ConcatProperties, AppendIsConcat DEF Line
    <3>. DEFINE held == TheirMembers(InHand(k, "taken"))
                q == queue[k]
    <3>5. Line(k) = held \o q /\ held \in Seq(Job) /\ q \in Seq(Job)
      BY <2>1, <2>2 DEF Line
    <3>. HIDE DEF held, q
    <3>6. (held \o q) \o <<j>> = held \o (q \o <<j>>)
      BY <3>2, <3>5, ConcatAssociative
    <3>7. Line(k)' = held \o (q \o <<j>>)
      BY <3>1, <3>3 DEF held, q
    <3>. QED
      BY <3>4, <3>5, <3>6, <3>7
  <2>4. \A x \in Key : Group(x)' = Group(x)
    BY <1>3 DEF Group, TheirMembers, InHand, Runners
  <2>5. \A x \in Key \ {k} : Line(x)' = Line(x)
    BY <1>1, <1>3, <2>1, Elsewhere
  <2>. HIDE DEF k
  <2>6. LineShown' = [LineShown EXCEPT ![k] = Append(LineShown[k], j)]
    BY <1>1, <2>3, <2>5, ShownFacts
  <2>. QED
    BY <1>2, <2>4, <2>6, ShownFacts DEF k
<1>4. CASE /\ k \notin running
           /\ running' = running \cup {k}
           /\ runner' = [runner EXCEPT ![j] = "taken"]
           /\ members' = [members EXCEPT ![j] = <<j>>]
           /\ UNCHANGED queue
  <2>1. \A d \in Job : KeyOf[d] = k => runner[d] = "none"
    BY <1>1, <1>4 DEF GatherIInv, Open
  <2>2. queue[k] = <<>>
    BY <1>1, <1>4, GatherFacts
  <2>3. runner'[j] = "taken" /\ members'[j] = <<j>> /\ queue'[k] = <<>>
    BY <1>4, <2>2, GatherFacts
  <2>4. Line(k) = <<>> /\ Group(k) = <<>>
    BY <1>1, <2>1, <2>2 DEF Shows
  <2>5. Line(k)' = <<j>> \o <<>> /\ Group(k)' = <<>>
    BY <1>1, <2>3 DEF Shows
  <2>6. Line(k)' = Append(Line(k), j)
    <3>1. <<j>> \o <<>> = <<j>> /\ Append(<<>>, j) = <<j>>
      BY SmallSequences, ConcatEmptySeq
    <3>. QED
      BY <2>4, <2>5, <3>1
  <2>7. \A x \in Key \ {k} : Line(x)' = Line(x) /\ Group(x)' = Group(x)
    <3>1. /\ \A e \in Job : KeyOf[e] # k => runner'[e] = runner[e] /\ members'[e] = members[e]
          /\ \A x \in Key \ {k} : queue'[x] = queue[x]
      BY <1>4, GatherFacts
    <3>. QED
      BY <1>1, <3>1, Elsewhere
  <2>. HIDE DEF k
  <2>8. LineShown' = [LineShown EXCEPT ![k] = Append(LineShown[k], j)]
    BY <1>1, <2>6, <2>7, ShownFacts
  <2>9. GroupShown' = GroupShown
    BY <1>1, <2>4, <2>5, <2>7, ShownFacts
  <2>. QED
    BY <1>2, <2>8, <2>9 DEF k
<1>. QED
  BY <1>3, <1>4 DEF Submit

\* A runner that begins takes its group from the front of the line.
LEMMA BeginStarts ==
    ASSUME GatherIInv, GatherIInv', \A k \in Key : Shows(k), (\A k \in Key : Shows(k))',
           NEW d \in Job, Begin(d)
    PROVE  LET k == KeyOf[d]
               n == Len(members[d])
           IN /\ GroupShown[k] = <<>> /\ LineShown[k] # <<>>
              /\ n \in 1..Len(LineShown[k])
              /\ n <= Cap[LineShown[k][1]] \/ n = 1
              /\ GroupShown' = [GroupShown EXCEPT ![k] = SubSeq(LineShown[k], 1, n)]
              /\ LineShown' = [LineShown EXCEPT ![k] =
                                 SubSeq(LineShown[k], n + 1, Len(LineShown[k]))]
              /\ FateShown' = FateShown
<1>. DEFINE k == KeyOf[d]
            n == Len(members[d])
            g == members[d]
<1>1. /\ k \in Key /\ runner[d] = "taken" /\ runner'[d] = "run"
      /\ UNCHANGED <<running, queue, members, answer, client>>
  BY GatherFacts DEF Begin
<1>2. /\ g \in Seq(Job) /\ queue[k] \in Seq(Job) /\ g # <<>> /\ n <= Capped(g[1])
  BY <1>1, GatherFacts DEF GatherIInv, Handed
<1>3. n \in Nat \ {0} /\ g[1] \in Job
  BY <1>2, EmptySeq, ElementOfSeq
<1>4. Line(k) = g \o queue[k] /\ Group(k) = <<>>
  BY <1>1 DEF Shows
<1>5. Line(k)' = queue[k] /\ Group(k)' = g
  BY <1>1 DEF Shows
<1>. HIDE DEF g, n
<1>6. /\ Line(k) \in Seq(Job) /\ n \in 1..Len(Line(k)) /\ Line(k)[1] = g[1]
      /\ SubSeq(Line(k), 1, n) = g /\ SubSeq(Line(k), n + 1, Len(Line(k))) = queue[k]
  <2>1. n = Len(g) /\ Len(queue[k]) \in Nat
    BY <1>2, LenProperties DEF n, g
  <2>2. /\ Line(k) \in Seq(Job) /\ Len(Line(k)) = n + Len(queue[k])
        /\ \A i \in 1..(n + Len(queue[k])) :
             Line(k)[i] = IF i <= n THEN g[i] ELSE queue[k][i - n]
    BY <1>2, <1>4, <2>1, ConcatProperties
  <2>3. Line(k)[1] = g[1]
    BY <1>3, <2>1, <2>2
  <2>4. SubSeq(Line(k), 1, n) = g /\ SubSeq(Line(k), n + 1, Len(Line(k))) = queue[k]
    BY <1>2, <1>4, <2>1, Joined
  <2>5. n \in 1..Len(Line(k))
    BY <1>3, <2>1, <2>2
  <2>. QED
    BY <2>2, <2>3, <2>4, <2>5
<1>7. Line(k) # <<>>
  BY <1>3, <1>6, SmallSequences
<1>8. n <= Cap[g[1]] \/ n = 1
  BY <1>2, <1>3, JobAssumption DEF Capped
<1>9. \A x \in Key \ {k} : Line(x)' = Line(x) /\ Group(x)' = Group(x)
  <2>1. /\ \A e \in Job : KeyOf[e] # k => runner'[e] = runner[e] /\ members'[e] = members[e]
        /\ \A x \in Key \ {k} : queue'[x] = queue[x]
    BY <1>1, GatherFacts DEF Begin
  <2>. QED
    BY <1>1, <2>1, Elsewhere
<1>10. FateShown' = FateShown
  BY <1>1 DEF FateShown, FateOf
<1>. HIDE DEF k
<1>11. LineShown[k] = Line(k) /\ GroupShown[k] = Group(k)
  BY <1>1, ShownFacts DEF k
<1>12. /\ GroupShown' = [GroupShown EXCEPT ![k] = g]
       /\ LineShown' = [LineShown EXCEPT ![k] = queue[k]]
  BY <1>1, <1>5, <1>9, ShownFacts
<1>. QED
  BY <1>4, <1>6, <1>7, <1>8, <1>10, <1>11, <1>12 DEF k, n

\* A run that ends, well or not, answers a front of its group and refuses the
\* rest of it.
LEMMA RunSettles ==
    ASSUME GatherIInv, NEW d \in Job, Answer(d) \/ Panic(d)
    PROVE  \E n \in 0..Len(members[d]) :
             /\ \A x \in Items(SubSeq(members[d], 1, n)) : answer'[x] = x
             /\ \A x \in Items(SubSeq(members[d], n + 1, Len(members[d]))) : answer'[x] = Dropped
             /\ \A x \in Job : \/ x \in Items(SubSeq(members[d], 1, n))
                               \/ x \in Items(SubSeq(members[d], n + 1, Len(members[d])))
                               \/ answer'[x] = answer[x]
<1>. DEFINE g == members[d]
<1>1. g \in Seq(Job) /\ Distinct(g) /\ Len(g) \in Nat /\ Items(g) = {g[i] : i \in 1..Len(g)}
  <2>1. g \in Seq(Job) /\ Distinct(g)
    BY GatherFacts DEF GatherIInv, Grouped
  <2>. HIDE DEF g
  <2>2. DOMAIN g = 1..Len(g) /\ Len(g) \in Nat
    BY <2>1, LenProperties
  <2>. QED
    BY <2>1, <2>2 DEF Items
<1>2. CASE Panic(d)
  <2>1. answer' = [x \in Job |-> IF x \in Items(g) THEN Dropped ELSE answer[x]]
    BY <1>2 DEF Panic, Lost
  <2>. HIDE DEF g
  <2>2. /\ 0 \in 0..Len(g)
        /\ Items(SubSeq(g, 1, 0)) = {g[i] : i \in 1..0}
        /\ Items(SubSeq(g, 0 + 1, Len(g))) = {g[i] : i \in (0 + 1)..Len(g)}
    BY <1>1, CutItems
  <2>3. Items(SubSeq(g, 1, 0)) = {} /\ Items(SubSeq(g, 0 + 1, Len(g))) = Items(g)
    BY <1>1, <2>2
  <2>4. /\ \A x \in Items(SubSeq(g, 1, 0)) : answer'[x] = x
        /\ \A x \in Items(SubSeq(g, 0 + 1, Len(g))) : answer'[x] = Dropped
        /\ \A x \in Job : \/ x \in Items(SubSeq(g, 1, 0))
                          \/ x \in Items(SubSeq(g, 0 + 1, Len(g)))
                          \/ answer'[x] = answer[x]
    <3>1. Items(g) \subseteq Job
      BY GatherFacts DEF g
    <3>. QED
      BY <2>1, <2>3, <3>1
  <2>. QED
    BY <2>2, <2>4 DEF g
<1>3. CASE Answer(d)
  <2>1. PICK n \in 0..Len(g) :
          answer' = [x \in Job |->
            IF x \notin Items(g) THEN answer[x]
            ELSE IF Place(g, x) <= n THEN SubSeq(g, 1, n)[Place(g, x)] ELSE Dropped]
    BY <1>3 DEF Answer
  <2>2. Items(g) \subseteq Job
    BY GatherFacts
  <2>. HIDE DEF g
  <2>3. /\ Items(SubSeq(g, 1, n)) = {g[i] : i \in 1..n}
        /\ Items(SubSeq(g, n + 1, Len(g))) = {g[i] : i \in (n + 1)..Len(g)}
    BY <1>1, CutItems
  <2>4. \A i \in 1..Len(g) : g[i] \in Items(g) /\ Place(g, g[i]) = i
    BY <1>1, PlaceFacts
  <2>5. \A i \in 1..n : i \in 1..Len(g) /\ i <= n /\ SubSeq(g, 1, n)[i] = g[i]
    BY <1>1, Cut
  <2>6. \A i \in 1..n : answer'[g[i]] = g[i]
    BY <2>1, <2>2, <2>4, <2>5
  <2>7. \A i \in (n + 1)..Len(g) : i \in 1..Len(g) /\ ~(i <= n)
    BY <1>1
  <2>8. \A i \in (n + 1)..Len(g) : answer'[g[i]] = Dropped
    BY <2>1, <2>2, <2>4, <2>7
  <2>9. \A i \in 1..Len(g) : i \in 1..n \/ i \in (n + 1)..Len(g)
    BY <1>1
  <2>10. \A x \in Job \ Items(g) : answer'[x] = answer[x]
    BY <2>1
  <2>11. /\ \A x \in Items(SubSeq(g, 1, n)) : answer'[x] = x
         /\ \A x \in Items(SubSeq(g, n + 1, Len(g))) : answer'[x] = Dropped
         /\ \A x \in Job : \/ x \in Items(SubSeq(g, 1, n))
                           \/ x \in Items(SubSeq(g, n + 1, Len(g)))
                           \/ answer'[x] = answer[x]
    BY <1>1, <2>3, <2>6, <2>8, <2>9, <2>10
  <2>. QED
    BY <2>11 DEF g
<1>. QED
  BY <1>2, <1>3

\* A run that ends settles the whole group it shows.
LEMMA RunFinishes ==
    ASSUME GatherIInv, GatherIInv', \A k \in Key : Shows(k), (\A k \in Key : Shows(k))',
           NEW d \in Job, Answer(d) \/ Panic(d)
    PROVE  LET k == KeyOf[d]
           IN /\ GroupShown[k] # <<>>
              /\ \E n \in 0..Len(GroupShown[k]) :
                   FateShown' = [j \in Job |->
                     CASE j \in Items(SubSeq(GroupShown[k], 1, n)) -> "answered"
                       [] j \in Items(SubSeq(GroupShown[k], n + 1, Len(GroupShown[k]))) -> "refused"
                       [] OTHER -> FateShown[j]]
              /\ GroupShown' = [GroupShown EXCEPT ![k] = <<>>]
              /\ LineShown' = LineShown
<1>. DEFINE k == KeyOf[d]
            g == members[d]
<1>1. /\ k \in Key /\ runner[d] = "run" /\ runner'[d] \in {"ended", "leaving"}
      /\ UNCHANGED <<running, queue, client>>
  BY GatherFacts DEF Answer, Panic
<1>2. /\ \A e \in Job : e # d => runner'[e] = runner[e] /\ members'[e] = members[e]
  BY GatherFacts DEF Answer, Panic
<1>3. \A e \in Job : KeyOf[e] = k => e = d \/ runner[e] = "none"
  BY <1>1 DEF GatherIInv, Single
<1>4. g # <<>> /\ g \in Seq(Job) /\ Distinct(g) /\ \A x \in Items(g) : client[x] # "new" /\ x \in Job
  BY <1>1, GatherFacts DEF GatherIInv, Handed, Grouped, Waiting
<1>5. Line(k) = queue[k] /\ Group(k) = g
  BY <1>1 DEF Shows
<1>6. Line(k)' = queue[k] /\ Group(k)' = <<>>
  <2>1. \A e \in Job : KeyOf[e] = k => runner'[e] \notin {"taken", "run"}
    BY <1>1, <1>2, <1>3
  <2>. QED
    BY <1>1, <2>1 DEF Shows
<1>7. \A x \in Key \ {k} : Line(x)' = Line(x) /\ Group(x)' = Group(x)
  BY <1>1, <1>2, Elsewhere
<1>8. PICK n \in 0..Len(g) :
             /\ \A x \in Items(SubSeq(g, 1, n)) : answer'[x] = x
             /\ \A x \in Items(SubSeq(g, n + 1, Len(g))) : answer'[x] = Dropped
             /\ \A x \in Job : \/ x \in Items(SubSeq(g, 1, n))
                               \/ x \in Items(SubSeq(g, n + 1, Len(g)))
                               \/ answer'[x] = answer[x]
  BY RunSettles
<1>. HIDE DEF g
<1>. DEFINE front == Items(SubSeq(g, 1, n))
            back == Items(SubSeq(g, n + 1, Len(g)))
<1>9. front \subseteq Items(g) /\ back \subseteq Items(g) /\ front \cap back = {}
  BY <1>4, CutItems
<1>10. /\ \A x \in front : FateOf(x)' = "answered"
       /\ \A x \in back : FateOf(x)' = "refused"
       /\ \A x \in Job \ (front \cup back) : FateOf(x)' = FateOf(x)
  <2>1. ASSUME NEW x \in front PROVE FateOf(x)' = "answered"
    BY <1>1, <1>4, <1>8, <1>9, <2>1, AnswerAssumption DEF FateOf
  <2>2. ASSUME NEW x \in back PROVE FateOf(x)' = "refused"
    BY <1>1, <1>4, <1>8, <1>9, <2>2 DEF FateOf, NoAnswer, Dropped
  <2>3. ASSUME NEW x \in Job \ (front \cup back) PROVE FateOf(x)' = FateOf(x)
    BY <1>1, <1>8, <2>3 DEF FateOf
  <2>. QED
    BY <2>1, <2>2, <2>3
<1>. HIDE DEF front, back
<1>11. FateShown' = [j \in Job |-> CASE j \in front -> "answered"
                                     [] j \in back -> "refused"
                                     [] OTHER -> FateShown[j]]
  <2>. HIDE DEF FateOf
  <2>1. \A j \in Job : FateOf(j)' = CASE j \in front -> "answered"
                                      [] j \in back -> "refused"
                                      [] OTHER -> FateOf(j)
    BY <1>9, <1>10
  <2>. QED
    BY <2>1 DEF FateShown
<1>. HIDE DEF k
<1>12. GroupShown[k] = g
  BY <1>1, <1>5, ShownFacts DEF k
<1>13. GroupShown' = [GroupShown EXCEPT ![k] = <<>>]
  BY <1>1, <1>6, <1>7, ShownFacts
<1>14. LineShown' = LineShown
  BY <1>1, <1>5, <1>6, <1>7, ShownFacts
<1>. QED
  BY <1>4, <1>11, <1>12, <1>13, <1>14 DEF k, front, back

\* A runner that takes its next group, or finds nobody queued, shows nothing.
LEMMA TakeNextHides ==
    ASSUME GatherIInv, GatherIInv', \A k \in Key : Shows(k), (\A k \in Key : Shows(k))',
           NEW d \in Job, TakeNext(d)
    PROVE  LineShown' = LineShown /\ GroupShown' = GroupShown /\ FateShown' = FateShown
<1>. DEFINE k == KeyOf[d]
            q == queue[k]
<1>1. /\ runner[d] = "ended" /\ k \in Key /\ UNCHANGED <<running, answer, client>>
  BY GatherFacts DEF TakeNext
<1>2. \A e \in Job : KeyOf[e] = k => e = d \/ runner[e] = "none"
  BY <1>1 DEF GatherIInv, Single
<1>3. Line(k) = queue[k] /\ Group(k) = <<>>
  <2>1. \A e \in Job : KeyOf[e] = k => runner[e] \notin {"taken", "run"}
    BY <1>1, <1>2
  <2>. QED
    BY <1>1, <2>1 DEF Shows
<1>4. FateShown' = FateShown
  BY <1>1 DEF FateShown, FateOf
<1>5. Line(k)' = Line(k) /\ Group(k)' = Group(k)
  <2>1. CASE /\ k \notin running \/ q = <<>>
             /\ runner' = [runner EXCEPT ![d] = "leaving"]
             /\ UNCHANGED <<queue, members>>
    <3>1. \A e \in Job : KeyOf[e] = k => runner'[e] \notin {"taken", "run"}
      BY <1>2, <2>1, GatherFacts
    <3>2. Line(k)' = queue'[k] /\ Group(k)' = <<>>
      BY <1>1, <3>1 DEF Shows
    <3>. QED
      BY <1>3, <2>1, <3>2
  <2>2. CASE /\ k \in running /\ q # <<>>
             /\ runner' = [runner EXCEPT ![d] = "taken"]
             /\ members' = [members EXCEPT ![d] = SubSeq(q, 1, GroupSize(q))]
             /\ queue' = [queue EXCEPT ![k] = SubSeq(q, GroupSize(q) + 1, Len(q))]
    <3>1. /\ runner'[d] = "taken" /\ members'[d] = SubSeq(q, 1, GroupSize(q))
          /\ queue'[k] = SubSeq(q, GroupSize(q) + 1, Len(q))
      BY <1>1, <2>2, GatherFacts
    <3>2. Line(k)' = members'[d] \o queue'[k] /\ Group(k)' = <<>>
      BY <1>1, <3>1 DEF Shows
    <3>3. q \in Seq(Job) /\ Len(q) \in Nat
      BY <1>1, GatherFacts, LenProperties
    <3>4. GroupSize(q) \in 0..Len(q)
      BY <2>2, <3>3, GroupSizeFacts
    <3>5. SubSeq(q, 1, GroupSize(q)) \o SubSeq(q, GroupSize(q) + 1, Len(q)) = q
      BY <3>3, <3>4, Cut
    <3>. QED
      BY <1>3, <3>1, <3>2, <3>5
  <2>. QED
    BY <2>1, <2>2 DEF TakeNext
<1>6. \A x \in Key \ {k} : Line(x)' = Line(x) /\ Group(x)' = Group(x)
  <2>1. /\ \A e \in Job : KeyOf[e] # k => runner'[e] = runner[e] /\ members'[e] = members[e]
        /\ \A x \in Key \ {k} : queue'[x] = queue[x]
    BY GatherFacts DEF TakeNext
  <2>. QED
    BY <1>1, <2>1, Elsewhere
<1>. HIDE DEF k
<1>. QED
  BY <1>4, <1>5, <1>6, ShownFacts

\* A lease that goes refuses whoever is left in the line.
LEMMA LeaseRefuses ==
    ASSUME GatherIInv, GatherIInv', \A k \in Key : Shows(k), (\A k \in Key : Shows(k))',
           NEW d \in Job, LeaseDrop(d)
    PROVE  LET k == KeyOf[d]
           IN /\ GroupShown[k] = <<>> /\ GroupShown' = GroupShown
              /\ LineShown' = [LineShown EXCEPT ![k] = <<>>]
              /\ FateShown' = [j \in Job |->
                   IF j \in Items(LineShown[k]) THEN "refused" ELSE FateShown[j]]
<1>. DEFINE k == KeyOf[d]
<1>1. /\ runner[d] = "leaving" /\ k \in Key /\ UNCHANGED <<members, client>>
  BY GatherFacts DEF LeaseDrop
<1>2. \A e \in Job : KeyOf[e] = k => e = d \/ runner[e] = "none"
  BY <1>1 DEF GatherIInv, Single
<1>3. /\ runner'[d] = "none" /\ queue'[k] = <<>>
      /\ \A e \in Job : e # d => runner'[e] = runner[e]
      /\ \A x \in Key \ {k} : queue'[x] = queue[x]
      /\ \A x \in Job : answer'[x] = IF x \in Items(queue[k]) THEN Dropped ELSE answer[x]
  BY <1>1, GatherFacts DEF LeaseDrop, Lost
<1>4. Line(k) = queue[k] /\ Group(k) = <<>>
  <2>1. \A e \in Job : KeyOf[e] = k => runner[e] \notin {"taken", "run"}
    BY <1>1, <1>2
  <2>. QED
    BY <1>1, <2>1 DEF Shows
<1>5. Line(k)' = <<>> /\ Group(k)' = <<>>
  <2>1. \A e \in Job : KeyOf[e] = k => runner'[e] \notin {"taken", "run"}
    BY <1>2, <1>3
  <2>. QED
    BY <1>1, <1>3, <2>1 DEF Shows
<1>6. \A x \in Key \ {k} : Line(x)' = Line(x) /\ Group(x)' = Group(x)
  BY <1>1, <1>3, Elsewhere
<1>7. \A x \in Job : FateOf(x)' = IF x \in Items(queue[k]) THEN "refused" ELSE FateOf(x)
  <2>1. ASSUME NEW x \in Job, x \in Items(queue[k]) PROVE FateOf(x)' = "refused"
    <3>1. client[x] # "new"
      BY <1>1, <2>1 DEF GatherIInv, Lined, Waiting
    <3>. QED
      BY <1>1, <1>3, <2>1, <3>1 DEF FateOf, NoAnswer, Dropped
  <2>2. ASSUME NEW x \in Job, x \notin Items(queue[k]) PROVE FateOf(x)' = FateOf(x)
    BY <1>1, <1>3, <2>2 DEF FateOf
  <2>. QED
    BY <2>1, <2>2
<1>. HIDE DEF k
<1>8. GroupShown[k] = <<>> /\ LineShown[k] = queue[k]
  BY <1>1, <1>4, ShownFacts
<1>9. GroupShown' = GroupShown /\ LineShown' = [LineShown EXCEPT ![k] = <<>>]
  BY <1>1, <1>4, <1>5, <1>6, ShownFacts
<1>10. FateShown' = [j \in Job |-> IF j \in Items(LineShown[k]) THEN "refused" ELSE FateShown[j]]
  <2>. HIDE DEF FateOf
  <2>. QED
    BY <1>7, <1>8 DEF FateShown
<1>. QED
  BY <1>8, <1>9, <1>10 DEF k

-----------------------------------------------------------------------------
\* Every step of gathering is a step of the promise, or none.
LEMMA GatherStepPromised ==
    ASSUME GatherIInv, GatherIInv', \A k \in Key : Shows(k), (\A k \in Key : Shows(k))',
           [Next]_vars
    PROVE  [Promise!Next]_(Promise!vars)
<1>1. CASE UNCHANGED vars
  <2>1. UNCHANGED <<LineShown, GroupShown, FateShown>>
    BY <1>1 DEF vars, LineShown, GroupShown, FateShown, Line, Group, FateOf,
       TheirMembers, InHand, Runners
  <2>. QED
    BY <2>1 DEF Promise!vars, LineShown, GroupShown, FateShown, Line, Group, FateOf
<1>2. ASSUME NEW j \in Job, GoAway(j) PROVE [Promise!Next]_(Promise!vars)
  <2>1. UNCHANGED <<LineShown, GroupShown>>
    BY <1>2 DEF GoAway, LineShown, GroupShown, Line, Group, TheirMembers, InHand, Runners
  <2>2. /\ answer' = answer /\ client[j] # "new" /\ client'[j] # "new"
        /\ \A x \in Job \ {j} : client'[x] = client[x]
    BY <1>2, GatherFacts DEF GoAway
  <2>3. \A x \in Job : FateOf(x)' = FateOf(x)
    BY <2>2 DEF FateOf
  <2>4. FateShown' = FateShown
    BY <2>3, ShownFacts
  <2>. QED
    BY <2>1, <2>4 DEF Promise!vars, LineShown, GroupShown, FateShown, Line, Group, FateOf
<1>3. ASSUME NEW j \in Job, Submit(j) PROVE Promise!Next
  <2>1. Promise!Arrive(j)
    BY <1>3, SubmitArrives
       DEF Promise!Arrive, LineShown, GroupShown, FateShown, Line, Group, FateOf
  <2>. QED
    BY <2>1 DEF Promise!Next
<1>4. ASSUME NEW d \in Job, Begin(d) PROVE Promise!Next
  <2>1. Promise!Start(KeyOf[d])
    BY <1>4, BeginStarts
       DEF Promise!Start, Promise!Drop, LineShown, GroupShown, FateShown, Line, Group, FateOf
  <2>. QED
    BY <2>1, GatherFacts DEF Promise!Next
<1>5. ASSUME NEW d \in Job, Answer(d) \/ Panic(d) PROVE Promise!Next
  <2>1. Promise!Finish(KeyOf[d])
    BY <1>5, RunFinishes
       DEF Promise!Finish, Promise!Drop, Promise!Settle, Promise!Items, Items,
           LineShown, GroupShown, FateShown, Line, Group, FateOf
  <2>. QED
    BY <2>1, GatherFacts DEF Promise!Next
<1>6. ASSUME NEW d \in Job, TakeNext(d) PROVE UNCHANGED Promise!vars
  BY <1>6, TakeNextHides
     DEF Promise!vars, LineShown, GroupShown, FateShown, Line, Group, FateOf
<1>7. ASSUME NEW d \in Job, LeaseDrop(d) PROVE [Promise!Next]_(Promise!vars)
  <2>. DEFINE k == KeyOf[d]
  <2>1. /\ k \in Key /\ GroupShown[k] = <<>> /\ GroupShown' = GroupShown
        /\ LineShown' = [LineShown EXCEPT ![k] = <<>>]
        /\ FateShown' = [j \in Job |->
             IF j \in Items(LineShown[k]) THEN "refused" ELSE FateShown[j]]
    BY <1>7, LeaseRefuses, GatherFacts
  <2>2. CASE LineShown[k] = <<>>
    <3>1. LineShown' = LineShown
      BY <2>1, <2>2 DEF LineShown
    <3>2. Items(LineShown[k]) = {}
      BY <2>2 DEF Items
    <3>3. FateShown' = [j \in Job |-> FateShown[j]]
      BY <2>1, <3>2
    <3>4. FateShown' = FateShown
      BY <3>3 DEF FateShown
    <3>. QED
      BY <2>1, <3>1, <3>4
         DEF Promise!vars, LineShown, GroupShown, FateShown, Line, Group, FateOf
  <2>3. CASE LineShown[k] # <<>>
    <3>1. FateShown' = [j \in Job |-> CASE j \in {} -> "answered"
                          [] j \in Items(LineShown[k]) -> "refused"
                          [] OTHER -> FateShown[j]]
      BY <2>1
    <3>2. Promise!Refuse(k)
      BY <2>1, <2>3, <3>1
         DEF Promise!Refuse, Promise!Settle, Promise!Items, Items,
             LineShown, GroupShown, FateShown, Line, Group, FateOf
    <3>. QED
      BY <2>1, <3>2 DEF Promise!Next
  <2>. QED
    BY <2>2, <2>3
<1>. QED
  BY <1>1, <1>2, <1>3, <1>4, <1>5, <1>6, <1>7 DEF Next, Drive

\* The queues, runners and leases implement the serial groups: each of their
\* behaviours shows one of SerialGroups, as far as what may happen goes.
THEOREM GatherImplements == Spec => Promise!Init /\ [][Promise!Next]_(Promise!vars)
<1>1. Init => Promise!Init
  <2>. SUFFICES ASSUME Init PROVE Promise!Init
    OBVIOUS
  <2>1. GatherIInv
    BY GatherInitEstablishes
  <2>2. \A k \in Key : Line(k) = <<>> /\ Group(k) = <<>>
    BY <2>1, ShownOf DEF Init, Shows
  <2>3. \A j \in Job : FateOf(j) = "new"
    BY DEF Init, FateOf
  <2>. QED
    BY <2>2, <2>3 DEF Promise!Init, Line, Group, FateOf
<1>2. GatherIInv /\ GatherIInv' /\ (\A k \in Key : Shows(k)) /\ (\A k \in Key : Shows(k))'
        /\ [Next]_vars => [Promise!Next]_(Promise!vars)
  BY GatherStepPromised
<1>3. GatherIInv => \A k \in Key : Shows(k)
  BY ShownOf
<1>. QED
  BY <1>1, <1>2, <1>3, GatherInvariant, PTL DEF Spec
=============================================================================
