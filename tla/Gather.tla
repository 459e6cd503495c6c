------------------------------ MODULE Gather ------------------------------
(***************************************************************************)
(* Requests that share a key run as one batch behind the group ahead of    *)
(* them (src/inference/serve/gather.rs).  The queues are behind one mutex; *)
(* a runner is a task spawned by the request that found its key absent,    *)
(* and named here by that request.  A step is a critical section, or what  *)
(* the task does between two of them.                                      *)
(***************************************************************************)
EXTENDS Integers, Sequences, FiniteSets

CONSTANTS
    Job, Key,
    KeyOf,      \* the key a request submits under
    Cap         \* the group size it asks for

ASSUME JobAssumption ==
    /\ IsFiniteSet(Job)
    /\ KeyOf \in [Job -> Key]
    /\ Cap \in [Job -> Nat]

VARIABLES
    running,    \* keys of the map
    queue,      \* the members queued behind each key's group
    runner,     \* where each request's runner stands
    members,    \* the group each runner has in hand
    answer,     \* what came through each request's oneshot
    client      \* whether the request still waits for it

vars == <<running, queue, runner, members, answer, client>>

Step == {"none", "taken", "run", "ended", "leaving"}
NoAnswer == "empty"
Dropped == "dropped"

ASSUME AnswerAssumption == NoAnswer \notin Job /\ Dropped \notin Job

\* The state variables have the types of the queues and the tasks.
GatherTypeOK ==
    /\ running \subseteq Key
    /\ queue \in [Key -> Seq(Job)]
    /\ runner \in [Job -> Step]
    /\ members \in [Job -> Seq(Job)]
    /\ answer \in [Job -> Job \cup {NoAnswer, Dropped}]
    /\ client \in [Job -> {"new", "waiting", "away"}]
    /\ \A k \in Key \ running : queue[k] = <<>>

Init ==
    /\ running = {}
    /\ queue = [k \in Key |-> <<>>]
    /\ runner = [j \in Job |-> "none"]
    /\ members = [j \in Job |-> <<>>]
    /\ answer = [j \in Job |-> NoAnswer]
    /\ client = [j \in Job |-> "new"]

-----------------------------------------------------------------------------
Items(s) == {s[i] : i \in DOMAIN s}
Place(s, j) == CHOOSE i \in DOMAIN s : s[i] = j
Lost(jobs) == [j \in Job |-> IF j \in jobs THEN Dropped ELSE answer[j]]

\* submit: behind the running group, or the first of a group of its own.
Submit(j) ==
    /\ client[j] = "new"
    /\ client' = [client EXCEPT ![j] = "waiting"]
    /\ LET k == KeyOf[j]
       IN \/ /\ k \in running
             /\ queue' = [queue EXCEPT ![k] = Append(@, j)]
             /\ UNCHANGED <<running, runner, members>>
          \/ /\ k \notin running
             /\ running' = running \cup {k}
             /\ runner' = [runner EXCEPT ![j] = "taken"]
             /\ members' = [members EXCEPT ![j] = <<j>>]
             /\ UNCHANGED queue
    /\ UNCHANGED answer

\* drive hands the group's jobs to its first member's run.
Begin(d) ==
    /\ runner[d] = "taken"
    /\ runner' = [runner EXCEPT ![d] = "run"]
    /\ UNCHANGED <<running, queue, members, answer, client>>

\* Seeded fault: answers paired from the other end.
AnswerFromLast(d) ==
    /\ runner[d] = "run"
    /\ LET group == members[d]
       IN answer' = [j \in Job |->
            IF j \notin Items(group) THEN answer[j]
            ELSE group[Len(group) + 1 - Place(group, j)]]
    /\ runner' = [runner EXCEPT ![d] = "ended"]
    /\ members' = [members EXCEPT ![d] = <<>>]
    /\ UNCHANGED <<running, queue, client>>

\* run answers, with one result per job or with fewer; results and senders
\* are paired in order, and a sender left over is dropped.
Answer(d) ==
    /\ runner[d] = "run"
    /\ \E n \in 0..Len(members[d]) :
         LET results == SubSeq(members[d], 1, n)
         IN answer' = [j \in Job |->
              IF j \notin Items(members[d]) THEN answer[j]
              ELSE IF Place(members[d], j) <= n
                   THEN results[Place(members[d], j)] ELSE Dropped]
    /\ runner' = [runner EXCEPT ![d] = "ended"]
    /\ members' = [members EXCEPT ![d] = <<>>]
    /\ UNCHANGED <<running, queue, client>>

\* run panics: the unwinding drops the senders, and the lease after them.
Panic(d) ==
    /\ runner[d] = "run"
    /\ answer' = Lost(Items(members[d]))
    /\ runner' = [runner EXCEPT ![d] = "leaving"]
    /\ members' = [members EXCEPT ![d] = <<>>]
    /\ UNCHANGED <<running, queue, client>>

Smaller(a, b) == IF a < b THEN a ELSE b

\* Seeded fault: the whole queue.
GroupSizeUncapped(q) == Len(q)

\* cap.max(1), and never more than are queued.
GroupSize(q) == Smaller(IF Cap[q[1]] > 1 THEN Cap[q[1]] ELSE 1, Len(q))

\* Seeded fault: an empty queue closes the key at once, and the lease closes
\* it again.
TakeNextClosing(d) ==
    /\ runner[d] = "ended"
    /\ queue[KeyOf[d]] = <<>>
    /\ running' = running \ {KeyOf[d]}
    /\ runner' = [runner EXCEPT ![d] = "leaving"]
    /\ UNCHANGED <<queue, members, answer, client>>

\* The runner leaves when nobody queued, and else takes the front of the
\* queue.
TakeNext(d) ==
    /\ runner[d] = "ended"
    /\ LET k == KeyOf[d]
           q == queue[k]
       IN \/ /\ k \notin running \/ q = <<>>
             /\ runner' = [runner EXCEPT ![d] = "leaving"]
             /\ UNCHANGED <<queue, members>>
          \/ /\ k \in running /\ q # <<>>
             /\ runner' = [runner EXCEPT ![d] = "taken"]
             /\ members' = [members EXCEPT ![d] = SubSeq(q, 1, GroupSize(q))]
             /\ queue' = [queue EXCEPT ![k] =
                             SubSeq(q, GroupSize(q) + 1, Len(q))]
    /\ UNCHANGED <<running, answer, client>>

\* Seeded fault: the key leaves the map and its queue is forgotten with the
\* senders still in it.
LeaseDropForgetting(d) ==
    /\ runner[d] = "leaving"
    /\ running' = running \ {KeyOf[d]}
    /\ queue' = [queue EXCEPT ![KeyOf[d]] = <<>>]
    /\ runner' = [runner EXCEPT ![d] = "none"]
    /\ UNCHANGED <<members, answer, client>>

\* The lease goes when drive returns, after the lock it returned under: the
\* key leaves the map, with whoever queued in between.
LeaseDrop(d) ==
    /\ runner[d] = "leaving"
    /\ running' = running \ {KeyOf[d]}
    /\ answer' = Lost(Items(queue[KeyOf[d]]))
    /\ queue' = [queue EXCEPT ![KeyOf[d]] = <<>>]
    /\ runner' = [runner EXCEPT ![d] = "none"]
    /\ UNCHANGED <<members, client>>

\* The client goes away; its job stays where it is.
GoAway(j) ==
    /\ client[j] = "waiting" /\ answer[j] = NoAnswer
    /\ client' = [client EXCEPT ![j] = "away"]
    /\ UNCHANGED <<running, queue, runner, members, answer>>

-----------------------------------------------------------------------------
Drive(d) == Begin(d) \/ Answer(d) \/ Panic(d) \/ TakeNext(d) \/ LeaseDrop(d)

Next == \E j \in Job : Submit(j) \/ Drive(j) \/ GoAway(j)

\* A spawned task is polled, and a run ends.
Spec == Init /\ [][Next]_vars /\ \A d \in Job : WF_vars(Drive(d))

-----------------------------------------------------------------------------
Runners(k) == {d \in Job : KeyOf[d] = k /\ runner[d] # "none"}
InHand(k, step) == {d \in Runners(k) : runner[d] = step}
TheirMembers(ds) == IF ds = {} THEN <<>> ELSE members[CHOOSE d \in ds : TRUE]

\* The line of a key is the group about to begin and the queue behind it.
Promise == INSTANCE SerialGroups WITH
    line <- [k \in Key |-> TheirMembers(InHand(k, "taken")) \o queue[k]],
    group <- [k \in Key |-> TheirMembers(InHand(k, "run"))],
    fate <- [j \in Job |-> IF client[j] = "new" THEN "new"
                           ELSE CASE answer[j] = NoAnswer -> "waiting"
                                  [] answer[j] = Dropped -> "refused"
                                  [] OTHER -> "answered"]

\* The queues, the runner tasks and their leases keep what gathering
\* promises: one group of a key at a time, capped, in arrival order, every job
\* settled once, and no group or line left standing for ever.
KeepsPromise == Promise!Spec

\* A key is in the map exactly while one runner works for it: a request never
\* queues behind a runner that is gone, and two runners never share a queue.
OneRunner ==
    /\ GatherTypeOK
    /\ \A k \in Key :
        /\ Cardinality(Runners(k)) <= 1
        /\ k \in running <=> Runners(k) # {}

\* Each answer goes back to the request that brought the job, whoever of its
\* group went away.
OwnAnswer == \A j \in Job : answer[j] \in {j, NoAnswer, Dropped}

\* No submit waits for ever: through panics, short answers and leases it gets
\* its answer, or the end of its oneshot.
EverySubmitReturns ==
    \A j \in Job :
        client[j] = "waiting" ~> answer[j] # NoAnswer \/ client[j] = "away"
=============================================================================
