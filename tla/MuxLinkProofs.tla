--------------------------- MODULE MuxLinkProofs ---------------------------
(* Proofs about the shared link, for every set of requests and every bound:   *)
(* each caller gets its own answer, and the count of requests in flight says  *)
(* neither too much nor, but for the answers a peer repeats, too little; and  *)
(* no wakeup at the gate is lost.                                             *)
EXTENDS MuxLink, FiniteSetTheorems, TLAPS

Queued == {inbox[i] : i \in 1..Len(inbox)}
Early == {"new", "asleep", "awake", "gated"}

\* Where a request stands: not in the map, nor answered, nor on the wire before
\* its time, and with the reader only once it left the map.
Placed(r) ==
    /\ pc[r] \in Early => r \notin map /\ reply[r] = <<>>
    /\ pc[r] \in Early \cup {"mapped"} => r \notin atPeer \cup Queued \cup frame
    /\ r \in map => /\ reply[r] = <<>> /\ r \notin routed
                    /\ pc[r] \in {"mapped", "waiting", "err"}
    /\ r \in map /\ pc[r] # "waiting" => r \notin atPeer \cup Queued \cup frame
    /\ r \in routed => reply[r] = <<>> /\ pc[r] = "waiting"
    /\ reader # "exited" =>
         /\ r \in atPeer => r \in map /\ r \notin Queued
         /\ pc[r] = "mapped" => r \in map

InHand ==
    /\ IF reader \in {"reading", "exited"} THEN frame = {}
       ELSE \E f \in Request : frame = {f}
    /\ link = "up" => reader # "exited"

MuxShape == MuxTypeOK /\ InHand /\ OwnReply /\ \A r \in Request : Placed(r)

\* The requests the count stands for, those that left their place behind
\* included, and the replies on the socket that will
\* lower it for nobody.
Owed == Outstanding \ routed
Counted == (IF reader = "counting" THEN Outstanding ELSE Owed) \cup Left
Surplus ==
    {i \in 1..Len(inbox) :
        inbox[i] \notin map \/ \E j \in 1..(i - 1) : inbox[j] = inbox[i]}
Pending == IF reader = "counting" THEN 1 ELSE 0

CountShape ==
    reader # "exited" =>
        /\ n <= Cardinality(Counted)
        /\ Cardinality(Owed) + Cardinality(Surplus) + Pending <= n + strays

MuxIInv == MuxShape /\ CountShape

-----------------------------------------------------------------------------
(* The shape *)

LEMMA MuxInitShape == MuxInit => MuxShape
<1>. SUFFICES ASSUME MuxInit PROVE MuxShape
  OBVIOUS
<1>1. MuxTypeOK
  <2>1. Cardinality({}) = 0
    BY FS_EmptySet
  <2>2. inbox \in Seq(Request) /\ 0 \in 0..MaxInFlight /\ 0 \in 0..MaxStrays
    BY MaxAssumption, StraysAssumption DEF MuxInit
  <2>3. pc \in [Request -> Phase]
    BY DEF MuxInit, Phase
  <2>4. reply \in [Request -> {<<>>, <<LinkError>>} \cup {<<r>> : r \in Request}]
    BY DEF MuxInit
  <2>5. /\ frame = {} /\ routed = {} /\ n = 0 /\ strays = 0 /\ map = {} /\ atPeer = {}
        /\ link = "up" /\ reader = "reading" /\ closed = FALSE
    BY DEF MuxInit, Nothing
  <2>6. Cardinality(frame) <= 1
    BY <2>1, <2>5
  <2>. QED
    BY <2>2, <2>3, <2>4, <2>5, <2>6 DEF MuxTypeOK
<1>2. InHand /\ OwnReply
  BY DEF MuxInit, InHand, OwnReply, Nothing
<1>3. Queued = {}
  BY DEF MuxInit, Queued
<1>4. \A r \in Request : Placed(r)
  BY <1>3 DEF MuxInit, Placed, Nothing, Early
<1>. QED
  BY <1>1, <1>2, <1>4 DEF MuxShape

\* What a reply that arrives does to the socket.
LEMMA Arrives ==
    ASSUME MuxTypeOK, NEW r \in Request, inbox' = Append(inbox, r)
    PROVE  /\ inbox' \in Seq(Request) /\ Len(inbox') = Len(inbox) + 1
           /\ inbox'[Len(inbox) + 1] = r
           /\ \A i \in 1..Len(inbox) : inbox'[i] = inbox[i]
           /\ Queued' = Queued \cup {r}
<1>1. inbox \in Seq(Request) /\ Len(inbox) \in Nat
  BY DEF MuxTypeOK
<1>2. /\ inbox' \in Seq(Request) /\ Len(inbox') = Len(inbox) + 1
      /\ inbox'[Len(inbox) + 1] = r
      /\ \A i \in 1..Len(inbox) : inbox'[i] = inbox[i]
  BY <1>1
<1>3. Queued' = Queued \cup {r}
  BY <1>1, <1>2 DEF Queued
<1>. QED
  BY <1>2, <1>3

\* What reading the first reply leaves.
LEMMA Taken ==
    ASSUME MuxTypeOK, inbox # <<>>, inbox' = Tail(inbox)
    PROVE  /\ inbox[1] = Head(inbox) /\ Head(inbox) \in Request /\ Head(inbox) \in Queued
           /\ inbox' \in Seq(Request) /\ Len(inbox) >= 1
           /\ Len(inbox) \in Nat /\ Len(inbox') = Len(inbox) - 1
           /\ \A i \in 1..(Len(inbox) - 1) : inbox'[i] = inbox[i + 1]
           /\ Queued' \subseteq Queued
<1>1. inbox \in Seq(Request) /\ Len(inbox) \in Nat
  BY DEF MuxTypeOK
<1>2. Len(inbox) >= 1 /\ inbox[1] = Head(inbox) /\ Head(inbox) \in Request
  BY <1>1
<1>3. /\ inbox' \in Seq(Request) /\ Len(inbox') = Len(inbox) - 1
      /\ \A i \in 1..(Len(inbox) - 1) : inbox'[i] = inbox[i + 1]
  BY <1>1, <1>2
<1>4. Head(inbox) \in Queued /\ Queued' \subseteq Queued
  BY <1>1, <1>2, <1>3 DEF Queued
<1>. QED
  BY <1>1, <1>2, <1>3, <1>4

\* A step that only moves one caller on, or wakes sleepers.
LEMMA CallerShape ==
    ASSUME MuxShape, NEW r \in Request,
           Start(r) \/ Recheck(r) \/ Insert(r) \/ Refuse(r) \/ Write(r) \/ Receive(r)
    PROVE  MuxShape'
<1>1. InHand' /\ OwnReply' /\ UNCHANGED <<reply, inbox, frame, routed, reader, link>>
  BY DEF Start, Recheck, Insert, Refuse, Write, Receive, Admit, MuxShape, InHand, OwnReply,
         wireVars, readerVars
<1>2. Queued' = Queued
  BY <1>1 DEF Queued
<1>3. MuxTypeOK'
  BY <1>1, MaxAssumption
     DEF Start, Recheck, Insert, Refuse, Write, Receive, Admit, MuxShape, MuxTypeOK, Phase,
         Returned, wireVars, readerVars
<1>4. ASSUME NEW s \in Request PROVE Placed(s)'
  <2>. USE <1>1, <1>2, <1>4 DEF MuxShape, Placed, Early, MuxTypeOK, wireVars, readerVars
  <2>1. CASE Start(r)
    BY <2>1 DEF Start, Admit
  <2>2. CASE Recheck(r)
    BY <2>2 DEF Recheck, Admit
  <2>3. CASE Insert(r)
    BY <2>3 DEF Insert
  <2>4. CASE Write(r)
    BY <2>4 DEF Write
  <2>5. CASE Receive(r)
    BY <2>5 DEF Receive, Returned
  <2>6. CASE Refuse(r)
    BY <2>6 DEF Refuse
  <2>. QED
    BY <2>1, <2>2, <2>3, <2>4, <2>5, <2>6
<1>. QED
  BY <1>1, <1>3, <1>4 DEF MuxShape

\* A step of the peer or of the connection.
LEMMA WireShape ==
    ASSUME MuxShape,
           \/ \E r \in Request : PeerReply(r) \/ PeerStray(r)
           \/ LinkDies \/ Close
    PROVE  MuxShape'
<1>1. /\ UNCHANGED <<callVars, readerVars>> /\ atPeer' \subseteq atPeer
      /\ link' = "up" => link = "up"
  BY DEF PeerReply, PeerStray, LinkDies, Close, callVars
<1>2. InHand' /\ OwnReply'
  BY <1>1 DEF MuxShape, InHand, OwnReply, callVars, readerVars
<1>3. ASSUME NEW r \in Request, PeerReply(r) \/ PeerStray(r) PROVE MuxShape'
  <2>1. inbox' = Append(inbox, r) /\ UNCHANGED <<link, closed>>
    BY <1>3 DEF PeerReply, PeerStray
  <2>2. inbox' \in Seq(Request) /\ Queued' = Queued \cup {r}
    BY <2>1, Arrives DEF MuxShape
  <2>3. strays' \in 0..MaxStrays
    BY <1>3, StraysAssumption DEF PeerReply, PeerStray, MuxShape, MuxTypeOK
  <2>4. MuxTypeOK'
    BY <1>1, <2>1, <2>2, <2>3 DEF MuxShape, MuxTypeOK, callVars, readerVars
  <2>5. /\ r \notin atPeer' /\ pc[r] \notin Early \cup {"mapped"}
        /\ r \in map => pc[r] = "waiting"
    BY <1>3 DEF PeerReply, PeerStray, MuxShape, Placed, Returned, Early, Left
  <2>6. ASSUME NEW s \in Request PROVE Placed(s)'
    BY <1>1, <2>1, <2>2, <2>5, <2>6 DEF MuxShape, Placed, callVars, readerVars
  <2>. QED
    BY <1>2, <2>4, <2>6 DEF MuxShape
<1>4. CASE LinkDies \/ Close
  <2>1. UNCHANGED <<callVars, readerVars, atPeer, inbox, strays>> /\ link' = "down"
    BY <1>4 DEF LinkDies, Close
  <2>2. Queued' = Queued
    BY <2>1 DEF Queued
  <2>3. closed' \in BOOLEAN
    BY <1>4 DEF LinkDies, Close, MuxShape, MuxTypeOK
  <2>4. MuxTypeOK'
    BY <2>1, <2>3 DEF MuxShape, MuxTypeOK, callVars, readerVars
  <2>5. \A s \in Request : Placed(s)'
    BY <2>1, <2>2 DEF MuxShape, Placed, callVars, readerVars
  <2>. QED
    BY <1>2, <2>4, <2>5 DEF MuxShape
<1>. QED
  BY <1>3, <1>4

\* A step of the reader.
LEMMA ReaderShape ==
    ASSUME MuxShape, Reader
    PROVE  MuxShape'
<1>1. CASE ReadFrame
  <2>. DEFINE id == Head(inbox)
  <2>1. /\ id \in Request /\ id \in Queued /\ inbox' \in Seq(Request)
        /\ Queued' \subseteq Queued
    BY <1>1, Taken DEF ReadFrame, MuxShape
  <2>. HIDE DEF id
  <2>2. /\ frame = {} /\ frame' = {id} /\ routed' = map \cap {id} /\ map' = map \ {id}
        /\ routed = {} /\ reader = "reading" /\ reader' = "counting"
        /\ UNCHANGED <<n, pc, reply, link, closed, atPeer, strays>>
    BY <1>1 DEF ReadFrame, SenderFor, MuxShape, InHand, MuxTypeOK, id
  <2>3. InHand' /\ OwnReply'
    BY <2>1, <2>2 DEF InHand, OwnReply, MuxShape
  <2>4. MuxTypeOK'
    <3>1. Cardinality({id}) = 1
      BY FS_Singleton
    <3>. QED
      BY <2>1, <2>2, <3>1 DEF MuxTypeOK, MuxShape
  <2>5. ASSUME NEW s \in Request PROVE Placed(s)'
    BY <2>1, <2>2, <2>5 DEF Placed, MuxShape
  <2>. QED
    BY <2>3, <2>4, <2>5 DEF MuxShape
<1>2. CASE CountDown
  <2>1. /\ reader = "counting" /\ reader' = "delivering"
        /\ UNCHANGED <<map, reply, wireVars, frame, routed>>
        /\ n' \in 0..MaxInFlight
    BY <1>2, MaxAssumption DEF CountDown, MuxShape, MuxTypeOK
  <2>2. /\ pc' \in [Request -> Phase]
        /\ \A s \in Request :
             pc'[s] = pc[s] \/ (pc[s] = "asleep" /\ pc'[s] = "awake")
    BY <1>2 DEF CountDown, Asleep, MuxShape, MuxTypeOK, Phase
  <2>3. Queued' = Queued
    BY <2>1 DEF Queued, wireVars
  <2>4. InHand' /\ OwnReply'
    BY <2>1 DEF InHand, OwnReply, MuxShape, wireVars
  <2>5. MuxTypeOK'
    BY <2>1, <2>2 DEF MuxTypeOK, MuxShape, wireVars
  <2>6. ASSUME NEW s \in Request PROVE Placed(s)'
    BY <2>1, <2>2, <2>3, <2>6 DEF Placed, MuxShape, wireVars, Early
  <2>. QED
    BY <2>4, <2>5, <2>6 DEF MuxShape
<1>3. CASE Deliver
  <2>1. PICK f \in Request : frame = {f}
    BY <1>3 DEF Deliver, MuxShape, InHand
  <2>2. /\ reader = "delivering" /\ reader' = "reading" /\ frame' = {} /\ routed' = {}
        /\ UNCHANGED <<n, map, pc, wireVars>>
        /\ reply' = [r \in Request |-> IF r \in routed THEN <<f>> ELSE reply[r]]
        /\ routed \subseteq {f}
    BY <1>3, <2>1 DEF Deliver, Nothing, MuxShape, MuxTypeOK
  <2>3. Queued' = Queued
    BY <2>2 DEF Queued, wireVars
  <2>4. InHand' /\ OwnReply'
    BY <2>2 DEF InHand, OwnReply, MuxShape, wireVars
  <2>5. reply' \in [Request -> {<<>>, <<LinkError>>} \cup {<<r>> : r \in Request}]
    BY <2>2 DEF MuxTypeOK, MuxShape
  <2>6. MuxTypeOK'
    <3>1. Cardinality({}) = 0
      BY FS_EmptySet
    <3>. QED
      BY <2>2, <2>5, <3>1 DEF MuxTypeOK, MuxShape, wireVars
  <2>7. ASSUME NEW s \in Request PROVE Placed(s)'
    BY <2>1, <2>2, <2>3, <2>7 DEF Placed, MuxShape, wireVars, Early
  <2>. QED
    BY <2>4, <2>6, <2>7 DEF MuxShape
<1>4. CASE ReadErr
  <2>1. /\ link = "down" /\ map' = {} /\ reader' = "exited" /\ n' = 0
        /\ UNCHANGED <<wireVars, frame, routed>>
        /\ reader = "reading" /\ frame = {} /\ routed = {}
    BY <1>4 DEF ReadErr, MuxShape, InHand, MuxTypeOK
  <2>2. reply' = [r \in Request |-> IF r \in map THEN <<LinkError>> ELSE reply[r]]
    BY <1>4 DEF ReadErr
  <2>3. /\ pc' \in [Request -> Phase]
        /\ \A s \in Request :
             pc'[s] = pc[s] \/ (pc[s] = "asleep" /\ pc'[s] = "awake")
    BY <1>4 DEF ReadErr, Asleep, MuxShape, MuxTypeOK, Phase
  <2>4. Queued' = Queued
    BY <2>1 DEF Queued, wireVars
  <2>5. InHand' /\ OwnReply'
    BY <2>1, <2>2 DEF InHand, OwnReply, MuxShape, wireVars
  <2>6. reply' \in [Request -> {<<>>, <<LinkError>>} \cup {<<r>> : r \in Request}]
    BY <2>2 DEF MuxTypeOK, MuxShape
  <2>7. MuxTypeOK'
    BY <2>1, <2>3, <2>6, MaxAssumption DEF MuxTypeOK, MuxShape, wireVars
  <2>8. ASSUME NEW s \in Request PROVE Placed(s)'
    BY <2>1, <2>2, <2>3, <2>4, <2>8 DEF Placed, MuxShape, wireVars, Early
  <2>. QED
    BY <2>5, <2>7, <2>8 DEF MuxShape
<1>. QED
  BY <1>1, <1>2, <1>3, <1>4 DEF Reader

LEMMA StutterShape ==
    ASSUME MuxShape, UNCHANGED muxVars
    PROVE  MuxShape'
<1>1. Queued' = Queued
  BY DEF Queued, muxVars, wireVars
<1>. QED
  BY <1>1 DEF MuxShape, MuxTypeOK, InHand, OwnReply, Placed, muxVars, callVars,
              wireVars, readerVars

LEMMA MuxStepShape == MuxShape /\ [MuxNext]_muxVars => MuxShape'
<1>. SUFFICES ASSUME MuxShape, [MuxNext]_muxVars PROVE MuxShape'
  OBVIOUS
<1>. QED
  BY CallerShape, WireShape, ReaderShape, StutterShape DEF MuxNext

-----------------------------------------------------------------------------
(* The counts *)

LEMMA Sizes ==
    ASSUME MuxTypeOK
    PROVE  /\ IsFiniteSet(Outstanding) /\ IsFiniteSet(Owed) /\ IsFiniteSet(Counted)
           /\ IsFiniteSet(Surplus) /\ IsFiniteSet(Outstanding \cup Left)
           /\ Cardinality(Outstanding) \in Nat /\ Cardinality(Owed) \in Nat
           /\ Cardinality(Counted) \in Nat /\ Cardinality(Surplus) \in Nat
           /\ Cardinality(Outstanding \cup Left) \in Nat
<1>1. /\ Outstanding \subseteq Request /\ Owed \subseteq Request
      /\ Counted \subseteq Request /\ Outstanding \cup Left \subseteq Request
  BY DEF Outstanding, Owed, Counted, Left, MuxTypeOK
<1>2. Surplus \subseteq 1..Len(inbox) /\ Len(inbox) \in Nat
  BY DEF Surplus, MuxTypeOK
<1>3. IsFiniteSet(1..Len(inbox))
  BY <1>2, FS_Interval
<1>4. /\ IsFiniteSet(Outstanding) /\ IsFiniteSet(Owed) /\ IsFiniteSet(Counted)
      /\ IsFiniteSet(Surplus) /\ IsFiniteSet(Outstanding \cup Left)
  BY <1>1, <1>2, <1>3, RequestAssumption, FS_Subset
<1>. QED
  BY <1>4, FS_CardinalityType

LEMMA MuxInitCounts == MuxInit => CountShape
<1>. SUFFICES ASSUME MuxInit PROVE CountShape
  OBVIOUS
<1>1. Outstanding = {} /\ Owed = {} /\ Counted = {} /\ Surplus = {} /\ Pending = 0
  BY DEF MuxInit, Outstanding, Owed, Counted, Surplus, Pending, Left
<1>2. Cardinality({}) = 0
  BY FS_EmptySet
<1>. QED
  BY <1>1, <1>2 DEF CountShape, MuxInit

\* A step that leaves both sets, the count and the reader's place alone.
LEMMA SameCounts ==
    ASSUME MuxShape, CountShape,
           Outstanding' = Outstanding, Left' = Left, UNCHANGED <<routed, reader, n, inbox, strays>>,
           map \subseteq map'
    PROVE  CountShape'
<1>1. Owed' = Owed /\ Counted' = Counted /\ Pending' = Pending
  BY DEF Owed, Counted, Pending
<1>2. Surplus' \subseteq Surplus
  BY DEF Surplus
<1>3. Cardinality(Surplus') <= Cardinality(Surplus) /\ Cardinality(Surplus') \in Nat
  BY <1>2, Sizes, FS_Subset, FS_CardinalityType DEF MuxShape
<1>4. /\ Cardinality(Owed) \in Nat /\ Cardinality(Surplus) \in Nat
      /\ n \in Int /\ strays \in Int /\ Pending \in Nat
  BY Sizes DEF MuxShape, MuxTypeOK, Pending
<1>. QED
  BY <1>1, <1>3, <1>4 DEF CountShape

\* A caller that takes a place is counted and owed an answer.
LEMMA AdmitCounts ==
    ASSUME MuxShape, CountShape, NEW r \in Request, Start(r) \/ Recheck(r)
    PROVE  CountShape'
<1>1. /\ pc[r] \in Early /\ pc[r] # "gated" /\ reply[r] = <<>>
      /\ r \notin routed
      /\ r \notin map
      /\ UNCHANGED <<map, reply, routed, reader, inbox, strays>>
  BY DEF Start, Recheck, MuxShape, MuxTypeOK, Placed, Early, wireVars, readerVars
<1>2. CASE n' = n + 1 /\ pc' = [pc EXCEPT ![r] = "gated"]
  <2>1. Outstanding' = Outstanding \cup {r} /\ r \notin Outstanding
    BY <1>1, <1>2 DEF Outstanding, MuxShape, MuxTypeOK, Early
  <2>2. /\ Owed' = Owed \cup {r} /\ r \notin Owed /\ Counted' = Counted \cup {r}
        /\ r \notin Counted /\ Surplus' = Surplus /\ Pending' = Pending
    <3>1. Left' = Left /\ r \notin Left
      BY <1>1, <1>2 DEF Left, MuxShape, MuxTypeOK
    <3>. QED
      BY <1>1, <2>1, <3>1 DEF Owed, Counted, Surplus, Pending
  <2>3. /\ Cardinality(Owed') = Cardinality(Owed) + 1
        /\ Cardinality(Counted') = Cardinality(Counted) + 1
    BY <2>2, Sizes, FS_AddElement DEF MuxShape
  <2>4. /\ Cardinality(Owed) \in Nat /\ Cardinality(Surplus) \in Nat
        /\ Cardinality(Counted) \in Nat
        /\ n \in Int /\ strays \in Int /\ Pending \in Nat
    BY Sizes DEF MuxShape, MuxTypeOK, Pending
  <2>. QED
    BY <1>1, <1>2, <2>2, <2>3, <2>4 DEF CountShape
<1>3. CASE n' = n /\ pc' = [pc EXCEPT ![r] = "asleep"]
  <2>1. Outstanding' = Outstanding /\ Left' = Left
    BY <1>1, <1>3 DEF Outstanding, Left, MuxShape, MuxTypeOK, Early
  <2>. QED
    BY <1>1, <1>3, <2>1, SameCounts
<1>. QED
  BY <1>2, <1>3 DEF Start, Recheck, Admit

\* A caller already counted that moves on.
LEMMA MoveCounts ==
    ASSUME MuxShape, CountShape, NEW r \in Request,
           Insert(r) \/ Refuse(r) \/ Write(r) \/ Receive(r)
    PROVE  CountShape'
<1>1. /\ UNCHANGED <<n, reply, routed, reader, inbox, strays>>
      /\ map \subseteq map'
  BY DEF Insert, Refuse, Write, Receive, wireVars, readerVars
<1>2. CASE Insert(r) \/ Receive(r) \/ (Write(r) /\ pc'[r] = "waiting")
  <2>1. Outstanding' = Outstanding
    BY <1>1, <1>2 DEF Insert, Write, Receive, Outstanding, MuxShape, MuxTypeOK
  <2>2. Left' = Left
    BY <1>2 DEF Insert, Write, Receive, Left, MuxShape, MuxTypeOK, Placed
  <2>. QED
    BY <1>1, <2>1, <2>2, SameCounts
<1>3. CASE Refuse(r) \/ (Write(r) /\ pc'[r] # "waiting")
  <2>1. /\ pc[r] = "mapped" /\ pc' = [pc EXCEPT ![r] = "err"] /\ map' = map
    BY <1>3 DEF Refuse, Write, MuxShape, MuxTypeOK
  <2>. SUFFICES ASSUME reader # "exited"
                PROVE  /\ n' <= Cardinality(Counted')
                       /\ Cardinality(Owed') + Cardinality(Surplus') + Pending'
                            <= n' + strays'
    BY <1>1 DEF CountShape
  <2>2. r \in map /\ r \notin routed /\ reply[r] = <<>>
    BY <2>1 DEF MuxShape, Placed
  <2>3. Outstanding' = Outstanding \ {r} /\ r \in Outstanding /\ Left' = Left \cup {r}
    BY <1>1, <2>1, <2>2 DEF Outstanding, Left, MuxShape, MuxTypeOK
  <2>4. /\ Counted' = Counted /\ Owed' = Owed \ {r} /\ r \in Owed
        /\ Surplus' = Surplus /\ Pending' = Pending
    BY <1>1, <2>1, <2>2, <2>3 DEF Counted, Owed, Surplus, Pending
  <2>5. Cardinality(Owed') = Cardinality(Owed) - 1
    BY <2>4, Sizes, FS_RemoveElement DEF MuxShape
  <2>6. /\ Cardinality(Owed) \in Nat /\ Cardinality(Surplus) \in Nat
        /\ n \in Int /\ strays \in Int /\ Pending \in Nat
    BY Sizes DEF MuxShape, MuxTypeOK, Pending
  <2>. QED
    BY <1>1, <2>4, <2>5, <2>6 DEF CountShape
<1>. QED
  BY <1>2, <1>3 DEF Write

\* A reply from the peer to a frame it holds is never surplus, and a repeated
\* one is counted as a stray.
LEMMA WireCounts ==
    ASSUME MuxShape, CountShape,
           \/ \E r \in Request : PeerReply(r) \/ PeerStray(r)
           \/ LinkDies \/ Close
    PROVE  CountShape'
<1>1. ASSUME NEW r \in Request, PeerReply(r) \/ PeerStray(r) PROVE CountShape'
  <2>1. /\ inbox' = Append(inbox, r) /\ link = "up" /\ link' = "up"
        /\ UNCHANGED <<callVars, readerVars>>
    BY <1>1 DEF PeerReply, PeerStray
  <2>2. /\ Len(inbox') = Len(inbox) + 1 /\ inbox'[Len(inbox) + 1] = r
        /\ \A i \in 1..Len(inbox) : inbox'[i] = inbox[i]
    BY <2>1, Arrives DEF MuxShape
  <2>3. Len(inbox) \in Nat
    BY DEF MuxShape, MuxTypeOK
  <2>4. /\ Outstanding' = Outstanding /\ Owed' = Owed /\ Counted' = Counted
        /\ Pending' = Pending /\ n' = n /\ reader' = reader
    BY <2>1 DEF Outstanding, Owed, Counted, Pending, Left, callVars, readerVars
  <2>5. Surplus' \subseteq Surplus \cup {Len(inbox) + 1}
    BY <2>1, <2>2, <2>3 DEF Surplus, callVars
  <2>6. /\ Cardinality(Owed) \in Nat /\ Cardinality(Surplus) \in Nat
        /\ IsFiniteSet(Surplus) /\ n \in Int /\ strays \in Int /\ Pending \in Nat
    BY Sizes DEF MuxShape, MuxTypeOK, Pending
  <2>7. CASE PeerReply(r)
    <3>1. strays' = strays /\ r \in map /\ map' = map /\ r \notin Queued
      BY <2>1, <2>7 DEF PeerReply, MuxShape, InHand, Placed, callVars
    <3>2. Len(inbox) + 1 \notin Surplus'
      BY <2>2, <2>3, <3>1 DEF Surplus, Queued
    <3>3. Surplus' \in SUBSET Surplus
      BY <2>5, <3>2
    <3>4. Cardinality(Surplus') <= Cardinality(Surplus) /\ Cardinality(Surplus') \in Nat
      BY <2>6, <3>3, FS_Subset, FS_CardinalityType
    <3>. QED
      BY <2>1, <2>4, <2>6, <3>1, <3>4 DEF CountShape
  <2>8. CASE PeerStray(r)
    <3>1. strays' = strays + 1
      BY <2>8 DEF PeerStray
    <3>2. /\ IsFiniteSet(Surplus \cup {Len(inbox) + 1})
          /\ Cardinality(Surplus \cup {Len(inbox) + 1}) <= Cardinality(Surplus) + 1
          /\ Cardinality(Surplus \cup {Len(inbox) + 1}) \in Nat
      BY <2>6, FS_AddElement, FS_CardinalityType
    <3>3. /\ Cardinality(Surplus') <= Cardinality(Surplus \cup {Len(inbox) + 1})
          /\ Cardinality(Surplus') \in Nat
      BY <2>5, <3>2, FS_Subset, FS_CardinalityType
    <3>. QED
      BY <2>1, <2>4, <2>6, <3>1, <3>2, <3>3 DEF CountShape
  <2>. QED
    BY <1>1, <2>7, <2>8
<1>2. CASE LinkDies \/ Close
  <2>1. UNCHANGED <<callVars, readerVars, inbox, strays>>
    BY <1>2 DEF LinkDies, Close
  <2>2. Outstanding' = Outstanding /\ Left' = Left
    BY <2>1 DEF Outstanding, Left, callVars
  <2>. QED
    BY <2>1, <2>2, SameCounts DEF callVars, readerVars
<1>. QED
  BY <1>1, <1>2

\* Reading a reply takes one caller out of those owed, or one reply off the
\* surplus, until the count follows.
LEMMA ReadCounts ==
    ASSUME MuxShape, CountShape, ReadFrame
    PROVE  CountShape'
<1>. DEFINE id == Head(inbox)
<1>1. /\ inbox[1] = id /\ id \in Request /\ id \in Queued
      /\ Len(inbox) \in Nat /\ Len(inbox) >= 1 /\ Len(inbox') = Len(inbox) - 1
      /\ \A i \in 1..(Len(inbox) - 1) : inbox'[i] = inbox[i + 1]
  BY Taken DEF ReadFrame, MuxShape
<1>. HIDE DEF id
<1>2. /\ routed' = map \cap {id} /\ map' = map \ {id} /\ routed = {}
      /\ reader = "reading" /\ reader' = "counting"
      /\ UNCHANGED <<n, pc, reply, strays>>
  BY DEF ReadFrame, SenderFor, MuxShape, InHand, MuxTypeOK, id
<1>3. /\ Outstanding' = Outstanding /\ Counted' = Counted
      /\ Owed = Outstanding /\ Owed' = Outstanding \ (map \cap {id})
      /\ Pending = 0 /\ Pending' = 1
  <2>1. Left' = Left
    BY <1>1, <1>2 DEF Left, MuxShape, Placed
  <2>. QED
    BY <1>2, <2>1 DEF Outstanding, Counted, Owed, Pending
<1>4. /\ Cardinality(Owed) \in Nat /\ Cardinality(Surplus) \in Nat
      /\ IsFiniteSet(Surplus) /\ IsFiniteSet(Outstanding)
      /\ n \in Int /\ strays \in Int
  BY Sizes DEF MuxShape, MuxTypeOK
<1>. DEFINE moved == [i \in Surplus' |-> i + 1]
<1>5. /\ moved \in Injection(Surplus', Surplus \ {1})
  <2>1. \A i \in Surplus' : i \in 1..(Len(inbox) - 1) /\ i + 1 \in 1..Len(inbox) /\ i + 1 # 1
    BY <1>1 DEF Surplus
  <2>2. ASSUME NEW i \in Surplus' PROVE i + 1 \in Surplus
    <3>1. CASE inbox'[i] \notin map'
      <4>1. inbox[i + 1] \notin map \/ inbox[i + 1] = inbox[1]
        BY <1>1, <1>2, <2>1, <3>1
      <4>2. 1 \in 1..((i + 1) - 1)
        BY <2>1
      <4>. QED
        BY <2>1, <4>1, <4>2 DEF Surplus
    <3>2. CASE \E j \in 1..(i - 1) : inbox'[j] = inbox'[i]
      <4>1. PICK j \in 1..(i - 1) : inbox'[j] = inbox'[i]
        BY <3>2
      <4>2. i \in Nat /\ i <= Len(inbox) - 1 /\ j \in Nat /\ 1 <= j /\ j <= i - 1
        BY <1>1, <2>1, <4>1
      <4>3. j + 1 \in 1..((i + 1) - 1) /\ j \in 1..(Len(inbox) - 1) /\ i \in 1..(Len(inbox) - 1)
        BY <1>1, <4>2
      <4>4. inbox[j + 1] = inbox[i + 1]
        BY <1>1, <4>1, <4>3
      <4>. QED
        BY <2>1, <4>3, <4>4 DEF Surplus
    <3>. QED
      BY <3>1, <3>2 DEF Surplus
  <2>3. moved \in [Surplus' -> Surplus \ {1}]
    BY <2>1, <2>2
  <2>4. \A i, j \in Surplus' : moved[i] = moved[j] => i = j
    BY <2>1
  <2>. HIDE DEF moved
  <2>. QED
    BY <2>3, <2>4 DEF Injection, IsInjective
<1>6. /\ IsFiniteSet(Surplus \ {1})
      /\ Cardinality(Surplus \ {1}) =
           IF 1 \in Surplus THEN Cardinality(Surplus) - 1 ELSE Cardinality(Surplus)
  BY <1>4, FS_RemoveElement
<1>7. IsFiniteSet(Surplus') /\ Cardinality(Surplus') <= Cardinality(Surplus \ {1})
  <2>. HIDE DEF moved
  <2>. QED
    BY <1>5, <1>6, FS_Injection
<1>8. Cardinality(Surplus') \in Nat
  BY <1>7, FS_CardinalityType
<1>9. CASE id \in map
  <2>1. id \in Outstanding
    BY <1>1, <1>9 DEF MuxShape, MuxTypeOK, Placed, Outstanding
  <2>2. Owed' = Outstanding \ {id}
    BY <1>3, <1>9
  <2>3. Cardinality(Owed') = Cardinality(Owed) - 1
    BY <1>3, <1>4, <2>1, <2>2, FS_RemoveElement
  <2>. QED
    BY <1>2, <1>3, <1>4, <1>6, <1>7, <1>8, <2>3 DEF CountShape
<1>10. CASE id \notin map
  <2>1. 1 \in Surplus /\ Owed' = Owed
    BY <1>1, <1>3, <1>10 DEF Surplus
  <2>2. Cardinality(Surplus') <= Cardinality(Surplus) - 1
    BY <1>4, <1>6, <1>7, <1>8, <2>1
  <2>3. /\ n <= Cardinality(Counted)
        /\ Cardinality(Owed) + Cardinality(Surplus) <= n + strays
    BY <1>2, <1>3, <1>4 DEF CountShape
  <2>4. Cardinality(Owed) + Cardinality(Surplus') + 1 <= n + strays
    BY <1>4, <1>8, <2>2, <2>3
  <2>. QED
    BY <1>2, <1>3, <2>1, <2>3, <2>4 DEF CountShape
<1>. QED
  BY <1>9, <1>10

\* The count follows the reply in hand.
LEMMA DownCounts ==
    ASSUME MuxShape, CountShape, CountDown
    PROVE  CountShape'
<1>1. /\ reader = "counting" /\ reader' = "delivering"
      /\ n' = IF n > 0 THEN n - 1 ELSE 0
      /\ UNCHANGED <<map, reply, inbox, routed, strays>>
  BY DEF CountDown, wireVars
<1>2. \A s \in Request : pc'[s] = pc[s] \/ (pc[s] = "asleep" /\ pc'[s] = "awake")
  BY DEF CountDown, Asleep, MuxShape, MuxTypeOK
<1>3. /\ Outstanding' = Outstanding /\ Owed' = Owed /\ Surplus' = Surplus
      /\ Left' = Left
  BY <1>1, <1>2 DEF Outstanding, Owed, Surplus, Left, MuxShape, MuxTypeOK
<1>4. /\ Pending = 1 /\ Pending' = 0 /\ Counted = Outstanding \cup Left
      /\ Counted' = (Outstanding \ routed) \cup Left
  BY <1>1, <1>3 DEF Pending, Counted, Owed
<1>5. /\ Cardinality(Owed) \in Nat /\ Cardinality(Surplus) \in Nat
      /\ Cardinality(Counted) \in Nat /\ IsFiniteSet(Counted)
      /\ n \in Nat /\ strays \in Nat
  BY MaxAssumption, StraysAssumption, Sizes DEF MuxShape, MuxTypeOK
<1>6. PICK f \in Request : frame = {f}
  BY <1>1 DEF MuxShape, InHand
<1>7. routed = {} \/ (routed = {f} /\ f \notin Left)
  BY <1>6 DEF MuxShape, MuxTypeOK, Placed, Left
<1>8. Counted' = Counted \/ Counted' = Counted \ {f}
  BY <1>4, <1>7
<1>9. /\ IsFiniteSet(Counted \ {f}) /\ Cardinality(Counted \ {f}) \in Nat
      /\ Cardinality(Counted \ {f}) >= Cardinality(Counted) - 1
  <2>1. /\ IsFiniteSet(Counted \ {f})
        /\ Cardinality(Counted \ {f}) =
             IF f \in Counted THEN Cardinality(Counted) - 1 ELSE Cardinality(Counted)
    BY <1>5, FS_RemoveElement
  <2>. QED
    BY <1>5, <2>1, FS_CardinalityType
<1>10. Cardinality(Counted') >= Cardinality(Counted) - 1 /\ Cardinality(Counted') \in Nat
  BY <1>5, <1>8, <1>9
<1>. QED
  BY <1>1, <1>3, <1>4, <1>5, <1>10 DEF CountShape

\* Only then does the caller have its answer, and nobody waits for it.
LEMMA DeliverCounts ==
    ASSUME MuxShape, CountShape, Deliver
    PROVE  CountShape'
<1>1. PICK f \in Request : frame = {f}
  BY DEF Deliver, MuxShape, InHand
<1>2. /\ reader = "delivering" /\ reader' = "reading" /\ routed' = {}
      /\ UNCHANGED <<n, map, pc, inbox, strays>>
      /\ reply' = [r \in Request |-> IF r \in routed THEN <<f>> ELSE reply[r]]
  BY <1>1 DEF Deliver, Nothing, wireVars
<1>3. \A r \in Request : reply'[r] = <<>> <=> reply[r] = <<>> /\ r \notin routed
  BY <1>2
<1>4. Outstanding' = Outstanding \ routed
  BY <1>2, <1>3 DEF Outstanding
<1>5. Owed' = Owed /\ Counted' = Counted /\ Surplus' = Surplus
  BY <1>2, <1>4 DEF Owed, Counted, Surplus, Left
<1>6. Pending = 0 /\ Pending' = 0
  BY <1>2 DEF Pending
<1>. QED
  BY <1>2, <1>5, <1>6 DEF CountShape

LEMMA MuxStepCounts == MuxIInv /\ [MuxNext]_muxVars => CountShape'
<1>. SUFFICES ASSUME MuxShape, CountShape, [MuxNext]_muxVars PROVE CountShape'
  BY DEF MuxIInv
<1>1. CASE Reader
  <2>1. CASE ReadErr
    BY <2>1 DEF ReadErr, CountShape
  <2>. QED
    BY <1>1, <2>1, ReadCounts, DownCounts, DeliverCounts DEF Reader
<1>2. CASE UNCHANGED muxVars
  <2>1. Outstanding' = Outstanding /\ Left' = Left
    BY <1>2 DEF Outstanding, Left, muxVars, callVars
  <2>. QED
    BY <1>2, <2>1, SameCounts DEF muxVars, callVars, wireVars, readerVars
<1>. QED
  BY <1>1, <1>2, AdmitCounts, MoveCounts, WireCounts DEF MuxNext

-----------------------------------------------------------------------------
LEMMA MuxInvariant == MuxSpec => []MuxIInv
<1>1. MuxInit => MuxIInv
  BY MuxInitShape, MuxInitCounts DEF MuxIInv
<1>2. MuxIInv /\ [MuxNext]_muxVars => MuxIInv'
  BY MuxStepShape, MuxStepCounts DEF MuxIInv
<1>. QED
  BY <1>1, <1>2, PTL DEF MuxSpec

\* Every caller gets the answer to its own frame or the error of the link,
\* however the peer orders and repeats its answers.
THEOREM MuxOwnReply == MuxSpec => []OwnReply
<1>1. MuxIInv => OwnReply
  BY DEF MuxIInv, MuxShape
<1>. QED
  BY <1>1, MuxInvariant, PTL

\* Until the reader ends the count stands for callers that await an answer and
\* for places left behind, and no more await one than the link lets in, but for
\* the answers repeated.
THEOREM MuxCountHonest == MuxSpec => []CountHonest
<1>1. MuxIInv => CountHonest
  <2>. SUFFICES ASSUME MuxIInv PROVE CountHonest
    OBVIOUS
  <2>1. MuxTypeOK
    BY DEF MuxIInv, MuxShape
  <2>2. ASSUME reader # "exited"
        PROVE  /\ n <= Cardinality(Outstanding \cup Left)
               /\ Cardinality(Outstanding \ routed) <= MaxInFlight + strays
    <3>1. /\ n <= Cardinality(Counted)
          /\ Cardinality(Owed) + Cardinality(Surplus) + Pending <= n + strays
      BY <2>2 DEF MuxIInv, CountShape
    <3>2. Counted \in SUBSET (Outstanding \cup Left)
      BY DEF Counted, Owed
    <3>3. /\ Cardinality(Counted) <= Cardinality(Outstanding \cup Left)
          /\ Cardinality(Counted) \in Nat /\ Cardinality(Outstanding \cup Left) \in Nat
          /\ Cardinality(Owed) \in Nat /\ Cardinality(Surplus) \in Nat
      BY <2>1, <3>2, Sizes, FS_Subset
    <3>4. Pending \in Nat /\ n \in Int /\ strays \in Int /\ n <= MaxInFlight
          /\ MaxInFlight \in Int
      BY <2>1, MaxAssumption DEF Pending, MuxTypeOK
    <3>. QED
      BY <3>1, <3>3, <3>4 DEF Owed
  <2>. QED
    BY <2>1, <2>2 DEF CountHonest
<1>. QED
  BY <1>1, MuxInvariant, PTL

-----------------------------------------------------------------------------
(* Wakeups *)

Awake == {r \in Request : pc[r] = "awake"}

\* While somebody sleeps at the gate, no place is free that a woken caller is
\* not on its way to: a place is never given back unnoticed.
NoLostWakeup == Asleep # {} => n + Cardinality(Awake) >= MaxInFlight

LEMMA WakeupKept ==
    ASSUME MuxTypeOK, NoLostWakeup, [MuxNext]_muxVars
    PROVE  NoLostWakeup'
<1>1. /\ n \in Nat /\ MaxInFlight \in Nat /\ pc \in [Request -> Phase]
      /\ IsFiniteSet(Awake) /\ Cardinality(Awake) \in Nat
  BY MaxAssumption, RequestAssumption, FS_Subset, FS_CardinalityType DEF MuxTypeOK, Awake
<1>2. ASSUME NEW r \in Request, Start(r) \/ Recheck(r) PROVE NoLostWakeup'
  <2>0. pc[r] \in {"new", "awake"}
    BY <1>2 DEF Start, Recheck
  <2>1. CASE n' = n + 1 /\ pc' = [pc EXCEPT ![r] = "gated"]
    <3>1. Asleep' = Asleep /\ Awake' = Awake \ {r}
      BY <1>1, <2>0, <2>1 DEF Asleep, Awake
    <3>2. Cardinality(Awake') >= Cardinality(Awake) - 1 /\ Cardinality(Awake') \in Nat
      BY <1>1, <3>1, FS_RemoveElement, FS_CardinalityType
    <3>. QED
      BY <1>1, <2>1, <3>1, <3>2 DEF NoLostWakeup
  <2>2. CASE n >= MaxInFlight /\ n' = n /\ pc' = [pc EXCEPT ![r] = "asleep"]
    <3>1. Awake' = Awake \ {r}
      BY <1>1, <2>2 DEF Awake
    <3>2. Cardinality(Awake') \in Nat
      BY <1>1, <3>1, FS_RemoveElement, FS_CardinalityType
    <3>. QED
      BY <1>1, <2>2, <3>2 DEF NoLostWakeup
  <2>. QED
    BY <1>2, <2>1, <2>2 DEF Start, Recheck, Admit
<1>3. ASSUME NEW r \in Request, Insert(r) \/ Refuse(r) \/ Write(r) \/ Receive(r)
      PROVE  NoLostWakeup'
  <2>1. Asleep' = Asleep /\ Awake' = Awake /\ n' = n
    BY <1>1, <1>3 DEF Insert, Refuse, Write, Receive, Asleep, Awake
  <2>. QED
    BY <2>1 DEF NoLostWakeup
<1>4. CASE CountDown
  <2>1. n' >= n - 1 /\ n' \in Nat
    BY <1>1, <1>4 DEF CountDown
  <2>2. CASE Asleep = {} /\ pc' = pc
    BY <2>2 DEF NoLostWakeup, Asleep
  <2>3. ASSUME NEW r \in Asleep, pc' = [pc EXCEPT ![r] = "awake"] PROVE NoLostWakeup'
    <3>1. r \in Request /\ pc[r] = "asleep"
      BY DEF Asleep
    <3>2. Awake' = Awake \cup {r} /\ r \notin Awake
      BY <1>1, <2>3, <3>1 DEF Awake
    <3>3. Cardinality(Awake') = Cardinality(Awake) + 1
      BY <1>1, <3>2, FS_AddElement
    <3>. QED
      BY <1>1, <2>1, <3>3 DEF NoLostWakeup
  <2>. QED
    BY <1>4, <2>2, <2>3 DEF CountDown
<1>5. CASE ReadErr
  <2>1. Asleep' = {}
    BY <1>1, <1>5 DEF ReadErr, Asleep
  <2>. QED
    BY <2>1 DEF NoLostWakeup
<1>6. CASE \/ UNCHANGED muxVars \/ LinkDies \/ Close \/ ReadFrame \/ Deliver
           \/ \E r \in Request : PeerReply(r) \/ PeerStray(r)
  <2>1. n' = n /\ pc' = pc
    BY <1>6 DEF muxVars, callVars, LinkDies, Close, ReadFrame, Deliver, PeerReply, PeerStray
  <2>. QED
    BY <2>1 DEF NoLostWakeup, Asleep, Awake
<1>. QED
  BY <1>2, <1>3, <1>4, <1>5, <1>6 DEF MuxNext, Reader

\* No wakeup at the gate is lost, for any number of callers and places: this is
\* why a caller that sleeps has somebody to wait for.
THEOREM MuxNoLostWakeup == MuxSpec => []NoLostWakeup
<1>1. MuxInit => NoLostWakeup
  BY DEF MuxInit, NoLostWakeup, Asleep
<1>2. MuxTypeOK /\ NoLostWakeup /\ [MuxNext]_muxVars => NoLostWakeup'
  BY WakeupKept
<1>3. MuxIInv => MuxTypeOK
  BY DEF MuxIInv, MuxShape
<1>. QED
  BY <1>1, <1>2, <1>3, MuxInvariant, PTL DEF MuxSpec
=============================================================================
