------------------------------ MODULE MuxLink ------------------------------
(***************************************************************************)
(* Many requests in flight on one connection between two nodes             *)
(* (src/distributed/wire_mux.rs).  Callers pass a counting gate that holds *)
(* back more than max_in_flight of them, leave a sender in a map under     *)
(* their id, write their frame and wait; one reader thread routes each     *)
(* reply by its id, or tells everyone in the map that the link died.  The  *)
(* gate, the map and the writer have a lock each and no caller holds two;  *)
(* only the reader that ends takes the gate's under the map's, to reset    *)
(* the count.  Every critical section is an action.                        *)
(*                                                                         *)
(* The peer and the socket are external: the peer answers in any order,    *)
(* may repeat an answer, and the connection may fail at any time.          *)
(***************************************************************************)
EXTENDS Integers, FiniteSets, Sequences

CONSTANTS
    Request,        \* calls of request(), each with its own id
    MaxInFlight,
    MaxStrays       \* bound on the answers the peer repeats

ASSUME RequestAssumption == IsFiniteSet(Request)
ASSUME MaxAssumption == MaxInFlight \in Nat \ {0}
ASSUME StraysAssumption == MaxStrays \in Nat

VARIABLES
    n,          \* Waiters::gate
    map,        \* Waiters::map: the ids with a sender in it
    pc,         \* where each caller stands in request()
    reply,      \* what is in its channel: the request the frame answers
    link,       \* the connection, "up" or "down"
    closed,     \* the MuxLink was dropped
    atPeer,     \* frames the peer has not answered
    inbox,      \* replies on the socket, in the order they come in
    reader,     \* where the reader thread stands
    frame,      \* the reply it has in hand
    routed,     \* the id whose sender it took from the map
    strays      \* answers the peer has repeated so far

callVars == <<n, map, pc, reply>>
wireVars == <<link, closed, atPeer, inbox, strays>>
readerVars == <<reader, frame, routed>>
muxVars == <<callVars, wireVars, readerVars>>

Nothing == {}
LinkError == "error"
Returned == {"ok", "err"}
Phase == {"new", "asleep", "awake", "gated", "mapped", "waiting"} \cup Returned

MuxTypeOK ==
    /\ n \in 0..MaxInFlight
    /\ map \subseteq Request
    /\ pc \in [Request -> Phase]
    /\ reply \in [Request -> {<<>>, <<LinkError>>} \cup {<<r>> : r \in Request}]
    /\ link \in {"up", "down"}
    /\ closed \in BOOLEAN
    /\ atPeer \subseteq Request
    /\ inbox \in Seq(Request)
    /\ reader \in {"reading", "counting", "delivering", "exited"}
    /\ frame \in SUBSET Request /\ Cardinality(frame) <= 1
    /\ routed \subseteq frame
    /\ strays \in 0..MaxStrays

MuxInit ==
    /\ n = 0
    /\ map = {}
    /\ pc = [r \in Request |-> "new"]
    /\ reply = [r \in Request |-> <<>>]
    /\ link = "up"
    /\ closed = FALSE
    /\ atPeer = {}
    /\ inbox = <<>>
    /\ reader = "reading"
    /\ frame = Nothing
    /\ routed = Nothing
    /\ strays = 0

-----------------------------------------------------------------------------
Asleep == {r \in Request : pc[r] = "asleep"}

\* Calls that returned and left their sender in the map and their place in the
\* count: refused or failed writes.
Left == {r \in map : pc[r] = "err"}

\* Backpressure: a caller takes a place, or sleeps on the condvar.
Admit(r) ==
    \/ /\ n < MaxInFlight
       /\ n' = n + 1
       /\ pc' = [pc EXCEPT ![r] = "gated"]
    \/ /\ n >= MaxInFlight
       /\ pc' = [pc EXCEPT ![r] = "asleep"]
       /\ UNCHANGED n

Start(r) ==
    /\ pc[r] = "new" /\ ~closed
    /\ Admit(r)
    /\ UNCHANGED <<map, reply, wireVars, readerVars>>

\* A woken caller looks again: another may have taken the place meanwhile.
Recheck(r) ==
    /\ pc[r] = "awake"
    /\ Admit(r)
    /\ UNCHANGED <<map, reply, wireVars, readerVars>>

\* The id, and the sender under it.
Insert(r) ==
    /\ pc[r] = "gated"
    /\ map' = map \cup {r}
    /\ pc' = [pc EXCEPT ![r] = "mapped"]
    /\ UNCHANGED <<n, reply, wireVars, readerVars>>

\* write_frame refuses what does not fit its shape or is above the cap before
\* it writes a byte, and the call returns through the ?: its sender stays in
\* the map and its place in the count.
Refuse(r) ==
    /\ pc[r] = "mapped"
    /\ pc' = [pc EXCEPT ![r] = "err"]
    /\ UNCHANGED <<n, map, reply, wireVars, readerVars>>

\* One frame is written whole.  On a dead link the write fails, and the call
\* returns at once, or the frame is lost in a buffer.
Write(r) ==
    /\ pc[r] = "mapped"
    /\ \/ /\ link = "up"
          /\ atPeer' = atPeer \cup {r}
          /\ pc' = [pc EXCEPT ![r] = "waiting"]
       \/ /\ link = "down"
          /\ pc' \in {[pc EXCEPT ![r] = "waiting"], [pc EXCEPT ![r] = "err"]}
          /\ UNCHANGED atPeer
    /\ UNCHANGED <<n, map, reply, link, closed, inbox, strays, readerVars>>

\* The caller takes what its channel brings.
Receive(r) ==
    /\ pc[r] = "waiting"
    /\ reply[r] # <<>>
    /\ pc' = [pc EXCEPT ![r] = IF reply[r] = <<LinkError>> THEN "err" ELSE "ok"]
    /\ UNCHANGED <<n, map, reply, wireVars, readerVars>>

-----------------------------------------------------------------------------
PeerReply(r) ==
    /\ r \in atPeer /\ link = "up"
    /\ atPeer' = atPeer \ {r}
    /\ inbox' = Append(inbox, r)
    /\ UNCHANGED <<callVars, link, closed, strays, readerVars>>

\* The peer answers again an id it has answered.
PeerStray(r) ==
    /\ link = "up" /\ strays < MaxStrays
    /\ pc[r] \in {"waiting"} \cup Returned /\ r \notin atPeer \cup Left
    /\ inbox' = Append(inbox, r)
    /\ strays' = strays + 1
    /\ UNCHANGED <<callVars, link, closed, atPeer, readerVars>>

LinkDies ==
    /\ link = "up"
    /\ link' = "down"
    /\ UNCHANGED <<callVars, closed, atPeer, inbox, strays, readerVars>>

CloseQuietly ==
    /\ ~closed
    /\ \A r \in Request : pc[r] \in {"new"} \cup Returned
    /\ closed' = TRUE
    /\ UNCHANGED <<callVars, link, atPeer, inbox, strays, readerVars>>

\* The MuxLink is dropped, which no call in progress allows: it shuts the
\* socket down and joins the reader.
Close ==
    /\ ~closed
    /\ \A r \in Request : pc[r] \in {"new"} \cup Returned
    /\ closed' = TRUE
    /\ link' = "down"
    /\ UNCHANGED <<callVars, atPeer, inbox, strays, readerVars>>

-----------------------------------------------------------------------------
SenderOfAny(id) == IF map = {} THEN {} ELSE {CHOOSE r \in map : TRUE}

\* The sender a reply goes to is the one under its id.
SenderFor(id) == map \cap {id}

ReadFrame ==
    /\ reader = "reading"
    /\ inbox # <<>>
    /\ frame' = {Head(inbox)}
    /\ routed' = SenderFor(Head(inbox))
    /\ map' = map \ SenderFor(Head(inbox))
    /\ inbox' = Tail(inbox)
    /\ reader' = "counting"
    /\ UNCHANGED <<n, pc, reply, link, closed, atPeer, strays>>

CountDownUnnotified ==
    /\ reader = "counting"
    /\ n' = IF n > 0 THEN n - 1 ELSE 0
    /\ reader' = "delivering"
    /\ UNCHANGED <<map, pc, reply, wireVars, frame, routed>>

CountDownLater ==
    /\ reader = "counting"
    /\ \/ \E r \in Asleep : pc' = [pc EXCEPT ![r] = "awake"]
       \/ Asleep = {} /\ UNCHANGED pc
    /\ reader' = "delivering"
    /\ UNCHANGED <<n, map, reply, wireVars, frame, routed>>

\* The count goes down, whoever the reply was for, and one sleeper is woken.
CountDown ==
    /\ reader = "counting"
    /\ n' = IF n > 0 THEN n - 1 ELSE 0
    /\ \/ \E r \in Asleep : pc' = [pc EXCEPT ![r] = "awake"]
       \/ Asleep = {} /\ UNCHANGED pc
    /\ reader' = "delivering"
    /\ UNCHANGED <<map, reply, wireVars, frame, routed>>

\* Only then does the caller see its reply; one nobody waits for is dropped.
Deliver ==
    /\ reader = "delivering"
    /\ reply' = [r \in Request |->
                    IF r \in routed THEN <<CHOOSE f \in frame : TRUE>> ELSE reply[r]]
    /\ frame' = Nothing /\ routed' = Nothing
    /\ reader' = "reading"
    /\ UNCHANGED <<n, map, pc, wireVars>>

ReadErrSilent ==
    /\ reader = "reading"
    /\ inbox = <<>> /\ link = "down"
    /\ n' = 0
    /\ pc' = [r \in Request |-> IF r \in Asleep THEN "awake" ELSE pc[r]]
    /\ reader' = "exited"
    /\ UNCHANGED <<map, reply, wireVars, frame, routed>>

\* The read fails: everyone in the map is told, the count is reset, all
\* sleepers are woken and the reader is gone.
ReadErr ==
    /\ reader = "reading"
    /\ inbox = <<>> /\ link = "down"
    /\ n' = 0
    /\ reply' = [r \in Request |-> IF r \in map THEN <<LinkError>> ELSE reply[r]]
    /\ map' = {}
    /\ pc' = [r \in Request |-> IF r \in Asleep THEN "awake" ELSE pc[r]]
    /\ reader' = "exited"
    /\ UNCHANGED <<wireVars, frame, routed>>

Reader == ReadFrame \/ CountDown \/ Deliver \/ ReadErr

-----------------------------------------------------------------------------
MuxNext ==
    \/ \E r \in Request :
         \/ Start(r) \/ Recheck(r) \/ Insert(r) \/ Refuse(r) \/ Write(r)
         \/ Receive(r) \/ PeerReply(r) \/ PeerStray(r)
    \/ LinkDies \/ Close
    \/ Reader

MuxSpec == MuxInit /\ [][MuxNext]_muxVars

\* Threads that can run do, and the peer answers what it was sent as long as
\* the connection lasts: the code waits for it without a deadline.
MuxFairness ==
    /\ WF_muxVars(Reader)
    /\ \A r \in Request :
         /\ WF_muxVars(Recheck(r)) /\ WF_muxVars(Insert(r))
         /\ WF_muxVars(Write(r)) /\ WF_muxVars(Receive(r))
         /\ WF_muxVars(PeerReply(r))

MuxLiveSpec == MuxSpec /\ MuxFairness

-----------------------------------------------------------------------------
\* Each caller gets the answer to its own frame, in whatever order and however
\* often the peer answers.
OwnReply ==
    \A r \in Request : reply[r] \in {<<>>, <<LinkError>>, <<r>>}

\* The requests a live reader still owes an answer to.
Outstanding ==
    {r \in Request : pc[r] \in {"gated", "mapped", "waiting"} /\ reply[r] = <<>>}

\* Backpressure, from both sides, until the reader ends.  The count stands for
\* callers that await an answer and for the places of those that left theirs
\* behind: one that has its answer is never still counted, or it would hold
\* back the next.  And no more than max_in_flight await an answer, but for the
\* answers a peer repeats, each of which lets one more in.
CountHonest ==
    /\ MuxTypeOK
    /\ reader # "exited" =>
       /\ n <= Cardinality(Outstanding \cup Left)
       /\ Cardinality(Outstanding \ routed) <= MaxInFlight + strays

\* A caller that waits while the reader lives gets its answer or learns that
\* the link died.
WaitersLearn ==
    \A r \in Request :
        pc[r] = "waiting" /\ reader # "exited" ~> pc[r] \in Returned

\* No wakeup is lost: while the reader lives and not every place has been left
\* behind, a caller held back by the gate gets on, though others may take the
\* place it was woken for.
SleepersWake ==
    \A r \in Request :
        pc[r] = "asleep" ~> \/ pc[r] \notin {"asleep", "awake"}
                            \/ reader = "exited"
                            \/ Cardinality(Left) >= MaxInFlight

\* A dropped link ends its reader thread: the join in drop returns.
CloseEndsReader == closed ~> reader = "exited"

\* Nobody waits for a reply that can no longer come: every call returns.
EveryCallReturns ==
    \A r \in Request : pc[r] # "new" ~> pc[r] \in Returned
=============================================================================
