--------------------------- MODULE SerialGroups ---------------------------
(***************************************************************************)
(* What gathering promises its callers (src/inference/serve/gather.rs, the *)
(* header and the comment on submit): the jobs of a key stand in one line  *)
(* in the order they came; one group of the key runs at a time, a front of *)
(* the line no longer than the cap of its first job; and a job is answered *)
(* once or refused once.  A line nobody runs any more is refused whole.    *)
(***************************************************************************)
EXTENDS Integers, Sequences

CONSTANTS Job, Key, KeyOf, Cap

VARIABLES line, group, fate

vars == <<line, group, fate>>

Items(s) == {s[i] : i \in DOMAIN s}
Drop(s, n) == SubSeq(s, n + 1, Len(s))
Settle(answered, refused) ==
    [j \in Job |-> CASE j \in answered -> "answered"
                     [] j \in refused -> "refused"
                     [] OTHER -> fate[j]]

Init ==
    /\ line = [k \in Key |-> <<>>]
    /\ group = [k \in Key |-> <<>>]
    /\ fate = [j \in Job |-> "new"]

Arrive(j) ==
    /\ fate[j] = "new"
    /\ fate' = [fate EXCEPT ![j] = "waiting"]
    /\ line' = [line EXCEPT ![KeyOf[j]] = Append(@, j)]
    /\ UNCHANGED group

Start(k) ==
    /\ group[k] = <<>> /\ line[k] # <<>>
    /\ \E n \in 1..Len(line[k]) :
         /\ n <= Cap[line[k][1]] \/ n = 1
         /\ group' = [group EXCEPT ![k] = SubSeq(line[k], 1, n)]
         /\ line' = [line EXCEPT ![k] = Drop(@, n)]
    /\ UNCHANGED fate

\* The runner answers the first n of its jobs, all of them when it keeps its
\* word, none when it panics.
Finish(k) ==
    /\ group[k] # <<>>
    /\ \E n \in 0..Len(group[k]) :
         fate' = Settle(Items(SubSeq(group[k], 1, n)), Items(Drop(group[k], n)))
    /\ group' = [group EXCEPT ![k] = <<>>]
    /\ UNCHANGED line

Refuse(k) ==
    /\ group[k] = <<>> /\ line[k] # <<>>
    /\ fate' = Settle({}, Items(line[k]))
    /\ line' = [line EXCEPT ![k] = <<>>]
    /\ UNCHANGED group

Next ==
    \/ \E j \in Job : Arrive(j)
    \/ \E k \in Key : Start(k) \/ Finish(k) \/ Refuse(k)

Spec ==
    /\ Init /\ [][Next]_vars
    /\ \A k \in Key : WF_vars(Start(k) \/ Finish(k) \/ Refuse(k))
=============================================================================
