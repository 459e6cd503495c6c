----------------------------- MODULE MCGather -----------------------------
EXTENDS Gather

\* Four requests of one key, asking for groups of none, two, two and three:
\* the one that opens, and a queue that one group does not empty.  Keys share
\* nothing, each with its queue and its runner.
Keys == [j \in Job |-> "image"]
Caps == [j \in Job |-> CASE j = "j1" -> 0 [] j = "j4" -> 3 [] OTHER -> 2]
=============================================================================
