----------------------------- MODULE MCKvDisk -----------------------------
EXTENDS KvDisk, TLC

ThreadSymmetry == Permutations(Thread)

\* e1 serves two turns of a conversation and another that shares its first
\* block; e2 serves one of its own.
Turns == [e \in Engine |->
    IF e = "e1" THEN {<<1>>, <<1, 2>>, <<1, 3>>} ELSE {<<1>>}]

OneModelEach == [e \in Engine |-> IF e = "e1" THEN "m1" ELSE "m2"]
OwnLayout == [m \in Model |-> IF m = "m1" THEN 1 ELSE 2]

\* m1's windowed layers slide within their first block, m2 has none.
ShortWindow == [m \in Model |-> IF m = "m1" THEN 0 ELSE 2]
\* m1's windowed layers slide with the second block.
LongWindow == [m \in Model |-> IF m = "m1" THEN 1 ELSE 2]
=============================================================================
