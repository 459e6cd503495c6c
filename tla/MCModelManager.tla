-------------------------- MODULE MCModelManager --------------------------
(* ModelManager on two models that crowd each other out: a plain request of *)
(* one, a wide one of the other, a client that unloads and a mover that     *)
(* loads either again, also as the second loader of a model.                *)
EXTENDS ModelManager

MCWanted == [r \in Request |-> IF r = "w1" THEN "big" ELSE "chat"]
MCKeep == [r \in Request |-> "period"]
MCUnwanted == [c \in Client |-> "chat"]
=============================================================================
