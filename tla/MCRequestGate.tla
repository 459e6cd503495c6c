--------------------------- MODULE MCRequestGate ---------------------------
(* RequestGate on up to five requests of the three priorities: several of  *)
(* one priority for the arrival order, one above and one below them.        *)
EXTENDS RequestGate

CONSTANTS chat1, chat2, chat3, fim, batch

MCPriority ==
    [r \in Request |-> IF r = fim THEN 2 ELSE IF r = batch THEN 0 ELSE 1]
=============================================================================
