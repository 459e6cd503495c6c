---------------------------- MODULE MCAdmission ----------------------------
(* Admission for requests of one priority: the mode does not depend on it.  *)
EXTENDS Admission, TLC

CONSTANTS q1, q2, q3

MCPriority == [r \in Request |-> 1]

RequestSymmetry == Permutations(Request \ Constrained)
=============================================================================
