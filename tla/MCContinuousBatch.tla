------------------------- MODULE MCContinuousBatch -------------------------
(* ContinuousBatch on three requests: r1 and r2 share a block-aligned        *)
(* prompt, r1 may fill the pool alone, r3 is short and shares nothing.  r1    *)
(* before r3 has to push it out to go on; r1 after r3 has to give way.       *)
EXTENDS ContinuousBatch, TLC

CONSTANTS r1, r2, r3, a, b

MCPrompt ==
    [s \in SeqId |-> IF s = r3 THEN <<b>> ELSE <<a, b, b, a>>]
MCMaxNew == [s \in SeqId |-> IF s = r1 THEN 4 ELSE IF s = r2 THEN 2 ELSE 3]

BlockSymmetry == Permutations(Block)
=============================================================================
