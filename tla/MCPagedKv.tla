----------------------------- MODULE MCPagedKv -----------------------------
(* PagedKv on a small pool: two sequences with the same prompt of two full  *)
(* blocks, and one that shares only their first block.                      *)
EXTENDS PagedKv, TLC

CONSTANTS s1, s2, s3, a, b

MCPrompt == s1 :> <<a, b, a, b>> @@ s2 :> <<a, b, a, b>> @@ s3 :> <<a, b, b>>

BlockSymmetry == Permutations(Block)
=============================================================================
