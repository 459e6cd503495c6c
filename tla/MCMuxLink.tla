----------------------------- MODULE MCMuxLink -----------------------------
(* MuxLink for as many calls as the bound lets in at once and two more:     *)
(* both asleep, or one asleep and one that takes the place it is woken for. *)
EXTENDS MuxLink

CONSTANTS c1, c2, c3, c4
=============================================================================
