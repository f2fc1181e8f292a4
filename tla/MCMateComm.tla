----------------------------- MODULE MCMateComm -----------------------------
(* Two stations for TLC, each the other's mate. *)
EXTENDS MateComm, TLC

CONSTANTS a, b

MCNode == {a, b}
MCMate == (a :> b) @@ (b :> a)
Stations == Permutations(MCNode)
=============================================================================
