--------------------------- MODULE MCFounderFlow ---------------------------
(***************************************************************************)
(* Two goroutines on one founder flow.                                     *)
(***************************************************************************)
EXTENDS FounderFlow, TLC

CONSTANTS w1, w2

WorkerSymmetry == Permutations(Workers)
============================================================================
