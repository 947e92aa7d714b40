---------------------------- MODULE MCActorScope ----------------------------
(***************************************************************************)
(* Three goroutines, two named actors, the neutral one and one process     *)
(* name.                                                                   *)
(***************************************************************************)
EXTENDS ActorScope, TLC

CONSTANTS p1, p2, p3

============================================================================
