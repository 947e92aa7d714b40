----------------------------- MODULE MCWriteGate -----------------------------
(* Two requests of three callers: one without a header, a scoped actor from  *)
(* another machine, and a foreign page that sends the founder's header.      *)
EXTENDS WriteGate, TLC

CONSTANTS founder, agent, t1

MCCallers == {[actor |-> "none", local |-> TRUE, same |-> TRUE],
              [actor |-> agent, local |-> FALSE, same |-> TRUE],
              [actor |-> founder, local |-> TRUE, same |-> FALSE]}
MCLegacy == {NoFile, [a \in Actors |-> IF a = founder THEN t1 ELSE NoToken]}
Sym == Permutations(Requests)
=============================================================================
