--------------------------- MODULE MCWriterLease ---------------------------
(* Two daemons with the default writer id and one process with another.     *)
EXTENDS WriterLease, TLC

CONSTANTS p1, p2, p3

MCOwner == [p \in Procs |-> IF p = p3 THEN "other" ELSE "layer-osd"]
Sym == Permutations({p1, p2})
=============================================================================
