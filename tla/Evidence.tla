------------------------------ MODULE Evidence ------------------------------
(***************************************************************************)
(* What the event surface promises: an append-only history.  Events are    *)
(* added at the end, none is lost, repeated or moved.                      *)
(***************************************************************************)
EXTENDS Naturals, Sequences

CONSTANT Event
VARIABLE history

Init == history = << >>

NoRepeats(s) == \A i, k \in DOMAIN s : s[i] = s[k] => i = k

(* An operation records the events of some batch at once.                  *)
Record(batch) ==
    /\ batch # << >>
    /\ history' = history \o batch
    /\ NoRepeats(history')

Next == \E n \in 0 .. Len(history') : Record(SubSeq(history', n + 1, Len(history')))
Spec == Init /\ [][Next]_history
============================================================================
