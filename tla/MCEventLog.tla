----------------------------- MODULE MCEventLog -----------------------------
(***************************************************************************)
(* Instances of EventStream: windows of one or two events and no limit,    *)
(* operations with up to three events, one browser that reconnects.        *)
(***************************************************************************)
EXTENDS EventStream

Crashing == [limits |-> {2}, batches |-> {1, 3}, faults |-> TRUE, imports |-> FALSE,
             events |-> 7, tears |-> 0, crashes |-> 2, connects |-> 0]
Tearing == [limits |-> {0, 2}, batches |-> {1, 3}, faults |-> FALSE, imports |-> TRUE,
            events |-> 8, tears |-> 3, crashes |-> 0, connects |-> 0]
Shrinking == [limits |-> {1, 2}, batches |-> {1, 2}, faults |-> TRUE, imports |-> FALSE,
              events |-> 4, tears |-> 0, crashes |-> 2, connects |-> 0]
Streaming == [limits |-> {2}, batches |-> {1, 2}, faults |-> TRUE, imports |-> FALSE,
              events |-> 5, tears |-> 0, crashes |-> 1, connects |-> 2]
AllEnvironments == {Crashing, Tearing, Shrinking, Streaming}
============================================================================
