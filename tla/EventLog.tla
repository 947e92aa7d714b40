------------------------------ MODULE EventLog ------------------------------
(***************************************************************************)
(* The event store and its two files.  Memory holds a window of the last   *)
(* `limit' events and the ones that fell out of it since the last save     *)
(* (pendingArchive); disk holds the window (events.json, replaced whole)   *)
(* and the archive (events_archive.json, one line appended per event).     *)
(*                                                                         *)
(* An operation runs under Service.mu: it appends its events, saves the    *)
(* archive, then the window, then the domains that come after the events,  *)
(* and on an error puts the event store it found back.  Each file write is *)
(* one action, so that it can fail, be torn, or be the last thing the      *)
(* daemon did.                                                             *)
(***************************************************************************)
EXTENDS Naturals, Sequences, FiniteSets

CONSTANT
    Environments    \* what may happen in a behaviour; each one is a record with
                    \*   limits: LAYER_OS_EVENT_RETENTION values in use, 0 for none
                    \*   batches: events an operation appends
                    \*   faults: a save may fail
                    \*   imports: the daemon's own snapshot may be imported again
                    \*   events, tears, crashes: bounds on events, on appends to
                    \*     the archive that are cut short, and on crashes

ASSUME LogAssumption ==
    \A e \in Environments :
        /\ e.limits \subseteq Nat /\ e.limits # {}
        /\ e.batches \subseteq Nat \ {0}
        /\ {e.faults, e.imports} \subseteq BOOLEAN
        /\ {e.events, e.tears, e.crashes} \subseteq Nat

Event == Nat \ {0}

VARIABLES
    env,      \* the environment of the behaviour
    pc,       \* where the operation in hand is; "idle", or the daemon is "down"
    limit,    \* the store's retention limit
    items,    \* eventStore.items
    pending,  \* eventStore.pendingArchive
    count,    \* eventStore.archivedCount
    undo,     \* the state the operation restores on an error
    batch,    \* events of the operation in hand
    archive,  \* the readable lines of events_archive.json
    torn,     \* the archive ends in a piece of a line
    window,   \* events.json
    last,     \* number of the newest event
    acked,    \* ground truth: events of operations that returned no error
    tears,    \* appends cut short so far
    crashes,  \* crashes so far
    cut       \* ground truth: events a restart with a lower limit left out

memVars == <<limit, items, pending, count>>
diskVars == <<archive, torn, window>>
vars == <<env, pc, memVars, undo, batch, diskVars, last, acked, tears, crashes, cut>>

Elems(s) == {s[i] : i \in DOMAIN s}
Minus(a, b) == IF a > b THEN a - b ELSE 0
Oldest(s, n) == SubSeq(s, 1, n)
Rest(s, n) == SubSeq(s, n + 1, Len(s))

(* How many of n events do not fit in the window.                          *)
Overflow(n, l) == IF l = 0 THEN 0 ELSE Minus(n, l)

(* The elements of s at the places P, in their order: the n-th of them is  *)
(* the one with n places up to it.                                         *)
Upto(P, i) == {k \in P : k <= i}
Picked(s, P) == [n \in 1 .. Cardinality(P) |-> s[CHOOSE i \in P : Cardinality(Upto(P, i)) = n]]

(* dedupeEvents: of several equal events the first one stays.              *)
Firsts(s) == {i \in DOMAIN s : \A k \in 1 .. (i - 1) : s[k] # s[i]}
dedupeEvents(s) == Picked(s, Firsts(s))

(* Snapshot: the full history, for export.                                 *)
FullEvidence == dedupeEvents(archive \o pending \o items)

NewEvents(n) == [i \in 1 .. n |-> last + i]
-----------------------------------------------------------------------------
(* Mutant of AppendEvents: events that fall out of the window are dropped. *)
AppendEventsDrops(n) ==
    LET all == items \o NewEvents(n)
        over == Overflow(Len(all), limit) IN
    /\ items' = Rest(all, over)
    /\ UNCHANGED pending

(* eventStore.append, once per event.                                      *)
AppendEvents(n) ==
    LET all == items \o NewEvents(n)
        over == Overflow(Len(all), limit) IN
    /\ items' = Rest(all, over)
    /\ pending' = pending \o Oldest(all, over)

(* An operation takes the event store's state and appends its events.      *)
Operate(n) ==
    /\ pc = "idle"
    /\ last + n <= env.events
    /\ undo' = [items |-> items, pending |-> pending, count |-> count]
    /\ AppendEvents(n)
    /\ batch' = NewEvents(n)
    /\ last' = last + n
    /\ pc' = "archive"
    /\ UNCHANGED <<env, limit, count, diskVars, acked, tears, crashes, cut>>

(* The lines of the archive after writing ls: a piece of a line makes the  *)
(* line that follows it unreadable.                                        *)
Written(ls) == archive \o (IF torn /\ ls # << >> THEN Tail(ls) ELSE ls)

(* appendEventArchive.                                                     *)
AppendArchive ==
    /\ pc = "archive"
    /\ archive' = Written(pending)
    /\ torn' = (torn /\ pending = << >>)
    /\ pc' = "window"
    /\ UNCHANGED <<env, memVars, undo, batch, window, last, acked, tears, crashes, cut>>

(* saveEvents, then markArchivePersisted.                                  *)
SaveWindow ==
    /\ pc = "window"
    /\ window' = items
    /\ count' = count + Len(pending)
    /\ pending' = << >>
    /\ pc' = "rest"
    /\ UNCHANGED <<env, limit, items, undo, batch, archive, torn, last, acked, tears, crashes, cut>>

(* The domains after the events are saved and the operation returns.       *)
Succeed ==
    /\ pc = "rest"
    /\ acked' = acked \cup Elems(batch)
    /\ pc' = "idle"
    /\ UNCHANGED <<env, memVars, undo, batch, diskVars, last, tears, crashes, cut>>

(* A save fails, whichever: an operation restores the event store, an      *)
(* import, which has no events of its own, leaves it as it is.             *)
Restored ==
    /\ IF batch = << >>
       THEN UNCHANGED <<items, pending, count>>
       ELSE /\ items' = undo.items
            /\ pending' = undo.pending
            /\ count' = undo.count
    /\ UNCHANGED limit

Fail ==
    /\ env.faults
    /\ pc \in {"archive", "window", "rest"}
    /\ Restored
    /\ pc' = "idle"
    /\ UNCHANGED <<env, undo, batch, diskVars, last, acked, tears, crashes, cut>>

(* The disk takes some lines of the batch and a piece of the next one.     *)
TornWrite ==
    /\ pc = "archive" /\ tears < env.tears
    /\ \E k \in 0 .. Minus(Len(pending), 1) :
        /\ pending # << >>
        /\ archive' = Written(Oldest(pending, k))
    /\ torn' = TRUE
    /\ tears' = tears + 1
    /\ Restored
    /\ pc' = "idle"
    /\ UNCHANGED <<env, undo, batch, window, last, acked, crashes, cut>>

(* ImportSnapshot of a packet this daemon exported: the archive is removed *)
(* first; on an error nothing is put back, neither on disk nor in memory.  *)
(* (When nothing overflows and the window is the saved one the sweep skips *)
(* the event files; the steps below then write what is there already.)     *)
Import ==
    /\ env.imports
    /\ pc = "idle"
    /\ LET all == FullEvidence
           over == Overflow(Len(all), limit) IN
        /\ items' = Rest(all, over)
        /\ pending' = Oldest(all, over)
    /\ count' = 0
    /\ archive' = << >>
    /\ torn' = FALSE
    /\ batch' = << >>
    /\ pc' = "archive"
    /\ UNCHANGED <<env, limit, undo, window, last, acked, tears, crashes, cut>>

(* The daemon stops, wherever it is.                                       *)
Crash ==
    /\ crashes < env.crashes
    /\ crashes' = crashes + 1
    /\ pc # "down"
    /\ pc' = "down"
    /\ UNCHANGED <<env, memVars, undo, batch, diskVars, last, acked, tears, cut>>

(* Mutant of Start: the window is not read.                                *)
StartForgets(l) ==
    /\ pc = "down"
    /\ limit' = l
    /\ items' = << >>
    /\ pending' = << >>
    /\ count' = Len(archive)
    /\ pc' = "idle"
    /\ UNCHANGED cut
    /\ UNCHANGED <<env, undo, batch, diskVars, last, acked, tears, crashes>>

(* NewService: the window is cut to the limit, the archive is counted.     *)
Start(l) ==
    /\ pc = "down"
    /\ limit' = l
    /\ items' = Rest(dedupeEvents(window), Overflow(Len(dedupeEvents(window)), l))
    /\ cut' = cut \cup (Elems(window) \ (Elems(items') \cup Elems(archive)))
    /\ pending' = << >>
    /\ count' = Len(archive)
    /\ pc' = "idle"
    /\ UNCHANGED <<env, undo, batch, diskVars, last, acked, tears, crashes>>
-----------------------------------------------------------------------------
Init ==
    /\ env \in Environments
    /\ pc = "idle"
    /\ limit \in env.limits
    /\ items = << >> /\ pending = << >> /\ count = 0
    /\ undo = [items |-> << >>, pending |-> << >>, count |-> 0]
    /\ batch = << >>
    /\ archive = << >> /\ torn = FALSE /\ window = << >>
    /\ last = 0
    /\ acked = {}
    /\ tears = 0 /\ crashes = 0 /\ cut = {}

Next ==
    \/ \E n \in env.batches : Operate(n)
    \/ AppendArchive \/ SaveWindow \/ Succeed
    \/ Fail \/ TornWrite \/ Import \/ Crash
    \/ \E l \in env.limits : Start(l)

Spec == Init /\ [][Next]_vars
-----------------------------------------------------------------------------
(* The shape of the store and of its files.                                *)
TypeOK ==
    /\ env \in Environments
    /\ pc \in {"idle", "archive", "window", "rest", "down"}
    /\ limit \in env.limits
    /\ {items, pending, batch, archive, window} \subseteq Seq(Event)
    /\ undo \in [items : Seq(Event), pending : Seq(Event), count : Nat]
    /\ count \in Nat /\ last \in Nat /\ {tears, crashes} \subseteq Nat
    /\ torn \in BOOLEAN
    /\ {acked, cut} \subseteq SUBSET Event

(* Nothing in the environment is meant to lose events.                     *)
Lossless == env.tears = 0 /\ ~ env.imports /\ \A l, m \in env.limits : l = m

(* Full history: where no append is cut short and nothing is imported, an  *)
(* event of an operation that returned no error is in the exported         *)
(* evidence, and once the daemon is down it is on disk, except for what a  *)
(* restart with a lower limit left out of the window.                      *)
AckedIsKept ==
    /\ (env.tears = 0 /\ ~ env.imports) =>
          /\ pc = "idle" => acked \ cut \subseteq Elems(archive \o pending \o items)
          /\ acked \ cut \subseteq Elems(archive \o window)
    /\ Lossless => cut = {}

(* An append cut short makes one later event unreadable and no more, also  *)
(* when it is the append of an import.  (An import removes the archive     *)
(* first; what it held is gone if the daemon stops before it is written.)  *)
TornLossBounded ==
    (pc = "idle" /\ (env.imports => crashes = 0)) => Cardinality(acked \ (cut \cup Elems(archive \o pending \o items))) <= tears

(* Whatever failed or crashed: the events of operations that returned no   *)
(* error appear in the exported history in the order they happened.  (An   *)
(* event of an operation that failed may come back from the window on      *)
(* disk, behind later ones.)                                               *)
HistoryInOrder ==
    (pc = "idle" /\ Lossless) =>
        LET all == FullEvidence IN
        \A i, k \in DOMAIN all : i < k /\ {all[i], all[k]} \subseteq acked => all[i] < all[k]

(* eventStore.count, shown as the number of events, is the length of the   *)
(* history as long as nothing failed or crashed, across imports.           *)
CountIsLength ==
    (pc = "idle" /\ ~ env.faults /\ tears = 0 /\ crashes = 0) =>
        count + Len(pending) + Len(items) = Len(FullEvidence)

(* The history other requests can see: what the operation in hand found,   *)
(* until it is over; what is on disk, when the daemon is down.             *)
VisibleHistory ==
    dedupeEvents(CASE pc = "idle" -> archive \o pending \o items
                   [] pc = "down" -> archive \o window
                   [] OTHER       -> archive \o undo.pending \o undo.items)

Exported == IF Lossless THEN VisibleHistory ELSE << >>

(* The store, its files, failures and crashes implement the append-only    *)
(* history, in the environments that are meant to keep it.                 *)
E == INSTANCE Evidence WITH history <- Exported
AppendOnly == E!Spec

(* The history that the event surface exports (FullEvidence) after any     *)
(* failures, crashes, cut appends and imports: each event of an operation  *)
(* that returned no error is there but for what such a fault is allowed to *)
(* cost, in its order, and the number shown is the number there is.        *)
HistoryKept ==
    /\ TypeOK
    /\ AckedIsKept /\ TornLossBounded /\ HistoryInOrder /\ CountIsLength
============================================================================
