---------------------------- MODULE EventStream -----------------------------
(***************************************************************************)
(* The event stream over the event log: a browser follows                  *)
(* /api/layer-os/events/stream.  The handler polls the retained window     *)
(* every 750 ms and sends what this connection has not sent; the browser   *)
(* reconnects with the id of the last event it got, also after the daemon  *)
(* was restarted.                                                          *)
(***************************************************************************)
EXTENDS EventLog

(* An environment also bounds the browser's connections.                   *)
ASSUME StreamAssumption == \A e \in Environments : e.connects \in Nat

VARIABLES
    stream,    \* "off", or "on" while the handler runs
    connects,  \* connections so far
    sent,      \* the handler's set of events it will not send
    received,  \* what the browser got, over all connections
    polled,    \* ground truth: newest event at the last poll
    late       \* ground truth: more events than the window holds came between polls

streamVars == <<stream, connects, sent, received, polled, late>>

LastID == IF received = << >> THEN 0 ELSE received[Len(received)]

(* Mutant of seedSeenEvents: an unknown id marks the whole window.         *)
seedSeenEventsAll(id) ==
    IF id = 0 THEN {}
    ELSE IF id \in Elems(items)
         THEN {e \in Elems(items) : \E i, k \in DOMAIN items : items[i] = e /\ items[k] = id /\ i <= k}
         ELSE Elems(items)

(* seedSeenEvents: the window up to the last event the browser got, and    *)
(* nothing when it has none or it has left the window.                     *)
seedSeenEvents(id) ==
    {items[i] : i \in {i \in DOMAIN items : \E k \in i .. Len(items) : items[k] = id}}

(* ListEvents waits for Service.mu, which an operation holds to its end.   *)
ListEventsReady == pc = "idle"

(* The browser connects and the handler takes its first look.              *)
Connect ==
    /\ stream = "off" /\ connects < env.connects
    /\ ListEventsReady
    /\ stream' = "on"
    /\ connects' = connects + 1
    /\ sent' = seedSeenEvents(LastID)
    /\ UNCHANGED <<received, polled, late, vars>>

(* A connection is cut by the browser or by the daemon's write timeout.    *)
Disconnect ==
    /\ stream = "on"
    /\ stream' = "off"
    /\ sent' = {}
    /\ UNCHANGED <<connects, received, polled, late, vars>>

(* A tick of the handler.                                                  *)
Poll ==
    /\ stream = "on"
    /\ ListEventsReady
    /\ received' = received \o Picked(items, {i \in DOMAIN items : items[i] \notin sent})
    /\ sent' = sent \cup Elems(items)
    /\ polled' = last
    /\ late' = (late \/ (limit > 0 /\ last - polled > limit))
    /\ UNCHANGED <<stream, connects, vars>>

(* A step of the log; a daemon that stops ends its connections.            *)
LogStep ==
    /\ Next
    /\ IF pc' = "down"
       THEN stream' = "off" /\ sent' = {} /\ UNCHANGED <<connects, received, polled, late>>
       ELSE UNCHANGED streamVars
-----------------------------------------------------------------------------
StreamInit ==
    /\ Init
    /\ stream = "off" /\ connects = 0 /\ sent = {} /\ received = << >>
    /\ polled = 0 /\ late = FALSE

StreamNext == LogStep \/ Connect \/ Disconnect \/ Poll

StreamSpec == StreamInit /\ [][StreamNext]_<<vars, streamVars>>
-----------------------------------------------------------------------------
(* Between two polls no more events came than the window holds: then every *)
(* event of an operation that returned no error and that the last poll     *)
(* could see has reached the browser, once and in order, across            *)
(* reconnections and restarts.  (When more came, the ones that went to the *)
(* archive in between are never sent.)                                     *)
TimelyStreamIsComplete ==
    (Lossless /\ ~ late) =>
        /\ \A e \in acked : e <= polled => e \in Elems(received)
        /\ \A i, k \in DOMAIN received : i < k => received[i] < received[k]

(* The stream never shows an event of an operation that then failed: with  *)
(* no restart in between, all that was sent belongs to operations that     *)
(* returned no error.  (An import may bring the lines such an operation    *)
(* left in the archive back into the window.)                              *)
StreamedIsCommitted == crashes = 0 /\ ~ env.imports => Elems(received) \subseteq acked

(* What the stream shows is the history: complete when the polls were in   *)
(* time, and nothing of an operation that failed (handleEventStream).      *)
StreamIsFaithful == TimelyStreamIsComplete /\ StreamedIsCommitted
============================================================================
