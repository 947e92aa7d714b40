----------------------------- MODULE ActorScope -----------------------------
(***************************************************************************)
(* Who an event is attributed to.  Service.WithActor serialises the        *)
(* requests that carry an X-Layer-Actor header with the mutex actorScope   *)
(* and keeps the current actor in the atomic actorOverride; everything     *)
(* else (requests without the header, daemon loops, Telegram notes) runs   *)
(* beside it and reads the same override when it stamps an event.          *)
(*                                                                         *)
(* One action per atomic access: the unlocked read of the previous         *)
(* override, the acquisition, each stamped event, the deferred restore.    *)
(***************************************************************************)
CONSTANTS
    Procs,         \* goroutines
    Actors,        \* actor names
    ProcessNames,  \* headers normalizeActor maps to no actor (layer-osctl, layer-osd)
    Default,       \* what ResolveActor falls back to
    Kinds          \* what clients do: subset of {"call", "note", "stream"}

None == "none"
Nobody == "nobody"

ASSUME ActorAssumption ==
    /\ None \notin Actors \cup ProcessNames
    /\ Actors \cap ProcessNames = {}
    /\ Default \in Actors
    /\ Nobody \notin Procs
    /\ Kinds \subseteq {"call", "note", "stream"}

VARIABLES
    override,  \* actorOverride
    holder,    \* who holds actorScope
    req        \* [Procs -> the request it serves]

scopeVars == <<override, holder, req>>

Request == [pc : {"idle", "check", "prev", "lock", "body", "open"},
            stream : BOOLEAN,            \* it is an event stream
            actor : Actors \cup {None},  \* the actor the request names
            prev : Actors \cup {None},   \* the override it will restore
            stamp : Actors \cup {None}]  \* actor of its latest event
IdleRequest == [pc |-> "idle", stream |-> FALSE, actor |-> None, prev |-> None, stamp |-> None]

NormalizeActor(name) == IF name \in ProcessNames THEN None ELSE name

CurrentActor == IF override = None THEN Default ELSE override

Set(p, r) == req' = [req EXCEPT ![p] = r]
Move(p, pc) == Set(p, [req[p] EXCEPT !.pc = pc])
-----------------------------------------------------------------------------
(* A request comes in: the router opens a scope for the header's actor, a  *)
(* request without one (or naming a process) runs beside the scopes.       *)
Arrive(p, kind, name) ==
    LET actor == NormalizeActor(name) IN
    /\ req[p].pc = "idle"
    /\ kind \in {"call", "stream"}
    /\ Set(p, [IdleRequest EXCEPT !.stream = (kind = "stream"), !.actor = actor,
                                  !.pc = IF actor = None THEN "open" ELSE "prev"])
    /\ UNCHANGED <<override, holder>>

(* CreateConversationNote with an actor in its input and no header: a      *)
(* Telegram message or a posted note.                                      *)
ArriveNote(p, name) ==
    /\ req[p].pc = "idle"
    /\ "note" \in Kinds
    /\ Set(p, [IdleRequest EXCEPT !.actor = NormalizeActor(name), !.pc = "check"])
    /\ UNCHANGED <<override, holder>>

(* ... it opens a scope unless its actor is the current one already.       *)
CheckNote(p) ==
    LET actor == req[p].actor IN
    /\ req[p].pc = "check"
    /\ Move(p, IF actor \in {None, override, CurrentActor} THEN "open" ELSE "prev")
    /\ UNCHANGED <<override, holder>>

(* WithActor reads the override it will restore before it has the lock.    *)
ReadPrev(p) ==
    /\ req[p].pc = "prev"
    /\ Set(p, [req[p] EXCEPT !.pc = "lock", !.prev = override])
    /\ UNCHANGED <<override, holder>>

(* Mutant of Enter: the scope is entered whoever holds the lock.           *)
EnterAnyway(p) ==
    /\ req[p].pc = "lock"
    /\ holder' = p
    /\ override' = req[p].actor
    /\ Move(p, "body")

Enter(p) ==
    /\ req[p].pc = "lock"
    /\ holder = Nobody
    /\ holder' = p
    /\ override' = req[p].actor
    /\ Move(p, "body")

(* An event is stamped with currentActor.                                  *)
Stamp(p) ==
    /\ req[p].pc \in {"body", "open"}
    /\ Set(p, [req[p] EXCEPT !.stamp = CurrentActor])
    /\ UNCHANGED <<override, holder>>

(* Mutant of Leave: the scope is left without the Unlock.                  *)
LeaveLocked(p) ==
    /\ req[p].pc = "body"
    /\ override' = req[p].prev
    /\ holder' = holder
    /\ Set(p, IdleRequest)

(* The deferred function: the override that was read is put back.  A       *)
(* stream gets here only when its client goes away.                        *)
Leave(p) ==
    /\ req[p].pc = "body"
    /\ override' = req[p].prev
    /\ holder' = Nobody
    /\ Set(p, IdleRequest)

(* handleEventStream loops until its client goes away.                     *)
ServesStream(p) == req[p].stream

Finish(p) ==
    /\ req[p].pc = "open"
    /\ Set(p, IdleRequest)
    /\ UNCHANGED <<override, holder>>
-----------------------------------------------------------------------------
ScopeInit ==
    /\ override = None
    /\ holder = Nobody
    /\ req = [p \in Procs |-> IdleRequest]

ScopeNext ==
    \E p \in Procs :
        \/ \E kind \in Kinds, name \in Actors \cup ProcessNames \cup {None} : Arrive(p, kind, name)
        \/ \E name \in Actors \cup ProcessNames \cup {None} : ArriveNote(p, name)
        \/ CheckNote(p) \/ ReadPrev(p) \/ Enter(p) \/ Stamp(p) \/ Leave(p) \/ Finish(p)

ScopeSpec == ScopeInit /\ [][ScopeNext]_scopeVars

(* A goroutine goes on, a handler that is not a stream returns, and Go's   *)
(* mutex hands over to a waiter (its starvation mode), so the acquisition  *)
(* is strongly fair.  Clients need not send requests, and a stream's       *)
(* client need not go away.                                                *)
Fairness ==
    \A p \in Procs :
        /\ WF_scopeVars(CheckNote(p)) /\ WF_scopeVars(ReadPrev(p))
        /\ SF_scopeVars(Enter(p))
        /\ WF_scopeVars(~ ServesStream(p) /\ (Leave(p) \/ Finish(p)))
FairScopeSpec == ScopeSpec /\ Fairness
-----------------------------------------------------------------------------
(* The shape of the override, the lock and the requests.                   *)
ScopeTypeOK ==
    /\ override \in Actors \cup {None}
    /\ holder \in Procs \cup {Nobody}
    /\ req \in [Procs -> Request]

(* A request with a header never has an event under another name, whatever *)
(* runs beside it: while its handler runs, the override is its own actor,  *)
(* in spite of the stale overrides that others put back.                   *)
ScopedStampsAreOwn ==
    \A p \in Procs : req[p].pc = "body" =>
        /\ CurrentActor = req[p].actor
        /\ req[p].stamp \in {None, req[p].actor}

(* A request waits for its scope at most as long as streams hold it: if    *)
(* time and again no stream is in the scope, every waiting request gets in.*)
WaitIsForStreams ==
    []<>(\A p \in Procs : ServesStream(p) => req[p].pc # "body") =>
        \A p \in Procs : req[p].pc = "lock" ~> req[p].pc = "body"
============================================================================
