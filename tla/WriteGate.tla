----------------------------- MODULE WriteGate -----------------------------
(***************************************************************************)
(* What stands between an HTTP write and the runtime: the origin check, the *)
(* write tokens of auth.go and their two files, the bootstrap rule of       *)
(* /auth, and the guard that counts failures, throttles a caller and tells  *)
(* the review room.  A request is several steps of one goroutine; every     *)
(* read of the token store is a critical section of Service.mu of its own,  *)
(* so that tokens may change between two reads of one request.              *)
(*                                                                         *)
(* Requests with an actor header run one at a time (Service.WithActor, see  *)
(* ActorScope); one without a header acts under whatever actor is in force. *)
(* Time is the age of what the guard remembers, in units that keep the      *)
(* order throttle < auth window < probe window.                             *)
(***************************************************************************)
EXTENDS Naturals, FiniteSets

CONSTANTS
  Requests,       \* goroutines of the HTTP server
  Actors,         \* actors a header may name
  Founder,        \* the actor that owns the unscoped write token
  Tokens,         \* bearer tokens (their hashes)
  NoToken,        \* no hash stored, no bearer header sent
  NoFile,         \* the auth file does not exist
  Callers,        \* callers: [actor, local, same], see CallerType
  AuthThreshold, ProbeThreshold, Throttle, AuthWindow, ProbeWindow,
  MaxFailures,    \* bound: rejected requests of a behaviour
  LegacyFiles     \* what auth.json in the data directory may hold at first

CallerType == [actor : Actors \cup {"none"}, local : BOOLEAN, same : BOOLEAN]

ASSUME GateAssumption ==
  /\ Founder \in Actors
  /\ NoToken \notin Tokens
  /\ Callers \subseteq CallerType
  /\ NoFile \notin [Actors -> Tokens \cup {NoToken}]
  /\ LegacyFiles \subseteq [Actors -> Tokens \cup {NoToken}] \cup {NoFile}
  /\ {AuthThreshold, ProbeThreshold, Throttle, AuthWindow, ProbeWindow} \subseteq Nat \ {0}
  /\ Throttle < AuthWindow /\ AuthWindow < ProbeWindow

VARIABLES
  config,     \* authStore.config: the token of each actor
  hasMap,     \* ScopedTokenHashes is allocated (not nil)
  file,       \* the auth file: a token per actor, or NoFile
  legacy,     \* auth.json of earlier versions: the same
  up,         \* the daemon runs
  tracker,    \* writeSecurityGuard.counters
  reported,   \* agenda items the guard opened: scope and caller
  req,        \* the requests in flight
  fails,      \* ground truth: rejections of a caller since its last success
  rejected    \* number of rejections so far

vars == <<config, hasMap, file, legacy, up, tracker, reported, req, fails, rejected>>
Rest == <<config, hasMap, file, legacy, up>>
Guard == <<tracker, reported, fails, rejected>>

None == [a \in Actors |-> NoToken]
Scopes == {"write_auth", "auth_bootstrap", "cross_origin_write"}
Limit(s) == IF s = "write_auth" THEN AuthThreshold ELSE ProbeThreshold
Window(s) == IF s = "write_auth" THEN AuthWindow ELSE ProbeWindow
Fresh == [count |-> 0, age |-> 0, left |-> 0, escalated |-> "no"]
Idle == [phase |-> "idle"]

authEnabled(c) == \E a \in Actors : c[a] # NoToken

authorize(c, token, actor) ==
  \/ ~authEnabled(c)
  \/ token # NoToken /\ (c[actor] = token \/ c[Founder] = token)

\* The actor a request acts as when it reads the tokens.
CurrentActor(r) == IF r.caller.actor = "none" THEN Actors ELSE {r.caller.actor}

Scoped(q) == req[q].phase # "idle" /\ req[q].caller.actor # "none"

\* Some moment since the request came in, at which its write was allowed.
Allowed(r, c) == r.allowed \/ \E a \in CurrentActor(r) : authorize(c, r.token, a)

\* The requests in flight, when the tokens become c.
Seen(c) == [q \in Requests |-> IF req[q].phase = "idle" THEN req[q]
                               ELSE [req[q] EXCEPT !.allowed = Allowed(req[q], c)]]

\* A request that is let through needs its token no longer.
Goto(q, phase) ==
  req' = [req EXCEPT ![q].phase = phase, ![q].token = IF phase = "apply" THEN NoToken ELSE @]

Finish(q) == req' = [req EXCEPT ![q] = Idle]

-----------------------------------------------------------------------------
\* NewService: the auth file, else the legacy file, which is moved; a move
\* that cannot be saved stops the start.
loadAuthConfig == IF file # NoFile THEN file
                  ELSE IF legacy # NoFile THEN legacy ELSE None

Init ==
  /\ legacy \in LegacyFiles
  /\ file = NoFile
  /\ config = None /\ hasMap = FALSE
  /\ up = FALSE
  /\ tracker = [s \in Scopes |-> [c \in Callers |-> Fresh]]
  /\ reported = {}
  /\ req = [q \in Requests |-> Idle]
  /\ fails = [c \in Callers |-> 0]
  /\ rejected = 0

Start ==
  /\ ~up
  /\ up' = TRUE
  /\ config' = loadAuthConfig
  /\ hasMap' = (\E a \in Actors \ {Founder} : loadAuthConfig[a] # NoToken)
  /\ file' = IF file = NoFile /\ legacy # NoFile THEN legacy ELSE file
  /\ UNCHANGED <<legacy, tracker, reported, req, fails, rejected>>

Stop ==
  /\ up
  /\ up' = FALSE
  /\ config' = None /\ hasMap' = FALSE
  /\ tracker' = [s \in Scopes |-> [c \in Callers |-> Fresh]]
  /\ req' = [q \in Requests |-> Idle]
  /\ fails' = [c \in Callers |-> 0]
  /\ UNCHANGED <<file, legacy, reported, rejected>>

\* handleAuthRoute asks requireAuthBootstrap, every other write requireWriteAuth.
\* A client sends a bearer token only when it has one (daemonClient.newRequest).
Arrive(q, caller, token, kind) ==
  /\ up /\ req[q].phase = "idle"
  /\ caller.actor # "none" => \A p \in Requests : ~Scoped(p)
  /\ req' = [req EXCEPT ![q] =
       [phase |-> IF kind = "write" THEN "status" ELSE "bootstrap",
        caller |-> caller, token |-> token, kind |-> kind,
        allowed |-> \E a \in CurrentActor([caller |-> caller]) : authorize(config, token, a)]]
  /\ UNCHANGED <<Rest, Guard>>

-----------------------------------------------------------------------------

\* A counter one unit later.  Once older than its window, and not blocking,
\* it counts for nothing: observeFailure starts it anew, pruneExpiredLocked
\* drops it.
Aged(t, s) ==
  IF t = Fresh \/ (t.left = 0 /\ t.age = Window(s)) THEN Fresh
  ELSE [t EXCEPT !.age = IF @ < Window(s) THEN @ + 1 ELSE @,
                 !.left = IF @ > 0 THEN @ - 1 ELSE @]

\* writeSecurityGuard.observeFailure for one counter of scope s; the code
\* blocks in the scope of the write tokens only.
observeFailure(t, s, saved) ==
  LET escalates == t.count + 1 >= Limit(s) /\ t.escalated = "no"
  IN  [count |-> IF t.count >= Limit(s) THEN t.count ELSE t.count + 1,
       age |-> 0,
       escalated |-> IF ~escalates THEN t.escalated ELSE IF saved THEN "said" ELSE "lost",
       left |-> IF escalates /\ s = "write_auth" THEN Throttle ELSE t.left]

\* Service.RecordSecuritySignal: the promoted signal opens one agenda item.
RecordSecuritySignal(s, c, t) ==
  reported' = IF t.escalated = "said" THEN reported \cup {<<s, c>>} ELSE reported

\* A failure is counted, and the escalation goes to the review room unless
\* the signal cannot be saved, which nobody is told.
Observe(s, c, saved) ==
  LET t == observeFailure(tracker[s][c], s, saved)
  IN  /\ rejected < MaxFailures
      /\ rejected' = rejected + 1
      /\ tracker' = [tracker EXCEPT ![s][c] = t]
      /\ RecordSecuritySignal(s, c, t)
      /\ fails' = IF s = "write_auth" /\ fails[c] < AuthThreshold
                  THEN [fails EXCEPT ![c] = @ + 1] ELSE fails

\* writeSecurityGuard.blocked for the scope of the write tokens.
Throttled(c) == tracker["write_auth"][c].left > 0

\* Mutant: a request from this machine may always set the token.
requireAuthBootstrapLocal(q, saved) ==
  /\ req[q].phase = "bootstrap"
  /\ req[q].caller.local
  /\ Goto(q, "apply")
  /\ UNCHANGED <<Rest, Guard>>

\* requireAuthBootstrap: with tokens the request needs one, without it has to
\* come from this machine and this origin.
requireAuthBootstrap(q, saved) ==
  /\ req[q].phase = "bootstrap"
  /\ \/ authEnabled(config) /\ Goto(q, "status") /\ UNCHANGED Guard
     \/ /\ ~authEnabled(config)
        /\ \/ ~req[q].caller.same /\ Finish(q) /\ Observe("cross_origin_write", req[q].caller, saved)
           \/ /\ req[q].caller.same /\ ~req[q].caller.local
              /\ Finish(q) /\ Observe("auth_bootstrap", req[q].caller, saved)
           \/ /\ req[q].caller.same /\ req[q].caller.local
              /\ Goto(q, "apply") /\ UNCHANGED Guard
  /\ UNCHANGED Rest

\* requireWriteAuth up to the token: origin, AuthStatus, throttle.
requireWriteAuth(q, saved) ==
  /\ req[q].phase = "status"
  /\ \/ ~req[q].caller.same /\ Finish(q) /\ Observe("cross_origin_write", req[q].caller, saved)
     \/ /\ req[q].caller.same /\ ~authEnabled(config)
        /\ Goto(q, "apply") /\ UNCHANGED Guard
     \/ /\ req[q].caller.same /\ authEnabled(config)
        /\ IF Throttled(req[q].caller) THEN Finish(q) ELSE Goto(q, "token")
        /\ UNCHANGED Guard
  /\ UNCHANGED Rest

clearAuthFailures(c) == [tracker EXCEPT !["write_auth"][c] = Fresh]

\* Mutant: a success leaves the failures of the caller counted.
AuthorizeWriteTokenKeeps(q, actor, saved) ==
  /\ req[q].phase = "token"
  /\ actor \in CurrentActor(req[q])
  /\ IF req[q].token # NoToken /\ authorize(config, req[q].token, actor)
     THEN /\ Goto(q, "apply")
          /\ fails' = [fails EXCEPT ![req[q].caller] = 0]
          /\ UNCHANGED <<tracker, reported, rejected>>
     ELSE Finish(q) /\ Observe("write_auth", req[q].caller, saved)
  /\ UNCHANGED Rest

\* AuthorizeWriteToken: a success forgets the failures of the caller.
AuthorizeWriteToken(q, actor, saved) ==
  /\ req[q].phase = "token"
  /\ actor \in CurrentActor(req[q])
  /\ IF req[q].token # NoToken /\ authorize(config, req[q].token, actor)
     THEN /\ Goto(q, "apply")
          /\ tracker' = clearAuthFailures(req[q].caller)
          /\ fails' = [fails EXCEPT ![req[q].caller] = 0]
          /\ UNCHANGED <<reported, rejected>>
     ELSE Finish(q) /\ Observe("write_auth", req[q].caller, saved)
  /\ UNCHANGED Rest

-----------------------------------------------------------------------------
\* authStore.setToken and clear write into the map of scoped tokens, which the
\* copy that a failed save puts back shares when it was allocated.
setToken(c, actor, token) == [c EXCEPT ![actor] = token]

NoScoped(c) == \A a \in Actors \ {Founder} : c[a] = NoToken

\* Mutant: a failed save leaves the new token in force.
restoredNot(old, new, actor) == new

restored(old, new, actor) ==
  IF actor # Founder /\ hasMap THEN new ELSE old

Apply(q, actor, token, saved) ==
  /\ req[q].phase = "apply"
  /\ actor \in CurrentActor(req[q])
  /\ LET new == setToken(config, actor, token)
         now == IF saved THEN new ELSE restored(config, new, actor)
     IN  /\ config' = now
         /\ hasMap' = IF ~saved \/ actor = Founder THEN hasMap
                      ELSE token # NoToken \/ (hasMap /\ ~NoScoped(new))
         /\ file' = IF saved THEN new ELSE file
         /\ req' = [Seen(now) EXCEPT ![q] = Idle]
  /\ UNCHANGED <<legacy, up, tracker, reported, fails, rejected>>

SetWriteToken(q, actor, token, saved) ==
  req[q].phase = "apply" /\ req[q].kind = "auth" /\ Apply(q, actor, token, saved)

ClearWriteToken(q, actor, saved) ==
  req[q].phase = "apply" /\ req[q].kind = "auth" /\ Apply(q, actor, NoToken, saved)

\* Any other write; its save writes what is in the token store as well.
Write(q, saved) ==
  /\ req[q].phase = "apply" /\ req[q].kind = "write"
  /\ file' = IF saved /\ config # loadAuthConfig THEN config ELSE file
  /\ Finish(q)
  /\ UNCHANGED <<config, hasMap, legacy, up, tracker, reported, fails, rejected>>

Tick ==
  /\ up
  /\ tracker' = [s \in Scopes |-> [c \in Callers |-> Aged(tracker[s][c], s)]]
  /\ UNCHANGED <<Rest, reported, req, fails, rejected>>

Next ==
  \/ Start \/ Stop \/ Tick
  \/ \E q \in Requests :
       \/ \E c \in Callers, t \in Tokens \cup {NoToken}, k \in {"write", "auth"} :
            Arrive(q, c, t, k)
       \/ \E saved \in BOOLEAN :
            \/ requireAuthBootstrap(q, saved) \/ requireWriteAuth(q, saved) \/ Write(q, saved)
            \/ \E a \in Actors : AuthorizeWriteToken(q, a, saved) \/ ClearWriteToken(q, a, saved)
            \/ \E a \in Actors, t \in Tokens : SetWriteToken(q, a, t, saved)

Spec == Init /\ [][Next]_vars

-----------------------------------------------------------------------------
Trackers == [count : 0..AuthThreshold + ProbeThreshold, age : 0..ProbeWindow,
             left : 0..Throttle, escalated : {"no", "said", "lost"}]
Busy == [phase : {"bootstrap", "status", "token", "apply"},
         caller : Callers, token : Tokens \cup {NoToken},
         kind : {"write", "auth"}, allowed : BOOLEAN]

\* The variables keep their types (auth.go, security_guard.go).
TypeOK ==
  /\ config \in [Actors -> Tokens \cup {NoToken}]
  /\ hasMap \in BOOLEAN /\ up \in BOOLEAN
  /\ file \in [Actors -> Tokens \cup {NoToken}] \cup {NoFile}
  /\ legacy \in [Actors -> Tokens \cup {NoToken}] \cup {NoFile}
  /\ tracker \in [Scopes -> [Callers -> Trackers]]
  /\ reported \subseteq Scopes \X Callers
  /\ req \in [Requests -> Busy \cup {Idle}]
  /\ fails \in [Callers -> 0..AuthThreshold]

\* A write that requireWriteAuth or requireAuthBootstrap lets through was
\* allowed at some moment since it came in: the two reads of the token store
\* (AuthStatus, AuthorizeWriteToken) never add up to a permission no state of
\* the store gave, however tokens are set and cleared between them.
AcceptedWasAllowed ==
  \A q \in Requests : req[q].phase = "apply" => req[q].allowed

\* The founder's token in force is the saved one: a set or clear that failed
\* is undone, a restart reads it back, and a token that was cleared does not
\* return from the legacy file (SetWriteToken, ClearWriteToken, loadAuthConfig).
FounderTokenIsSaved ==
  up => config[Founder] = loadAuthConfig[Founder]

\* The guard throttles a caller only after its own failures reached the
\* threshold with no success in between; nobody else is throttled with it.
ThrottleIsEarned ==
  \A c \in Callers : Throttled(c) => fails[c] >= AuthThreshold

\* A caller that is throttled now is on the agenda, unless the signal could
\* not be saved (recordAuthFailure drops that error): the item outlives the
\* counter, a success of the caller and a restart.
ThrottleIsReported ==
  \A c \in Callers :
    LET t == tracker["write_auth"][c]
    IN  t.left > 0 /\ t.escalated # "lost" => <<"write_auth", c>> \in reported

\* The guard is fair to callers and frank to the founder, across ageing
\* counters, successes, failed saves and restarts (writeSecurityGuard).
GuardIsFair == TypeOK /\ ThrottleIsEarned /\ ThrottleIsReported
=============================================================================
