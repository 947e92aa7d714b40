---------------------------- MODULE ControlPlane ----------------------------
(***************************************************************************)
(* The control plane: policy decisions, and the executes, provider calls   *)
(* and verifications that requests (of the API, of layer-osctl, and of the *)
(* architect loop) make under them.  A request reads the decision in one   *)
(* critical section of Service.mu, does its work outside, and leaves its   *)
(* record in another one, which is undone when its save fails; a failure   *)
(* opens an item of the review room, and a verification that passes        *)
(* resolves the open items of its scope.  Stores append: ids may repeat.   *)
(***************************************************************************)
EXTENDS Naturals, Sequences

CONSTANTS
    RecordIds,    \* ids of executes, calls and verifications
    DecisionIds,  \* ids of policy decisions
    Scopes,       \* scopes of verifications
    Operators     \* those that have a request under way

LoopScope == "architect"
ASSUME ScopeAssumption == LoopScope \in Scopes

VARIABLES
    decisions, executes, calls, checks,  \* the stores, oldest record first
    preflights,   \* how many preflights are on record
    notices,      \* the review room: the section of each item
    asked,        \* the request each operator has under way
    ruled         \* ground truth: items the founder resolved and no failure opened again

controlVars == <<decisions, executes, calls, checks, preflights, notices, asked, ruled>>

(* Items are known by their texts, which name the record and what it is    *)
(* about (the work item and the provider are the same for all).            *)
Subjects == [kind : {"execute"}, id : RecordIds, of : DecisionIds]
            \cup [kind : {"check"}, id : RecordIds, of : Scopes]
            \cup [kind : {"call"}, id : RecordIds, of : {"provider"}]
ExecuteItem(e) == [kind |-> "execute", id |-> e.id, of |-> e.of]
CallItem(g) == [kind |-> "call", id |-> g.id, of |-> "provider"]
CheckItem(v) == [kind |-> "check", id |-> v.id, of |-> v.scope]
Room == INSTANCE Agenda WITH Items <- Subjects, agenda <- notices

Modes == {"local", "single", "blocked"}
CallStates == {"recorded", "sent", "failed"}
Decision == [id : DecisionIds, mode : Modes, decision : {"go", "hold"}]
NoDecision == [id |-> "none", mode |-> "blocked", decision |-> "hold"]
NoRequest == [at |-> "idle", id |-> "none", of |-> "none", says |-> "none", under |-> NoDecision]
-----------------------------------------------------------------------------
(* decidePolicy: the mode and the decision.                                *)
decidePolicy(risk, novelty, size, approval) ==
    IF size = "tiny" /\ "high" \in {risk, novelty} THEN <<"blocked", "hold">>
    ELSE IF \/ "high" \in {risk, novelty} \/ approval
            \/ "medium" \in {risk, novelty, size} \/ size = "large" THEN <<"single", "go">>
    ELSE <<"local", "go">>

(* Stores of earlier versions know the mode "dual".                        *)
canonicalPolicyMode(mode) == IF mode = "dual" THEN "single" ELSE mode
normalizePolicyDecision(d) == [d EXCEPT !.mode = canonicalPolicyMode(@)]

(* Mutant of Answers: the store answers with any decision of the id.       *)
AnswersAny(d, id) == decisions[d].id = id
(* policyStore.get answers with the first decision of an id.               *)
Answers(d, id) == decisions[d].id = id /\ \A k \in 1 .. d - 1 : decisions[k].id # id
Found(id) == {d \in 1 .. Len(decisions) : Answers(d, id)}

executeStatusFromDecision(d) ==
    IF d.mode = "local" THEN "succeeded" ELSE IF d.mode = "single" THEN "recorded" ELSE "failed"
ExecuteStatus(d) == IF d.decision = "hold" \/ d.mode = "blocked" THEN "failed" ELSE executeStatusFromDecision(d)

(* autoOpenReviewRoomItemLocked, when the record is a failure.             *)
Raise(failed, item) ==
    /\ notices' = IF failed THEN Room!Ensured(notices, item) ELSE notices
    /\ ruled' = IF failed THEN ruled \ {item} ELSE ruled

(* Mutant of Cleared: the items of all scopes are resolved.                *)
ClearedAll(scope) == {i \in Subjects : i.kind = "check" /\ notices[i] = "open"}
(* autoResolveReviewRoomItemsByEvidenceLocked: all the open items of the   *)
(* scope are resolved, one after the other.                                *)
Cleared(scope) == {i \in Subjects : i.kind = "check" /\ notices[i] = "open" /\ i.of = scope}
-----------------------------------------------------------------------------
Asked(c, where) == asked[c].at = where
Ends(c) == asked' = [asked EXCEPT ![c] = NoRequest]
Goes(c, r) == asked' = [asked EXCEPT ![c] = r]
quietStores == UNCHANGED <<decisions, executes, calls, checks, preflights>>
quietRoom == UNCHANGED <<notices, ruled>>

(* One critical section each: the requests for a preflight and a decision. *)
CreatePreflight ==
    /\ preflights' = preflights + 1
    /\ UNCHANGED <<decisions, executes, calls, checks, asked>> /\ quietRoom
CreatePolicy(d) ==
    /\ decisions' = Append(decisions, normalizePolicyDecision(d))
    /\ UNCHANGED <<executes, calls, checks, preflights, asked>> /\ quietRoom
EvaluatePolicy(id, risk, novelty, size, approval) ==
    LET d == decidePolicy(risk, novelty, size, approval) IN
    CreatePolicy([id |-> id, mode |-> d[1], decision |-> d[2]])

(* Requests that take several sections begin.                              *)
Begins(c, r) == Asked(c, "idle") /\ Goes(c, r) /\ quietStores /\ quietRoom
handleExecuteRunRoute(c, id, of) ==
    Begins(c, [NoRequest EXCEPT !.at = "execute", !.id = id, !.of = of])
handleGatewayCallsRoute(c, id, of, says) ==
    Begins(c, [NoRequest EXCEPT !.at = "call", !.id = id, !.of = of, !.says = says])
handleVerificationRunRoute(c, id, scope) ==
    Begins(c, [NoRequest EXCEPT !.at = "test", !.id = id, !.of = scope])

(* RunExecute reads the work item and the decision.                        *)
RunExecute(c) ==
    /\ Asked(c, "execute")
    /\ \/ \E d \in Found(asked[c].of) : Goes(c, [asked[c] EXCEPT !.at = "create", !.under = decisions[d]])
       \/ Found(asked[c].of) = {} /\ Ends(c)
    /\ quietStores /\ quietRoom
WorkIsUnknown(c) == Asked(c, "execute") /\ Ends(c) /\ quietStores /\ quietRoom

ExecuteOf(r) == [id |-> r.id, of |-> r.of, status |-> ExecuteStatus(r.under)]
CreateExecute(c) ==
    /\ Asked(c, "create")
    /\ executes' = Append(executes, ExecuteOf(asked[c]))
    /\ Raise(ExecuteOf(asked[c]).status = "failed", ExecuteItem(asked[c]))
    /\ Ends(c)
    /\ UNCHANGED <<decisions, calls, checks, preflights>>

(* createGatewayCallWithPayload: a "single" go is asked for ...            *)
Permits(d) == decisions[d].decision = "go" /\ canonicalPolicyMode(decisions[d].mode) = "single"
GatewayAsks(c) ==
    /\ Asked(c, "call")
    /\ \/ \E d \in Found(asked[c].of) : Permits(d) /\ Goes(c, [asked[c] EXCEPT !.at = "send", !.under = decisions[d]])
       \/ (\A d \in Found(asked[c].of) : ~ Permits(d)) /\ Ends(c)
    /\ quietStores /\ quietRoom
(* ... the adapter prepares the call and sends it, or keeps to what the    *)
(* request said of it (recordGatewayAdapter) ...                           *)
Prepared(adapter, says) == IF adapter = "record" THEN {says} ELSE {"sent", "failed"}
GatewaySends(c, adapter) ==
    /\ Asked(c, "send")
    /\ \E s \in Prepared(adapter, asked[c].says) : Goes(c, [asked[c] EXCEPT !.at = "record", !.says = s])
    /\ quietStores /\ quietRoom
(* ... and the call is recorded.                                           *)
GatewayRecords(c) ==
    /\ Asked(c, "record")
    /\ calls' = Append(calls, [id |-> asked[c].id, of |-> asked[c].of, status |-> asked[c].says])
    /\ Raise(asked[c].says = "failed", CallItem(asked[c]))
    /\ Ends(c)
    /\ UNCHANGED <<decisions, executes, checks, preflights>>

(* CreateVerification.                                                     *)
CreateVerification(v) ==
    /\ checks' = Append(checks, v)
    /\ IF v.status = "failed" THEN Raise(TRUE, CheckItem(v))
       ELSE /\ notices' = [i \in Subjects |-> IF i \in Cleared(v.scope) THEN "none" ELSE notices[i]]
            /\ UNCHANGED ruled
    /\ UNCHANGED <<decisions, executes, calls, preflights>>
(* RunVerification of a request: the command ends, and its record is made. *)
RunVerification(c, status) ==
    /\ Asked(c, "test")
    /\ CreateVerification([id |-> asked[c].id, scope |-> asked[c].of, status |-> status])
    /\ Ends(c)
(* RunVerification of the architect loop.                                  *)
LoopVerification(id, status) ==
    /\ CreateVerification([id |-> id, scope |-> LoopScope, status |-> status])
    /\ UNCHANGED asked

(* A save fails and is undone, or the adapter gives an error: the request  *)
(* ends without a record.                                                  *)
Fails(c) ==
    /\ Asked(c, "create") \/ Asked(c, "send") \/ Asked(c, "record") \/ Asked(c, "test")
    /\ Ends(c) /\ quietStores /\ quietRoom

(* The founder accepts, defers or resolves an item.                        *)
ItemMoved(i, to) ==
    /\ Room!Move(i, to)
    /\ ruled' = IF to = "none" THEN ruled \cup {i} ELSE ruled
    /\ quietStores /\ UNCHANGED asked

(* The daemon restarts: its requests die with it.                          *)
Forgotten == [c \in Operators |-> NoRequest]
ControlRestart == asked' = Forgotten /\ quietStores /\ quietRoom
-----------------------------------------------------------------------------
ControlInit(legacy) ==
    /\ decisions = [d \in 1 .. Len(legacy) |-> normalizePolicyDecision(legacy[d])]
    /\ executes = << >> /\ calls = << >> /\ checks = << >> /\ preflights = 0
    /\ notices = [i \in Subjects |-> "none"]
    /\ asked = Forgotten
    /\ ruled = {}

(* What people and clients begin, and what they meet with.                 *)
Control(c) ==
    \/ \E id \in RecordIds, of \in DecisionIds :
            \/ handleExecuteRunRoute(c, id, of)
            \/ \E says \in CallStates : handleGatewayCallsRoute(c, id, of, says)
    \/ \E id \in RecordIds, scope \in Scopes : handleVerificationRunRoute(c, id, scope)
    \/ WorkIsUnknown(c) \/ Fails(c)
(* How a request goes on.                                                  *)
Serve(c, adapter) ==
    \/ RunExecute(c) \/ CreateExecute(c)
    \/ GatewayAsks(c) \/ GatewaySends(c, adapter) \/ GatewayRecords(c)
    \/ \E status \in {"passed", "failed"} : RunVerification(c, status)

LevelOf == {"low", "medium", "high"}
SizeOf == {"tiny", "small", "medium", "large"}
ControlNext ==
    \/ CreatePreflight
    \/ \E id \in DecisionIds, r, n \in LevelOf, s \in SizeOf, a \in BOOLEAN : EvaluatePolicy(id, r, n, s, a)
    \/ \E c \in Operators : Control(c) \/ \E adapter \in {"record", "api"} : Serve(c, adapter)
    \/ \E id \in RecordIds, status \in {"passed", "failed"} : LoopVerification(id, status)
    \/ \E i \in Subjects, to \in Room!Sections \cup {"none"} : ItemMoved(i, to)
    \/ ControlRestart

Legacy == [id : DecisionIds, mode : Modes \cup {"dual"}, decision : {"go", "hold"}]
ControlSpec == (\E legacy \in Seq(Legacy) : ControlInit(legacy)) /\ [][ControlNext]_controlVars
-----------------------------------------------------------------------------
Request == [at : {"idle", "execute", "create", "call", "send", "record", "test"},
            id : RecordIds \cup {"none"}, of : DecisionIds \cup Scopes \cup {"none"},
            says : CallStates \cup {"none"}, under : Decision \cup {NoDecision}]
InShape(r) ==
    /\ r.at # "idle" => r.id \in RecordIds
    /\ r.at \in {"execute", "create", "call", "send", "record"} => r.of \in DecisionIds
    /\ r.at = "test" => r.of \in Scopes
    /\ r.at \in {"call", "send", "record"} => r.says \in CallStates
    /\ r.at \in {"create", "send", "record"} => r.under \in Decision
(* The shape of the stores, the room and the requests.                     *)
ControlTypes ==
    /\ decisions \in Seq(Decision)
    /\ executes \in Seq([id : RecordIds, of : DecisionIds, status : {"recorded", "succeeded", "failed"}])
    /\ calls \in Seq([id : RecordIds, of : DecisionIds, status : CallStates])
    /\ checks \in Seq([id : RecordIds, scope : Scopes, status : {"passed", "failed"}])
    /\ preflights \in Nat
    /\ notices \in [Subjects -> Room!Sections \cup {"none"}]
    /\ ruled \subseteq Subjects
    /\ asked \in [Operators -> Request]
    /\ \A c \in Operators : InShape(asked[c])

(* The founder hears of every failure: an execute, a call or a             *)
(* verification that failed has its item in the room until the founder     *)
(* resolves it or, for a verification, one of its scope is recorded as     *)
(* passed after it (CreateExecute, createGatewayCallWithPayload,           *)
(* CreateVerification), whatever ids repeat and requests overlap.          *)
Heard(i) == Room!InRoom(i) \/ i \in ruled
FailureIsHeard ==
    /\ \A n \in 1 .. Len(executes) : executes[n].status = "failed" => Heard(ExecuteItem(executes[n]))
    /\ \A n \in 1 .. Len(calls) : calls[n].status = "failed" => Heard(CallItem(calls[n]))
    /\ \A n \in 1 .. Len(checks) : checks[n].status = "failed" =>
          \/ Heard(CheckItem(checks[n]))
          \/ \E k \in n + 1 .. Len(checks) : checks[k].status = "passed" /\ checks[k].scope = checks[n].scope

(* Nothing stays open that was answered: an open item of a verification    *)
(* is about a failure after which its scope has not passed                 *)
(* (autoResolveReviewRoomItemsByEvidenceLocked).                           *)
OpenIsUnanswered ==
    \A i \in {s \in Subjects : s.kind = "check" /\ notices[s] = "open"} :
        \E n \in 1 .. Len(checks) :
            /\ CheckItem(checks[n]) = i /\ checks[n].status = "failed"
            /\ \A k \in n + 1 .. Len(checks) : checks[k].status = "passed" => checks[k].scope # i.of

(* A decision holds for good: nothing is executed or sent under an id      *)
(* whose first decision does not permit it, although a later one of the    *)
(* same id may, and although the decision is read in another section than  *)
(* the record is made in (RunExecute, createGatewayCallWithPayload).       *)
FirstDecision(id, mode) ==
    \E d \in 1 .. Len(decisions) :
        /\ decisions[d].id = id /\ decisions[d].decision = "go" /\ decisions[d].mode = mode
        /\ \A k \in 1 .. d - 1 : decisions[k].id # id
DecisionIsFinal ==
    /\ \A n \in 1 .. Len(executes) :
          /\ executes[n].status = "succeeded" => FirstDecision(executes[n].of, "local")
          /\ executes[n].status = "recorded" => FirstDecision(executes[n].of, "single")
    /\ \A n \in 1 .. Len(calls) : FirstDecision(calls[n].of, "single")
=============================================================================
