---------------------------- MODULE FounderFlow ----------------------------
(***************************************************************************)
(* One founder flow: its work item, its approval, and the releases,        *)
(* deploys and rollbacks it refers to.  A founder action (start, approve,  *)
(* release, rollback) copies the flow, then runs through several critical  *)
(* sections of Service.mu and an adapter command between them, and writes  *)
(* the flow back from its copy with SyncFlow.  Actions of several          *)
(* goroutines overlap; the approval can be resolved and a deploy or        *)
(* rollback executed directly while they do.                               *)
(*                                                                         *)
(* A request that creates records has a number, and the ids the client     *)
(* chose for those records are that number.  A save succeeds or, with      *)
(* FaultsAllowed, fails and rolls its critical section back (see           *)
(* Persistence).  The events the steps append are EventLog's matter.       *)
(***************************************************************************)
EXTENDS Naturals

CONSTANTS
    Workers,        \* goroutines serving requests
    Ops,            \* what clients ask for
    FaultsAllowed,  \* a save may fail
    MaxRequests     \* bound: requests that create records

ASSUME FlowAssumption ==
    /\ Ops \subseteq {"start", "approve", "release", "rollback", "deploy", "undeploy"}
    /\ FaultsAllowed \in BOOLEAN
    /\ MaxRequests \in Nat

Ids == 1 .. MaxRequests
Refs == 0 .. MaxRequests     \* 0 is a nil reference

VARIABLES
    work,       \* the work item exists
    approval,   \* status of the flow's approval
    flow,       \* the flow's references and status
    releases,   \* releaseStore
    deploys,    \* deployStore
    rollbacks,  \* rollbackStore
    lastDeploy, \* status of the newest deploy record
    target,     \* the deploy target is registered
    health,     \* state.DeployHealth
    rejected,   \* review-room section of the approval.rejected item
    listed,     \* records whose failure was put in the review room
    live,       \* ground truth: release on the target, 0 for an earlier state
    frame,      \* [Workers -> the request it serves]
    requests    \* numbered requests so far

recordVars == <<releases, deploys, rollbacks, lastDeploy>>
roomVars == <<rejected, listed>>
envVars == <<target, live>>
storeVars == <<work, approval, flow, recordVars, health, roomVars>>
vars == <<storeVars, envVars, frame, requests>>

RefSet == [rel : Refs, dep : Refs, rb : Refs]
Outcomes == {"succeeded", "failed"}
ApprovalStatuses == {"absent", "pending", "approved", "rejected"}
FlowStatuses == {"absent", "active", "waiting", "released", "rolled_back", "blocked"}
NoRefs == [rel |-> 0, dep |-> 0, rb |-> 0]

Frame == [pc   : {"idle", "work", "approval", "read", "resolve", "gate", "release",
                  "target", "run", "record", "sync"},
          op   : Ops \cup {"none"},
          id   : Refs,
          refs : RefSet,               \* what SyncFlow will be given
          out  : Outcomes \cup {"none"}]  \* how the adapter's command ended
Request(pc, op, id, refs, out) ==
    [pc |-> pc, op |-> op, id |-> id, refs |-> refs, out |-> out]
IdleFrame == Request("idle", "none", 0, NoRefs, "none")

At(w, pc) == frame[w].pc = pc
Goto(w, f) == frame' = [frame EXCEPT ![w] = f]
Move(w, pc) ==
    LET f == frame[w] IN Goto(w, Request(pc, f.op, f.id, f.refs, f.out))
Return(w) == Goto(w, IdleFrame)
ToSync(w, refs) == Goto(w, Request("sync", "none", 0, refs, "none"))
Deploys(op) == op \in {"release", "deploy"}
Numbered(op) == op \notin {"start", "approve"}
FounderAction(op) == op \in {"start", "approve", "release", "rollback"}
-----------------------------------------------------------------------------
(* deriveFlowStatusLocked, for flows without execute and verification.     *)
deriveFlowStatus(r) ==
    CASE r.rb # 0 /\ rollbacks[r.rb].status = "failed"    -> "blocked"
      [] r.rb # 0 /\ rollbacks[r.rb].status = "succeeded" -> "rolled_back"
      [] OTHER ->
    CASE r.dep # 0 /\ deploys[r.dep].status = "failed"    -> "blocked"
      [] r.dep # 0 /\ deploys[r.dep].status = "succeeded" -> "released"
      [] OTHER ->
    CASE r.rel # 0             -> "released"
      [] r.rel = 0 /\ approval = "rejected" -> "blocked"
      [] r.rel = 0 /\ approval = "pending"  -> "waiting"
      [] OTHER                 -> "active"

(* The references SyncFlow looks up.                                       *)
RefsExist(r) ==
    /\ r.rel # 0 => r.rel \in releases
    /\ r.dep # 0 => deploys[r.dep].status # "absent"
    /\ r.rb # 0 => rollbacks[r.rb].status # "absent"

(* updateDeployHealth of the state store.                                  *)
UpdateDeployHealth(out) == IF out = "failed" THEN "degraded" ELSE "ready"
-----------------------------------------------------------------------------
(* A request comes in.  A direct deploy or rollback names any release, and *)
(* a rollback any deploy or none.                                          *)
FirstStep(op) ==
    CASE op = "start" -> "work"
      [] op \in {"deploy", "undeploy"} -> "target"
      [] OTHER -> "read"

Named(op) ==
    CASE op = "deploy"   -> [rel : Ids, dep : {0}, rb : {0}]
      [] op = "undeploy" -> [rel : Ids, dep : Refs, rb : {0}]
      [] OTHER           -> {NoRefs}

Arrive(w, op, refs) ==
    /\ At(w, "idle")
    /\ Numbered(op) => requests < MaxRequests
    /\ requests' = IF Numbered(op) THEN requests + 1 ELSE requests
    /\ Goto(w, Request(FirstStep(op), op, IF Numbered(op) THEN requests + 1 ELSE 0, refs, "none"))
    /\ UNCHANGED <<storeVars, envVars>>

(* StartFounderFlow: CreateWorkItem, CreateApproval.  A repeated start     *)
(* appends records that get, which returns the first one, never sees.      *)
CreateWorkItem(w) ==
    /\ At(w, "work")
    /\ work' = TRUE
    /\ Move(w, "approval")
    /\ UNCHANGED <<approval, flow, recordVars, health, roomVars, envVars, requests>>

CreateApproval(w) ==
    /\ At(w, "approval")
    /\ approval' = IF approval = "absent" THEN "pending" ELSE approval
    /\ ToSync(w, frame[w].refs)
    /\ UNCHANGED <<work, flow, recordVars, health, roomVars, envVars, requests>>

(* Mutant of CopiedRefs: a release carries the deploy of the last one.     *)
CopiedRefsCarry(op, id) ==
    CASE op = "release"  -> [rel |-> id, dep |-> flow.dep, rb |-> flow.rb]
      [] op = "rollback" -> [rel |-> flow.rel, dep |-> flow.dep, rb |-> 0]
      [] OTHER           -> [rel |-> flow.rel, dep |-> flow.dep, rb |-> flow.rb]

(* The copies the actions write back: a release brings a new release id,   *)
(* and a deploy id if one is recorded; a rollback its own id.              *)
CopiedRefs(op, id) ==
    CASE op = "release"  -> [rel |-> id, dep |-> 0, rb |-> flow.rb]
      [] op = "rollback" -> [rel |-> flow.rel, dep |-> flow.dep, rb |-> 0]
      [] OTHER           -> [rel |-> flow.rel, dep |-> flow.dep, rb |-> flow.rb]

Readable(op) == flow.status # "absent" /\ (op = "rollback" => flow.rel # 0)

(* The flow is copied under the lock.                                      *)
ReadFlow(w) ==
    LET f == frame[w] IN
    /\ At(w, "read") /\ Readable(f.op)
    /\ Goto(w, Request(CASE f.op = "approve" -> "resolve"
                          [] f.op = "release" -> "gate"
                          [] OTHER            -> "target",
                       f.op, f.id, CopiedRefs(f.op, f.id), f.out))
    /\ UNCHANGED <<storeVars, envVars, requests>>

ReadRefused(w) ==
    /\ At(w, "read") /\ ~ Readable(frame[w].op)
    /\ Return(w)
    /\ UNCHANGED <<storeVars, envVars, requests>>

(* ensureReviewRoomItem and autoResolveReviewRoomItemLocked, as in         *)
(* AgentJobs.                                                              *)
EnsureItem(section) == IF section = "absent" THEN "open" ELSE section
AutoResolve(section) == IF section = "open" THEN "absent" ELSE section

(* Mutant of ResolveApproval: the item of an earlier rejection stays.      *)
ResolveApprovalKeeps(status) ==
    /\ approval # "absent"
    /\ approval' = status
    /\ rejected' = IF status = "rejected" THEN EnsureItem(rejected) ELSE rejected
    /\ UNCHANGED <<work, flow, recordVars, health, listed, envVars>>

(* ResolveApproval: it does not ask whether the approval is pending.       *)
ResolveApproval(status) ==
    /\ approval # "absent"
    /\ approval' = status
    /\ rejected' = IF status = "rejected" THEN EnsureItem(rejected) ELSE AutoResolve(rejected)
    /\ UNCHANGED <<work, flow, recordVars, health, listed, envVars>>

(* ... as a step of ApproveFounderFlow, and from Telegram or the API.      *)
Approve(w) ==
    /\ At(w, "resolve")
    /\ ResolveApproval("approved")
    /\ ToSync(w, frame[w].refs)
    /\ UNCHANGED requests

Decide(status) ==
    /\ ResolveApproval(status)
    /\ UNCHANGED <<frame, requests>>

(* ReleaseFounderFlow asks for the approval outside the lock, where it may *)
(* see a resolution that is rolled back afterwards.                        *)
PassGate(w) ==
    /\ At(w, "gate")
    /\ approval = "approved" \/ FaultsAllowed
    /\ Move(w, "release")
    /\ UNCHANGED <<storeVars, envVars, requests>>

GateRefused(w) ==
    /\ At(w, "gate")
    /\ approval # "approved" \/ FaultsAllowed
    /\ Return(w)
    /\ UNCHANGED <<storeVars, envVars, requests>>

(* CreateRelease asks again, under the lock.                               *)
CreateRelease(w) ==
    /\ At(w, "release") /\ approval = "approved"
    /\ releases' = releases \cup {frame[w].id}
    /\ Move(w, "target")
    /\ UNCHANGED <<work, approval, flow, deploys, rollbacks, lastDeploy, health, roomVars,
                   envVars, requests>>

ReleaseRefused(w) ==
    /\ At(w, "release") /\ approval # "approved"
    /\ Return(w)
    /\ UNCHANGED <<storeVars, envVars, requests>>
-----------------------------------------------------------------------------
(* ExecuteDeploy and ExecuteRollback look the release and its target up;   *)
(* without them they fail, and a founder action goes on to SyncFlow        *)
(* without the new record.                                                 *)
GiveUp(w) == IF FounderAction(frame[w].op) THEN ToSync(w, frame[w].refs) ELSE Return(w)

FindTarget(w) ==
    /\ At(w, "target")
    /\ IF target /\ frame[w].refs.rel \in releases THEN Move(w, "run") ELSE GiveUp(w)
    /\ UNCHANGED <<storeVars, envVars, requests>>

(* The adapter runs the target's command.  One that fails may have done    *)
(* its work.                                                               *)
RunAdapter(w, out) ==
    LET f == frame[w] IN
    /\ At(w, "run")
    /\ \/ live' = IF Deploys(f.op) THEN f.refs.rel ELSE 0
       \/ out = "failed" /\ UNCHANGED live
    /\ Goto(w, Request("record", f.op, f.id, f.refs, out))
    /\ UNCHANGED <<storeVars, target, requests>>

(* Once its record is saved a founder action writes the flow.              *)
Recorded(w, refs) == IF FounderAction(frame[w].op) THEN ToSync(w, refs) ELSE Return(w)

ListFailure(f) == listed' = IF f.out = "failed" THEN listed \cup {f.id} ELSE listed

CreateDeploy(w) ==
    LET f == frame[w] IN
    /\ At(w, "record") /\ Deploys(f.op)
    /\ deploys' = [deploys EXCEPT ![f.id] = [status |-> f.out, rel |-> f.refs.rel]]
    /\ lastDeploy' = f.out
    /\ health' = UpdateDeployHealth(f.out)
    /\ ListFailure(f)
    /\ Recorded(w, [f.refs EXCEPT !.dep = f.id])
    /\ UNCHANGED <<work, approval, flow, releases, rollbacks, rejected, envVars,
                   requests>>

CreateRollback(w) ==
    LET f == frame[w] IN
    /\ At(w, "record") /\ ~ Deploys(f.op)
    /\ RefsExist(f.refs)
    /\ rollbacks' = [rollbacks EXCEPT ![f.id] = [status |-> f.out, rel |-> f.refs.rel,
                                                 dep |-> f.refs.dep]]
    /\ health' = UpdateDeployHealth(f.out)
    /\ ListFailure(f)
    /\ Recorded(w, [f.refs EXCEPT !.rb = f.id])
    /\ UNCHANGED <<work, approval, flow, releases, deploys, lastDeploy, rejected,
                   envVars, requests>>

(* The record cannot be saved, or names a deploy that does not exist: a    *)
(* founder action goes on to SyncFlow with an empty id.                    *)
RecordFault(w) ==
    /\ At(w, "record")
    /\ FaultsAllowed \/ (~ Deploys(frame[w].op) /\ ~ RefsExist(frame[w].refs))
    /\ GiveUp(w)
    /\ UNCHANGED <<storeVars, envVars, requests>>

(* Mutant of SyncFlow: the status of the flow is left as it was.           *)
SyncFlowKeepsStatus(w) ==
    LET r == frame[w].refs IN
    /\ At(w, "sync")
    /\ work /\ approval # "absent" /\ RefsExist(r)
    /\ flow' = [rel |-> r.rel, dep |-> r.dep, rb |-> r.rb,
                status |-> IF flow.status = "absent" THEN deriveFlowStatus(r) ELSE flow.status]
    /\ Return(w)
    /\ UNCHANGED <<work, approval, recordVars, health, roomVars, envVars, requests>>

(* SyncFlow: the flow becomes the copy, whatever it was.  The founder      *)
(* action's own event follows, and the request returns.                    *)
SyncFlow(w) ==
    LET r == frame[w].refs IN
    /\ At(w, "sync")
    /\ work /\ approval # "absent" /\ RefsExist(r)
    /\ flow' = [rel |-> r.rel, dep |-> r.dep, rb |-> r.rb, status |-> deriveFlowStatus(r)]
    /\ Return(w)
    /\ UNCHANGED <<work, approval, recordVars, health, roomVars, envVars, requests>>

(* A critical section fails: the request returns the error.                *)
Abort(w) ==
    /\ FaultsAllowed
    /\ frame[w].pc \in {"work", "approval", "resolve", "release", "sync"}
    /\ Return(w)
    /\ UNCHANGED <<storeVars, envVars, requests>>
-----------------------------------------------------------------------------
(* PutTarget.                                                              *)
PutTarget ==
    /\ ~ target
    /\ target' = TRUE
    /\ UNCHANGED <<storeVars, live, frame, requests>>

(* TransitionReviewRoomItem by the founder: accepting or deferring keeps   *)
(* the item of a rejection, resolving removes it.                          *)
Settle(section) ==
    /\ rejected # "absent"
    /\ rejected' = section
    /\ UNCHANGED <<work, approval, flow, recordVars, health, listed, envVars, frame,
                   requests>>

(* The daemon stops and starts: the health is that of the last deploy.     *)
Restart ==
    /\ frame' = [w \in Workers |-> IdleFrame]
    /\ health' = IF lastDeploy = "absent" THEN health ELSE UpdateDeployHealth(lastDeploy)
    /\ UNCHANGED <<work, approval, flow, recordVars, roomVars, envVars, requests>>

Init ==
    /\ work = FALSE /\ approval = "absent"
    /\ flow = [rel |-> 0, dep |-> 0, rb |-> 0, status |-> "absent"]
    /\ releases = {}
    /\ deploys = [i \in Ids |-> [status |-> "absent", rel |-> 0]]
    /\ rollbacks = [i \in Ids |-> [status |-> "absent", rel |-> 0, dep |-> 0]]
    /\ lastDeploy = "absent"
    /\ target = FALSE /\ health = "ready"
    /\ rejected = "absent" /\ listed = {}
    /\ live = 0
    /\ frame = [w \in Workers |-> IdleFrame]
    /\ requests = 0

Step(w) ==
    \/ CreateWorkItem(w) \/ CreateApproval(w)
    \/ ReadFlow(w) \/ ReadRefused(w) \/ Approve(w)
    \/ PassGate(w) \/ GateRefused(w) \/ CreateRelease(w) \/ ReleaseRefused(w)
    \/ FindTarget(w) \/ (\E out \in Outcomes : RunAdapter(w, out))
    \/ CreateDeploy(w) \/ CreateRollback(w) \/ RecordFault(w)
    \/ SyncFlow(w) \/ Abort(w)

Next ==
    \/ \E w \in Workers : Step(w) \/ (\E op \in Ops : \E refs \in Named(op) : Arrive(w, op, refs))
    \/ \E status \in {"approved", "rejected"} : Decide(status)
    \/ \E section \in {"settled", "absent"} : Settle(section)
    \/ PutTarget \/ Restart

Spec == Init /\ [][Next]_vars
-----------------------------------------------------------------------------
(* The shape of the stores and the requests.                               *)
TypeOK ==
    /\ work \in BOOLEAN /\ approval \in ApprovalStatuses
    /\ flow \in [rel : Refs, dep : Refs, rb : Refs, status : FlowStatuses]
    /\ releases \subseteq Ids
    /\ deploys \in [Ids -> [status : Outcomes \cup {"absent"}, rel : Refs]]
    /\ rollbacks \in [Ids -> [status : Outcomes \cup {"absent"}, rel : Refs, dep : Refs]]
    /\ lastDeploy \in Outcomes \cup {"absent"}
    /\ target \in BOOLEAN /\ health \in {"ready", "degraded"}
    /\ rejected \in {"absent", "open", "settled"}
    /\ listed \subseteq Ids
    /\ live \in Refs
    /\ frame \in [Workers -> Frame]
    /\ requests \in Refs

(* However actions overlap, fail or stop, the flow never mixes two of      *)
(* them: what it refers to is recorded, and its deploy is one of its       *)
(* release.                                                                *)
RefsBelong ==
    /\ RefsExist(flow)
    /\ flow.dep # 0 => deploys[flow.dep].rel = flow.rel

(* Once something is released the flow's status is what its records say    *)
(* now, not what they said when it was last written.                       *)
StatusIsCurrent == flow.rel # 0 => flow.status = deriveFlowStatus(flow)

(* The target only ever gets what is a durable release, even when the      *)
(* daemon stops or a save fails between the two.                           *)
DeployedIsReleased == live # 0 => live \in releases

(* An open item about a rejection is about one that stands; no deploy or   *)
(* rollback failed, and no health is degraded, unless the review room was  *)
(* told of the run.                                                        *)
FailuresListed ==
    /\ rejected = "open" => approval = "rejected"
    /\ \A i \in Ids : "failed" \in {deploys[i].status, rollbacks[i].status} => i \in listed
    /\ health = "degraded" => listed # {}
============================================================================
