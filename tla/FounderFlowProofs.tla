------------------------- MODULE FounderFlowProofs -------------------------
(***************************************************************************)
(* Proofs about FounderFlow for any goroutines, any requests and any       *)
(* failures.                                                               *)
(***************************************************************************)
EXTENDS FounderFlow, TLAPS

Recording == {"release", "rollback", "deploy", "undeploy"}
Direct == {"deploy", "undeploy"}

(* Which requests are where, and who has a number.                         *)
WellFormed(f) ==
    /\ f.pc = "record" => f.out \in Outcomes
    /\ f.pc \in {"gate", "release", "target", "run", "record"} => f.op \in Recording
    /\ f.pc = "read" => f.op \in {"approve", "release", "rollback"}
    /\ f.pc \in {"work", "approval", "resolve", "gate", "release", "sync"} => f.op \notin Direct
    /\ f.op \in Recording <=> f.id # 0

FramesOK == /\ frame \in [Workers -> Frame]
            /\ \A w \in Workers : WellFormed(frame[w])

StoresOK ==
    /\ work \in BOOLEAN
    /\ approval \in ApprovalStatuses
    /\ flow \in [rel : Refs, dep : Refs, rb : Refs, status : FlowStatuses]
    /\ releases \subseteq Ids
    /\ deploys \in [Ids -> [status : Outcomes \cup {"absent"}, rel : Refs]]
    /\ rollbacks \in [Ids -> [status : Outcomes \cup {"absent"}, rel : Refs, dep : Refs]]
    /\ lastDeploy \in Outcomes \cup {"absent"}
    /\ target \in BOOLEAN
    /\ health \in {"ready", "degraded"}
    /\ rejected \in {"absent", "open", "settled"}
    /\ listed \subseteq Ids
    /\ live \in Refs
    /\ requests \in Refs

TypeInv == StoresOK /\ FramesOK
-----------------------------------------------------------------------------
(* Goto replaces one frame: a well-formed one keeps them all so.           *)
LEMMA GotoKeeps ==
    ASSUME FramesOK, NEW w \in Workers, NEW f, f \in Frame, WellFormed(f), Goto(w, f)
    PROVE  /\ FramesOK'
           /\ frame'[w] = f
           /\ \A v \in Workers : v # w => frame'[v] = frame[v]
<1>1. frame' = [frame EXCEPT ![w] = f]  BY DEF Goto
<1>2. \A v \in Workers : frame'[v] = IF v = w THEN f ELSE frame[v]
  BY <1>1 DEF FramesOK
<1>3. frame' \in [Workers -> Frame]
  BY <1>1 DEF FramesOK
<1>4. \A v \in Workers : WellFormed(frame'[v])
  BY <1>2 DEF FramesOK
<1>5. FramesOK'
  BY <1>3, <1>4 DEF FramesOK, WellFormed
<1> QED  BY <1>2, <1>5

(* The frames the steps go on to.                                          *)
LEMMA RequestType ==
    ASSUME NEW pc, NEW op, NEW id, NEW r, NEW out,
           pc \in {"idle", "work", "approval", "read", "resolve", "gate", "release",
                   "target", "run", "record", "sync"},
           op \in Ops \cup {"none"}, id \in Refs, r \in RefSet, out \in Outcomes \cup {"none"}
    PROVE  Request(pc, op, id, r, out) \in Frame
  BY DEF Request, Frame

LEMMA IdleOK == IdleFrame \in Frame /\ WellFormed(IdleFrame) /\ NoRefs \in RefSet
<1>1. 0 \in Refs  BY FlowAssumption DEF Refs
<1>2. NoRefs \in RefSet  BY <1>1 DEF NoRefs, RefSet
<1>3. IdleFrame \in Frame  BY <1>1, <1>2, RequestType DEF IdleFrame
<1>4. WellFormed(IdleFrame)  BY DEF IdleFrame, Request, WellFormed, Recording, Direct
<1> QED  BY <1>2, <1>3, <1>4

LEMMA SyncOK ==
    ASSUME NEW r \in RefSet
    PROVE  /\ Request("sync", "none", 0, r, "none") \in Frame
           /\ WellFormed(Request("sync", "none", 0, r, "none"))
<1>1. 0 \in Refs  BY FlowAssumption DEF Refs
<1>2. Request("sync", "none", 0, r, "none") \in Frame  BY <1>1, RequestType
<1>3. WellFormed(Request("sync", "none", 0, r, "none"))
  BY DEF WellFormed, Request, Recording, Direct
<1> QED  BY <1>2, <1>3

(* The parts of a frame.                                                   *)
LEMMA FrameParts ==
    ASSUME FramesOK, NEW w \in Workers
    PROVE  /\ frame[w] \in Frame /\ WellFormed(frame[w])
           /\ frame[w].op \in Ops \cup {"none"}
           /\ frame[w].id \in Refs
           /\ frame[w].refs \in RefSet
           /\ frame[w].out \in Outcomes \cup {"none"}
  BY DEF FramesOK, Frame

(* Moving on changes only the program counter.                             *)
LEMMA MoveKeeps ==
    ASSUME FramesOK, NEW w \in Workers, NEW pc,
           pc \in {"approval", "release", "target", "run"},
           pc = "approval" => frame[w].op \notin Direct,
           pc \in {"release", "target", "run"} => frame[w].op \in Recording,
           pc = "release" => frame[w].op \notin Direct,
           Move(w, pc)
    PROVE  FramesOK'
<1> DEFINE f == Request(pc, frame[w].op, frame[w].id, frame[w].refs, frame[w].out)
<1>1. f \in Frame  BY FrameParts, RequestType
<1>2. WellFormed(f)  BY FrameParts DEF WellFormed, Request
<1>3. Goto(w, f)  BY DEF Move
<1> HIDE DEF f
<1> QED  BY <1>1, <1>2, <1>3, GotoKeeps

(* The status of a flow is one of the flow statuses.                       *)
LEMMA StatusType == \A r : deriveFlowStatus(r) \in FlowStatuses
  BY DEF deriveFlowStatus, FlowStatuses

LEMMA InitTypes == Init => TypeInv
<1> SUFFICES ASSUME Init PROVE TypeInv  OBVIOUS
<1>1. 0 \in Refs /\ Refs = 0 .. MaxRequests  BY FlowAssumption DEF Refs
<1>2. StoresOK
  <2>1. flow \in [rel : Refs, dep : Refs, rb : Refs, status : FlowStatuses]
    BY <1>1 DEF Init, FlowStatuses
  <2>2. deploys \in [Ids -> [status : Outcomes \cup {"absent"}, rel : Refs]]
    BY <1>1 DEF Init
  <2>3. rollbacks \in [Ids -> [status : Outcomes \cup {"absent"}, rel : Refs, dep : Refs]]
    BY <1>1 DEF Init
  <2> QED  BY <1>1, <2>1, <2>2, <2>3 DEF Init, StoresOK, ApprovalStatuses
<1>3. FramesOK  BY IdleOK DEF Init, FramesOK
<1> QED  BY <1>2, <1>3 DEF TypeInv

(* A request ends, or goes on to SyncFlow.                                 *)
LEMMA ReturnKeeps ==
    ASSUME FramesOK, NEW w \in Workers, Return(w)
    PROVE  FramesOK'
  BY IdleOK, GotoKeeps DEF Return

LEMMA ToSyncKeeps ==
    ASSUME FramesOK, NEW w \in Workers, NEW r \in RefSet, ToSync(w, r)
    PROVE  FramesOK'
  BY SyncOK, GotoKeeps DEF ToSync

LEMMA GiveUpKeeps ==
    ASSUME FramesOK, NEW w \in Workers, GiveUp(w)
    PROVE  FramesOK'
  BY ReturnKeeps, ToSyncKeeps, FrameParts DEF GiveUp

LEMMA RecordedKeeps ==
    ASSUME FramesOK, NEW w \in Workers, NEW r \in RefSet, Recorded(w, r)
    PROVE  FramesOK'
  BY ReturnKeeps, ToSyncKeeps DEF Recorded

(* What CreateDeploy and CreateRollback are given.                         *)
LEMMA RecordParts ==
    ASSUME FramesOK, NEW w \in Workers, At(w, "record")
    PROVE  /\ frame[w].id \in Ids
           /\ frame[w].out \in Outcomes
           /\ frame[w].refs.rel \in Refs
           /\ frame[w].refs.dep \in Refs
           /\ [frame[w].refs EXCEPT !.dep = frame[w].id] \in RefSet
           /\ [frame[w].refs EXCEPT !.rb = frame[w].id] \in RefSet
<1>1. frame[w].id # 0 /\ frame[w].out \in Outcomes
  BY FrameParts DEF At, WellFormed
<1>2. frame[w].id \in Ids
  BY <1>1, FrameParts, FlowAssumption DEF Refs, Ids
<1> QED  BY <1>1, <1>2, FrameParts DEF RefSet

LEMMA ArriveTypes ==
    ASSUME TypeInv, NEW w \in Workers, NEW op \in Ops, NEW refs \in Named(op), Arrive(w, op, refs)
    PROVE  TypeInv'
<1> DEFINE n == IF Numbered(op) THEN requests + 1 ELSE 0
           f == Request(FirstStep(op), op, n, refs, "none")
<1>1. n \in Refs /\ (op \in Recording <=> n # 0)
  BY FlowAssumption DEF Arrive, TypeInv, StoresOK, Refs, Numbered, Recording
<1>2. refs \in RefSet
  BY FlowAssumption, IdleOK DEF Named, RefSet, Ids, Refs
<1>3. f \in Frame
  <2>1. FirstStep(op) \in {"work", "target", "read"}  BY DEF FirstStep
  <2> QED  BY <1>1, <1>2, <2>1, RequestType
<1>4. WellFormed(f)
  BY <1>1, FlowAssumption DEF WellFormed, Request, FirstStep, Recording, Direct
<1>5. Goto(w, f)  BY DEF Arrive
<1> HIDE DEF f
<1>6. FramesOK'  BY <1>3, <1>4, <1>5, GotoKeeps DEF TypeInv
<1>7. StoresOK'
  BY FlowAssumption DEF Arrive, TypeInv, StoresOK, Refs, storeVars, envVars, recordVars, roomVars
<1> QED  BY <1>6, <1>7 DEF TypeInv

LEMMA ReadTypes ==
    ASSUME TypeInv, NEW w \in Workers, ReadFlow(w)
    PROVE  TypeInv'
<1> DEFINE g == frame[w]
           pc == CASE g.op = "approve" -> "resolve"
                   [] g.op = "release" -> "gate"
                   [] OTHER            -> "target"
           f == Request(pc, g.op, g.id, CopiedRefs(g.op, g.id), g.out)
<1>1. FramesOK  BY DEF TypeInv
<1>2. CopiedRefs(g.op, g.id) \in RefSet
  <2>1. flow.rel \in Refs /\ flow.dep \in Refs /\ flow.rb \in Refs /\ 0 \in Refs
    BY FlowAssumption DEF TypeInv, StoresOK, Refs
  <2> QED  BY <1>1, <2>1, FrameParts DEF CopiedRefs, RefSet
<1>3. f \in Frame
  <2>1. pc \in {"resolve", "gate", "target"}  OBVIOUS
  <2> HIDE DEF pc
  <2> QED  BY <1>1, <1>2, <2>1, FrameParts, RequestType
<1>4. WellFormed(f)
  <2>1. g.op \in {"approve", "release", "rollback"}
    BY <1>1, FrameParts DEF ReadFlow, At, WellFormed
  <2>2. g.op \in Recording <=> g.id # 0
    BY <1>1, FrameParts DEF WellFormed
  <2> QED  BY <2>1, <2>2 DEF WellFormed, Request, Recording, Direct
<1>5. Goto(w, f)  BY DEF ReadFlow
<1> HIDE DEF f
<1>6. FramesOK'  BY <1>1, <1>3, <1>4, <1>5, GotoKeeps
<1>7. StoresOK'
  BY DEF ReadFlow, TypeInv, StoresOK, storeVars, envVars, recordVars, roomVars
<1> QED  BY <1>6, <1>7 DEF TypeInv

LEMMA RunTypes ==
    ASSUME TypeInv, NEW w \in Workers, NEW out \in Outcomes, RunAdapter(w, out)
    PROVE  TypeInv'
<1> DEFINE g == frame[w]
           f == Request("record", g.op, g.id, g.refs, out)
<1>1. FramesOK  BY DEF TypeInv
<1>2. f \in Frame  BY <1>1, FrameParts, RequestType
<1>3. WellFormed(f)
  <2>1. g.op \in Recording /\ g.id # 0
    BY <1>1, FrameParts DEF RunAdapter, At, WellFormed
  <2> QED  BY <2>1 DEF WellFormed, Request
<1>4. Goto(w, f)  BY DEF RunAdapter
<1> HIDE DEF f
<1>5. FramesOK'  BY <1>1, <1>2, <1>3, <1>4, GotoKeeps
<1>6. live' \in Refs
  <2>1. g.refs.rel \in Refs /\ 0 \in Refs
    BY <1>1, FrameParts, FlowAssumption DEF RefSet, Refs
  <2> QED  BY <2>1 DEF RunAdapter, TypeInv, StoresOK
<1>7. StoresOK'
  BY <1>6 DEF RunAdapter, TypeInv, StoresOK, storeVars, recordVars, roomVars
<1> QED  BY <1>5, <1>7 DEF TypeInv

LEMMA DeployTypes ==
    ASSUME TypeInv, NEW w \in Workers, CreateDeploy(w)
    PROVE  TypeInv'
<1>1. FramesOK /\ At(w, "record")  BY DEF TypeInv, CreateDeploy
<1>2. FramesOK'  BY <1>1, RecordParts, RecordedKeeps DEF CreateDeploy
<1>3. deploys' \in [Ids -> [status : Outcomes \cup {"absent"}, rel : Refs]]
  BY <1>1, RecordParts DEF CreateDeploy, TypeInv, StoresOK
<1>4. listed' \subseteq Ids
  BY <1>1, RecordParts DEF CreateDeploy, ListFailure, TypeInv, StoresOK
<1>5. StoresOK'
  BY <1>1, <1>3, <1>4, RecordParts
  DEF CreateDeploy, TypeInv, StoresOK, UpdateDeployHealth, envVars
<1> QED  BY <1>2, <1>5 DEF TypeInv

LEMMA RollbackTypes ==
    ASSUME TypeInv, NEW w \in Workers, CreateRollback(w)
    PROVE  TypeInv'
<1>1. FramesOK /\ At(w, "record")  BY DEF TypeInv, CreateRollback
<1>2. FramesOK'  BY <1>1, RecordParts, RecordedKeeps DEF CreateRollback
<1>3. rollbacks' \in [Ids -> [status : Outcomes \cup {"absent"}, rel : Refs, dep : Refs]]
  BY <1>1, RecordParts DEF CreateRollback, TypeInv, StoresOK
<1>4. listed' \subseteq Ids
  BY <1>1, RecordParts DEF CreateRollback, ListFailure, TypeInv, StoresOK
<1>5. StoresOK'
  BY <1>1, <1>3, <1>4, RecordParts
  DEF CreateRollback, TypeInv, StoresOK, UpdateDeployHealth, envVars
<1> QED  BY <1>2, <1>5 DEF TypeInv

LEMMA SyncTypes ==
    ASSUME TypeInv, NEW w \in Workers, SyncFlow(w)
    PROVE  TypeInv'
<1>1. FramesOK'  BY ReturnKeeps DEF TypeInv, SyncFlow
<1>2. flow' \in [rel : Refs, dep : Refs, rb : Refs, status : FlowStatuses]
  <2>1. frame[w].refs \in RefSet  BY FrameParts DEF TypeInv
  <2> QED  BY <2>1, StatusType DEF SyncFlow, RefSet
<1>3. StoresOK'
  BY <1>2 DEF SyncFlow, TypeInv, StoresOK, recordVars, roomVars, envVars
<1> QED  BY <1>1, <1>3 DEF TypeInv

LEMMA ResolveTypes ==
    ASSUME TypeInv, NEW status \in {"approved", "rejected"}, ResolveApproval(status),
           UNCHANGED requests
    PROVE  StoresOK'
  BY DEF ResolveApproval, EnsureItem, AutoResolve, TypeInv, StoresOK, ApprovalStatuses,
         recordVars, envVars

LEMMA NextTypes == TypeInv /\ [Next]_vars => TypeInv'
<1> SUFFICES ASSUME TypeInv, [Next]_vars PROVE TypeInv'  OBVIOUS
<1> USE DEF TypeInv
<1>0. FramesOK /\ StoresOK  OBVIOUS
<1>1. ASSUME NEW w \in Workers, CreateWorkItem(w) PROVE TypeInv'
  <2>1. frame[w].op \notin Direct
    BY <1>1, FrameParts DEF CreateWorkItem, At, WellFormed
  <2>2. FramesOK'  BY <1>1, <2>1, MoveKeeps DEF CreateWorkItem
  <2>3. StoresOK'  BY <1>1 DEF CreateWorkItem, StoresOK, recordVars, roomVars, envVars
  <2> QED  BY <2>2, <2>3
<1>2. ASSUME NEW w \in Workers, CreateApproval(w) PROVE TypeInv'
  <2>1. FramesOK'  BY <1>2, FrameParts, ToSyncKeeps DEF CreateApproval
  <2>2. StoresOK'
    BY <1>2 DEF CreateApproval, StoresOK, ApprovalStatuses, recordVars, roomVars, envVars
  <2> QED  BY <2>1, <2>2
<1>3. ASSUME NEW w \in Workers, ReadRefused(w) \/ GateRefused(w) \/ ReleaseRefused(w) \/ Abort(w)
      PROVE TypeInv'
  <2>1. FramesOK'  BY <1>3, ReturnKeeps DEF ReadRefused, GateRefused, ReleaseRefused, Abort
  <2>2. StoresOK'
    BY <1>3 DEF ReadRefused, GateRefused, ReleaseRefused, Abort, StoresOK, storeVars, recordVars,
                roomVars, envVars
  <2> QED  BY <2>1, <2>2
<1>4. ASSUME NEW w \in Workers, Approve(w) PROVE TypeInv'
  <2>1. FramesOK'  BY <1>4, FrameParts, ToSyncKeeps DEF Approve
  <2>2. StoresOK'  BY <1>4, ResolveTypes DEF Approve
  <2> QED  BY <2>1, <2>2
<1>5. ASSUME NEW w \in Workers, PassGate(w) PROVE TypeInv'
  <2>1. frame[w].op \in Recording \ Direct
    BY <1>5, FrameParts DEF PassGate, At, WellFormed
  <2>2. FramesOK'  BY <1>5, <2>1, MoveKeeps DEF PassGate
  <2>3. StoresOK'
    BY <1>5 DEF PassGate, StoresOK, storeVars, recordVars, roomVars, envVars
  <2> QED  BY <2>2, <2>3
<1>6. ASSUME NEW w \in Workers, CreateRelease(w) PROVE TypeInv'
  <2>1. frame[w].op \in Recording /\ frame[w].id # 0
    BY <1>6, FrameParts DEF CreateRelease, At, WellFormed
  <2>2. frame[w].id \in Ids
    BY <2>1, FrameParts, FlowAssumption DEF Refs, Ids
  <2>3. FramesOK'  BY <1>6, <2>1, MoveKeeps DEF CreateRelease
  <2>4. StoresOK'  BY <1>6, <2>2 DEF CreateRelease, StoresOK, roomVars, envVars
  <2> QED  BY <2>3, <2>4
<1>7. ASSUME NEW w \in Workers, FindTarget(w) PROVE TypeInv'
  <2>1. frame[w].op \in Recording
    BY <1>7, FrameParts DEF FindTarget, At, WellFormed
  <2>2. FramesOK'  BY <1>7, <2>1, MoveKeeps, GiveUpKeeps DEF FindTarget
  <2>3. StoresOK'
    BY <1>7 DEF FindTarget, StoresOK, storeVars, recordVars, roomVars, envVars
  <2> QED  BY <2>2, <2>3
<1>8. ASSUME NEW w \in Workers, RecordFault(w) PROVE TypeInv'
  <2>1. FramesOK'  BY <1>8, GiveUpKeeps DEF RecordFault
  <2>2. StoresOK'
    BY <1>8 DEF RecordFault, StoresOK, storeVars, recordVars, roomVars, envVars
  <2> QED  BY <2>1, <2>2
<1>9. ASSUME NEW status \in {"approved", "rejected"}, Decide(status) PROVE TypeInv'
  BY <1>9, ResolveTypes DEF Decide, FramesOK
<1>10. CASE PutTarget \/ \E section \in {"settled", "absent"} : Settle(section)
  BY <1>10 DEF PutTarget, Settle, StoresOK, FramesOK, storeVars, recordVars, roomVars, envVars
<1>11. CASE Restart
  <2>1. FramesOK'  BY <1>11, IdleOK DEF Restart, FramesOK, WellFormed
  <2>2. StoresOK'
    BY <1>11 DEF Restart, StoresOK, UpdateDeployHealth, recordVars, roomVars, envVars
  <2> QED  BY <2>1, <2>2
<1>12. CASE UNCHANGED vars
  BY <1>12 DEF vars, StoresOK, FramesOK, storeVars, recordVars, roomVars, envVars
<1> HIDE DEF TypeInv
<1> QED
  BY <1>1, <1>2, <1>3, <1>4, <1>5, <1>6, <1>7, <1>8, <1>9, <1>10, <1>11, <1>12,
     ArriveTypes, ReadTypes, RunTypes, DeployTypes, RollbackTypes, SyncTypes
  DEF Next, Step

(* The types are invariant.                                                *)
THEOREM Types == Spec => []TypeInv
  BY InitTypes, NextTypes, PTL DEF Spec

(* The stores and the requests keep their types, for any goroutines,       *)
(* requests and failures.                                                  *)
THEOREM Typing == Spec => []TypeOK
<1>1. TypeInv => TypeOK  BY DEF TypeInv, StoresOK, FramesOK, TypeOK
<1> QED  BY <1>1, Types, PTL
-----------------------------------------------------------------------------
(* The records.  No request that has a number has recorded anything under  *)
(* it, no two have the same, and the numbers to come are unused.           *)
Unused(i) == deploys[i].status = "absent" /\ rollbacks[i].status = "absent"

Fresh ==
    /\ \A i \in Ids : i > requests => Unused(i)
    /\ \A w \in Workers : frame[w].id # 0 => frame[w].id <= requests /\ Unused(frame[w].id)
    /\ \A v, w \in Workers : v # w /\ frame[v].id # 0 => frame[v].id # frame[w].id

(* A deploy of a copy is recorded and is one of the copy's release.        *)
DepBelongs(r) ==
    r.dep # 0 => deploys[r.dep].status # "absent" /\ deploys[r.dep].rel = r.rel

FrameOK(f) ==
    /\ f.pc \in {"run", "record"} => f.refs.rel \in releases
    /\ f.op \notin Direct => DepBelongs(f.refs)

CopiesBelong == \A w \in Workers : FrameOK(frame[w])

RecordInv == TypeInv /\ Fresh /\ CopiesBelong /\ RefsBelong /\ StatusIsCurrent /\ DeployedIsReleased

(* What every step does to the records: there are more of them, and none   *)
(* changes.                                                                *)
Grow ==
    /\ releases \subseteq releases'
    /\ \A i \in Ids : deploys[i].status # "absent" => deploys'[i] = deploys[i]
    /\ \A i \in Ids : rollbacks[i].status # "absent" => rollbacks'[i] = rollbacks[i]

LEMMA GrowKeepsDep ==
    ASSUME Grow, NEW r \in RefSet, DepBelongs(r)
    PROVE  r.dep # 0 => deploys'[r.dep].status # "absent" /\ deploys'[r.dep].rel = r.rel
<1> SUFFICES ASSUME r.dep # 0
             PROVE  deploys'[r.dep].status # "absent" /\ deploys'[r.dep].rel = r.rel
  OBVIOUS
<1>1. r.dep \in Ids  BY FlowAssumption DEF RefSet, Refs, Ids
<1> QED  BY <1>1 DEF Grow, DepBelongs

(* A flow that is not written stays right.                                 *)
LEMMA GrowKeepsFlow ==
    ASSUME StoresOK, RefsBelong, StatusIsCurrent, Grow, flow' = flow
    PROVE  RefsBelong' /\ StatusIsCurrent'
<1>1. flow.dep # 0 => deploys'[flow.dep] = deploys[flow.dep]
  BY FlowAssumption DEF RefsBelong, RefsExist, Grow, StoresOK, Refs, Ids
<1>2. flow.rb # 0 => rollbacks'[flow.rb] = rollbacks[flow.rb]
  BY FlowAssumption DEF RefsBelong, RefsExist, Grow, StoresOK, Refs, Ids
<1>3. RefsBelong'
  BY <1>1, <1>2 DEF RefsBelong, RefsExist, Grow
<1>4. StatusIsCurrent'
  <2> SUFFICES ASSUME flow.rel # 0 PROVE flow.status = deriveFlowStatus(flow)'
    BY DEF StatusIsCurrent
  <2>1. flow.status = deriveFlowStatus(flow)  BY DEF StatusIsCurrent
  <2> QED  BY <1>1, <1>2, <2>1 DEF deriveFlowStatus
<1> QED  BY <1>3, <1>4

(* A goroutine moves on, keeping or giving up its number, while the        *)
(* records stay as they are.                                               *)
LEMMA MovesOn ==
    ASSUME RecordInv, NEW w \in Workers, FramesOK',
           NEW f, Goto(w, f), f.id \in {0, frame[w].id},
           f.pc \in {"run", "record"} => f.refs.rel \in releases',
           f.op \notin Direct => DepBelongs(f.refs),
           releases \subseteq releases', UNCHANGED <<deploys, rollbacks, requests>>
    PROVE  Grow /\ Fresh' /\ CopiesBelong'
<1>1. frame' = [frame EXCEPT ![w] = f]  BY DEF Goto
<1>2. \A v \in Workers : frame'[v] = IF v = w THEN f ELSE frame[v]
  BY <1>1 DEF RecordInv, TypeInv, FramesOK
<1>3. Grow  BY DEF Grow
<1>4. Fresh'
  <2>1. \A i \in Ids : (i > requests => Unused(i))'  BY DEF RecordInv, Fresh, Unused
  <2>2. \A v \in Workers : (frame[v].id # 0 => frame[v].id <= requests /\ Unused(frame[v].id))'
    BY <1>2 DEF RecordInv, Fresh, Unused
  <2>3. \A u, v \in Workers : (u # v /\ frame[u].id # 0 => frame[u].id # frame[v].id)'
    <3> SUFFICES ASSUME NEW u \in Workers, NEW v \in Workers, u # v, frame'[u].id # 0
                 PROVE  frame'[u].id # frame'[v].id
      OBVIOUS
    <3>1. frame[u].id # 0 /\ frame[u].id # frame[v].id
      BY <1>2 DEF RecordInv, Fresh
    <3>2. frame'[u].id = frame[u].id /\ frame'[v].id \in {0, frame[v].id}
      BY <1>2
    <3> QED  BY <3>1, <3>2
  <2> QED  BY <2>1, <2>2, <2>3 DEF Fresh
<1>5. CopiesBelong'
  <2> SUFFICES ASSUME NEW v \in Workers PROVE FrameOK(frame[v])'
    BY DEF CopiesBelong
  <2>1. CASE v = w  BY <1>2, <2>1 DEF FrameOK, DepBelongs
  <2>2. CASE v # w  BY <1>2, <2>2 DEF FrameOK, DepBelongs, RecordInv, CopiesBelong
  <2> QED  BY <2>1, <2>2
<1> QED  BY <1>3, <1>4, <1>5

LEMMA ReturnMoves ==
    ASSUME RecordInv, NEW w \in Workers, Return(w), FramesOK',
           releases \subseteq releases', UNCHANGED <<deploys, rollbacks, requests>>
    PROVE  Grow /\ Fresh' /\ CopiesBelong'
<1>1. IdleFrame.id = 0 /\ IdleFrame.pc = "idle" /\ IdleFrame.refs.dep = 0
  BY DEF IdleFrame, Request, NoRefs
<1>2. DepBelongs(IdleFrame.refs)  BY <1>1 DEF DepBelongs
<1>3. Goto(w, IdleFrame)  BY DEF Return
<1> QED  BY <1>1, <1>2, <1>3, MovesOn

LEMMA ToSyncMoves ==
    ASSUME RecordInv, NEW w \in Workers, ToSync(w, frame[w].refs), frame[w].op \notin Direct,
           FramesOK', releases \subseteq releases', UNCHANGED <<deploys, rollbacks, requests>>
    PROVE  Grow /\ Fresh' /\ CopiesBelong'
<1> DEFINE f == Request("sync", "none", 0, frame[w].refs, "none")
<1>1. f.id = 0 /\ f.pc = "sync" /\ f.refs = frame[w].refs  BY DEF Request
<1>2. DepBelongs(f.refs)  BY <1>1 DEF RecordInv, CopiesBelong, FrameOK
<1>3. Goto(w, f)  BY DEF ToSync
<1> HIDE DEF f
<1> QED  BY <1>1, <1>2, <1>3, MovesOn

LEMMA GiveUpMoves ==
    ASSUME RecordInv, NEW w \in Workers, GiveUp(w),
           FramesOK', releases \subseteq releases', UNCHANGED <<deploys, rollbacks, requests>>
    PROVE  Grow /\ Fresh' /\ CopiesBelong'
<1>1. CASE FounderAction(frame[w].op)
  BY <1>1, ToSyncMoves DEF GiveUp, FounderAction, Direct
<1>2. CASE ~ FounderAction(frame[w].op)
  BY <1>2, ReturnMoves DEF GiveUp
<1> QED  BY <1>1, <1>2

LEMMA MoveMoves ==
    ASSUME RecordInv, NEW w \in Workers, NEW pc, Move(w, pc), pc # "record",
           pc = "run" => frame[w].refs.rel \in releases',
           FramesOK', releases \subseteq releases', UNCHANGED <<deploys, rollbacks, requests>>
    PROVE  Grow /\ Fresh' /\ CopiesBelong'
<1> DEFINE f == Request(pc, frame[w].op, frame[w].id, frame[w].refs, frame[w].out)
<1>1. f.id = frame[w].id /\ f.pc = pc /\ f.refs = frame[w].refs /\ f.op = frame[w].op
  BY DEF Request
<1>2. f.op \notin Direct => DepBelongs(f.refs)
  BY <1>1 DEF RecordInv, CopiesBelong, FrameOK
<1>3. Goto(w, f)  BY DEF Move
<1> HIDE DEF f
<1> QED  BY <1>1, <1>2, <1>3, MovesOn

LEMMA ReadMoves ==
    ASSUME RecordInv, NEW w \in Workers, ReadFlow(w), FramesOK'
    PROVE  Grow /\ Fresh' /\ CopiesBelong'
<1> DEFINE g == frame[w]
           pc == CASE g.op = "approve" -> "resolve"
                   [] g.op = "release" -> "gate"
                   [] OTHER            -> "target"
           f == Request(pc, g.op, g.id, CopiedRefs(g.op, g.id), g.out)
<1>1. f.id = frame[w].id /\ f.pc \in {"resolve", "gate", "target"}
      /\ f.refs = CopiedRefs(g.op, g.id)
  BY DEF Request
<1>2. DepBelongs(CopiedRefs(g.op, g.id))
  BY DEF CopiedRefs, DepBelongs, RecordInv, RefsBelong, RefsExist
<1>3. Goto(w, f)  BY DEF ReadFlow
<1>4. UNCHANGED <<releases, deploys, rollbacks, requests>>
  BY DEF ReadFlow, storeVars, recordVars
<1> HIDE DEF f
<1> QED  BY <1>1, <1>2, <1>3, <1>4, MovesOn

LEMMA RunMoves ==
    ASSUME RecordInv, NEW w \in Workers, NEW out \in Outcomes, RunAdapter(w, out), FramesOK'
    PROVE  Grow /\ Fresh' /\ CopiesBelong' /\ DeployedIsReleased'
<1> DEFINE g == frame[w]
           f == Request("record", g.op, g.id, g.refs, out)
<1>1. f.id = g.id /\ f.refs = g.refs /\ f.op = g.op  BY DEF Request
<1>2. FrameOK(g) /\ g.pc = "run"  BY DEF RecordInv, CopiesBelong, RunAdapter, At
<1>3. g.refs.rel \in releases /\ (g.op \notin Direct => DepBelongs(g.refs))
  BY <1>2 DEF FrameOK
<1>4. Goto(w, f)  BY DEF RunAdapter
<1>5. UNCHANGED <<releases, deploys, rollbacks, requests>>
  BY DEF RunAdapter, storeVars, recordVars
<1> HIDE DEF f
<1>6. Grow /\ Fresh' /\ CopiesBelong'  BY <1>1, <1>3, <1>4, <1>5, MovesOn
<1>7. DeployedIsReleased'
  BY <1>3, <1>5 DEF RunAdapter, DeployedIsReleased, RecordInv
<1> QED  BY <1>6, <1>7

(* One record is added under the number of the request.                    *)
LEMMA RecordMoves ==
    ASSUME RecordInv, NEW w \in Workers, At(w, "record"), FramesOK',
           \A i \in Ids : i # frame[w].id => deploys'[i] = deploys[i] /\ rollbacks'[i] = rollbacks[i],
           NEW r \in RefSet, Recorded(w, r),
           FounderAction(frame[w].op) /\ r.dep # 0 =>
               deploys'[r.dep].status # "absent" /\ deploys'[r.dep].rel = r.rel,
           UNCHANGED <<releases, requests>>
    PROVE  Grow /\ Fresh' /\ CopiesBelong'
<1> DEFINE n == frame[w].id
           f == IF FounderAction(frame[w].op) THEN Request("sync", "none", 0, r, "none")
                ELSE IdleFrame
<1>0. n \in Ids /\ n # 0 /\ Unused(n)
  <2>1. n \in Ids  BY RecordParts DEF RecordInv, TypeInv
  <2>2. n # 0  BY <2>1, FlowAssumption DEF Ids
  <2> QED  BY <2>1, <2>2 DEF RecordInv, Fresh
<1>1. frame' = [frame EXCEPT ![w] = f]
  BY DEF Recorded, ToSync, Return, Goto
<1>2. \A v \in Workers : frame'[v] = IF v = w THEN f ELSE frame[v]
  BY <1>1 DEF RecordInv, TypeInv, FramesOK
<1>3. f.id = 0 /\ f.pc \notin {"run", "record"}
      /\ f.refs = IF FounderAction(frame[w].op) THEN r ELSE NoRefs
  BY DEF IdleFrame, Request
<1> HIDE DEF f
<1>4. Grow
  BY <1>0 DEF Grow, Unused
<1>5. Fresh'
  <2>1. \A i \in Ids : (i > requests => Unused(i))'
    <3> SUFFICES ASSUME NEW i \in Ids, i > requests PROVE Unused(i)'  OBVIOUS
    <3>1. n <= requests /\ Unused(i)  BY <1>0 DEF RecordInv, Fresh
    <3>2. i # n  BY <3>1, <1>0 DEF Ids, RecordInv, TypeInv, StoresOK, Refs
    <3> QED  BY <3>1, <3>2 DEF Unused
  <2>2. \A v \in Workers : (frame[v].id # 0 => frame[v].id <= requests /\ Unused(frame[v].id))'
    <3> SUFFICES ASSUME NEW v \in Workers, frame'[v].id # 0
                 PROVE  /\ frame'[v].id <= requests'
                        /\ deploys'[frame'[v].id].status = "absent"
                        /\ rollbacks'[frame'[v].id].status = "absent"
      BY DEF Unused
    <3>1. v # w /\ frame'[v] = frame[v]  BY <1>2, <1>3
    <3>2. frame[v].id # n /\ frame[v].id <= requests /\ Unused(frame[v].id)
      BY <3>1 DEF RecordInv, Fresh
    <3>3. frame[v].id \in Ids
      BY <3>1, FrameParts, FlowAssumption DEF RecordInv, TypeInv, Refs, Ids
    <3> QED  BY <3>1, <3>2, <3>3 DEF Unused
  <2>3. \A u, v \in Workers : (u # v /\ frame[u].id # 0 => frame[u].id # frame[v].id)'
    BY <1>2, <1>3 DEF RecordInv, Fresh
  <2> QED  BY <2>1, <2>2, <2>3 DEF Fresh
<1>6. CopiesBelong'
  <2> SUFFICES ASSUME NEW v \in Workers PROVE FrameOK(frame[v])'
    BY DEF CopiesBelong
  <2>1. CASE v = w
    BY <1>2, <1>3, <2>1 DEF FrameOK, DepBelongs, NoRefs
  <2>2. CASE v # w
    <3>1. frame'[v] = frame[v] /\ FrameOK(frame[v]) /\ frame[v].refs \in RefSet
      BY <1>2, <2>2, FrameParts DEF RecordInv, TypeInv, CopiesBelong
    <3> QED  BY <1>4, <3>1, GrowKeepsDep DEF FrameOK, DepBelongs
  <2> QED  BY <2>1, <2>2
<1> QED  BY <1>4, <1>5, <1>6

LEMMA DeployMoves ==
    ASSUME RecordInv, NEW w \in Workers, CreateDeploy(w), FramesOK'
    PROVE  Grow /\ Fresh' /\ CopiesBelong'
<1> DEFINE g == frame[w]
           r == [g.refs EXCEPT !.dep = g.id]
<1>1. At(w, "record") /\ FramesOK  BY DEF CreateDeploy, RecordInv, TypeInv
<1>2. g.id \in Ids /\ r \in RefSet /\ g.out \in Outcomes  BY <1>1, RecordParts
<1>3. r.dep = g.id /\ r.rel = g.refs.rel  BY <1>1, FrameParts DEF RefSet
<1>4. \A i \in Ids : deploys'[i] = IF i = g.id THEN [status |-> g.out, rel |-> g.refs.rel]
                                   ELSE deploys[i]
  BY DEF CreateDeploy, RecordInv, TypeInv, StoresOK
<1>5. deploys'[r.dep].status # "absent" /\ deploys'[r.dep].rel = r.rel
  BY <1>2, <1>3, <1>4 DEF Outcomes
<1>6. Recorded(w, r) /\ UNCHANGED <<releases, rollbacks, requests>>  BY DEF CreateDeploy
<1> HIDE DEF r
<1> QED  BY <1>1, <1>2, <1>4, <1>5, <1>6, RecordMoves

LEMMA RollbackMoves ==
    ASSUME RecordInv, NEW w \in Workers, CreateRollback(w), FramesOK'
    PROVE  Grow /\ Fresh' /\ CopiesBelong'
<1> DEFINE g == frame[w]
           r == [g.refs EXCEPT !.rb = g.id]
<1>1. At(w, "record") /\ FramesOK  BY DEF CreateRollback, RecordInv, TypeInv
<1>2. g.id \in Ids /\ r \in RefSet  BY <1>1, RecordParts
<1>3. r.dep = g.refs.dep /\ r.rel = g.refs.rel  BY <1>1, FrameParts DEF RefSet
<1>4. \A i \in Ids : i # g.id => rollbacks'[i] = rollbacks[i]
  BY DEF CreateRollback, RecordInv, TypeInv, StoresOK
<1>5. FounderAction(g.op) => DepBelongs(g.refs)
  BY DEF RecordInv, CopiesBelong, FrameOK, FounderAction, Direct
<1>6. Recorded(w, r) /\ UNCHANGED <<releases, deploys, requests>>  BY DEF CreateRollback
<1>7. FounderAction(g.op) /\ r.dep # 0 =>
          deploys'[r.dep].status # "absent" /\ deploys'[r.dep].rel = r.rel
  BY <1>3, <1>5, <1>6 DEF DepBelongs
<1> HIDE DEF r
<1> QED  BY <1>1, <1>2, <1>4, <1>6, <1>7, RecordMoves

LEMMA ArriveMoves ==
    ASSUME RecordInv, NEW w \in Workers, NEW op \in Ops, NEW refs \in Named(op),
           Arrive(w, op, refs), FramesOK'
    PROVE  Grow /\ Fresh' /\ CopiesBelong'
<1> DEFINE n == IF Numbered(op) THEN requests + 1 ELSE 0
           f == Request(FirstStep(op), op, n, refs, "none")
<1>1. f.id = n /\ f.pc \in {"work", "target", "read"} /\ f.refs = refs /\ f.op = op
  BY DEF Request, FirstStep
<1>2. op \notin Direct => refs.dep = 0  BY DEF Named, NoRefs, Direct
<1>3. frame' = [frame EXCEPT ![w] = f]  BY DEF Arrive, Goto
<1>4. \A v \in Workers : frame'[v] = IF v = w THEN f ELSE frame[v]
  BY <1>3 DEF RecordInv, TypeInv, FramesOK
<1>5. UNCHANGED <<releases, deploys, rollbacks>> /\ requests' \in {requests, requests + 1}
  BY DEF Arrive, storeVars, recordVars
<1>6. requests \in Nat /\ (n # 0 => n = requests + 1 /\ requests' = n /\ n \in Ids)
  BY FlowAssumption DEF Arrive, RecordInv, TypeInv, StoresOK, Refs, Ids
<1> HIDE DEF f, n
<1>7. Grow  BY <1>5 DEF Grow
<1>8. Fresh'
  <2>0. \A v \in Workers : frame[v].id \in Nat
    BY FrameParts, FlowAssumption DEF RecordInv, TypeInv, Refs
  <2>1. \A i \in Ids : (i > requests => Unused(i))'
    <3> SUFFICES ASSUME NEW i \in Ids, i > requests' PROVE Unused(i)'  OBVIOUS
    <3>1. i > requests  BY <1>5, <1>6, FlowAssumption DEF Ids
    <3> QED  BY <1>5, <3>1 DEF RecordInv, Fresh, Unused
  <2>2. \A v \in Workers : (frame[v].id # 0 => frame[v].id <= requests /\ Unused(frame[v].id))'
    <3> SUFFICES ASSUME NEW v \in Workers, frame'[v].id # 0
                 PROVE  /\ frame'[v].id <= requests'
                        /\ deploys[frame'[v].id].status = "absent"
                        /\ rollbacks[frame'[v].id].status = "absent"
      BY <1>5 DEF Unused
    <3>1. CASE v = w
      <4>1. frame'[v].id = n /\ n # 0  BY <1>1, <1>4, <3>1
      <4>2. n \in Ids /\ n > requests /\ requests' = n  BY <4>1, <1>6
      <4> QED  BY <4>1, <4>2 DEF RecordInv, Fresh, Unused, Ids
    <3>2. CASE v # w
      BY <1>4, <1>5, <1>6, <2>0, <3>2 DEF RecordInv, Fresh, Unused
    <3> QED  BY <3>1, <3>2
  <2>3. \A u, v \in Workers : (u # v /\ frame[u].id # 0 => frame[u].id # frame[v].id)'
    <3> SUFFICES ASSUME NEW u \in Workers, NEW v \in Workers, u # v, frame'[u].id # 0
                 PROVE  frame'[u].id # frame'[v].id
      OBVIOUS
    <3>1. CASE u = w
      <4>1. frame'[u].id = requests + 1 /\ frame'[v] = frame[v]  BY <1>1, <1>4, <1>6, <3>1
      <4>2. frame[v].id = 0 \/ frame[v].id <= requests  BY DEF RecordInv, Fresh
      <4> QED  BY <1>6, <2>0, <4>1, <4>2
    <3>2. CASE v = w
      <4>1. frame'[u] = frame[u] /\ frame'[v].id = n  BY <1>1, <1>4, <3>2
      <4>2. frame[u].id # 0 /\ frame[u].id <= requests  BY <4>1 DEF RecordInv, Fresh
      <4> QED  BY <1>6, <2>0, <4>1, <4>2
    <3>3. CASE u # w /\ v # w
      BY <1>4, <3>3 DEF RecordInv, Fresh
    <3> QED  BY <3>1, <3>2, <3>3
  <2> QED  BY <2>1, <2>2, <2>3 DEF Fresh
<1>9. CopiesBelong'
  <2> SUFFICES ASSUME NEW v \in Workers PROVE FrameOK(frame[v])'
    BY DEF CopiesBelong
  <2>1. CASE v = w  BY <1>1, <1>2, <1>4, <2>1 DEF FrameOK, DepBelongs
  <2>2. CASE v # w  BY <1>4, <1>5, <2>2 DEF FrameOK, DepBelongs, RecordInv, CopiesBelong
  <2> QED  BY <2>1, <2>2
<1> QED  BY <1>7, <1>8, <1>9

(* SyncFlow writes a copy that belongs together, with the status of now.   *)
LEMMA SyncWrites ==
    ASSUME RecordInv, NEW w \in Workers, SyncFlow(w)
    PROVE  RefsBelong' /\ StatusIsCurrent'
<1> DEFINE r == frame[w].refs
<1>1. r \in RefSet /\ frame[w].op \notin Direct
  BY FrameParts DEF RecordInv, TypeInv, SyncFlow, At, WellFormed
<1>2. DepBelongs(r)  BY <1>1 DEF RecordInv, CopiesBelong, FrameOK
<1>3. flow' = [rel |-> r.rel, dep |-> r.dep, rb |-> r.rb, status |-> deriveFlowStatus(r)]
      /\ RefsExist(r)
  BY DEF SyncFlow
<1>4. flow'.rel = r.rel /\ flow'.dep = r.dep /\ flow'.rb = r.rb
      /\ flow'.status = deriveFlowStatus(r)
  BY <1>3
<1>5. UNCHANGED <<approval, releases, deploys, rollbacks>>  BY DEF SyncFlow, recordVars
<1> HIDE DEF r
<1>6. RefsBelong'  BY <1>2, <1>3, <1>4, <1>5 DEF RefsBelong, RefsExist, DepBelongs
<1>7. deriveFlowStatus(flow)' = deriveFlowStatus(r)
  BY <1>4, <1>5 DEF deriveFlowStatus
<1>8. StatusIsCurrent'  BY <1>4, <1>7 DEF StatusIsCurrent
<1> QED  BY <1>6, <1>8

(* Every step of a goroutine adds records and changes none.                *)
LEMMA StepMoves ==
    ASSUME RecordInv, TypeInv', NEW w \in Workers, Step(w)
    PROVE  Grow /\ Fresh' /\ CopiesBelong'
<1>0. FramesOK' /\ FramesOK /\ WellFormed(frame[w])
  BY FrameParts DEF TypeInv, RecordInv
<1>1. CASE CreateWorkItem(w)
  BY <1>0, <1>1, MoveMoves DEF CreateWorkItem, recordVars
<1>2. CASE CreateApproval(w)
  BY <1>0, <1>2, ToSyncMoves DEF CreateApproval, recordVars, At, WellFormed
<1>3. CASE ReadRefused(w) \/ GateRefused(w) \/ ReleaseRefused(w) \/ Abort(w) \/ SyncFlow(w)
  BY <1>0, <1>3, ReturnMoves
  DEF ReadRefused, GateRefused, ReleaseRefused, Abort, SyncFlow, storeVars, recordVars
<1>4. CASE Approve(w)
  BY <1>0, <1>4, ToSyncMoves DEF Approve, ResolveApproval, recordVars, At, WellFormed
<1>5. CASE PassGate(w)
  BY <1>0, <1>5, MoveMoves DEF PassGate, storeVars, recordVars
<1>6. CASE CreateRelease(w)
  BY <1>0, <1>6, MoveMoves DEF CreateRelease
<1>7. CASE FindTarget(w)
  <2>1. UNCHANGED <<releases, deploys, rollbacks, requests>>
    BY <1>7 DEF FindTarget, storeVars, recordVars
  <2>2. \/ Move(w, "run") /\ frame[w].refs.rel \in releases
        \/ GiveUp(w)
    BY <1>7 DEF FindTarget
  <2> QED  BY <1>0, <2>1, <2>2, MoveMoves, GiveUpMoves
<1>8. CASE RecordFault(w)
  BY <1>0, <1>8, GiveUpMoves DEF RecordFault, storeVars, recordVars
<1> QED
  BY <1>0, <1>1, <1>2, <1>3, <1>4, <1>5, <1>6, <1>7, <1>8, ReadMoves, RunMoves, DeployMoves,
     RollbackMoves
  DEF Step

(* The flow and the target after a step of a goroutine.                    *)
LEMMA StepKeeps ==
    ASSUME RecordInv, TypeInv', NEW w \in Workers, Step(w)
    PROVE  RecordInv'
<1>1. Grow /\ Fresh' /\ CopiesBelong'  BY StepMoves
<1>2. RefsBelong' /\ StatusIsCurrent'
  <2>1. CASE SyncFlow(w)  BY <2>1, SyncWrites
  <2>2. CASE ~ SyncFlow(w)
    <3>1. flow' = flow
      BY <2>2 DEF Step, CreateWorkItem, CreateApproval, ReadFlow, ReadRefused, Approve,
         ResolveApproval, PassGate, GateRefused, CreateRelease, ReleaseRefused, FindTarget,
         RunAdapter, CreateDeploy, CreateRollback, RecordFault, Abort, storeVars
    <3> QED  BY <1>1, <3>1, GrowKeepsFlow DEF RecordInv, TypeInv
  <2> QED  BY <2>1, <2>2
<1>3. DeployedIsReleased'
  <2>1. CASE \E out \in Outcomes : RunAdapter(w, out)
    BY <2>1, RunMoves DEF TypeInv
  <2>2. CASE ~ \E out \in Outcomes : RunAdapter(w, out)
    <3>1. live' = live
      BY <2>2 DEF Step, CreateWorkItem, CreateApproval, ReadFlow, ReadRefused, Approve,
         ResolveApproval, PassGate, GateRefused, CreateRelease, ReleaseRefused, FindTarget,
         SyncFlow, CreateDeploy, CreateRollback, RecordFault, Abort, envVars
    <3> QED  BY <1>1, <3>1 DEF Grow, DeployedIsReleased, RecordInv
  <2> QED  BY <2>1, <2>2
<1> QED  BY <1>1, <1>2, <1>3 DEF RecordInv

LEMMA ArriveKeeps ==
    ASSUME RecordInv, TypeInv', NEW w \in Workers, NEW op \in Ops, NEW refs \in Named(op),
           Arrive(w, op, refs)
    PROVE  RecordInv'
<1>1. Grow /\ Fresh' /\ CopiesBelong'  BY ArriveMoves DEF TypeInv
<1>2. flow' = flow /\ live' = live /\ releases' = releases
  BY DEF Arrive, storeVars, recordVars, envVars
<1>3. RefsBelong' /\ StatusIsCurrent'  BY <1>1, <1>2, GrowKeepsFlow DEF RecordInv, TypeInv
<1> QED  BY <1>1, <1>2, <1>3 DEF RecordInv, DeployedIsReleased

(* Steps outside the requests change no record and no copy.                *)
LEMMA OutsideKeeps ==
    ASSUME RecordInv, TypeInv',
           UNCHANGED <<flow, releases, deploys, rollbacks, live, requests>>,
           frame' = frame \/ frame' = [w \in Workers |-> IdleFrame]
    PROVE  RecordInv'
<1>1. Grow  BY DEF Grow
<1>2. RefsBelong' /\ StatusIsCurrent'  BY <1>1, GrowKeepsFlow DEF RecordInv, TypeInv
<1>3. Fresh' /\ CopiesBelong'
  <2>1. CASE frame' = frame
    <3>1. Fresh'  BY <2>1 DEF RecordInv, Fresh, Unused
    <3>2. CopiesBelong'  BY <2>1 DEF RecordInv, CopiesBelong, FrameOK, DepBelongs
    <3> QED  BY <3>1, <3>2
  <2>2. CASE frame' = [w \in Workers |-> IdleFrame]
    <3>1. \A w \in Workers : /\ frame'[w].id = 0 /\ frame'[w].pc = "idle"
                             /\ frame'[w].refs.dep = 0
      BY <2>2 DEF IdleFrame, Request, NoRefs
    <3>2. Fresh'  BY <3>1 DEF RecordInv, Fresh, Unused
    <3>3. CopiesBelong'  BY <3>1 DEF CopiesBelong, FrameOK, DepBelongs
    <3> QED  BY <3>2, <3>3
  <2> QED  BY <2>1, <2>2
<1> QED  BY <1>2, <1>3 DEF RecordInv, DeployedIsReleased

LEMMA InitRecords == Init => RecordInv
<1> SUFFICES ASSUME Init PROVE RecordInv  OBVIOUS
<1>1. TypeInv  BY InitTypes
<1>2. \A w \in Workers : /\ frame[w].id = 0 /\ frame[w].pc = "idle" /\ frame[w].refs.dep = 0
  BY DEF Init, IdleFrame, Request, NoRefs
<1>3. Fresh  BY <1>2 DEF Init, Fresh, Unused
<1>4. CopiesBelong  BY <1>2 DEF CopiesBelong, FrameOK, DepBelongs
<1>5. flow.rel = 0 /\ flow.dep = 0 /\ flow.rb = 0  BY DEF Init
<1>6. RefsBelong /\ StatusIsCurrent  BY <1>5 DEF RefsBelong, RefsExist, StatusIsCurrent
<1>7. DeployedIsReleased  BY DEF Init, DeployedIsReleased
<1> QED  BY <1>1, <1>3, <1>4, <1>6, <1>7 DEF RecordInv

LEMMA NextRecords == RecordInv /\ [Next]_vars => RecordInv'
<1> SUFFICES ASSUME RecordInv, [Next]_vars PROVE RecordInv'  OBVIOUS
<1>1. TypeInv'  BY NextTypes DEF RecordInv
<1>2. CASE (\E status \in {"approved", "rejected"} : Decide(status))
           \/ (\E section \in {"settled", "absent"} : Settle(section))
           \/ PutTarget \/ Restart \/ UNCHANGED vars
  <2>1. UNCHANGED <<flow, releases, deploys, rollbacks, live, requests>>
    BY <1>2 DEF Decide, ResolveApproval, Settle, PutTarget, Restart, vars, storeVars, recordVars,
                envVars
  <2>2. frame' = frame \/ frame' = [w \in Workers |-> IdleFrame]
    BY <1>2 DEF Decide, Settle, PutTarget, Restart, vars
  <2> QED  BY <1>1, <2>1, <2>2, OutsideKeeps
<1> QED  BY <1>1, <1>2, StepKeeps, ArriveKeeps DEF Next

(* The records, the copies and the flow stay right in every behaviour.     *)
THEOREM Records == Spec => []RecordInv
  BY InitRecords, NextRecords, PTL DEF Spec

(* However many founder actions overlap, what the flow refers to is        *)
(* recorded and its deploy is one of its release.                          *)
THEOREM FlowNeverMixes == Spec => []RefsBelong
<1>1. RecordInv => RefsBelong  BY DEF RecordInv
<1> QED  BY <1>1, Records, PTL

(* The status of a released flow is the one its records give now.          *)
THEOREM StatusNeverStale == Spec => []StatusIsCurrent
<1>1. RecordInv => StatusIsCurrent  BY DEF RecordInv
<1> QED  BY <1>1, Records, PTL

(* Only recorded releases get to the target.                               *)
THEOREM OnlyReleasesDeployed == Spec => []DeployedIsReleased
<1>1. RecordInv => DeployedIsReleased  BY DEF RecordInv
<1> QED  BY <1>1, Records, PTL
-----------------------------------------------------------------------------
(* The review room.  The health a restart derives is that of the last      *)
(* deploy, so its failure has to be known to the room as well.             *)
ListingInv == TypeInv /\ FailuresListed /\ (lastDeploy = "failed" => listed # {})

LEMMA RecordLists ==
    ASSUME ListingInv, NEW w \in Workers, CreateDeploy(w) \/ CreateRollback(w)
    PROVE  FailuresListed' /\ (lastDeploy' = "failed" => listed' # {})
<1> DEFINE g == frame[w]
<1>1. g.id \in Ids /\ g.out \in Outcomes
  BY RecordParts DEF ListingInv, TypeInv, CreateDeploy, CreateRollback
<1>2. listed' = IF g.out = "failed" THEN listed \cup {g.id} ELSE listed
  BY DEF CreateDeploy, CreateRollback, ListFailure
<1>3. \A i \in Ids : deploys'[i].status # deploys[i].status => i = g.id /\ deploys'[i].status = g.out
  BY <1>1 DEF CreateDeploy, CreateRollback, ListingInv, TypeInv, StoresOK
<1>4. \A i \in Ids : rollbacks'[i].status # rollbacks[i].status
                       => i = g.id /\ rollbacks'[i].status = g.out
  BY <1>1 DEF CreateDeploy, CreateRollback, ListingInv, TypeInv, StoresOK
<1>5. \A i \in Ids : "failed" \in {deploys'[i].status, rollbacks'[i].status} => i \in listed'
  BY <1>2, <1>3, <1>4 DEF ListingInv, FailuresListed
<1>6. health' = UpdateDeployHealth(g.out) /\ lastDeploy' \in {lastDeploy, g.out}
  BY DEF CreateDeploy, CreateRollback
<1>7. rejected' = rejected /\ approval' = approval
  BY DEF CreateDeploy, CreateRollback
<1>8. (health' = "degraded" => listed' # {}) /\ (lastDeploy' = "failed" => listed' # {})
  BY <1>2, <1>6 DEF UpdateDeployHealth, ListingInv
<1> QED  BY <1>5, <1>7, <1>8 DEF FailuresListed, ListingInv

LEMMA NextListing == ListingInv /\ [Next]_vars => ListingInv'
<1> SUFFICES ASSUME ListingInv, [Next]_vars PROVE ListingInv'  OBVIOUS
<1>0. TypeInv'  BY NextTypes DEF ListingInv
<1>1. ASSUME NEW status \in {"approved", "rejected"}, ResolveApproval(status) PROVE ListingInv'
  BY <1>0, <1>1 DEF ResolveApproval, EnsureItem, AutoResolve, ListingInv, FailuresListed,
                    recordVars
<1>2. CASE UNCHANGED <<rejected, deploys, rollbacks, lastDeploy, health, listed>>
           /\ (approval' = approval \/ approval = "absent")
  BY <1>0, <1>2 DEF ListingInv, FailuresListed
<1>3. CASE \E section \in {"settled", "absent"} : Settle(section)
  BY <1>0, <1>3 DEF Settle, ListingInv, FailuresListed, recordVars
<1>4. CASE Restart
  BY <1>0, <1>4 DEF Restart, UpdateDeployHealth, ListingInv, FailuresListed, recordVars, roomVars
<1>5. ASSUME NEW w \in Workers, Step(w) PROVE ListingInv'
  <2>1. CASE CreateDeploy(w) \/ CreateRollback(w)  BY <1>0, <2>1, RecordLists DEF ListingInv
  <2>2. CASE Approve(w)  BY <1>1, <2>2 DEF Approve
  <2>3. CASE ~ (CreateDeploy(w) \/ CreateRollback(w) \/ Approve(w))
    BY <1>2, <1>5, <2>3 DEF Step, CreateWorkItem, CreateApproval, ReadFlow, ReadRefused,
       PassGate, GateRefused, CreateRelease, ReleaseRefused, FindTarget, RunAdapter,
       RecordFault, SyncFlow, Abort, storeVars, recordVars, roomVars
  <2> QED  BY <2>1, <2>2, <2>3
<1>6. ASSUME NEW w \in Workers, NEW op \in Ops, NEW refs \in Named(op), Arrive(w, op, refs)
      PROVE  ListingInv'
  BY <1>2, <1>6 DEF Arrive, storeVars, recordVars, roomVars
<1>7. CASE PutTarget \/ UNCHANGED vars
  BY <1>2, <1>7 DEF PutTarget, vars, storeVars, recordVars, roomVars
<1>8. ASSUME NEW status \in {"approved", "rejected"}, Decide(status) PROVE ListingInv'
  BY <1>1, <1>8 DEF Decide
<1> QED  BY <1>3, <1>4, <1>5, <1>6, <1>7, <1>8 DEF Next

(* No open item about a rejection is out of date, and no failed deploy or  *)
(* rollback and no degraded health is unknown to the review room.          *)
THEOREM RoomIsTold == Spec => []FailuresListed
<1>1. Init => ListingInv
  BY InitTypes DEF Init, ListingInv, FailuresListed
<1>2. ListingInv => FailuresListed  BY DEF ListingInv
<1> QED  BY <1>1, <1>2, NextListing, PTL DEF Spec
============================================================================
