----------------------------- MODULE AgentJobs -----------------------------
(***************************************************************************)
(* The agent-job registry of the runtime service and its dispatch lane.    *)
(*                                                                         *)
(* Several goroutines (HTTP handlers, daemon loops) run DispatchAgentJob,  *)
(* ReportAgentJob, UpdateAgentJob and CreateAgentJob at the same time.     *)
(* Each is a sequence of critical sections of Service.mu with unprotected  *)
(* work between them, so every critical section, unlocked read and         *)
(* provider call is one action here, and a call is the walk of a frame     *)
(* through program points.  ReportAgentJob may dispatch a chained job and  *)
(* DispatchAgentJob may report its own job: frame[w] is the call stack of  *)
(* worker w, at most one frame per job.                                    *)
(*                                                                         *)
(* Saving to disk is one step that succeeds or, with FaultsAllowed, fails  *)
(* and rolls the memory back; module Persistence opens that step up.       *)
(***************************************************************************)
EXTENDS Naturals, Sequences

CONSTANTS
    Jobs,            \* job ids that may come to exist
    Workers,         \* goroutines serving requests
    Role,            \* [Jobs -> role]
    ChainRules,      \* [Jobs -> rules in the payload, in order]
    Lanes,           \* [Jobs -> number of council members, 1 without council]
    Primary,         \* [Jobs -> lane of the council's primary provider]
    Outcomes,        \* statuses the gateway adapter can come back with
    DirectLLM,       \* the adapter is a direct_llm one
    CreateStatuses,  \* statuses clients put on a new job
    FounderActs,     \* review-room actions the founder uses
    AllowUpdate,     \* clients use /jobs/update
    FaultsAllowed,   \* persistLocked or an adapter may return an error
    MaxRequests,     \* bound: client requests in a behaviour
    MaxRestarts      \* bound: daemon restarts in a behaviour

Statuses == {"queued", "running", "succeeded", "failed", "canceled"}
Terminal == {"succeeded", "failed", "canceled"}
GatewayStatuses == {"sent", "failed", "recorded"}
Sections == {"absent", "open", "accepted", "deferred"}
Roles == {"planner", "designer", "implementer", "verifier"}
Rule == [on : Terminal, child : Jobs, auto : BOOLEAN]

ASSUME JobsAssumption ==
    /\ Role \in [Jobs -> Roles]
    /\ ChainRules \in [Jobs -> Seq(Rule)]
    /\ Lanes \in [Jobs -> Nat \ {0}]
    /\ Primary \in [Jobs -> Nat \ {0}]
    /\ \A j \in Jobs : Primary[j] \in 1 .. Lanes[j]
    /\ Outcomes \subseteq GatewayStatuses
    /\ CreateStatuses \subseteq Statuses
    /\ FounderActs \subseteq {"accept", "defer", "resolve"}
    /\ {DirectLLM, AllowUpdate, FaultsAllowed} \subseteq BOOLEAN
    /\ MaxRequests \in Nat /\ MaxRestarts \in Nat

(* deriveChainedJobID hashes the parent's id and every field of the rule:  *)
(* no two rules lead to the same job.                                      *)
ASSUME ChildIdsDiffer ==
    \A a, b \in Jobs : \A i \in 1 .. Len(ChainRules[a]), k \in 1 .. Len(ChainRules[b]) :
        ChainRules[a][i].child = ChainRules[b][k].child => a = b /\ i = k

VARIABLES
    job,        \* agentJobStore: job id -> what the properties tell apart
    failedItem, \* review-room section of each job's agent_job.failed item
    chainItem,  \* ... of each job's agent_job.chain_failed item
    gatewayItem,\* ... of each call's gateway.failed item
    calls,      \* gatewayStore: call id -> statuses of its records, oldest first
    policy,     \* policyStore: jobs with a recorded decision policy_job_<id>
    delivered,  \* ground truth: calls a provider really took
    frame,      \* [Workers -> [Jobs -> Frame]], the call stacks
    requests,   \* client requests so far
    restarts    \* restarts so far

roomVars == <<chainItem, gatewayItem>>
wireVars == <<gatewayItem, calls, policy, delivered>>
storeVars == <<job, failedItem, chainItem, gatewayItem, calls, policy, delivered>>
vars == <<job, failedItem, chainItem, gatewayItem, calls, policy, delivered,
          frame, requests, restarts>>

(* A job: its status and, of its result map, the dispatch_state, the       *)
(* report_status and the evidence.  "bad" evidence names a path outside    *)
(* allowed_paths, inside blocked_paths or missing from disk.               *)
DispatchStates == {"none", "starting", "failed", "packet_ready", "sent"}
Evidence == {"none", "good", "bad"}
JobRecord == [status   : Statuses \cup {"unborn"},
              dispatch : DispatchStates,
              report   : Terminal \cup {"none"},
              art      : Evidence]
NewJob(s) == [status |-> s, dispatch |-> "none", report |-> "none", art |-> "none"]
Exists(j) == job[j].status # "unborn"

(* Call ids are gateway_job_<job> or gateway_job_<job>_<provider>_<lane>:  *)
(* the same ids for every dispatch of the job.                             *)
Calls == UNION {{j} \X (1 .. Lanes[j]) : j \in Jobs}

(* A frame.  "keep" evidence: the reported result map has no evidence key. *)
ProgramPoints == {"idle", "enter", "start", "policy", "send", "record",
                  "finalize", "report", "chain", "await", "warn"}
Frame == [pc   : ProgramPoints,
          lane : Nat,                            \* council member being called
          out  : GatewayStatuses \cup {"none"},  \* what that call came back with
          rep  : Terminal \cup {"none"},         \* status being reported
          ev   : Evidence \cup {"keep"},
          auto : BOOLEAN,                        \* the dispatch's own auto-close
          rule : Nat \ {0}]                      \* chain rule in hand
IdleFrame == [pc |-> "idle", lane |-> 1, out |-> "none", rep |-> "none",
              ev |-> "keep", auto |-> FALSE, rule |-> 1]

At(w, j, p) == frame[w][j].pc = p
Free(w) == \A j \in Jobs : At(w, j, "idle")
Goto(w, j, f) == frame' = [frame EXCEPT ![w][j] = f]
Move(w, j, p) == Goto(w, j, [frame[w][j] EXCEPT !.pc = p])
-----------------------------------------------------------------------------
(* ensureReviewRoomItem: an item whose text is in any section is left as   *)
(* it is, otherwise it is added to the open agenda.                        *)
EnsureItem(section) == IF section = "absent" THEN "open" ELSE section

(* autoResolveReviewRoomItemLocked: only an open item is taken off.        *)
AutoResolve(section) == IF section = "open" THEN "absent" ELSE section

(* Mutant of UpdatedRoom: the item is not cleared.                         *)
UpdatedRoomKeeps(section, status) ==
    IF status = "failed" THEN EnsureItem(section) ELSE section

(* What updateAgentJobLocked does to the job's agent_job.failed item.      *)
UpdatedRoom(section, status) ==
    IF status = "failed" THEN EnsureItem(section) ELSE AutoResolve(section)

(* One successful updateAgentJobLocked: store, event, room, persist.       *)
SetJob(j, rec) ==
    /\ job' = [job EXCEPT ![j] = rec]
    /\ failedItem' = [failedItem EXCEPT ![j] = UpdatedRoom(@, rec.status)]

(* Mutant of AtRule: the last rule is left out.                            *)
AtRuleDropsLast(w, j) == At(w, j, "chain") /\ frame[w][j].rule < Len(ChainRules[j])

(* ApplyAgentJobChain goes through the rules in order; the frame has come  *)
(* to rule number frame[w][j].rule.                                        *)
AtRule(w, j) == At(w, j, "chain") /\ frame[w][j].rule <= Len(ChainRules[j])
RuleInHand(w, j) == ChainRules[j][frame[w][j].rule]
RuleFires(w, j) == AtRule(w, j) /\ RuleInHand(w, j).on = frame[w][j].rep
ChildOf(w, j) == RuleInHand(w, j).child

(* The call on job j returns, with or without an error, to its caller: the *)
(* chain of the parent job that awaits it, or the client.                  *)
Return(w, j, ok) ==
    frame' = [frame EXCEPT ![w] =
        [k \in Jobs |->
            LET f == frame[w][k] IN
            IF k = j THEN IdleFrame
            ELSE IF f.pc = "await" /\ ChildOf(w, k) = j
            THEN IF ok
                 THEN [f EXCEPT !.pc = "chain", !.rule = f.rule + 1]
                 ELSE [f EXCEPT !.pc = "warn"]
            ELSE f]]
-----------------------------------------------------------------------------
(* CreateAgentJob from a client: one critical section.                     *)
Create(j, s) ==
    /\ ~ Exists(j)
    /\ requests < MaxRequests
    /\ requests' = requests + 1
    /\ job' = [job EXCEPT ![j] = NewJob(s)]
    /\ UNCHANGED <<failedItem, chainItem, wireVars, frame, restarts>>

(* UpdateAgentJob from a client (/jobs/update): any status, and the result *)
(* map kept (nil in the request) or replaced by the client's.              *)
ManualUpdate(j, s, keep) ==
    /\ AllowUpdate
    /\ Exists(j)
    /\ requests < MaxRequests
    /\ requests' = requests + 1
    /\ SetJob(j, IF keep THEN [job[j] EXCEPT !.status = s] ELSE NewJob(s))
    /\ UNCHANGED <<chainItem, wireVars, frame, restarts>>

(* A client calls DispatchAgentJob.                                        *)
CallDispatch(w, j) ==
    /\ Free(w)
    /\ requests < MaxRequests
    /\ requests' = requests + 1
    /\ Goto(w, j, [IdleFrame EXCEPT !.pc = "enter"])
    /\ UNCHANGED <<storeVars, restarts>>

(* A client calls ReportAgentJob with a terminal status.                   *)
CallReport(w, j, s, ev) ==
    /\ Free(w)
    /\ requests < MaxRequests
    /\ requests' = requests + 1
    /\ Goto(w, j, [IdleFrame EXCEPT !.pc = "report", !.rep = s, !.ev = ev])
    /\ UNCHANGED <<storeVars, restarts>>
-----------------------------------------------------------------------------
(* selectCouncilPrimaryGateway over the records read back for the lanes:   *)
(* gatewayStore.get returns the first record of a call id, and that record *)
(* never changes, so it is the same at finalize as when it was read.       *)
FirstRecord(c) == calls[c][1]

Verdict(j) ==
    IF \E l \in 1 .. Lanes[j] : FirstRecord(<<j, l>>) = "sent" THEN "sent"
    ELSE FirstRecord(<<j, Primary[j]>>)

(* The unlocked agentJob.get of DispatchAgentJob may see the write of a    *)
(* critical section that is rolled back afterwards.                        *)
DirtyRead(j) ==
    /\ FaultsAllowed
    /\ \/ AllowUpdate
       \/ \E v \in Workers :
            \/ At(v, j, "report") /\ frame[v][j].rep = "failed"
            \/ At(v, j, "finalize") /\ Verdict(j) = "failed"

Dispatchable(j) == job[j].status \in {"queued", "failed"} \/ (Exists(j) /\ DirtyRead(j))

(* DispatchAgentJob, the read and check of the status, outside Service.mu. *)
(* With faults about, no provider may be ready, or the read may show a     *)
(* "running" that is rolled back.                                          *)
EnterRefused(w, j) ==
    /\ At(w, j, "enter")
    /\ job[j].status \notin {"queued", "failed"} \/ FaultsAllowed
    /\ Return(w, j, FALSE)
    /\ UNCHANGED <<storeVars, requests, restarts>>
EnterAccepted(w, j) ==
    /\ At(w, j, "enter")
    /\ Dispatchable(j)
    /\ Move(w, j, "start")
    /\ UNCHANGED <<storeVars, requests, restarts>>

Started == [status |-> "running", dispatch |-> "starting",
            report |-> "none", art |-> "none"]

(* ... then UpdateAgentJob(running): the status is not looked at again.    *)
MarkRunning(w, j) ==
    /\ At(w, j, "start")
    /\ SetJob(j, Started)
    /\ Move(w, j, "policy")
    /\ UNCHANGED <<chainItem, wireVars, requests, restarts>>

(* EvaluatePolicy records decision policy_job_<id>; the role tables give   *)
(* every role a single-mode "go", so the call is never held back.          *)
Policy(w, j) ==
    /\ At(w, j, "policy")
    /\ policy' = policy \cup {j}
    /\ Goto(w, j, [frame[w][j] EXCEPT !.pc = "send", !.lane = 1])
    /\ UNCHANGED <<job, failedItem, roomVars, calls, delivered, requests, restarts>>

(* createGatewayCallWithPayload up to the provider's answer, no lock held. *)
(* A failed call may have reached the provider all the same.               *)
Send(w, j) ==
    /\ At(w, j, "send")
    /\ j \in policy
    /\ \E out \in Outcomes :
        /\ Goto(w, j, [frame[w][j] EXCEPT !.pc = "record", !.out = out])
        /\ \/ out # "recorded" /\ delivered' = delivered \cup {<<j, frame[w][j].lane>>}
           \/ out # "sent" /\ UNCHANGED delivered
    /\ UNCHANGED <<job, failedItem, roomVars, calls, policy, requests, restarts>>

(* Mutant of Record: a failed call is recorded and not put on the agenda.  *)
RecordUnlisted(w, j) ==
    LET f == frame[w][j]
        c == <<j, f.lane>> IN
    /\ At(w, j, "record")
    /\ calls' = [calls EXCEPT ![c] = Append(@, f.out)]
    /\ Goto(w, j, IF f.lane < Lanes[j]
                  THEN [f EXCEPT !.pc = "send", !.lane = f.lane + 1]
                  ELSE [f EXCEPT !.pc = "finalize"])
    /\ UNCHANGED <<job, failedItem, roomVars, policy, delivered, requests, restarts>>

(* ... its second critical section: the record is appended, a failed call  *)
(* goes to the review room; then the next council member, if there is one. *)
Record(w, j) ==
    LET f == frame[w][j]
        c == <<j, f.lane>> IN
    /\ At(w, j, "record")
    /\ calls' = [calls EXCEPT ![c] = Append(@, f.out)]
    /\ gatewayItem' = IF f.out = "failed"
                      THEN [gatewayItem EXCEPT ![c] = EnsureItem(@)]
                      ELSE gatewayItem
    /\ Goto(w, j, IF f.lane < Lanes[j]
                  THEN [f EXCEPT !.pc = "send", !.lane = f.lane + 1]
                  ELSE [f EXCEPT !.pc = "finalize"])
    /\ UNCHANGED <<job, failedItem, chainItem, policy, delivered, requests, restarts>>

(* Mutant of Finalized: a recorded packet counts as sent.                  *)
FinalizedRecordedIsSent(verdict) ==
    [status |-> IF verdict = "failed" THEN "failed" ELSE "running",
     dispatch |-> IF verdict = "failed" THEN "failed" ELSE "sent",
     report |-> "none", art |-> "none"]

Finalized(verdict) ==
    [status   |-> IF verdict = "failed" THEN "failed" ELSE "running",
     dispatch |-> IF verdict = "recorded" THEN "packet_ready" ELSE verdict,
     report   |-> "none",
     art      |-> "none"]

(* jobAllowsDirectLLMAutoClose; whether the answer had a preview is open.  *)
AutoCloses(j) ==
    Verdict(j) = "sent" /\ DirectLLM /\ Role[j] \in {"planner", "designer"}

(* Mutant of Finalize: a failed dispatch leaves the job alone.             *)
FinalizeDropsFailure(w, j) ==
    /\ At(w, j, "finalize")
    /\ IF Verdict(j) = "failed" THEN UNCHANGED <<job, failedItem>>
                                ELSE SetJob(j, Finalized(Verdict(j)))
    /\ Return(w, j, TRUE)
    /\ UNCHANGED <<chainItem, wireVars, requests, restarts>>

(* DispatchAgentJob's last update: the verdict overwrites whatever the job *)
(* has become meanwhile, its result map included.                          *)
Finalize(w, j) ==
    /\ At(w, j, "finalize")
    /\ SetJob(j, Finalized(Verdict(j)))
    /\ \/ /\ AutoCloses(j)
          /\ Goto(w, j, [frame[w][j] EXCEPT !.pc = "report", !.rep = "succeeded",
                                            !.ev = "good", !.auto = TRUE])
       \/ Return(w, j, TRUE)
    /\ UNCHANGED <<chainItem, wireVars, requests, restarts>>

(* A save or an adapter fails on the way: memory is rolled back and        *)
(* DispatchAgentJob returns the error, leaving the job as it stands.       *)
DispatchFault(w, j) ==
    /\ FaultsAllowed
    /\ frame[w][j].pc \in {"start", "policy", "send", "record", "finalize"}
    /\ Return(w, j, FALSE)
    /\ UNCHANGED <<storeVars, requests, restarts>>
-----------------------------------------------------------------------------
NeedsArtifacts(j) == Role[j] \in {"implementer", "verifier"}

(* normalizeAgentJobReportResult: the reported keys are merged over the    *)
(* job's result map.  The auto-close brings an artifact key only, so paths *)
(* that are there already stay there.                                      *)
MergedEvidence(w, j) ==
    LET f == frame[w][j] IN
    IF f.ev = "keep" \/ (f.auto /\ job[j].art = "bad") THEN job[j].art ELSE f.ev

(* Mutant of Refused: a "succeeded" needs no artifacts.                    *)
RefusedOnlyBad(w, j) ==
    \/ ~ Exists(j)
    \/ frame[w][j].rep = "succeeded" /\ MergedEvidence(w, j) = "bad"

(* validateAgentJobSucceededEvidence, or no such job.                      *)
Refused(w, j) ==
    \/ ~ Exists(j)
    \/ /\ frame[w][j].rep = "succeeded"
       /\ \/ MergedEvidence(w, j) = "bad"
          \/ NeedsArtifacts(j) /\ MergedEvidence(w, j) = "none"

(* The auto-close ignores the error of its report.                         *)
ReportRefused(w, j) ==
    /\ At(w, j, "report")
    /\ Refused(w, j) \/ FaultsAllowed
    /\ Return(w, j, frame[w][j].auto)
    /\ UNCHANGED <<storeVars, requests, restarts>>

(* ReportAgentJob's critical section: any job, whatever its status.        *)
Report(w, j) ==
    LET f == frame[w][j] IN
    /\ At(w, j, "report")
    /\ ~ Refused(w, j)
    /\ SetJob(j, [status |-> f.rep, dispatch |-> job[j].dispatch,
                  report |-> f.rep, art |-> MergedEvidence(w, j)])
    /\ Goto(w, j, [f EXCEPT !.pc = "chain", !.rule = 1])
    /\ UNCHANGED <<chainItem, wireVars, requests, restarts>>

(* ApplyAgentJobChain: a rule for another status is passed over.           *)
ChainSkip(w, j) ==
    /\ AtRule(w, j) /\ ~ RuleFires(w, j)
    /\ Goto(w, j, [frame[w][j] EXCEPT !.rule = @ + 1])
    /\ UNCHANGED <<storeVars, requests, restarts>>

(* DispatchAgentJob for the child of the rule in hand, which is awaited.   *)
DispatchChild(w, j) ==
    frame' = [frame EXCEPT ![w][ChildOf(w, j)] = [IdleFrame EXCEPT !.pc = "enter"],
                           ![w][j].pc = "await"]

(* ... a rule whose child is new: CreateAgentJob, then the dispatch when   *)
(* the rule asks for it.                                                   *)
ChainCreate(w, j) ==
    /\ RuleFires(w, j)
    /\ ~ Exists(ChildOf(w, j))
    /\ job' = [job EXCEPT ![ChildOf(w, j)] = NewJob("queued")]
    /\ IF RuleInHand(w, j).auto
       THEN DispatchChild(w, j)
       ELSE Goto(w, j, [frame[w][j] EXCEPT !.rule = @ + 1])
    /\ UNCHANGED <<failedItem, chainItem, wireVars, requests, restarts>>

(* ... a rule whose child exists already: "job_id already exists" is not   *)
(* an error, the child is dispatched if it is queued or failed.            *)
ChainExisting(w, j) ==
    /\ RuleFires(w, j)
    /\ Exists(ChildOf(w, j))
    /\ IF RuleInHand(w, j).auto /\ job[ChildOf(w, j)].status \in {"queued", "failed"}
       THEN DispatchChild(w, j)
       ELSE Goto(w, j, [frame[w][j] EXCEPT !.rule = @ + 1])
    /\ UNCHANGED <<storeVars, requests, restarts>>

(* ... the child could not be saved: the rest of the chain is given up.    *)
ChainFault(w, j) ==
    /\ FaultsAllowed
    /\ RuleFires(w, j)
    /\ ~ Exists(ChildOf(w, j))
    /\ Move(w, j, "warn")
    /\ UNCHANGED <<storeVars, requests, restarts>>

(* recordAutomationWarning(agentJobChainFailureReviewItem).                *)
Warn(w, j) ==
    /\ At(w, j, "warn")
    /\ chainItem' = [chainItem EXCEPT ![j] = EnsureItem(@)]
    /\ Goto(w, j, [frame[w][j] EXCEPT !.pc = "chain", !.rule = Len(ChainRules[j]) + 1])
    /\ UNCHANGED <<job, failedItem, wireVars, requests, restarts>>

(* ReportAgentJob's end: the follow_up patch rewrites the current status   *)
(* and result, then the call returns without an error.                     *)
ChainDone(w, j) ==
    /\ At(w, j, "chain") /\ ~ AtRule(w, j)
    /\ Return(w, j, TRUE)
    /\ UNCHANGED <<storeVars, requests, restarts>>
-----------------------------------------------------------------------------
(* TransitionReviewRoomItem by the founder: from any section.              *)
Moved(section, act) ==
    CASE section = "absent" -> "absent"
      [] act = "accept"     -> "accepted"
      [] act = "defer"      -> "deferred"
      [] act = "resolve"    -> "absent"

Founder(act) ==
    /\ requests < MaxRequests
    /\ requests' = requests + 1
    /\ \/ \E j \in Jobs : /\ failedItem[j] # "absent"
                         /\ failedItem' = [failedItem EXCEPT ![j] = Moved(@, act)]
                         /\ UNCHANGED <<chainItem, gatewayItem>>
       \/ \E j \in Jobs : /\ chainItem[j] # "absent"
                         /\ chainItem' = [chainItem EXCEPT ![j] = Moved(@, act)]
                         /\ UNCHANGED <<failedItem, gatewayItem>>
       \/ \E c \in Calls : /\ gatewayItem[c] # "absent"
                          /\ gatewayItem' = [gatewayItem EXCEPT ![c] = Moved(@, act)]
                          /\ UNCHANGED <<failedItem, chainItem>>
    /\ UNCHANGED <<job, calls, policy, delivered, frame, restarts>>

Reclaimed(R) == [j \in Jobs |-> IF j \in R THEN [job[j] EXCEPT !.status = "failed"]
                                           ELSE job[j]]

(* The daemon stops between two critical sections and starts again:        *)
(* reclaimStaleJobsOnStartup fails every running job, ignoring errors.     *)
Restart ==
    /\ restarts < MaxRestarts
    /\ restarts' = restarts + 1
    /\ LET Running == {j \in Jobs : job[j].status = "running"} IN
       \E R \in SUBSET Running :
        /\ FaultsAllowed \/ R = Running
        /\ job' = Reclaimed(R)
        /\ failedItem' = [j \in Jobs |-> IF j \in R THEN UpdatedRoom(failedItem[j], job'[j].status)
                                                    ELSE failedItem[j]]
    /\ frame' = [w \in Workers |-> [j \in Jobs |-> IdleFrame]]
    /\ UNCHANGED <<chainItem, wireVars, requests>>
-----------------------------------------------------------------------------
Init ==
    /\ job = [j \in Jobs |-> NewJob("unborn")]
    /\ failedItem = [j \in Jobs |-> "absent"]
    /\ chainItem = [j \in Jobs |-> "absent"]
    /\ gatewayItem = [c \in Calls |-> "absent"]
    /\ calls = [c \in Calls |-> << >>]
    /\ policy = {}
    /\ delivered = {}
    /\ frame = [w \in Workers |-> [j \in Jobs |-> IdleFrame]]
    /\ requests = 0
    /\ restarts = 0

DispatchStep(w, j) ==
    \/ EnterRefused(w, j) \/ EnterAccepted(w, j) \/ MarkRunning(w, j)
    \/ Policy(w, j) \/ Send(w, j) \/ Record(w, j) \/ Finalize(w, j)
    \/ DispatchFault(w, j)
ReportStep(w, j) ==
    \/ ReportRefused(w, j) \/ Report(w, j)
    \/ ChainSkip(w, j) \/ ChainCreate(w, j) \/ ChainExisting(w, j) \/ ChainFault(w, j)
    \/ Warn(w, j) \/ ChainDone(w, j)
Step(w) == \E j \in Jobs : DispatchStep(w, j) \/ ReportStep(w, j)

(* Chained jobs have ids derived from their parent's: only the chain makes *)
(* them.                                                                   *)
ClientJobs == {j \in Jobs : \A p \in Jobs : \A i \in 1 .. Len(ChainRules[p]) :
                                ChainRules[p][i].child # j}

Client ==
    \/ \E j \in ClientJobs, s \in CreateStatuses : Create(j, s)
    \/ \E act \in FounderActs : Founder(act)
    \/ \E j \in Jobs :
        \/ \E s \in Statuses, keep \in BOOLEAN : ManualUpdate(j, s, keep)
        \/ \E w \in Workers : CallDispatch(w, j)
        \/ \E w \in Workers, s \in Terminal, ev \in Evidence \cup {"keep"} :
             CallReport(w, j, s, ev)

Next == Client \/ Restart \/ \E w \in Workers : Step(w)

(* A goroutine that has work goes on: Go schedules it, Service.mu and the  *)
(* adapters' timeouts give way.  Clients, the founder and restarts do not  *)
(* have to act.                                                            *)
Fairness == \A w \in Workers : WF_vars(Step(w))
Spec == Init /\ [][Next]_vars
FairSpec == Spec /\ Fairness
-----------------------------------------------------------------------------
(* The shape of the registry, the review-room items, the gateway store and *)
(* the call stacks.                                                        *)
TypeOK ==
    /\ job \in [Jobs -> JobRecord]
    /\ failedItem \in [Jobs -> Sections]
    /\ chainItem \in [Jobs -> Sections]
    /\ gatewayItem \in [Calls -> Sections]
    /\ calls \in [Calls -> Seq(GatewayStatuses)]
    /\ policy \subseteq Jobs
    /\ delivered \subseteq Calls
    /\ frame \in [Workers -> [Jobs -> Frame]]
    /\ requests \in Nat
    /\ restarts \in Nat

(* An open "job failed" item on the founder's agenda is about a job that   *)
(* is failed now: every way out of "failed" (a retry, a report, a client's *)
(* update) takes the item off again, whoever else is at work on the job.   *)
OpenItemMeansFailed ==
    \A j \in Jobs : failedItem[j] = "open" => job[j].status = "failed"

(* No failure gets lost: while the founder resolves nothing (and no client *)
(* creates jobs that are failed at birth), a failed job and a call with a  *)
(* failed record are in some section of the review room.                   *)
FailedIsOnAgenda ==
    ("resolve" \notin FounderActs /\ "failed" \notin CreateStatuses) =>
        /\ \A j \in Jobs : job[j].status = "failed" => failedItem[j] # "absent"
        /\ \A c \in Calls : (\E i \in 1 .. Len(calls[c]) : calls[c][i] = "failed")
                             => gatewayItem[c] # "absent"

(* A success is backed by a report with evidence that passed validation,   *)
(* in spite of dispatches, chains and restarts around it, as long as       *)
(* clients go through /jobs/report and create queued jobs.                 *)
SucceededIsEvidenced ==
    (~ AllowUpdate /\ CreateStatuses \subseteq {"queued", "failed"}) =>
        \A j \in Jobs : job[j].status = "succeeded" =>
            /\ job[j].report = "succeeded"
            /\ job[j].art # "bad"
            /\ NeedsArtifacts(j) => job[j].art = "good"

(* dispatch_state "sent" is never pretended: some provider took the call.  *)
NoPretendedSend ==
    \A j \in Jobs : job[j].dispatch = "sent" =>
        \E l \in 1 .. Lanes[j] : <<j, l>> \in delivered

(* Nothing goes to a provider without a recorded policy decision.          *)
PolicyBeforeSend == \A c \in delivered : c[1] \in policy

(* Program points at which a dispatch is under way.                        *)
InFlight == {"policy", "send", "record", "finalize"}

(* A job that is running with its dispatch just starting has a goroutine   *)
(* that will settle it; only an error on the way (FaultsAllowed) or a      *)
(* client's update can orphan it.                                          *)
NoOrphanedStart ==
    (~ FaultsAllowed /\ ~ AllowUpdate /\ "running" \notin CreateStatuses) =>
        \A j \in Jobs : job[j].status = "running" /\ job[j].dispatch = "starting" =>
            \E w \in Workers : frame[w][j].pc \in InFlight

(* Every dispatch comes to a verdict, or the restart reclaims its job.     *)
DispatchSettles ==
    \A j \in Jobs :
        (job[j].status = "running" /\ job[j].dispatch = "starting")
            ~> ~(job[j].status = "running" /\ job[j].dispatch = "starting")

(* A terminal report opens the lane its chain rules ask for, or the failed *)
(* chain is on the agenda, unless a restart came in between.               *)
ChainFollows ==
    \A j \in Jobs : \A i \in 1 .. Len(ChainRules[j]) :
        (job[j].report = ChainRules[j][i].on)
            ~> (Exists(ChainRules[j][i].child) \/ chainItem[j] # "absent" \/ restarts > 0)
============================================================================
