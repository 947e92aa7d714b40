------------------------------- MODULE Office -------------------------------
(***************************************************************************)
(* The parts of a day's work together: the workers and loops that move     *)
(* jobs, and the desk with its sessions, branches, threads and the agenda. *)
(* They meet where a tick of the loop first collects the scratch files,    *)
(* where quickwork and the workers finish "the session" when they run      *)
(* idle, where threads come of agenda items, and in the daemon's restart.  *)
(***************************************************************************)
EXTENDS Architect, Sessions, Branches, Threads, Recovery, ControlPlane

deskVars == <<agenda, sessionVars, branchVars, threadVars, recoveryVars, controlVars>>
vars == <<workVars, loopVars, deskVars>>

(* What operators ask for.                                                 *)
Asks ==
    [for : {"execute"}, id : RecordIds, of : DecisionIds, says : {""}]
    \cup [for : {"call"}, id : RecordIds, of : DecisionIds, says : CallStates]
    \cup [for : {"test"}, id : RecordIds, of : Scopes, says : {""}]

(* What a set-up says about the desk: who works there, and the risks and   *)
(* questions that come up.                                                 *)
DeskEnvironment(e) ==
    /\ e.people \subseteq Actors /\ e.sources \subseteq Sources /\ e.risks \subseteq Risks
    /\ e.branches \subseteq Branches /\ e.questions \subseteq Manual
    /\ e.agenda \subseteq Items \ (Branches \cup {"cap", "obs"})  \* of other origin
    /\ {e.recovers, e.cleans} \subseteq BOOLEAN /\ e.tools \subseteq Collectors /\ e.scratch \subseteq Stems
    /\ e.operators \subseteq Operators /\ e.decides \in BOOLEAN /\ e.adapter \in {"record", "api"}
    /\ e.legacy \in Seq(Legacy) /\ e.asks \subseteq Asks

(* Items of sessions and of merges are told apart by their texts; "*" is   *)
(* any actor, and nobody's name.                                           *)
ASSUME OfficeAssumption ==
    /\ \A e \in Environments : WorkEnvironment(e) /\ LoopEnvironment(e) /\ DeskEnvironment(e)
    /\ Branches \cup {"cap", "obs", "risks"} \subseteq Items
    /\ Branches \cap {"cap", "obs", "risks", NoBranch} = {}
    /\ RepairIds \in Seq(Jobs \cap RecordIds) /\ "*" \notin Actors
    /\ MaxRounds \in Nat

Init ==
    /\ LoopInit /\ SessionInit /\ BranchInit /\ ThreadInit /\ RecoveryInit /\ ControlInit(env.legacy)
    /\ agenda = [i \in Items |-> IF i \in env.agenda THEN "open" ELSE "none"]
-----------------------------------------------------------------------------
quietWork == UNCHANGED <<env, job, born, round, takes, unheard, file, tree, wk, runs, loopVars>>
atDesk == Event /\ quietWork

(* finishIdleQuickWorkSession: the finish takes up what the bootstrap said *)
(* when it was read; without an idle exit it just ends.                    *)
QuickReadsBootstrap ==
    /\ Quick("look") /\ packet # memory
    /\ Bootstrap
    /\ UNCHANGED <<workVars, loopVars, agenda, memory, records, pend, finishes, unsaved, last, branchVars, threadVars, recoveryVars, controlVars>>
QuickLeaves == QuickExits /\ FinishSession("quick", packet) /\ UNCHANGED <<branchVars, threadVars, recoveryVars, controlVars>>
(* finishIdleWorkerSession: a finish with nothing in it.                   *)
WorkerLeaves(w) ==
    /\ WorkerExits(w) /\ ArchSees /\ Shared
    /\ FinishSession("worker", {})
    /\ UNCHANGED <<branchVars, threadVars, recoveryVars, controlVars>>

Sitting ==
    \/ \E a \in env.people, s \in env.sources, r \in SUBSET env.risks : Checkpoint(a, s, r)
    \/ \E a \in env.people, s \in env.sources, r \in env.risks \cup {"remark"} :
            Note(a, s, {r} \cap Risks)
    \/ \E a \in env.people, r \in SUBSET env.risks : FinishSession(a, r)
    \/ env.people # {} /\ \E r \in SUBSET env.risks : ReplaceMemory(r)
    \/ env.people # {} /\ \E n \in 1 .. Len(records) : Age(n)
    \/ \E w \in Entries : EntryFails(w)
    \/ \E i \in {"cap", "obs", "risks"}, to \in Sections \cup {"none"} : SessionItemMoved(i, to)
Branching ==
    \/ \E b \in env.branches, p \in env.branches \cup {NoBranch} : CreateBranch(b, p)
    \/ \E b, into \in env.branches : MergeBranch(b, into)
    \/ env.branches # {} /\ \E b \in env.branches \cup {NoBranch} :
            CreateWorkItem(b) \/ \E p \in Proposals : CreateProposal(p, b)
    \/ \E p \in Proposals : PromoteProposal(p)
    \/ \E b \in env.branches, to \in Sections \cup {"none"} : BranchItemMoved(MergeItem(b), to)
Asking ==
    /\ env.questions # {}
    /\ \/ \E c \in Savers, q \in env.questions, want \in {"open", "ensure", "resolved"} :
            SaveBegins(c, ManualThread(q), want)
       \/ \E c \in Savers, i \in env.agenda, s \in {"open", "deferred"} :
            SaveBegins(c, RoomThread(i, s), "dismissed")
       \/ \E c \in Savers : SaveMisreads(c)
       \/ \E i \in env.agenda, to \in Sections \cup {"none"} : Move(i, to) /\ UNCHANGED threadVars

(* Agents write, commands collect, and something goes wrong.               *)
Scribbling ==
    \/ \E s \in env.scratch, f \in Copies : AgentWrites(s, f)
    \/ \E c \in env.tools : GatherStarts(c, env.cleans)
    \/ \E c \in Collectors : GatherFails(c) \/ GatherCannotRemove(c)

(* What is asked of the control plane, and what goes wrong there.          *)
Controlling ==
    \/ env.decides /\ CreatePreflight
    \/ env.decides /\ \E id \in DecisionIds, r, n \in LevelOf, s \in SizeOf, a \in BOOLEAN :
            EvaluatePolicy(id, r, n, s, a)
    \/ \E c \in env.operators, a \in env.asks :
            \/ a.for = "execute" /\ handleExecuteRunRoute(c, a.id, a.of)
            \/ a.for = "call" /\ handleGatewayCallsRoute(c, a.id, a.of, a.says)
            \/ a.for = "test" /\ handleVerificationRunRoute(c, a.id, a.of)
    \/ \E c \in env.operators : WorkIsUnknown(c) \/ Fails(c)
    \/ env.operators # {} /\ \E i \in Subjects, to \in Sections \cup {"none"} : ItemMoved(i, to)

(* The daemon restarts: requests die with it.                              *)
DaemonRestarts ==
    /\ Restart /\ SessionRestart
    /\ saver' = [c \in Savers |-> NoSave]
    /\ gather' = Interrupted
    /\ UNCHANGED <<branchVars, threads, said, blurred, scratch, texts, absorbed, lost>>
    /\ ControlRestart

Desk ==
    \/ atDesk /\ Sitting /\ UNCHANGED <<branchVars, threadVars, recoveryVars, controlVars>>
    \/ atDesk /\ Branching /\ UNCHANGED <<sessionVars, threadVars, recoveryVars, controlVars>>
    \/ atDesk /\ Asking /\ UNCHANGED <<sessionVars, branchVars, recoveryVars, controlVars>>
    \/ atDesk /\ Scribbling /\ UNCHANGED <<agenda, sessionVars, branchVars, threadVars, controlVars>>
    \/ atDesk /\ Controlling /\ UNCHANGED <<agenda, sessionVars, branchVars, threadVars, recoveryVars>>
Entering == \E w \in Entries :
    EntryWritten(w) /\ UNCHANGED <<workVars, loopVars, branchVars, threadVars, recoveryVars, controlVars>>
Saving == \E c \in Savers :
    SaveStep(c) /\ UNCHANGED <<workVars, loopVars, sessionVars, branchVars, recoveryVars, controlVars>>
Collecting(c) ==
    GatherStep(c) /\ UNCHANGED <<workVars, loopVars, agenda, sessionVars, branchVars, threadVars, controlVars>>
Serving == \E c \in env.operators :
    Serve(c, env.adapter) /\ UNCHANGED <<workVars, loopVars, agenda, sessionVars, branchVars, threadVars, recoveryVars>>

(* A tick of the architect loop: the recoveries first, then the rest.      *)
TickRecovers ==
    /\ Arch("sleep") /\ env.recovers
    /\ GatherStarts("tick", env.cleans)
    /\ UNCHANGED <<workVars, loopVars, agenda, sessionVars, branchVars, threadVars, controlVars>>
TickGoesOn ==
    /\ Tick
    /\ AtGather("tick", IF env.recovers THEN "done" ELSE "rest")
    /\ SetGather("tick", Resting)
    /\ UNCHANGED <<agenda, sessionVars, branchVars, threadVars, scratch, texts, absorbed, lost, controlVars>>
(* RunVerification of the loop leaves a record like any other, under a new *)
(* id.                                                                     *)
LoopIsHeard ==
    IF vlog' = vlog THEN UNCHANGED controlVars
    ELSE LoopVerification(RepairIds[Len(vlog')], vlog'[Len(vlog')].status)
Architecting ==
    \/ TickRecovers \/ Collecting("tick") \/ TickGoesOn
    \/ ArchitectStep /\ LoopIsHeard /\ UNCHANGED <<agenda, sessionVars, branchVars, threadVars, recoveryVars>>

Next ==
    \/ LoopNext /\ UNCHANGED deskVars
    \/ QuickReadsBootstrap \/ QuickLeaves
    \/ \E w \in Workers : WorkerLeaves(w)
    \/ DaemonRestarts
    \/ Desk \/ Entering \/ Saving \/ Serving \/ Architecting
    \/ \E c \in Collectors \ {"tick"} : Collecting(c)

Spec == Init /\ [][Next]_vars
(* The daemon's loop and the workers keep going, and a request to collect  *)
(* the corpus comes to its end; a worker may be killed, a command may      *)
(* stop anywhere, and nobody has to use the desk.                          *)
FairSpec ==
    /\ Spec
    /\ WF_vars(Architecting) /\ WF_vars(Collecting("corpus"))
    /\ \A w \in Workers : WF_vars(WorkerStep(w) /\ ArchSees /\ Shared /\ UNCHANGED deskVars)
-----------------------------------------------------------------------------
(* The shape of the office's state: no job is created twice, one finish at *)
(* a time is under way, and a merge target is on record.                   *)
OfficeTypes ==
    /\ LoopTypes /\ DeskEnvironment(env)
    /\ agenda \in [Items -> Sections \cup {"none"}]
    /\ memory \subseteq Risks /\ packet \subseteq Risks /\ unsaved \subseteq Items
    /\ pend \in {0, Len(finishes)}
    /\ \A i \in 1 .. Len(records) : records[i].id \in 1 .. Len(records) /\ records[i].actor \in Actors
    /\ \A b \in Branches : branch[b].status = "merged" <=> branch[b].into \in Branches
    /\ \A c \in Collectors : gather[c].pc \in {"rest", "scan", "look", "make", "clean", "done"}
    /\ \A s \in Stems : scratch[s] \in [Copies -> 0 .. texts]
    /\ threads \in [Ids -> {"none", "open"} \cup Settlements] /\ blurred \subseteq Ids
    /\ ControlTypes

(* Where the loop recovers scratch files, all there is in the repository   *)
(* is taken in, and removed if it cleans up, once the agents are done: in  *)
(* spite of errors, restarts and commands that do the same.                *)
ScratchIsAbsorbed ==
    <>[](env.arch /\ env.recovers =>
            \A a \in ScanGeminiArtifacts \cup ScanCorpusMarkdownArtifacts : Known(a) /\ ~ env.cleans)

-----------------------------------------------------------------------------
(* What the registry says of the workers' runs is true: successes are      *)
(* earned, failures deserved or explained, and no run is forgotten         *)
(* (runSingleWorkerJob).                                                   *)
RunsAreTrue == SuccessIsEarned /\ BlameHasACause /\ RunsAreAccountedFor

(* A packet is run, and a provider called, a second time for no other      *)
(* reason than a new dispatch, an overlap, a kill or a lost answer.        *)
SecondRunsHaveACause == RerunHasACause /\ TakenOncePerDispatch

(* The loops keep to what they found: the verification to the tree it      *)
(* tested, the repair to its failure, the promotion to its order, and      *)
(* quickwork to jobs that nobody else took (runArchitectTick,              *)
(* runQuickWorkLoop).                                                      *)
LoopsAreTrue == OfficeTypes /\ VerifiedIsTested /\ FailureGetsRepair /\ PromotedInOrder /\ FatalMeansRaced

(* A session is picked up where it was left, in one place, and a finish    *)
(* that is not in the corpus is noticed (SessionBootstrap, FinishSession). *)
SessionsResume == OneActiveRecord /\ ResumeAgreesWithMemory /\ MissingEntryIsNoticed

(* Work that comes of a branch comes of it once, and is not forgotten when *)
(* the branch is merged (PromoteProposal, MergeBranch).                    *)
BranchWorkIsKnown == PromotedHasOneWork /\ StrandedIsOnAgenda

(* Answers to open threads are kept and respected (SaveOpenThread).        *)
ThreadsAreKept == AnsweredIsStored /\ SettledIsNotAsked

(* Scratch files are taken in before they go, and once (AbsorbGemini-      *)
(* Artifacts, AbsorbCorpusMarkdown, runAntigravityIngest).                 *)
ScratchIsKept == RemovedIsAbsorbed /\ TwiceMeansRaced

(* Nobody undoes another one's work: a success falls only to a report, and *)
(* a risk leaves only by the hand of its actor.                            *)
UndoneByOwnHand == SuccessIsUndoneByReports /\ RisksLeaveByOwnHand

(* The office comes to rest: packets are run, the tree is verified and the *)
(* scratch files are taken in.                                             *)
OfficeComesToRest == WorkIsDone /\ ScratchIsAbsorbed
=============================================================================
