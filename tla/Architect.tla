----------------------------- MODULE Architect -----------------------------
(***************************************************************************)
(* The loops that keep jobs coming: the daemon's architect loop, which     *)
(* verifies the source tree when it has changed, opens a repair job for a  *)
(* failed verification and promotes open context into jobs; and            *)
(* `layer-osctl quickwork --loop`, which resolves one next action at a     *)
(* time, submits it and waits for its end.                                 *)
(***************************************************************************)
EXTENDS JobWorker, Functions

CONSTANT RepairIds     \* job ids of repairs, one for each verification on record (a bound)

VARIABLES
    vlog,     \* verifications of the loop: the stamp noted, the trees the tests saw, the status
    context,  \* the open candidates (parallel candidates and open threads), best first
    arch,     \* the architect loop
    quick,    \* the quickwork loop
    dropped,  \* ground truth: failed verifications the loop could not go on from
    order     \* ground truth: candidates promoted, each with those ahead of it

loopVars == <<vlog, context, arch, quick, dropped, order>>

(* What a set-up has to say about the loops.                               *)
LoopEnvironment(e) ==
    /\ {e.arch, e.verifies, e.dispatches, e.direct} \subseteq BOOLEAN
    /\ e.verdicts \subseteq {"passed", "failed"}
    /\ e.context \in Seq(Jobs) /\ e.promote \in Nat \ {0}
    /\ e.quick \in BOOLEAN /\ e.seed \in Jobs \cup {"none"}
    /\ IsInjective(e.context) /\ IsInjective(RepairIds)
    /\ e.seed \notin e.queued \cup ToSet(e.context)  \* a job of its own, and so is a repair
    /\ ToSet(RepairIds) \cap (e.queued \cup ToSet(e.context) \cup {e.seed}) = {}

Asleep == [pc |-> IF env.arch THEN "sleep" ELSE "off", stamp |-> 0, seen |-> {}, todo |-> << >>, known |-> << >>, left |-> 0]
Arch(p) == arch.pc = p
SetArch(r) == arch' = r
quietDaemon == UNCHANGED <<env, file, tree, wk, runs>>
-----------------------------------------------------------------------------
(* lastArchitectVerificationStamp.                                         *)
LastStamp == IF vlog = << >> THEN 0 ELSE vlog[Len(vlog)].stamp

(* PromoteContextJobs reads the candidates and the jobs once, and goes     *)
(* through them until the limit is used up.                                *)
Going(r) == IF r.todo = << >> \/ r.left = 0 THEN Asleep ELSE r
Promotion == Going([Asleep EXCEPT !.pc = "each", !.todo = context, !.known = job, !.left = env.promote])

(* repoVerificationStamp: a hash of the names, sizes and times of all      *)
(* source files, which tells any two states of the tree apart.             *)
repoVerificationStamp == tree

(* Mutant of Stale: the loop takes the tree for verified after any test.   *)
StaleOnce == env.verifies /\ vlog = << >>
(* The tree has changed since the stamp on record was taken.               *)
Stale == env.verifies /\ repoVerificationStamp # LastStamp

(* A tick, once its recoveries are over (module Recovery): the stamp of    *)
(* the tree is taken, and the tests begin unless it is the one on record.  *)
Tick ==
    /\ Arch("sleep")
    /\ SetArch(IF Stale THEN [Asleep EXCEPT !.pc = "test", !.stamp = repoVerificationStamp, !.seen = {tree}]
                        ELSE Promotion)
    /\ UNCHANGED <<workVars, vlog, context, quick, dropped, order>>

(* While the tests run the tree may change under them.                     *)
ArchSees == IF Arch("test") THEN arch' = [arch EXCEPT !.seen = @ \cup {tree'}] ELSE UNCHANGED arch

(* Mutant of StampNoted: the stamp is taken when the tests are over.       *)
StampNotedLate == repoVerificationStamp
StampNoted == arch.stamp

(* After a failure the tick goes on with the repair, otherwise with the    *)
(* promotion.                                                              *)
AfterVerdict(v) == IF v = "failed" THEN [Asleep EXCEPT !.pc = "repair"] ELSE Promotion

(* RunVerification ends and its record is saved.                           *)
VerificationEnds ==
    /\ Arch("test") /\ Len(vlog) < Len(RepairIds)
    /\ \E v \in env.verdicts :
        /\ vlog' = Append(vlog, [stamp |-> StampNoted, seen |-> arch.seen, status |-> v])
        /\ SetArch(AfterVerdict(v))
    /\ UNCHANGED <<workVars, context, quick, dropped, order>>
(* ... its record cannot be saved: the next tick verifies again.           *)
VerificationLost ==
    /\ Arch("test")
    /\ Event
    /\ SetArch(Promotion)
    /\ quietDaemon
    /\ UNCHANGED <<daemonVars, vlog, context, quick, dropped, order>>

(* ensureArchitectVerificationRepairJob: a job of its own for every failed *)
(* verification, left queued for a worker when its provider is direct_llm. *)
RepairId == RepairIds[Len(vlog)]
Repair ==
    /\ Arch("repair")
    /\ CreatedJob(RepairId)
    /\ SetArch(IF env.dispatches /\ ~ env.direct
               THEN [Asleep EXCEPT !.pc = "send", !.todo = <<RepairId>>] ELSE Asleep)
    /\ quietDaemon
    /\ UNCHANGED <<round, takes, unheard, events, vlog, context, quick, dropped, order>>
RepairFails ==
    /\ Arch("repair")
    /\ Event
    /\ dropped' = dropped \cup {Len(vlog)}
    /\ SetArch(Asleep)
    /\ quietDaemon
    /\ UNCHANGED <<daemonVars, vlog, context, quick, order>>

(* DispatchAgentJob for the head of the list; an error is noted down and   *)
(* the loop goes on.                                                       *)
Sent(j) ==
    \/ Dispatchable(j) /\ \E r \in DispatchResults : Dispatched(j, r)
    \/ ~ Dispatchable(j) /\ UNCHANGED <<job, round, takes, unheard>>
Send ==
    /\ Arch("send")
    /\ Sent(Head(arch.todo))
    /\ SetArch(Going([arch EXCEPT !.pc = "each", !.todo = Tail(@)]))
    /\ quietDaemon
    /\ UNCHANGED <<born, events, vlog, context, quick, dropped, order>>

(* Every candidate uses up the limit, also one whose job is long over.     *)
Counted(j) == arch.left - 1

After(j, sends) ==
    IF sends THEN [arch EXCEPT !.left = Counted(j), !.pc = "send"]
    ELSE Going([arch EXCEPT !.left = Counted(j), !.todo = Tail(@)])
Retried(s) == env.dispatches /\ s \in {"queued", "failed"}

(* ensurePromotedContextJob, a job that was there when the jobs were read, *)
(* or that somebody has made since.                                        *)
EnsureExisting ==
    LET c == Head(arch.todo)
        s == IF arch.known[c].status # "absent" THEN arch.known[c].status ELSE job[c].status IN
    /\ Arch("each")
    /\ s # "absent"
    /\ SetArch(After(c, Retried(s)))
    /\ UNCHANGED <<workVars, vlog, context, quick, dropped, order>>

(* Candidates of the packet ahead of c.                                    *)
Ahead(c) == {b \in ToSet(context) :
                \E i, k \in 1 .. Len(env.context) : i < k /\ env.context[i] = b /\ env.context[k] = c}
Missing(c) == arch.known[c].status = "absent" /\ ~ Exists(c)
(* ... a new one is created.                                               *)
EnsureNew ==
    LET c == Head(arch.todo) IN
    /\ Arch("each")
    /\ Missing(c)
    /\ CreatedJob(c)
    /\ order' = order \cup {[job |-> c, ahead |-> Ahead(c), made |-> {b \in Jobs : Exists(b)},
                             limit |-> env.promote]}
    /\ SetArch(After(c, env.dispatches))
    /\ quietDaemon
    /\ UNCHANGED <<round, takes, unheard, events, vlog, context, quick, dropped>>
(* ... and an error of the create ends the promotion.                      *)
EnsureFails ==
    /\ Arch("each")
    /\ Missing(Head(arch.todo))
    /\ Event
    /\ SetArch(Asleep)
    /\ quietDaemon
    /\ UNCHANGED <<daemonVars, vlog, context, quick, dropped, order>>

ArchitectStep ==
    \/ VerificationEnds \/ VerificationLost \/ Repair \/ RepairFails
    \/ Send \/ EnsureExisting \/ EnsureNew \/ EnsureFails

(* Somebody settles an open thread or a candidate.                         *)
Settle ==
    /\ Event
    /\ \E i \in 1 .. Len(context) : context' = RemoveAt(context, i)
    /\ quietDaemon
    /\ UNCHANGED <<daemonVars, vlog, arch, quick, dropped, order>>

(* The daemon restarts, in whatever step the loop is.                      *)
Restart ==
    /\ Event
    /\ job' = Reclaimed
    /\ dropped' = IF Arch("repair") THEN dropped \cup {Len(vlog)} ELSE dropped
    /\ SetArch(Asleep)
    /\ quietDaemon
    /\ UNCHANGED <<born, round, takes, unheard, vlog, context, quick, order>>
-----------------------------------------------------------------------------
(* quickwork --loop: where it is, the job it is at and how that stood when *)
(* it was chosen, and the seeds that were submitted.                       *)
Quick(p) == quick.pc = p
SetQuick(r) == quick' = r
NoStanding == <<0, "absent">>
Standing(j) == <<round[j], job[j].status>>
quietQuick == UNCHANGED <<env, file, tree, wk, runs, vlog, context, arch, dropped>>
Seed == IF env.seed # "none" THEN {env.seed} ELSE {}

(* listOpenAgentJobs(..., 1): the jobs that are not over, by their places; *)
(* the first is taken.                                                     *)
Open == {i \in 1 .. Len(born) : job[born[i]].status \in {"queued", "running", "failed"}}

(* The next action: a seed of the agenda that was not submitted, which is  *)
(* created; a seed that was leaves nothing but a promotion, and without    *)
(* one the first open job is taken up.                                     *)
QuickSeed ==
    /\ Quick("look") /\ Seed # {} /\ Seed \cap quick.seen = {}
    /\ CreatedJob(env.seed)
    /\ SetQuick([quick EXCEPT !.pc = "send", !.job = env.seed, !.was = <<0, "queued">>, !.seen = @ \cup Seed])
    /\ quietQuick
    /\ UNCHANGED <<round, takes, unheard, events, order>>

QuickOpenNext(s) == IF s = "running" THEN "wait" ELSE "send"
QuickOpen ==
    /\ Quick("look") /\ Seed = {} /\ Open # {}
    /\ LET j == born[Min(Open)] IN
       SetQuick([quick EXCEPT !.pc = QuickOpenNext(job[j].status), !.job = j, !.was = Standing(j)])
    /\ quietQuick
    /\ UNCHANGED <<daemonVars, events, order>>

(* PromoteContextJobs(1, true): the best candidate that has a job or gets  *)
(* one, and is dispatched unless it runs or is over.                       *)
QuickPromotes ==
    /\ Quick("look") /\ Seed \subseteq quick.seen /\ (Seed = {} => Open = {})
    /\ context # << >>
    /\ LET c == Head(context) IN
       /\ IF Exists(c) THEN UNCHANGED <<job, born, order>>
          ELSE /\ CreatedJob(c)
               /\ order' = order \cup {[job |-> c, ahead |-> Ahead(c), limit |-> 1,
                                        made |-> {b \in Jobs : Exists(b)}]}
       /\ SetQuick(CASE job[c].status \in {"absent", "queued", "failed"} ->
                            [quick EXCEPT !.pc = "try", !.job = c]
                     [] job[c].status = "running" -> [quick EXCEPT !.pc = "wait", !.job = c]
                     [] OTHER -> [quick EXCEPT !.pc = "idle"])
    /\ quietQuick
    /\ UNCHANGED <<round, takes, unheard, events>>
(* ... a dispatch that fails there leaves the loop without a target.       *)
QuickTries ==
    /\ Quick("try")
    /\ Sent(quick.job)
    /\ SetQuick([quick EXCEPT !.pc = IF round' # round THEN "wait" ELSE "idle"])
    /\ quietQuick
    /\ UNCHANGED <<born, events, order>>

(* Its own dispatch: an error ends the process (log.Fatal), the job stays. *)
QuickSends ==
    /\ Quick("send")
    /\ Sent(quick.job)
    /\ SetQuick([quick EXCEPT !.pc = IF round' # round THEN "wait" ELSE "fatal"])
    /\ quietQuick
    /\ UNCHANGED <<born, events, order>>

(* waitForQuickWorkTerminalJob: no time limit.                             *)
QuickWaits ==
    /\ Quick("wait") /\ job[quick.job].status \in Terminal
    /\ SetQuick([quick EXCEPT !.pc = "look", !.job = "none", !.was = NoStanding])
    /\ quietQuick
    /\ UNCHANGED <<daemonVars, events, order>>

(* Nothing to do: it looks again, until the idle exit.                     *)
Nothing == Quick("look") /\ context = << >> /\ Seed \subseteq quick.seen /\ (Seed = {} => Open = {})
QuickIdles(pc) ==
    /\ Quick("idle") \/ (Nothing /\ pc = "off")
    /\ SetQuick([quick EXCEPT !.pc = pc, !.job = "none", !.was = NoStanding])
    /\ quietQuick
    /\ UNCHANGED <<daemonVars, events, order>>
QuickLooksAgain == QuickIdles("look")
QuickExits == QuickIdles("off")

QuickStep ==
    \/ QuickSeed \/ QuickOpen \/ QuickPromotes \/ QuickTries \/ QuickSends \/ QuickWaits
    \/ QuickLooksAgain
-----------------------------------------------------------------------------
LoopInit ==
    /\ WorkInit
    /\ vlog = << >>
    /\ context = env.context
    /\ arch = Asleep
    /\ quick = [pc |-> IF env.quick THEN "look" ELSE "off", job |-> "none", was |-> NoStanding, seen |-> {}]
    /\ dropped = {}
    /\ order = {}

Shared == UNCHANGED <<vlog, context, quick, dropped, order>>
LoopNext ==
    \/ \E w \in Workers : (WorkerStep(w) \/ Kill(w) \/ StartWorker(w)) /\ ArchSees /\ Shared
    \/ \E j \in Jobs : ClientDispatches(j) /\ UNCHANGED loopVars
    \/ Develop /\ ArchSees /\ Shared
    \/ Settle \/ QuickStep
-----------------------------------------------------------------------------
(* The shape of the daemon's jobs, the workers, the runs and the loops.    *)
LoopTypes ==
    /\ WorkEnvironment(env) /\ LoopEnvironment(env)
    /\ job \in [Jobs -> [status : Statuses, dispatch : DispatchStates, run : 0 .. Len(runs)]]
    /\ born \in Seq(Jobs) /\ IsInjective(born)
    /\ file \in [Paths -> {"clean", "edited", "new"}]
    /\ \A w \in Workers : wk[w].pc \in {"off", "poll", "scan", "run", "report"}
    /\ arch.pc \in {"off", "sleep", "test", "repair", "send", "each"}
    /\ quick.pc \in {"off", "look", "send", "try", "wait", "idle", "fatal"}
    /\ events \in 0 .. env.events

(* A success on record was earned by the run that reported it: its command *)
(* ended well, did not say otherwise, brought its evidence, and changed    *)
(* nothing outside allowed_paths but what was dirty before it or what      *)
(* somebody committed while it ran (executeWorkerCommand).  Without a run  *)
(* only a planner's or designer's job succeeds, when a provider took its   *)
(* call (jobAllowsDirectLLMAutoClose).                                     *)
SuccessIsEarned ==
    \A j \in Jobs : job[j].status = "succeeded" =>
        IF job[j].run = NoRun THEN AutoCloses(j) /\ takes[j] > unheard[j]
        ELSE LET r == runs[job[j].run] IN
            /\ r.job = j
            /\ r.answer.exit = "ok" /\ r.answer.says \in {"succeeded", "unclear"}
            /\ r.answer.proof = "good"
            /\ ScansScope(j) =>
                r.wrote \subseteq env.allowed[j] \cup r.cleaned \cup {e.path : e \in r.base}

(* A run that kept to its allowed paths is failed for its scope only when  *)
(* somebody else changed a file meanwhile, or when a tracked file was      *)
(* edited: the scan misreads those (repoDirtyPathSet).                     *)
BlameHasACause ==
    \A i \in 1 .. Len(runs) : runs[i].blamed =>
        \/ ~ (runs[i].wrote \subseteq env.allowed[runs[i].job])
        \/ runs[i].met # {} \/ runs[i].clipped

(* A job that failed for its scope did change, or saw somebody change, a   *)
(* path outside allowed_paths, as the error it is failed with says.        *)
BlameIsDeserved ==
    \A i \in 1 .. Len(runs) : runs[i].blamed =>
        ~ (runs[i].wrote \cup runs[i].met \subseteq env.allowed[runs[i].job])

(* No worker starts a packet from a list it read after a report on that    *)
(* packet: without a claim, a second run of it takes two workers at the    *)
(* same time, or a first run that was killed or not heard of               *)
(* (runJobWorkerScan).                                                     *)
RerunHasACause ==
    \A i, k \in 1 .. Len(runs) :
        i < k /\ runs[i].job = runs[k].job /\ runs[i].round = runs[k].round =>
            i \notin runs[k].over

(* A run that was not killed and whose reports were answered is on record: *)
(* also a success that the daemon refuses, which is reported as a failure  *)
(* instead (runSingleWorkerJob).                                           *)
RunsAreAccountedFor ==
    \A i \in 1 .. Len(runs) : runs[i].ended /\ ~ runs[i].trouble => runs[i].noted = 1

(* A provider takes a job's call once for each dispatch, except for calls  *)
(* it took whose answer was lost, which the adapter repeats.               *)
TakenOncePerDispatch == \A j \in Jobs : takes[j] <= round[j] + unheard[j]

(* The loop's last word is about the tree as it is: when the stamp on      *)
(* record is the tree's, the tests saw that tree and no other, though the  *)
(* tree may change while they run (maybeRunArchitectVerification).         *)
VerifiedIsTested ==
    env.verifies /\ LastStamp = tree => vlog[Len(vlog)].seen = {tree}

(* Every failed verification has its repair job, unless the daemon stopped *)
(* or the job could not be saved between the two: the loop never comes     *)
(* back to a verification on record (runArchitectTick).                    *)
FailureGetsRepair ==
    \A i \in 1 .. Len(vlog) : vlog[i].status = "failed" =>
        Exists(RepairIds[i]) \/ i \in dropped \/ (Arch("repair") /\ i = Len(vlog))

(* Context is promoted best first: a candidate gets a job only when those  *)
(* ahead of it that are still open have theirs, and while fewer than the   *)
(* limit are ahead, for also those whose job is over count                 *)
(* (PromoteContextJobs).                                                   *)
PromotedInOrder ==
    \A o \in order : o.ahead \subseteq o.made /\ Cardinality(o.ahead) < o.limit

(* quickwork dies of a refused dispatch only when somebody else was faster *)
(* with the job it had chosen: a worker that dispatches what is queued, or *)
(* that reports late (quickWorkSubmit, quickWorkDispatchExisting).         *)
FatalMeansRaced ==
    Quick("send") /\ ~ Dispatchable(quick.job) =>
        Standing(quick.job) # quick.was \/ round[quick.job] = MaxRounds

(* A success is undone only by the report of another run, or by the        *)
(* fallback of its own run after the answer of its report was lost; no     *)
(* loop, with however old a list, dispatches it again.                     *)
SuccessIsUndoneByReports ==
    [][\A j \in Jobs : job[j].status = "succeeded" /\ job'[j] # job[j] =>
        /\ job'[j].status \in Terminal
        /\ job'[j].run # job[j].run \/ (job[j].run # NoRun /\ runs[job[j].run].trouble)]_<<workVars, loopVars>>

(* No packet waits that a living worker serves, and the stamp on record is *)
(* the tree's.                                                             *)
Settled ==
    /\ \A j \in Jobs, w \in Workers : Ready(job[j]) /\ j \in env.serves[w] => At(w, "off")
    /\ env.arch /\ env.verifies => LastStamp = tree

(* Once clients, developers and faults leave it alone, the office comes to *)
(* rest: every packet that is ready is run and reported, in spite of       *)
(* reports that went missing, and the tree as it is now gets verified.     *)
WorkIsDone == <>[]Settled
=============================================================================
