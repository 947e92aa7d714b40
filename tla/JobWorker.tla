----------------------------- MODULE JobWorker -----------------------------
(***************************************************************************)
(* `layer-osctl job work`: worker processes that poll the daemon for jobs  *)
(* whose packet is ready, run a shell command in the repository for each,  *)
(* and report what came of it.                                             *)
(*                                                                         *)
(* There is no claim.  A worker lists the jobs, goes through its copy, and *)
(* never looks at a job's status again: two workers, or one whose report   *)
(* was lost, may run the same packet.  The repository is shared as well:   *)
(* what a command changed is told from the dirty paths before and after    *)
(* it.  A dispatch is one step here (module AgentJobs opens it up), with   *)
(* the attempts of the API adapter inside.                                 *)
(***************************************************************************)
EXTENDS Naturals, Sequences, FiniteSets, SequencesExt

CONSTANTS
    Jobs,          \* job ids
    Workers,       \* worker processes
    Paths,         \* files of the repository
    Environments,  \* the set-ups to look at
    MaxRounds      \* bound: dispatches of one job

VARIABLES
    env,     \* the set-up
    job,     \* the daemon's jobs: status, dispatch_state, the run on record
    born,    \* the jobs in the order they were created
    round,   \* ground truth: dispatches of each job
    takes,   \* ground truth: calls a provider took for each job
    unheard, \* ground truth: calls it took whose answer was lost
    file,    \* git's view of each path
    tree,    \* ground truth: changes of the source files so far
    wk,      \* the workers
    runs,    \* ground truth: the executions, oldest first
    events   \* bound: what clients, developers and faults may still do

daemonVars == <<job, born, round, takes, unheard>>
workVars == <<env, job, born, round, takes, unheard, file, tree, wk, runs, events>>

Statuses == {"absent", "queued", "running", "succeeded", "failed", "canceled"}
Terminal == {"succeeded", "failed", "canceled"}
DispatchStates == {"none", "packet_ready", "sent", "failed"}
NoRun == 0

(* A set-up: the jobs there are, what each may change ({} for no           *)
(* allowed_paths), which worker serves which jobs, who the provider is     *)
(* ("packet" when nobody is called), the jobs of planners and designers,   *)
(* what commands do, and the number of events.                             *)
WorkEnvironment(e) ==
    /\ e.queued \in SUBSET Jobs /\ IsFiniteSet(e.queued)
    /\ e.allowed \in [Jobs -> SUBSET Paths]
    /\ e.touches \subseteq Paths /\ e.edits \subseteq Paths
    /\ e.serves \in [Workers -> SUBSET Jobs]
    /\ {e.git, e.stops} \subseteq BOOLEAN
    /\ e.provider \in {"packet", "api", "claude", "openai", "gemini"} /\ e.talks \subseteq Jobs
    /\ e.answers \subseteq [exit : {"ok", "error"}, proof : {"good", "bad"},
                            says : Terminal \cup {"unclear", "nothing"}]
    /\ e.limit \in Nat \ {0} /\ e.events \in Nat

Exists(j) == job[j].status # "absent"
Ready(r) == r.status = "running" /\ r.dispatch = "packet_ready"
-----------------------------------------------------------------------------
(* An attempt to call a provider is "ok"; "refused" with a status that is  *)
(* final; "busy" with 429 or 5xx; or without an answer, the call having    *)
(* reached the provider ("lost") or not ("down").                          *)
AttemptResults == {"ok", "refused", "busy", "lost", "down"}
Retries == 1
(* shouldRetryProviderStatus, and the transport errors.                    *)
TryAgain(a) == a \in {"busy", "lost", "down"}

(* The API adapter: up to Retries + 1 attempts, or none without an         *)
(* endpoint it may use.                                                    *)
apiAttempts ==
    {<< >>} \cup
    {s \in UNION {[1 .. n -> AttemptResults] : n \in 1 .. Retries + 1} :
        /\ \A i \in 1 .. Len(s) - 1 : TryAgain(s[i])
        /\ TryAgain(s[Len(s)]) => Len(s) = Retries + 1}
(* The direct adapters: one attempt, or none without a key.                *)
OneAttempt == {<< >>} \cup {<<a>> : a \in AttemptResults}
claudeAttempts == OneAttempt
openaiAttempts == OneAttempt
geminiAttempts == OneAttempt
(* multiProviderAdapter.adapterFor.                                        *)
adapterFor(provider) ==
    CASE provider = "claude" -> claudeAttempts
      [] provider = "openai" -> openaiAttempts
      [] provider = "gemini" -> geminiAttempts
      [] OTHER -> apiAttempts
CallStatus(s) == IF s # << >> /\ s[Len(s)] = "ok" THEN "sent" ELSE "failed"
HowOften(s, results) == Cardinality({i \in 1 .. Len(s) : s[i] \in results})

(* jobAllowsDirectLLMAutoClose, where the answer holds a text.             *)
AutoCloses(j) == env.provider \in {"claude", "openai", "gemini"} /\ j \in env.talks

(* DispatchAgentJob refuses a job that is neither queued nor failed.       *)
Dispatchable(j) == job[j].status \in {"queued", "failed"} /\ round[j] < MaxRounds

(* The record or packet adapter: nobody is called, a worker has to come.   *)
PacketReady == [status |-> "running", dispatch |-> "packet_ready", run |-> NoRun]

(* What a dispatch leaves: a packet that waits, or the call's outcome, and *)
(* for a planner or designer the answer may be all there is to the job.    *)
Dispatched(j, r) ==
    /\ round' = [round EXCEPT ![j] = @ + 1]
    /\ job' = [job EXCEPT ![j] = r]
    /\ \/ /\ env.provider = "packet"
          /\ r = PacketReady
          /\ UNCHANGED <<takes, unheard>>
       \/ /\ env.provider # "packet"
          /\ \E s \in adapterFor(env.provider) :
                /\ r.dispatch = CallStatus(s) /\ r.run = NoRun
                /\ \/ r.status = IF CallStatus(s) = "sent" THEN "running" ELSE "failed"
                   \/ AutoCloses(j) /\ CallStatus(s) = "sent" /\ r.status = "succeeded"
                /\ takes' = [takes EXCEPT ![j] = @ + HowOften(s, {"ok", "lost"})]
                /\ unheard' = [unheard EXCEPT ![j] = @ + HowOften(s, {"lost"})]
DispatchResults ==
    [status : {"running", "failed", "succeeded"}, dispatch : {"packet_ready", "sent", "failed"},
     run : {NoRun}]

(* CreateAgentJob.                                                         *)
CreatedJob(j) ==
    /\ job' = [job EXCEPT ![j].status = "queued"]
    /\ born' = Append(born, j)

Event == events > 0 /\ events' = events - 1
-----------------------------------------------------------------------------
(* A worker: its copy of the list, the job in hand, the run, the status it *)
(* is about to report, and whether that report has a fallback.             *)
IdleWorker == [pc |-> "poll", list |-> {}, claimed |-> 0, run |-> NoRun, rep |-> "none"]
At(w, p) == wk[w].pc = p
Set(w, r) == wk' = [wk EXCEPT ![w] = r]
Current(w) == runs[wk[w].run]
SetRun(w, r) == runs' = [runs EXCEPT ![wk[w].run] = r]

(* Mutant of Takes: any job with a packet, whatever its status.            *)
TakesPacket(r) == r.dispatch = "packet_ready"
(* What the scan takes up: running, with a packet that is ready.           *)
Takes(r) == Ready(r)

(* ListAgentJobs, by age, without what the scan skips: jobs of other roles *)
(* and jobs with nothing to do.  An entry remembers its place and the runs *)
(* reported when it was read.                                              *)
Reported == {i \in 1 .. Len(runs) : runs[i].noted > 0}
Snapshot == {[at |-> i, id |-> born[i], was |-> job[born[i]], over |-> Reported] : i \in 1 .. Len(born)}
Listed(w) ==
    {e \in Snapshot : e.id \in env.serves[w] /\ (e.was.status = "queued" \/ Takes(e.was))}
Poll(w) ==
    /\ At(w, "poll")
    /\ Listed(w) # {}
    /\ Set(w, [IdleWorker EXCEPT !.pc = "scan", !.list = Listed(w)])
    /\ UNCHANGED <<env, daemonVars, file, tree, runs, events>>

(* The next entry, unless the list or the limit is used up: then the next  *)
(* poll follows.                                                           *)
Entry(w) == CHOOSE e \in wk[w].list : \A f \in wk[w].list : e.at <= f.at
Rest(w) == wk[w].list \ {Entry(w)}
NextEntry(w, claimed) ==
    IF Rest(w) = {} \/ claimed >= env.limit THEN IdleWorker
    ELSE [IdleWorker EXCEPT !.pc = "scan", !.list = Rest(w), !.claimed = claimed]
Dropped(w) == NextEntry(w, wk[w].claimed)
Done(w) == NextEntry(w, wk[w].claimed + 1)
OutOrOn(r) == IF env.stops THEN [IdleWorker EXCEPT !.pc = "off"] ELSE r

(* A queued job is dispatched first; an error counts as a failure.  The    *)
(* answer of a dispatch that was carried out may be lost.                  *)
DispatchQueued(w) ==
    /\ At(w, "scan") /\ Entry(w).was.status = "queued"
    /\ \/ /\ Dispatchable(Entry(w).id)
          /\ \E r \in DispatchResults :
                /\ Dispatched(Entry(w).id, r)
                /\ \/ /\ Set(w, IF Takes(r)
                                THEN [wk[w] EXCEPT !.list = Rest(w) \cup {[Entry(w) EXCEPT !.was = r, !.over = Reported]}]
                                ELSE Dropped(w))
                      /\ UNCHANGED events
                   \/ Event /\ Set(w, OutOrOn(Dropped(w)))
       \/ /\ ~ Dispatchable(Entry(w).id)
          /\ Set(w, OutOrOn(Dropped(w)))
          /\ UNCHANGED <<job, round, takes, unheard, events>>
    /\ UNCHANGED <<env, born, file, tree, runs>>

(* git status --porcelain: " M path" for a tracked file that was edited,   *)
(* "?? path" for a new one.  The line is trimmed before its first three    *)
(* characters are cut off, so an edited path loses its first letter.       *)
StatusLine(p) == [path |-> p, clipped |-> file[p] = "edited"]
repoDirtyPathSet == {StatusLine(p) : p \in {q \in Paths : file[q] # "clean"}}
Within(entry, allowed) == ~ entry.clipped /\ entry.path \in allowed
ScansScope(j) == env.git /\ env.allowed[j] # {}

(* AgentRunPacket, the run's directory, the scan before the command.       *)
(* Nothing looks at the job's status.                                      *)
StartRun(w) ==
    /\ At(w, "scan") /\ Takes(Entry(w).was)
    /\ runs' = Append(runs,
         [job |-> Entry(w).id, round |-> round[Entry(w).id], over |-> Entry(w).over,
          base |-> repoDirtyPathSet, wrote |-> {}, met |-> {}, cleaned |-> {}, clipped |-> FALSE,
          answer |-> [exit |-> "none", says |-> "none", proof |-> "none"],
          blamed |-> FALSE, noted |-> 0, trouble |-> FALSE, ended |-> FALSE])
    /\ Set(w, [wk[w] EXCEPT !.pc = "run", !.run = Len(runs) + 1])
    /\ UNCHANGED <<env, daemonVars, file, tree, events>>

(* The packet could not be had, or the directory not be made.              *)
StartFails(w) ==
    /\ At(w, "scan") /\ Takes(Entry(w).was)
    /\ Event
    /\ Set(w, OutOrOn(Done(w)))
    /\ UNCHANGED <<env, daemonVars, file, tree, runs>>

(* A path changes, by the command of run me or by somebody else's hand     *)
(* (NoRun): every run under way meets it.                                  *)
Changes(me, p, to) ==
    /\ file' = [file EXCEPT ![p] = to]
    /\ tree' = tree + 1
    /\ runs' = [i \in 1 .. Len(runs) |->
        IF runs[i].ended \/ runs[i].answer.exit # "none" THEN runs[i]
        ELSE [runs[i] EXCEPT !.wrote = IF i = me THEN @ \cup {p} ELSE @,
                             !.met = IF i # me /\ to # "clean" THEN @ \cup {p} ELSE @,
                             !.cleaned = IF to = "clean" THEN @ \cup {p} ELSE @,
                             !.clipped = @ \/ to = "edited"]]
Write(w) ==
    /\ At(w, "run")
    /\ \E p \in env.touches \ Current(w).wrote :
        \E to \in IF file[p] = "clean" THEN {"edited", "new"} ELSE {file[p]} :
            Changes(wk[w].run, p, to)
    /\ UNCHANGED <<env, daemonVars, wk, events>>
-----------------------------------------------------------------------------
(* The dirty paths that were not dirty before and are not allowed.         *)
workerScopeViolations(r) ==
    IF ScansScope(r.job)
    THEN {e \in repoDirtyPathSet : e \notin r.base /\ ~ Within(e, env.allowed[r.job])}
    ELSE {}

(* Mutant of Outcome: what the result says is taken for what happened.     *)
OutcomeAsSaid(a) == IF a.says \in Terminal THEN a.says ELSE "succeeded"
(* workerStatusAndNotes, and a command that failed is never a success.     *)
Outcome(a) ==
    CASE a.exit = "ok" /\ a.says = "unclear" -> "succeeded"
      [] a.exit = "error" /\ a.says \notin {"failed", "canceled"} -> "failed"
      [] OTHER -> a.says

(* The command ends (or is killed: exit "error"); executeWorkerCommand     *)
(* scans again, reads the result and settles on a status.  Where it comes  *)
(* back with an error of its own, "failed" is reported, and no fallback.   *)
Finish(w) ==
    /\ At(w, "run")
    /\ \E a \in env.answers :
        LET blamed == workerScopeViolations(Current(w)) # {}
            own == blamed \/ a.says = "nothing" IN
        /\ SetRun(w, [Current(w) EXCEPT !.answer = a, !.blamed = blamed])
        /\ Set(w, [wk[w] EXCEPT !.pc = "report", !.rep = IF own THEN "failed" ELSE Outcome(a)])
    /\ UNCHANGED <<env, daemonVars, file, tree, events>>

(* ReportAgentJob on a job in any status; a success needs its evidence.    *)
Accepts(w) == wk[w].rep = "succeeded" => Current(w).answer.proof = "good"
Recorded(w) ==
    job' = [job EXCEPT ![Current(w).job].status = wk[w].rep, ![Current(w).job].run = wk[w].run]

(* A success that could not be reported is reported as a failure; an error *)
(* of any other report is the end of it.                                   *)
AfterError(w) ==
    IF wk[w].rep = "succeeded" THEN [wk[w] EXCEPT !.rep = "failed"]
    ELSE OutOrOn(Done(w))
ReportOver(w) == AfterError(w).pc # "report"

(* The report stands for an error: of executeWorkerCommand, or of the      *)
(* report before it.                                                       *)
TellsOfError(w) == LET r == Current(w) IN
    r.blamed \/ r.answer.says = "nothing" \/ wk[w].rep # Outcome(r.answer)
ReportAccepted(w) ==
    /\ At(w, "report") /\ Accepts(w)
    /\ Recorded(w)
    /\ SetRun(w, [Current(w) EXCEPT !.noted = @ + 1, !.ended = TRUE])
    /\ Set(w, IF TellsOfError(w) THEN OutOrOn(Done(w)) ELSE Done(w))
    /\ UNCHANGED <<env, born, round, takes, unheard, file, tree, events>>
(* ... the success is refused.                                             *)
ReportRefused(w) ==
    /\ At(w, "report") /\ ~ Accepts(w)
    /\ SetRun(w, [Current(w) EXCEPT !.ended = ReportOver(w)])
    /\ Set(w, AfterError(w))
    /\ UNCHANGED <<env, daemonVars, file, tree, events>>
(* ... it is carried out and the answer is lost, or it never arrives: a    *)
(* POST is sent once.                                                      *)
ReportUnheard(w) ==
    /\ At(w, "report")
    /\ Event
    /\ \/ Accepts(w) /\ Recorded(w)
       \/ UNCHANGED job
    /\ SetRun(w, [Current(w) EXCEPT !.noted = IF job' # job THEN @ + 1 ELSE @,
                                    !.trouble = TRUE, !.ended = ReportOver(w)])
    /\ Set(w, AfterError(w))
    /\ UNCHANGED <<env, born, round, takes, unheard, file, tree>>
Report(w) == ReportAccepted(w) \/ ReportRefused(w) \/ ReportUnheard(w)

WorkerStep(w) ==
    \/ Poll(w) \/ DispatchQueued(w) \/ StartRun(w) \/ StartFails(w)
    \/ Write(w) \/ Finish(w) \/ Report(w)
-----------------------------------------------------------------------------
(* A worker is killed; it is started again.                                *)
Kill(w) ==
    /\ ~ At(w, "off")
    /\ Event
    /\ runs' = [i \in 1 .. Len(runs) |-> IF i = wk[w].run
                    THEN [runs[i] EXCEPT !.trouble = TRUE, !.ended = TRUE] ELSE runs[i]]
    /\ Set(w, [IdleWorker EXCEPT !.pc = "off"])
    /\ UNCHANGED <<env, daemonVars, file, tree>>
StartWorker(w) ==
    /\ At(w, "off") /\ env.serves[w] # {}
    /\ Event
    /\ Set(w, IdleWorker)
    /\ UNCHANGED <<env, daemonVars, file, tree, runs>>

(* The idle exit of a worker that finds nothing to do.                     *)
WorkerExits(w) ==
    /\ At(w, "poll") /\ Listed(w) = {}
    /\ Event
    /\ Set(w, [IdleWorker EXCEPT !.pc = "off"])
    /\ UNCHANGED <<env, daemonVars, file, tree, runs>>

(* A client dispatches a job again.                                        *)
ClientDispatches(j) ==
    /\ Dispatchable(j)
    /\ Event
    /\ \E r \in DispatchResults : Dispatched(j, r)
    /\ UNCHANGED <<env, born, file, tree, wk, runs>>

(* Somebody edits, adds or commits a file.                                 *)
Develop ==
    /\ Event
    /\ \E p \in env.edits : \E to \in IF file[p] = "clean" THEN {"edited", "new"} ELSE {"clean"} :
            Changes(NoRun, p, to)
    /\ UNCHANGED <<env, daemonVars, wk>>

(* The daemon restarts: reclaimStaleJobsOnStartup fails the running jobs,  *)
(* those a worker is at included.                                          *)
Reclaimed == [j \in Jobs |-> IF job[j].status = "running"
                             THEN [job[j] EXCEPT !.status = "failed"] ELSE job[j]]

WorkInit ==
    /\ env \in Environments
    /\ job = [j \in Jobs |-> [status |-> IF j \in env.queued THEN "queued" ELSE "absent",
                              dispatch |-> "none", run |-> NoRun]]
    /\ born = SetToSeq(env.queued)
    /\ round = [j \in Jobs |-> 0] /\ takes = [j \in Jobs |-> 0] /\ unheard = [j \in Jobs |-> 0]
    /\ file = [p \in Paths |-> "clean"]
    /\ tree = 1
    /\ wk = [w \in Workers |-> [IdleWorker EXCEPT !.pc = IF env.serves[w] = {} THEN "off" ELSE "poll"]]
    /\ runs = << >>
    /\ events = env.events
=============================================================================
