# Layer OS in TLA+

Layer OS is a Go program: a daemon (`cmd/layer-osd`) that keeps the state of a
one-founder company in JSON files and serves it over HTTP, a command line
(`cmd/layer-osctl`) that talks to the daemon or opens the files itself, and a
web cockpit. The runtime, `internal/runtime`, is the core: one `Service` value
with some twenty stores, one mutex `Service.mu`, and operations that change
stores, append events and save everything before they return. Around it run
loops: the architect tick, the feed sensor and the Telegram poll inside the
daemon, workers and quickwork as processes of their own. This directory models
the core and the loops, checks them with TLC and proves the safety properties
with TLAPS.

Contents: [inventory](#inventory), [modules](#modules), [runs](#runs),
[bounds](#bounds), [fairness](#fairness), [proofs](#proofs),
[only model-checked](#only-model-checked),
[what the models show of the code](#what-the-models-show-of-the-code),
[not modelled](#not-modelled), [next](#next).

## Inventory

Paths are relative to `src/`; `runtime/` is `internal/runtime/`.

| component | state | operations | correct when |
|---|---|---|---|
| agent jobs (`runtime/service_job*.go`, `agent_job.go`) | job registry with status, result map, chain rules in the payload | create, update, dispatch (with council), report, chain, promote, reclaim at start | a claimed send happened; a success has evidence; a started job has someone working on it or is reclaimed; a report opens its next lane |
| gateway adapters (`adapter*.go`, `gateway.go`) | call records | send with retries, route by provider | the recorded status is what the provider answered; a provider takes a call once unless its answer was lost |
| review room (`review_room*.go`) | items in open, accepted, deferred; seal of the file | auto-open, auto-resolve, accept, defer, resolve, audit sync | every failure is on the agenda; no open item about a failure that is over; no false drift |
| control plane (`service_control.go`, `policy.go`, `approval.go`, `execute.go`, `verify.go`) | preflights, policies, approvals, executes, calls, verifications | create, evaluate, run, resolve | nothing runs against its policy; failures are heard of |
| release, deploy, rollback, flows (`service_release.go`, `founder_actions.go`, `flow.go`) | releases, deploys, rollbacks, targets, flows that reference them | create, execute through an adapter, the four founder actions, sync | a flow's status and references tell what was deployed |
| branches, proposals (`service_branch.go`, `service_proposal.go`) | branches, proposals, work items | open, merge, propose, promote | a proposal is promoted once; work on a merged branch is on the agenda |
| event log (`event.go`, `disk_events.go`) and stream (`api/router_event_session.go`) | window, pending archive, two files; what a connection has sent | append, archive, restore, import; connect, poll | no acknowledged event is lost, repeated or moved |
| persistence (`service.go`, `disk*.go`, `snapshot.go`) | one file per domain, signatures of what was saved, seal | sweep, restore on error, load, import | a nil result is durable; a failed operation leaves no trace |
| actor scope (`service.go` `WithActor`, `api/router.go`) | current actor override, scope mutex | enter, stamp, leave | an event carries the actor of its request |
| writer lease (`disk_auth.go`), tokens and guard (`auth.go`, `api/security_guard.go`) | lease file; token hashes in memory and two files; counters of failures | acquire, share, take over; set, clear, check; throttle, report | one writer at a time; no write passes that no state of the tokens allowed |
| sessions, continuity (`service_session_bus.go`, `continuity.go`) | one memory, one line of records for each actor and source | bootstrap, note, checkpoint, finish | what is resumed is what was left; a risk leaves by its owner's hand |
| open threads (`open_thread.go`, `thread.go`) | a file, and what the room raises | save, ensure, settle | an answer is kept; a settled question is not asked again |
| observations, intake, conversation (`source_intake*.go`, `conversation.go`) | observations, drafts, decisions, lanes, notes | ingest, decide, draft, prepare, note | a source has one of each; a red source is reviewed; a lane on record is whole |
| telegram (`telegram*.go`, `cmd/layer-osd/telegram_loop.go`) | offset, notice sent last | poll, handle, notify, publish | every message is handled, in order; nothing is posted twice |
| scratch recovery (`gemini_ingest.go`, `antigravity_ingest.go`, `corpus_recovery.go`) | scratch files, observations and entries made of them | scan, absorb, remove | nothing is removed that was not taken in |
| daemon loops (`cmd/layer-osd`), workers and quickwork (`cmd/layer-osctl`) | last verification, context, the list a loop works from | tick, verify, repair, promote; scan, run, report | what is on record was earned; what is open gets done |
| knowledge, audits, cockpit, HTTP read routes, CLI read commands | none of their own | read, scan, render | (reports only) |

How the parts interact. Every mutating operation has the same frame: lock
`Service.mu`, keep the old stores, change stores, append events, let failures
open items in the review room, call `persistLocked`, and on an error put the
old stores back. What is hard is around that frame:

* operations that are several critical sections with slow work between them:
  a dispatch, a report and its chain, the founder's release and rollback, an
  execute or a provider call under a policy, the lane of a source, a note and
  what its words ask for, a tick of the architect loop;
* look first, create afterwards, with nothing held in between: intake, scratch
  recovery, threads, jobs of the two promoting loops;
* reads outside the lock and lists that are old when they are used: the status
  check of a dispatch, the stale flow a founder action writes back, the jobs a
  worker or quickwork goes through;
* a save that is twenty-odd files, any of which can fail or be the last one
  before a crash;
* identity by text or by a reused id: agenda items, gateway calls, decisions,
  proposals;
* answers that are lost: of a provider, of the Telegram server, of the daemon
  to a worker's report;
* several processes on one directory, and a lease between them.

The hazards in `PROJECT.json` list these places line by line.

## Modules

| module | models | state in the code |
|---|---|---|
| `AgentJobs` | jobs, dispatch with councils, reports, chains, agenda items of jobs, calls and chains, restart reclaim | `job` the registry; `failedItem`, `chainItem`, `gatewayItem` the review-room section of each auto-promoted item; `calls` the gateway store; `policy` the policy store; `frame` the call stacks of the goroutines; `delivered` is ground truth, what providers took |
| `ActorScope` | `WithActor`, requests with and without header, conversation notes, streams | `override`, `holder` of `actorScope`, `req` the requests in flight |
| `Evidence` | what the event surface promises: an append-only history | `history` |
| `EventLog` | the event store, `events.json`, `events_archive.json`; implements `Evidence` | `items`, `pending`, `count` the store; `archive`, `torn`, `window` the files; `undo` what an operation restores; `acked` is ground truth |
| `EventStream` | a browser that follows the stream; extends `EventLog` | what the connection has sent, what the browser received, the id it reconnects with |
| `Persistence` | the sweep over the domains and the review-room seal | `mem` the stores, `persisted` the signatures, `dirty`, `undo`, `disk`, `seal`; `acked` and `failed` are ground truth |
| `WriterLease` | processes on one directory: load, reclaim, bind, write, die; the lease file; a command that copies the directory | `phase`, `mem`, `saved`, `todo` of each process; `lease`, `disk`, `port`, `reader` |
| `WriteGate` | origin check, write tokens and their files, the bootstrap rule, the guard | `config`, `file`, `legacy`; `tracker` the counters; `req` |
| `FounderFlow` | one founder flow: the four founder actions, direct deploys and rollbacks, resolutions of its approval, restarts | `flow` its references and status; `work`, `approval`; `releases`, `deploys`, `rollbacks` the record stores; `health`; `rejected`, `listed` the review room; `frame` the copies the goroutines hold; `live` is ground truth |
| `Intake`, `IntakeView` | a source from feed or drop to decision, draft and publication lane; what the cockpit offers next | `obs`, `room`, `proposals`, `lane`; `cursor` of the sensor; `proc` the calls under way |
| `Conversation` | notes and what their words ask for (jobs, proposals, threads, items), as operators | the tables as one value |
| `TelegramBot`, `Outbound` | the polling loop, commands and free text; notices and publication, beside requests of clients | `store`, `offset`, `acked`, `batch`, `proc`, `notice`; `posts` is external |
| `JobWorker` | `layer-osctl job work`: scan, run, scope check, report; the adapters' attempts; git's view of the tree | `job`, `wk`, `file`; `runs`, `takes`, `round` are ground truth |
| `Architect` | the tick: verify, repair, promote; the quickwork loop; extends `JobWorker` | `vlog`, `context`, `arch`, `quick` |
| `Agenda` | the sections of a review-room item, and how it is opened and moved | `agenda`, or `notices` in the instance of `ControlPlane` |
| `Sessions`, `Branches`, `Threads`, `Recovery` | the desk: session bus and continuity; branches and proposals; open threads; scratch files | `memory`, `records`; `branch`, `proposal`, `work`; `threads`, `saver`; `scratch`, `absorbed`, `gather` |
| `ControlPlane` | policies, preflights, executes, provider calls and verifications of clients, and their items in the room | `decisions`, `executes`, `calls`, `checks` the stores; `notices` the room; `asked` the requests under way; `ruled` is ground truth |
| `Office` | composes `Architect`, `Sessions`, `Branches`, `Threads`, `Recovery` and `ControlPlane` | |
| `MC...` | instances for TLC | |
| `...Proofs` | theorems: `AgentJobsProofs`; `ServiceProofs` about `ActorScope` and `Persistence`; `WriteAccessProofs` about `WriterLease` and `WriteGate`; `EventLogProofs`; `FounderFlowProofs`; `IntakeProofs`; `OutboundProofs` about `TelegramBot` and `Outbound`; `OfficeProofs` about `Office` and, by itself, `ControlPlane` | |

Grain. An action is one critical section of `Service.mu`, one unlocked read, or
one call to the outside; `persistLocked` is part of the critical section and
either succeeds or puts everything back. `Persistence` opens that step up:
there an action is the write of one file. `EventLog` does the same for the two
files of the events, and `WriterLease` for the files that two processes write.
The modules meet at that interface. `ActorScope` has one action per atomic
access of the override or the lock. `Office` composes what meets in one day's
work: a tick first collects the scratch files, its verification leaves a record
of the control plane, quickwork and the workers finish "the session" when they
run idle, threads come of agenda items, and a restart of the daemon ends the
requests of all.

Data. Jobs, calls, actors, branches and domains are names. A job keeps its
status, its dispatch state and what its evidence is worth; texts, notes, times
and packets are left out. An event is its number, a store is the number or the
set of the changes in it, so that a property can say which of two values is
newer. A source or a message is a record of what the code finds in its text
(routes, colour, words that ask for something), which is what the
classification in the code leaves of it. An observation is its place in the
store with the references that are looked up. Time is an age, where the code
compares times. A working tree is git's status of each path and a count of its
changes.

How the actions follow the code (the `map` of `PROJECT.json` has the lines):

* `DispatchAgentJob`: `EnterAccepted`/`EnterRefused` (unlocked read and check),
  `MarkRunning`, `Policy` (`EvaluatePolicy`), `Send` and `Record` (the two
  halves of `createGatewayCallWithPayload`, once per council member),
  `Finalize` (verdict and update, then the report of its own success when a
  direct adapter answered), `DispatchFault` (each error return).
* `ReportAgentJob`: `Report`/`ReportRefused` with the evidence rules of
  `validateAgentJobSucceededEvidence`, then `ChainCreate`, `ChainExisting`,
  `ChainSkip`, `ChainFault`, `Warn`, `ChainDone` for `ApplyAgentJobChain`, which
  may start a dispatch of the child inside the same goroutine.
* `WithActor`: `ReadPrev`, `Enter`, `Stamp`, `Leave`.
* the sweep: `Operate` or `Import`, `SaveDomain` per file in the order of
  `persistDomains`, `SaveSeal`, `Succeed` or `Fail`; `Load` and the four ways
  to start (no seal, seal matches, seal does not match, directory moved).
* the event domain of a sweep: `AppendArchive`, `SaveWindow`, `Succeed`, with
  `Fail`, `TornWrite`, `Crash` and `Start`; a stream: `Connect`, `Poll`,
  `Disconnect`.
* a founder action: `Arrive`; `CreateWorkItem` and `CreateApproval` for a start,
  `ReadFlow` (the copy) for the others; `Approve`, or `PassGate`, `CreateRelease`
  for a release; `FindTarget`, `RunAdapter`, `CreateDeploy` or `CreateRollback`;
  `SyncFlow`, which writes the copy. `Abort` and `RecordFault` are the saves that
  fail; after `RecordFault` the action still writes the flow, with an empty id,
  as the code does. `Decide` is a resolution from Telegram or `/approvals/resolve`.
* the worker: `Poll` (the list), `NextEntry`, `DispatchQueued` (and the attempts
  of the adapter), `StartRun`, `Write`, `Finish` (scope scan and outcome),
  `Report` with its four ends (accepted, refused, over, unheard).
* the tick: `TickRecovers` and the collectors' steps, `TickGoesOn` (stamp),
  `VerificationEnds` with the record in the control plane (`LoopIsHeard`),
  `Repair`, then one candidate of the promotion after the other.
* a finish of a session: `FinishSession` (one critical section), then the two
  entries (`EntryWritten`, `EntryFails`) that cannot undo it.
* a request of the control plane: `handle...Route`, the reading (`RunExecute`,
  `GatewayAsks`), the call (`GatewaySends`) and the record (`CreateExecute`,
  `GatewayRecords`, `CreateVerification`); `Fails` is a save that is undone.

## Runs

| run | checks | shows |
|---|---|---|
| `jobs_live` | `FailedIsOnAgenda`, `SucceededIsEvidenced`, `DispatchSettles`, `ChainFollows` | two goroutines, an implementer job dispatched to a council of two and the jobs its end chains to, one restart, nothing failing: every start comes to a verdict or is reclaimed, every terminal report opens its lane or puts the broken chain on the agenda |
| `jobs_faults` | `OpenItemMeansFailed`, `NoPretendedSend` | the same with saves and adapters that fail, `/jobs/update`, jobs failed at birth, the founder resolving items |
| `actor_scopes` | `ScopedStampsAreOwn`, `WaitIsForStreams` | three goroutines with calls, notes and streams in every overlap |
| `events_streams` | `HistoryKept`, `StreamIsFaithful`, `AppendOnly` | failed saves, crashes, appends cut short, imports, a lowered retention limit, a browser that reconnects: what each of them costs the history, and what a stream shows of it; without tears, imports and lowered limits the store and its files implement `Evidence` |
| `sweep_faults` | `AckedIsDurable`, `CleanReturnMeansSaved` | operations on any set of domains, audits, imports, failed saves, crashes, drifted and moved rooms |
| `flow_actions` | `RefsBelong`, `StatusIsCurrent`, `FailuresListed` | two goroutines with starts, approvals, releases, rollbacks and direct deploys of one flow, decisions from outside, a target that is missing at first, saves that fail, restarts |
| `gate_tokens` | `AcceptedWasAllowed`, `FounderTokenIsSaved`, `GuardIsFair` | requests that read the tokens twice while others set and clear them, saves that fail, restarts, a legacy file |
| `lease_takeover` | `LeaseExcludes`, `FallbackIsNotOlder` | two daemons with one writer id and a process with another, a lease of a dead process, a copy of the directory taken meanwhile |
| `intake_lanes` | `RecordsAreSound`, `FounderDecides`, `OfferedDraftHasNoLane`, `LanesGetDone` | sensor, rss command, founder and cockpit on the same sources, with steps that fail |
| `telegram_chats` | `MessagesAreHandled`, `SaidIsOnRecord`, `RepeatsHaveACause`, `EveryMessageSettled` | the loop beside two clients, with crashes, lost answers and failed saves, for chats that are configured in different ways |
| `office_day` | `RunsAreTrue`, `SecondRunsHaveACause`, `LoopsAreTrue`, `SessionsResume`, `BranchWorkIsKnown`, `ThreadsAreKept`, `ScratchIsKept`, `FailureIsHeard`, `DecisionIsFinal`, `UndoneByOwnHand`, `OfficeComesToRest` | 26 set-ups of one specification, each with a few of the parts at work at the same time |
| `worker_scope` | `BlameIsDeserved` | expected violation: a worker that edits a tracked file inside its allowed paths is failed for a path outside them |

Where several invariants are about one promise of a component, the run checks
their conjunction; TLC's trace tells which part fails. The parts are defined
and commented one by one in the modules:

| property | parts |
|---|---|
| `HistoryKept` | `AckedIsKept`, `TornLossBounded`, `HistoryInOrder`, `CountIsLength` |
| `StreamIsFaithful` | `TimelyStreamIsComplete`, `StreamedIsCommitted` |
| `GuardIsFair` | `ThrottleIsEarned`, `ThrottleIsReported` |
| `LeaseExcludes` | `OneWriterSweeps`, `AckedLossIsTakeover`, `EmptyLeaseStopsAll` |
| `RecordsAreSound` | `OneOfEachUnlessOverlap`, `PrepMeansWholeLane` |
| `FounderDecides` | `RedIsReviewed`, `OpenedLaneClearsRed`, `SensorFollowsTheCue` |
| `LanesGetDone` | `LaneOnlyGrows`, `GoodSourcesGetLanes` |
| `MessagesAreHandled` | `NothingIsLost`, `FounderChatsOnly` |
| `SaidIsOnRecord` | `NotesAreWhole`, `ActionsAreLogged` |
| `RepeatsHaveACause` | `TakenAgainOnlyAfterCrash`, `OldDecisionOnlyReplayed`, `NoticeNotRepeated`, `PostedOnce` |
| `RunsAreTrue` | `SuccessIsEarned`, `BlameHasACause`, `RunsAreAccountedFor` |
| `SecondRunsHaveACause` | `RerunHasACause`, `TakenOncePerDispatch` |
| `LoopsAreTrue` | `VerifiedIsTested`, `FailureGetsRepair`, `PromotedInOrder`, `FatalMeansRaced` |
| `SessionsResume` | `OneActiveRecord`, `ResumeAgreesWithMemory`, `MissingEntryIsNoticed` |
| `BranchWorkIsKnown` | `PromotedHasOneWork`, `StrandedIsOnAgenda` |
| `ThreadsAreKept` | `AnsweredIsStored`, `SettledIsNotAsked` |
| `ScratchIsKept` | `RemovedIsAbsorbed`, `TwiceMeansRaced` |
| `UndoneByOwnHand` | `SuccessIsUndoneByReports`, `RisksLeaveByOwnHand` |
| `OfficeComesToRest` | `WorkIsDone`, `ScratchIsAbsorbed` |

`HistoryKept`, `GuardIsFair`, `LeaseExcludes`, `RecordsAreSound`,
`MessagesAreHandled` and `LoopsAreTrue` also contain the type invariant of their
module. The type invariants of the other modules, and `PolicyBeforeSend`,
`NoOrphanedStart`, `SavedInOrder`, `DeployedIsReleased` and `OpenIsUnanswered`,
are left to the theorems below.

Many properties have the form "it goes wrong only if ...": the code takes no
lock or claim, so that a second run, a second record or a lost answer can
happen, and the property names the only causes it can have. The causes are
ground-truth variables that no action reads.

Every property of a passing run has a mutant: a small change of one mapped
definition (a dropped guard, a missing reset, a swapped order) under which TLC
finds the property violated with the same configuration.

`worker_scope` shows a defect. `repoDirtyPathSet` trims every line of
`git status --porcelain` before `parseGitStatusPath` cuts off its first three
characters. The line of a tracked file that was edited begins with a blank, so
the path loses its first letter and lies under no allowed prefix: the worker
reports the job as failed for its scope. In `office_day` the misreading is one
of the causes `BlameHasACause` names.

## Bounds

Bounds are constants named `Max...` or the fields `events`, `crashes`, `tears`
and so on of an environment, and appear in guards only. `EventLog`, `Intake`,
`Outbound` and `Office` choose an environment in `Init` and keep it, so that one
run covers several set-ups without their product.

* Jobs: two or three jobs, two goroutines, three client requests, one restart:
  a job is created, dispatched, dispatched again by the other goroutine, and
  its child comes on top. The chain of three jobs in `jobs_live` has a rule that
  does not fire in front of one that does. The goroutines are interchangeable,
  so their permutations are a symmetry of the safety run (never of `jobs_live`).
* Actors: three goroutines is one in the scope, one that read it and waits,
  and one that stamps beside them; a longer queue repeats the second. Two
  actors, one of them the neutral default, tell a leaked name from the default.
* Events: windows of one, two and no limit, and operations of one to three
  events give overflow within one operation and over several; seven events fill
  and empty the window three times; two crashes and any number of failures come
  at any step. The streaming environment has five events, one crash and two
  connections, enough for events to pass the window between two polls.
* Flows: three requests that create records, which is release, rollback and a
  second release, or three that overlap in pairs; starts, approvals, decisions
  and restarts are not bounded. The direct rollback (`undeploy`) is left to the
  proofs, because it more than doubles the states and adds no action.
* Persistence: four domains, one of them the room in third place, so that there
  is a domain before, one after and one next to it; four changes, two crashes.
  Every non-empty set of domains is an operation.
* Gate: two requests, two actors with one token, three callers, thresholds of
  two and one, time in units that keep throttle < auth window < probe window.
* Lease: three processes, two of one writer id; two files; three changes. Two
  files show a torn copy and a half-finished sweep; three changes give each
  process one.
* Intake: one or two sources, two routes; lists of two and four where the code
  has 256 and more, so that a list can be too short; up to three requests or
  failed steps. At most twelve observations, which no set-up reaches.
* Telegram: up to three messages, two clients, one approval, up to five requests
  or faults, eight set-ups of chats, notes, jobs, notices and posts.
* Office: up to two workers, two jobs and three candidates, two rounds of
  dispatch, two people, two branches, one thread with the item it may come of,
  two stems of scratch files with two copies each, two operators with two
  records, one decision id that is used again, and up to six events (what
  people and agents do, and faults). Each set-up was given events until raising
  them made no new kind of step appear. The loop records at most as many
  verifications as `RepairIds` has names for the repair jobs that follow them.
  Items of other origin (`agenda` of an environment) have texts of their own:
  none is the item of a branch or of a finish, as the item ids of the code are.

Deadlock checking is off where a behaviour ends because its bounds are used up;
it is on in `actor_scopes`, `gate_tokens` and `lease_takeover`.

## Fairness

* `AgentJobs`: weak fairness of each goroutine's `Step`. A goroutine in a
  handler goes on when it can; adapters return, because their HTTP clients have
  timeouts. Clients, the founder and restarts are under no obligation.
* `ActorScope`: weak fairness of the steps of a handler that is not a stream,
  strong fairness of entering the scope. Go's `sync.Mutex` hands a waiter the
  lock in its starvation mode after a millisecond, so a waiter that finds the
  lock free again and again gets it. A stream's client need not go away, which
  is why `WaitIsForStreams` has its hypothesis: `handleEventStream` runs inside
  the scope, and one connected `layer-osctl event stream` with an actor header
  keeps every other request with a header waiting.
* `Intake`: weak fairness of the sensor. Its ticker keeps ticking and each step
  of a tick returns; failed steps are bounded by the environment, so that
  `GoodSourcesGetLanes` says what becomes of a source once they stop.
* `Outbound`: weak fairness of the Telegram loop, whose calls have timeouts.
* `Office`: weak fairness of the architect loop, of a corpus collection (it
  holds the lock and comes to its end) and of each worker's step. A worker may
  be killed, a command may stop anywhere, and nobody has to use the desk.

## Proofs

All theorems hold for every value of the constants that satisfies the named
assumptions of the modules: any sets of jobs, goroutines, actors, domains,
operators and ids, any chain rules and councils, and bounds of any size.

`AgentJobsProofs`. The inductive invariant `Typed` is `TypeOK` with `LaneOK`
(the council member in hand is one of the job's) and `LanesRecorded` (at the
verdict every member has a record), without which the verdict would read an
empty list. `Wired` adds `SendsAccounted`: a record that says "sent" and an
answer that is still to be recorded are about a call a provider took; this
carries the fact from `Send` over `Record` to `Finalize`. `Stacked` is
`OneActive` (a goroutine works in one frame, the others wait) and `AwaitsRule`
(what waits is a chain rule), needed because a report may dispatch a child and
a dispatch may report itself. On these rest

| theorem | property |
|---|---|
| `Typing` | `TypeOK` |
| `SendsAreReal` | `NoPretendedSend` |
| `AgendaIsCurrent` | `OpenItemMeansFailed` |
| `SuccessIsBacked` | `SucceededIsEvidenced` |
| `FailuresAreListed` | `FailedIsOnAgenda` |
| `PolicyComesFirst` | `PolicyBeforeSend` |
| `StartsAreOwned` | `NoOrphanedStart` |

The lemma `RegistrySteps` lists the ways a step can change a job and its item,
`StackSteps` the ways it can change a stack; most theorems split on those
instead of on the actions.

`ServiceProofs`, about actors: `ScopeTyping`, and `HeadersAreHonoured` for
`ScopedStampsAreOwn`. The inductive invariant adds `Scoped`: a request in its body holds the lock and
the override is its own actor. The stale overrides that leaving requests put
back are harmless to requests with a header because nobody is in a body then.

`EventLogProofs`. `HistoryStays` for `HistoryKept`, `StreamStaysFaithful` for
`StreamIsFaithful`, and the refinement `EventsAreAppended` for `AppendOnly`, for
any retention limits, batches, faults, crashes, cut appends, imports and
connections. The inductive invariant `StreamInv` (theorem `LogInvariant`) has

* `LossBounded`: there is a finite set of events outside which nothing that was
  acknowledged is missing, neither from memory nor from disk, and it has no more
  elements than there were cut appends, a piece of a line that still waits to
  spoil the next one counted in. It speaks of both places at once because a crash
  takes the one and a failed operation the other;
* `InOrder`, where nothing is meant to be lost: memory and window are increasing
  and no longer than the limit, the first occurrences in the archive are in
  order, and what store, undo copy and window add to the archive comes after it.
  Only acknowledged events and those of the operation in hand are compared: the
  events of failed operations may come back from the window behind later ones;
* `Counted`, the arithmetic behind `eventStore.count`;
* `Windowed`: the window on disk and the one in memory overlap without a gap, and
  an event that is gone from the window was followed by as many events as the
  window holds. This is what makes a poll "in time";
* `Committed` and `InTime`: what a connection will not send is what the browser
  has, and the id it reconnects with is the newest of that, which is where
  `seedSeenEvents` begins.

The refinement needs `Joined` besides: in an operation the window it found, with
its new events, is what goes to the archive followed by what stays, and archive
and window on disk always cover what other requests see (`Covers`), so that a
crash only adds to the history, namely the events of an operation that failed
after its window was saved. The lemmas about `dedupeEvents` do not use
induction: `Picked(s, P)` defines the elements at the places `P` by counting, and
that nothing is lost, repeated or moved follows from the theorems about
cardinality (`Places`, `Deduped`), that a repetition of earlier events changes
nothing (`RepeatsGo`) from a bijection between the places of first occurrences.

`ServiceProofs`, about saving: `Typing`; `AckedStays` for `AckedIsDurable`; `SweepsInOrder`
for `SavedInOrder`; `NilMeansSaved` for `CleanReturnMeansSaved`. The inductive
invariant has `Numbered` (no store, file or signature is newer than the last
change), `Ahead` (files and stores are never behind what was acknowledged) and
`Ordered` (during a sweep, the domains still dirty come after those already
saved). `NilMeansSaved` needs `Tracked`: while no save has failed, the
signatures are those of the files, and a seal that does not match waits for a
room that is dirty.

`FounderFlowProofs`. `Typing`, `FlowNeverMixes` for `RefsBelong`,
`StatusNeverStale` for `StatusIsCurrent`, `OnlyReleasesDeployed` for
`DeployedIsReleased` and `RoomIsTold` for `FailuresListed`. The typing needs
`WellFormed`, which says which requests can be at which step. `RecordInv` adds
`Fresh` (a request has recorded nothing under its number, and numbers are not
shared) and `CopiesBelong` (the deploy in a copy is recorded and is one of the
copy's release). From `Fresh` follows `Grow`: a step adds records and changes
none, so a flow or a copy that was right stays right while others record; what
`SyncFlow` writes is right because the copy is. `RoomIsTold` adds that a failed
last deploy is known to the room, which is where a restart gets the health from.

`WriteAccessProofs`, about tokens: `AcceptedIsAllowed` for `AcceptedWasAllowed`,
`FounderTokenStays` for `FounderTokenIsSaved`, `GuardStaysFair` for
`GuardIsFair`. The inductive invariant `GateInv` adds `Watched`, needed because
a request reads the tokens twice: while it is in flight, whatever the tokens of
the moment would let through is already noted as allowed, and no request is in
flight when a start reads the files. `Earned` ties the counters to the ground
truth: a counter is never ahead of the failures, and a block follows an
escalation. `FounderTokenIsSaved` is inductive with the types.

`WriteAccessProofs`, about the lease: `LeaseKeepsOut` for `LeaseExcludes` and
`FallbackReadsAcked` for `FallbackIsNotOlder`. `LeaseInv` says where a change can
be: nowhere before it is made (`Unmade`, `Opened`), in all stores of its maker or
in none (`WholeChanges`, which needs `UndoIsOlder` for the sweeps that fail), and
on file once it is swept or acknowledged, unless it was overwritten (`Written`).
`LeaseGrows` follows the lease file from absent over empty to a name; `OneId`
gives the first part of `LeaseExcludes`. The second part needs `Excluded`: with
no stolen lease and no shared id, who sweeps holds the lease, and so does every
living process whose changes others can see, so that nobody saves over changes
he has not read. `CopyHolds` carries what was acknowledged through a copy that
goes file by file.

`IntakeProofs`, about `Intake` and `IntakeView`, for any sources, routes, feeds,
limits, requests and failed steps. The inductive invariant `IInv` (theorem
`IntakeInvariant`) has

* `Records`: what a record says of the ones before it. A decision, draft or
  preparation names an intake of its source, a revision or a preparation a draft
  of the same source and account, and the routes of an intake are those its
  source names;
* `ProcsOK`: what a worker has in hand at each step. It carries a record from the
  critical section that found or made it to the one that uses it, and with it the
  cue by which the sensor chose a route;
* `Claims`: what a lookup did not find (content, intake, decision, draft,
  proposal) is still not there when the record is made, unless another worker
  has the source in hand. `Exclusive` says that this is noticed. A claim survives
  the others' steps because they are about other sources or, for a revision,
  because its draft would have been found;
* `OneRecord`, `OneDecision`, `OneSeed`, `OneProposal`: the counts of
  `OneOfEachUnlessOverlap` without counting. A new record is the first of its
  kind by the claim of the worker that makes it;
* `RoomOK`: an item is about an intake and says so, a red intake has its item
  until a draft, and no item of an opened lane is left. No step but the founder's
  own takes a red item before its source has a draft (`ResolveKeeps`);
* `LanesOK`: a preparation has all parts, kept because lanes are only raised
  (`CreatePartIs`).

Hence `RecordsStaySound` for `RecordsAreSound`, `FounderStillDecides` for
`FounderDecides`, and the action property `LanesOnlyGrow`, the safety part of
`LanesGetDone`. `OfferIsFresh` for `OfferedDraftHasNoLane` needs besides that the
order of the view has a first item (`FirstIs`, `FirstDraftIs`: a bounded set of
numbers has a greatest one) and that a list of the newest records holds whatever
is newer than one it holds (`ShownLater`), although the lists are cut.

What is assumed of the sources: a feed gives no policy colour, and an item of a
feed is never something that was dropped by hand, because the ref by which it is
looked up is not on what people drop.

`OutboundProofs`, about `TelegramBot` and `Outbound`, for any chats, texts,
approvals, messages and requests. The inductive invariant `IInv` (theorem
`ChatInvariant`) has `Basics` (which step can have what in hand), `Delivery`
(the batch is a run of updates that begins at or after the offset, everything
below the update in hand is handled to the end, and an update is begun at most
once more than there were crashes), `Logged` (a free text that became more than
a reading has its note or its warning before the loop answers), `Noticed` (two
notices under way know of each other) and `Posted` (of a draft that no overlap,
lost answer or lost record touched, one call is at the post and the count says
how far it is). Hence `MessagesStayHandled` for `MessagesAreHandled`,
`SaidStaysOnRecord` for `SaidIsOnRecord` and `RepeatsKeepTheirCause` for
`RepeatsHaveACause`. Assumed of the environments is that a message and a request
are one of those the parsers return, with an argument that fits (`WishOK`), and
that the loop is not one of the clients.

`OfficeProofs`, first about `ControlSpec`: the control plane by itself, with any
decisions on record before, a founder who moves items and the verifications of
the loop. `FailuresAreHeard` for `FailureIsHeard`, `OpenItemsAreUnanswered` for
`OpenIsUnanswered`, `DecisionsAreFinal` for `DecisionIsFinal`. The inductive
invariant `ControlInv` adds the types and `CarriesFirst`: a request that is past
its reading carries the first decision of its id, and one on its way to a
provider carries a "single" go. It is needed because the decision is read in one
critical section and used in another; it is kept because decisions are appended
and the first of an id stays the first. The two properties of the room need each
other's bookkeeping only through the order of the records: a new failure is the
last record, so that no pass is after it, and a pass leaves no open item of its
scope.

Then about the composition, for any people, workers, jobs, paths, branches,
threads and files and any environment the assumptions of `Office` allow.
`OfficeInv` has one part per component:

* `ThreadInv`: a request that has read the threads has them right but for what
  it is behind with. Hence `AnswersAreKept` for `ThreadsAreKept`: what its write
  brings back is what the ground truth calls blurred.
* `BranchInv` and `RoomInv`: a work item names a proposal on record; items of
  merges, of finishes and of other origin do not share a text, and a restart
  takes from the room only a warning that was not saved. Hence
  `BranchWorkStaysKnown` for `BranchWorkIsKnown`, and the part of
  `SessionsResume` about entries that failed.
* `SessionInv`: the records are ordered by their last update, so that the old
  ones come first, ids are not given twice, and after a note or a checkpoint the
  record written is the last one and holds what memory holds. Hence, with
  `RoomInv`, `SessionsStayResumable` for `SessionsResume`, and the action property
  `RisksAreTheirOwners`, the part of `UndoneByOwnHand` about risks. "*", the scope
  of an item that is everybody's, is assumed not to be an actor.
* `ScratchInv`: until a collector comes to a file it has read, the file holds
  what was read, is gone, or was written after the scan; a file to be removed is
  backed by an artifact taken in; and from its look-up to its record an artifact
  was unknown at the place it looked. Hence `ScratchStaysKept` for `ScratchIsKept`.
* `LoopInv`: a stamp, of the test under way or on record, that is still the
  tree's goes with a test that saw nothing else. Hence `TreeOnRecordWasTested`,
  the part of `LoopsAreTrue` about verifications.
* `WorkInv`: what a run, a worker's list and a report owe the job they are for.
  While a command runs, what it wrote is dirty unless somebody committed it, and
  what is dirty and was not before is its own or was met (`Traced`); the scan
  after the command turns this into a verdict (`Judged`). A run that was not in
  trouble is noted when it has ended and not before (`NotedOnce`), and a report
  takes the packet from the job until the next round (`Outdated`). An entry of a
  worker's list that has a packet is therefore younger than every report it
  knows of (`EntryOk`), which is what a second run from such a list would
  contradict. Calls are counted against rounds (`CallsOk`). Hence `RunsStayTrue`
  for `RunsAreTrue` and `SecondRunsKeepTheirCause` for `SecondRunsHaveACause`.
* `PlanInv`: where the promotion is. The candidates it has passed are all there
  is ahead of the next one, have their jobs and are paid for out of the limit
  (`AtCandidate`), although candidates are settled while it goes through its own
  copy of the line and the jobs it knows are those of its beginning. Repairs and
  the seed that are yet to be made are not there (`NewIds`), so that no job is
  made twice; what quickwork is about to dispatch was queued or failed when it
  chose it (`SendOk`).
* `ShapeInv`: the parts of `OfficeTypes` that no other invariant holds. With
  `PlanInv`, `WorkInv` and `LoopInv` this gives `LoopsStayTrue` for `LoopsAreTrue`.

`WorkIsUndoneByOwnHand` is the action property `UndoneByOwnHand`: of all steps
only reports change a job that has succeeded (`SuccessFalls`), and a run that is
reported a second time was in trouble, by `NotedOnce`; the part about risks is
`RisksAreTheirOwners`.

What is assumed of the environments beyond the types: finitely many jobs are
queued at the start, no candidate is listed twice, and the seed of quickwork and
the repairs are jobs of their own. Candidates are kept apart by text and source
(`appendParallelCandidate`) and threads by id (`mergeOpenThreads`); the ids of
jobs are checksums of these, of the verification's id or of the time, and are
taken not to collide.

A worker's list and the open jobs quickwork chooses from are sets of entries
with their places: about a selection from a sequence by a condition
(`SelectSeq`) the library's theorems take an operator as parameter, which the
provers cannot instantiate. TLC finds the same number of states with either.

Each part is proved in two lemmas: `...Steps` says what the whole office does to
the variables of that part, action by action, and `...Step` that this keeps the
part's invariant. In the same way `OfficeImplementsControlPlane` shows
`Spec => ControlSpec`: a verification of the loop is one the control plane
allows, a restart ends requests as it allows, and the other steps leave its
variables alone. `OfficeHearsFailures` and `OfficeKeepsDecisions` carry the two
theorems about `ControlSpec` over to the office, where `office_day` checks them.

## Only model-checked

Every invariant and every action property of a run is proved. Liveness and
ENABLED are out of the prover's reach and stay with TLC: `DispatchSettles`,
`ChainFollows`, `WaitIsForStreams`, `EveryMessageSettled`, `OfficeComesToRest`,
and `GoodSourcesGetLanes`, the liveness part of `LanesGetDone`.

What the attempts to prove `Intake` and `Outbound` changed in the models:

* the lookup of a decision can miss one for one intake and see all for another,
  so that `OneOfEachUnlessOverlap` asks of each intake and route whether the
  lists hold all there is (`DecisionsFit`), and for drafts `SeedsFit`;
* sources of one title and routes share an item, so that `RedIsReviewed` compares
  texts: drafting from one of them takes the item of the others;
* a room that an earlier session left has one item per text, the first;
* an approval or a job that is not on file is refused, which the small instance
  never met.

## What the models show of the code

Behaviours that the models have because the code does, and that the properties
above are worded around. None of them contradicts a statement of the
repository, except where it says so.

Jobs and adapters
* Every dispatch of a job uses the same call id, records are appended, and
  `gatewayStore.get` returns the first: after one failed dispatch a retry that
  the provider accepts is read back as failed.
* The status check of a dispatch is not under the lock and its verdict is
  written whatever the job has become: a success reported meanwhile goes back to
  running and loses its result, and two dispatches of one job may both start.
* The three direct adapters make one attempt, only the API adapter repeats.
* A job that fails again after the founder accepted the item of its first
  failure is not promoted again, because the text is found in the accepted
  section; this is why `FailedIsOnAgenda` speaks of any section.

Actors, gate and lease
* `WithActor` reads the override it restores before it holds the scope: two
  overlapping requests leave the first one's actor behind for everything that
  runs without a header.
* A set or clear of a scoped actor's token that could not be saved is not undone
  when the map exists already, because the old configuration shares the map;
  `FounderTokenIsSaved` speaks of the founder's token only. The escalated flag of
  the guard stays until the caller was quiet for longer than the window; errors
  of saving the guard's signals are dropped.
* The lease is never released. `NewService` writes before any lease is asked
  for, and a second daemon with the same writer id loads the stores and reclaims
  jobs before it finds the port taken. An empty lease file, left by a crash
  between its creation and its contents, stops every writer.

Persistence and events
* A sweep that fails half-way leaves the earlier files new; the restored stores
  equal the old signatures, so that later operations return nil without
  repairing them. A crash between two files leaves half an operation, within
  the order `SavedInOrder` states. A crash between the review room and its seal
  makes the next start open an integrity item although nobody rewrote the file.
* A start with a lower `LAYER_OS_EVENT_RETENTION` cuts the loaded window and
  archives nothing. `ImportSnapshot` removes the archive before the sweep writes
  the imported evidence, so that a crash between the two loses it; and it takes
  the lines a failed operation left in the archive for events, so that they can
  come back into the window and a stream shows them (the proof attempt for
  `StreamedIsCommitted` found this; the property now excludes imports).
* Events that are appended and archived between two polls never reach a stream.
  `StreamEvents` of the command line reconnects once without `Last-Event-ID`, so
  that the window repeats.

Flows and the control plane
* A release after a rollback carries the flow's rollback over and keeps the
  status "rolled_back"; an approval that overlaps a release writes the flow back
  without it, and a repeated start does the same, after which a rollback is
  refused because the flow has no release; a release whose target is missing has
  the status "released".
* A verification that began earlier and is recorded later clears the item of a
  newer failure of its scope, although the reason given is "later verification
  passed"; items that were accepted or deferred are not cleared by a pass.
* Decision ids may repeat and the first wins. With the record adapter a client
  may record a call as "sent" that was never sent. A verification's id and scope
  are looked at only after its command has run.

Intake and Telegram
* A feed source without a hint is routed to the default account on the next tick
  of the sensor, although its item in the room says that the founder picks the
  route (`runtime/review_room_auto.go:106`); `SensorFollowsTheCue` states what
  the code does. An
  excerpt that contains `policy_color=...` overrides the field. Items are known
  by title and routes, so that sources may share one; `/route` on Telegram never
  resolves the item of a sensor route. A red source keeps its attention
  "review_policy" after drafting. The disposition "observe" is never reached. The
  offered lane of a draft outside the newest 256 cannot be opened.
* `ResolveApproval` takes any decision at any time: an `/approve` that is
  delivered again after a crash overrides a younger rejection. Only an open item
  of a rejection is resolved by approving. A dispatch or review action that is
  delivered again answers "failed" though it had succeeded. A note is recognised
  as a repetition for ever. What notice was sent last is in memory only, and an
  older packet may go out after a newer one. A draft can be posted although its
  approval was rejected during the call; two overlapping calls, a lost answer or
  a failed save post twice.

Workers and loops
* Nobody claims a packet: two workers may run one. A restart reclaims jobs that a
  worker is still at, and its report lands on what the job has become.
* A failed verification whose repair job was not created is never repaired.
  Candidates whose job is over use up the promotion limit. Failed jobs are
  dispatched again at every tick without a pause.
* quickwork waits without limit, takes the first open job only, lets a seed it
  has seen hide open jobs, and ends with `log.Fatal` when a worker was faster.
  `FatalMeansRaced` speaks of the moment of the dispatch: afterwards a report may
  give the job back the status it was chosen with.

Desk
* Idle exits finish the session with empty or old lists over the memory that all
  actors share. A checkpoint beside a stale record leaves that one open, so that
  after a finish the bootstrap resumes the stale one. A new record copies the
  risks of whoever wrote the memory last. The item of open risks is known by the
  focus only and the warnings by a constant text, so that an accepted or
  deferred one hides later ones.
* A merge target may itself be merged, up to cycles with no active branch left.
  `PromoteProposal` does not look at the branch again. Proposal and work ids may
  repeat; only the first proposal of an id can be promoted.
* `SaveOpenThread` holds no lock and takes a file it cannot read for an empty
  one, which loses all threads. A POST of a settled question without its id opens
  it again, and so does a race of `EnsureOpenThread`. A "curiosity" thread that
  was dismissed returns as a "stale" one when its item is deferred. A GET search
  may write the threads file.
* A scratch file that was written between the scan and the removal, or an
  unread copy beside a `.resolved` one, is removed without being taken in. Two
  collectors may record one artifact twice, under one observation id.

## Not modelled

* Audits, knowledge and corpus projections, the ranking of texts, the
  contradiction view of the room, dashboards, the cockpit's pages and the read
  commands of the command line: they change no state and run under no
  concurrency that their result depends on.
* Wording, shortening and scoring of texts, request formats of the providers,
  worker packets and profiles: a property about them would be about strings.
* Flows that clients write themselves with `/flows`, and deploy and rollback
  records that clients create without executing them.
* The child processes a killed worker leaves behind.
* The legacy array format of the archive, taken to be converted.
* Providers, git, the Telegram server and the founder are outside the
  repository: a call comes back sent, failed or not at all, and may have been
  taken even when it failed.
* The brand home site, contracts, constitution, skills and shell scripts.

## Next

1. `SyncFlow` with references of a client beside `FounderFlow`, and the records of
   deploys that clients create without executing them.
2. The audits of the daemon, as functions of a state that is read in pieces.
