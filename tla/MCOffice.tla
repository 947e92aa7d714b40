------------------------------ MODULE MCOffice ------------------------------
(***************************************************************************)
(* The office for TLC: a few set-ups, each of which puts some of the parts *)
(* to work on a few jobs, files, records or threads, with as many events   *)
(* (faults, and what people and agents do) as it takes for them to meet.   *)
(***************************************************************************)
EXTENDS Office

Ans(e, s, p) == [exit |-> e, says |-> s, proof |-> p]
Good == Ans("ok", "succeeded", "good")
Both(jobs) == [w \in Workers |-> jobs]
One(jobs) == [w \in Workers |-> IF w = "w1" THEN jobs ELSE {}]
ScratchRoots == [gemini |-> {"task"}, corpus |-> {"note"}, antigravity |-> {"walk"}]
Repairs == <<"r1", "r2", "r3", "r4">>
Ask(for, id, of, says) == [for |-> for, id |-> id, of |-> of, says |-> says]

Base == [queued |-> {}, allowed |-> [j \in Jobs |-> {}], touches |-> {}, edits |-> {},
         serves |-> Both({}), provider |-> "packet", talks |-> {}, git |-> TRUE, stops |-> FALSE,
         answers |-> {Good}, limit |-> 1, events |-> 0,
         arch |-> FALSE, verifies |-> FALSE, dispatches |-> TRUE, direct |-> FALSE,
         verdicts |-> {"passed"}, context |-> << >>, promote |-> 2, quick |-> FALSE, seed |-> "none",
         people |-> {}, sources |-> {"terminal"}, risks |-> {}, branches |-> {}, questions |-> {},
         agenda |-> {}, recovers |-> FALSE, cleans |-> TRUE, tools |-> {}, scratch |-> {},
         operators |-> {}, decides |-> FALSE, asks |-> {}, adapter |-> "record", legacy |-> << >>]

Setups == {
    \* two workers at one packet
    [Base EXCEPT !.queued = {"j1"}, !.serves = Both({"j1"}), !.events = 2,
                 !.answers = {Good, Ans("ok", "succeeded", "bad"), Ans("error", "succeeded", "good")}],
    \* the scope of what a command changed
    [Base EXCEPT !.queued = {"j1"}, !.serves = One({"j1"}),
                 !.touches = Paths, !.edits = Paths, !.allowed = [j \in Jobs |-> {"in"}], !.events = 2,
                 !.answers = {Good, Ans("ok", "nothing", "good"), Ans("ok", "unclear", "good")}],
    \* calls to providers
    [Base EXCEPT !.queued = {"j1"}, !.provider = "api", !.events = 2, !.stops = TRUE,
                 !.serves = One({"j1", "j2"})],
    \* verification and repair
    [Base EXCEPT !.arch = TRUE, !.verifies = TRUE, !.verdicts = {"passed", "failed"}, !.events = 3,
                 !.edits = {"in"}, !.direct = TRUE],
    \* promotion
    [Base EXCEPT !.arch = TRUE, !.context = <<"c1", "c2", "c3">>, !.events = 2,
                 !.answers = {Good, Ans("ok", "canceled", "good")},
                 !.serves = One({"c1"})],
    \* promotion by both loops
    [Base EXCEPT !.arch = TRUE, !.context = <<"c1", "c2">>, !.quick = TRUE, !.events = 1,
                 !.serves = One({"c1"})],
    \* quickwork against workers that dispatch what is queued
    [Base EXCEPT !.quick = TRUE, !.seed = "j1", !.queued = {"j2"}, !.serves = Both({"j1", "j2"}), !.events = 1],
    \* both loops with calls to providers
    [Base EXCEPT !.arch = TRUE, !.context = <<"c1">>, !.promote = 1, !.quick = TRUE, !.provider = "api"],
    [Base EXCEPT !.quick = TRUE, !.seed = "j1", !.provider = "api"],
    \* the direct adapters
    [Base EXCEPT !.queued = {"j1"}, !.provider = "claude", !.talks = {"j1"}, !.events = 2,
                 !.serves = One({"j1"})],
    [Base EXCEPT !.quick = TRUE, !.queued = {"j2"}, !.provider = "openai"],
    [Base EXCEPT !.arch = TRUE, !.context = <<"c1">>, !.promote = 1, !.provider = "gemini", !.talks = {"c1"}],
    \* a worker beside the verification
    [Base EXCEPT !.arch = TRUE, !.verifies = TRUE, !.queued = {"j1"}, !.touches = {"in"}, !.events = 2,
                 !.serves = One({"j1"})],
    \* sessions of two people at the terminal and elsewhere
    [Base EXCEPT !.people = {"ann", "bob"}, !.risks = {"x"}, !.events = 5],
    [Base EXCEPT !.people = {"ann"}, !.sources = {"terminal", "chat"}, !.risks = {"x", "y"}, !.events = 4],
    \* a session beside the loops that finish it
    [Base EXCEPT !.people = {"ann"}, !.risks = {"x"}, !.quick = TRUE, !.serves = One({"j1"}), !.events = 4],
    \* branches and proposals
    [Base EXCEPT !.branches = {"b1", "b2"}, !.events = 6],
    \* threads, two requests at a time
    [Base EXCEPT !.questions = {"q"}, !.agenda = {"risks"}, !.events = 5],
    \* scratch files
    [Base EXCEPT !.arch = TRUE, !.recovers = TRUE, !.tools = {"gemini"}, !.scratch = {"task"}, !.events = 4],
    [Base EXCEPT !.arch = TRUE, !.recovers = TRUE, !.tools = {"corpus"}, !.scratch = {"task", "note"}, !.events = 3],
    [Base EXCEPT !.arch = TRUE, !.recovers = TRUE, !.cleans = FALSE, !.scratch = {"note", "task"}, !.events = 3],
    [Base EXCEPT !.tools = {"antigravity"}, !.scratch = {"walk"}, !.events = 4],
    \* verifications of two operators, beside those of the loop
    [Base EXCEPT !.operators = Operators, !.events = 5,
                 !.asks = {Ask("test", "k1", "kernel", ""), Ask("test", "k2", "kernel", "")}],
    [Base EXCEPT !.operators = {"o1"}, !.arch = TRUE, !.verifies = TRUE, !.verdicts = {"passed", "failed"},
                 !.edits = {"in"}, !.direct = TRUE, !.events = 3,
                 !.asks = {Ask("test", "k1", "kernel", ""), Ask("test", "k2", "architect", "")}],
    \* executes and calls under decisions whose id is used again
    [Base EXCEPT !.operators = Operators, !.decides = TRUE, !.events = 4,
                 !.asks = {Ask("execute", "k1", "d", ""), Ask("call", "k1", "d", "recorded")}],
    [Base EXCEPT !.operators = {"o1"}, !.adapter = "api", !.events = 4,
                 !.legacy = <<[id |-> "d", mode |-> "dual", decision |-> "go"]>>,
                 !.asks = {Ask("call", "k1", "d", "sent"), Ask("call", "k2", "d", "recorded")}] }

\* one worker that edits a file it may edit
ScopeSetup == {[Base EXCEPT !.queued = {"j1"}, !.touches = {"in"}, !.allowed = [j \in Jobs |-> {"in"}],
                            !.serves = One({"j1"})]}
=============================================================================
