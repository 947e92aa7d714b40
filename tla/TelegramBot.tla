---------------------------- MODULE TelegramBot ----------------------------
(***************************************************************************)
(* The Telegram loop of the daemon and the requests beside it.             *)
(*                                                                         *)
(* The loop asks the server for updates from an offset it only keeps in    *)
(* memory, handles them one by one and answers each; the next request      *)
(* confirms what was handled.  A message becomes a command, an action read *)
(* from free text (by the model or by rules), or a conversation note.      *)
(* Requests of the cockpit and the CLI run the same operations, and many   *)
(* operations end by telling the founder what needs attention.             *)
(*                                                                         *)
(* A process is at: think (free text), act (one operation), log (the note  *)
(* about an action), talk (a note with automation), dispatch, notify, send *)
(* and record (the notice), reply.                                         *)
(***************************************************************************)
EXTENDS Conversation

CONSTANTS
    Environments, \* dm, room, ops, brand: the chats of the settings; groups: chats that are
                  \* groups; assistant: a model is configured; dispatch: notes dispatch their
                  \* planner jobs; alerts: notices are on; inbox: the messages that are sent;
                  \* requests: what clients ask for; events: bound, requests and faults
    Clients

None == "none"
Unset == ""
Wish(op, arg) == [op |-> op, arg |-> arg]
Nothing == Wish(None, None)
Reads == {"status", "list", "handoff", "meta"}
Decisions == {"approved", "rejected", "dispatch", "accept", "defer", "resolve", "drop", "list"}
Private == {"note", "handoff"}

(* A note has a text, a point of the agenda is made of one.                *)
WishOK(w) == /\ w.op \in {"note", "text"} => w.arg \in Texts
             /\ w.op = "agenda" => w.arg \in {"agenda"} \X Texts

ASSUME ClientAssumption == "bot" \notin Clients
ASSUME WishAssumption == \A t \in Texts : \A w \in {About[t].says} \cup About[t].reads : WishOK(w)
ASSUME EnvironmentAssumption ==
    \A e \in Environments :
        /\ Unset \notin e.groups
        /\ Len(e.inbox) \in Nat /\ DOMAIN e.inbox = 1 .. Len(e.inbox)
        /\ \A m \in {e.inbox[i] : i \in DOMAIN e.inbox} :
              /\ m.wish.op \in Decisions \cup Private \cup {"status", "text"} /\ WishOK(m.wish)
              /\ m.chat # Unset
        /\ \A w \in e.requests : WishOK(w)
        /\ e.events \in Nat

VARIABLES
    env,     \* the environment
    store,   \* the tables of the runtime, in memory and on disk
    offset,  \* the offset of the loop, in memory
    acked,   \* the server forgets the updates below it
    batch,   \* the updates the last request brought, not yet taken
    proc,    \* what the loop and the clients are doing
    notice,  \* the notice sent last, in memory; None once the window passed
    events,  \* requests and faults so far
    truth    \* ground truth: begun: how often each update was taken; settled: updates
             \* handled to the end; by: the latest update that decided an approval;
             \* warned: updates whose reply says that no note was kept; ruled: subjects
             \* resolved since they were raised last; doubled: a notice went out twice
             \* although no notices were under way together; crashes: how often the daemon died

botVars == <<env, store, offset, acked, batch, proc, notice, events, truth>>

Procs == {"bot"} \cup Clients
Updates == DOMAIN env.inbox
IdleProc == [at |-> "idle", update |-> 0, op |-> None, arg |-> None, text |-> None, ok |-> TRUE,
             then |-> "idle", told |-> <<None>>, raced |-> FALSE]
Set(p, r) == proc' = [proc EXCEPT ![p] = r]
Event == events < env.events /\ events' = events + 1
-----------------------------------------------------------------------------
(* telegram_routes.go: the room with the dm's id gets no alerts.           *)
ConversationChat == IF env.dm # Unset THEN env.dm
                    ELSE IF env.room \in env.groups THEN Unset ELSE env.room
AlertChat == IF env.room = env.dm THEN Unset ELSE env.room
Route(chat) ==
    CASE chat = ConversationChat -> "founder"
      [] chat = AlertChat -> "founder"
      [] chat = env.ops -> "ops"
      [] chat = env.brand -> "brand"
      [] OTHER -> "unmapped"

(* telegramFounderConversationAllowed.                                     *)
Talks(chat) == /\ Route(chat) = "founder"
               /\ IF ConversationChat = Unset THEN chat \notin env.groups
                  ELSE chat = ConversationChat

(* Where HandleMessageWithContext sends message m.  Reading and refusing   *)
(* both end in a reply.                                                    *)
Handled(m) ==
    LET source == m.wish.op = "text" /\ Route(m.chat) = "founder" /\ ~Talks(m.chat)
                  /\ About[m.wish.arg].source
    IN  CASE source -> "act"
          [] m.wish.op \in Decisions \ Reads /\ Route(m.chat) = "founder" -> "act"
          [] m.wish.op = "note" /\ Talks(m.chat) -> "talk"
          [] m.wish.op = "text" /\ Talks(m.chat) -> "think"
          [] OTHER -> "reply"
-----------------------------------------------------------------------------
(* The loop.                                                               *)

(* Mutant of fetchUpdates: the updates it returns are confirmed at once.   *)
fetchUpdatesEarly ==
    /\ proc["bot"].at = "idle" /\ batch = << >>
    /\ batch' = [i \in 1 .. Len(env.inbox) + 1 - offset |-> offset + i - 1]
    /\ acked' = Len(env.inbox) + 1
    /\ UNCHANGED <<env, store, offset, proc, notice, events, truth>>

(* fetchUpdates: the server drops what is below the offset and returns the *)
(* rest.  What was sent is on the server from the start.                   *)
fetchUpdates ==
    /\ proc["bot"].at = "idle" /\ batch = << >>
    /\ LET from == IF offset > acked THEN offset ELSE acked IN
       /\ acked' = from
       /\ batch' = [i \in 1 .. Len(env.inbox) + 1 - from |-> from + i - 1]
    /\ UNCHANGED <<env, store, offset, proc, notice, events, truth>>

(* The answer is lost: the loop waits and asks again.                      *)
fetchFails ==
    /\ proc["bot"].at = "idle" /\ batch = << >>
    /\ Event
    /\ acked' \in {acked, IF offset > acked THEN offset ELSE acked}
    /\ UNCHANGED <<env, store, offset, batch, proc, notice, truth>>

(* HandleMessageWithContext begins on update u.                            *)
Begun(u) ==
    LET m == env.inbox[u] IN
    [IdleProc EXCEPT !.at = Handled(m), !.update = u, !.then = "reply",
                     !.op = IF m.wish.op = "text" THEN "drop" ELSE m.wish.op, !.arg = m.wish.arg,
                     !.text = IF m.wish.op \in {"text", "note"} THEN m.wish.arg ELSE None]
TakeNext(u, rest, next) ==
    /\ proc["bot"].at = "idle"
    /\ Set("bot", Begun(u))
    /\ offset' = next
    /\ batch' = rest
    /\ truth' = [truth EXCEPT !.begun[u] = @ + 1]
    /\ UNCHANGED <<env, store, acked, notice, events>>

(* The next update of the batch.                                           *)
TakeUpdate == batch # << >> /\ TakeNext(Head(batch), Tail(batch), Head(batch) + 1)

(* Mutant of Think: it waits until the model makes something of the text.  *)
ThinkWaits(intent) ==
    /\ proc["bot"].at = "think"
    /\ env.assistant /\ intent \in About[proc["bot"].text].reads
    /\ Set("bot", [proc["bot"] EXCEPT !.at = "reply"])
    /\ UNCHANGED <<env, store, offset, acked, batch, notice, events, truth>>

(* handleFounderConversation: a question about the log, what the model     *)
(* makes of the text (the call may fail), what the rules find in it, or a  *)
(* note.  An action is followed by a note.                                 *)
Think(intent) ==
    LET b == proc["bot"]
        wish == IF About[b.text].says.op = "meta" THEN About[b.text].says
                ELSE IF intent # Nothing THEN intent ELSE About[b.text].says
    IN  /\ b.at = "think"
        /\ intent \in {Nothing} \cup (IF env.assistant THEN About[b.text].reads ELSE {})
        /\ Set("bot", [b EXCEPT !.at = IF wish = Nothing THEN "talk"
                                       ELSE IF wish.op \in Reads THEN "reply" ELSE "act",
                                !.op = wish.op, !.arg = wish.arg,
                                !.then = IF wish = Nothing \/ wish.op \in Reads THEN "reply" ELSE "log"])
        /\ UNCHANGED <<env, store, offset, acked, batch, notice, events, truth>>

(* The answer to the chat, which may get lost, or the response.            *)
Reply(p) ==
    /\ proc[p].at = "reply"
    /\ Set(p, IdleProc)
    /\ truth' = IF p = "bot" THEN [truth EXCEPT !.settled = @ \cup {proc[p].update}] ELSE truth
    /\ UNCHANGED <<env, store, offset, acked, batch, notice, events>>
-----------------------------------------------------------------------------
(* The operations.  A save that fails puts the tables back.                *)

(* A request of the cockpit or the CLI.                                    *)
Request(c, wish) ==
    /\ proc[c].at = "idle"
    /\ wish \in env.requests
    /\ Event
    /\ Set(c, [IdleProc EXCEPT !.at = CASE wish.op = "note" -> "talk"
                                        [] wish.op = "publish" -> "look"
                                        [] OTHER -> "act",
                               !.op = wish.op, !.arg = wish.arg, !.then = "reply",
                               !.text = IF wish.op = "note" THEN wish.arg ELSE None])
    /\ UNCHANGED <<env, store, offset, acked, batch, notice, truth>>

Items(subject) == {i \in store.room : i.about = subject}

(* What an operation makes of the store: nothing when it refuses, as it    *)
(* does with what it does not find.                                        *)
Outcomes(op, arg) ==
    CASE op \in {"approved", "rejected"} -> {Resolved(store, a, op) : a \in Approvals \cap {arg}}
      [] op \in {"accept", "defer", "resolve"} -> {Transitioned(store, i, op) : i \in Items(arg)}
      [] op = "agenda" -> IF Items(arg) # {} THEN {} ELSE {[store EXCEPT !.room = @ \cup {Item(arg, NoKey)}]}
      [] op = "dispatch" -> IF arg \notin Keys \/ store.jobs[arg] \notin {"queued", "failed"} THEN {}
                            ELSE {[store EXCEPT !.jobs[arg] = "running"]}
      [] OTHER -> {store}

(* ResolveApproval is the one that does not tell the founder.              *)
ActDone(p) ==
    LET r == proc[p] IN
    /\ r.at = "act"
    /\ \E s \in Outcomes(r.op, r.arg) :
          /\ store' = s
          /\ Set(p, [r EXCEPT !.at = IF r.op \in {"approved", "rejected"} THEN r.then ELSE "notify"])
    /\ truth' = [truth EXCEPT
          !.by = IF p = "bot" /\ r.op \in {"approved", "rejected"} /\ r.update > @[r.arg]
                 THEN [@ EXCEPT ![r.arg] = r.update] ELSE @,
          !.ruled = IF r.op = "resolve" THEN @ \cup {r.arg}
                    ELSE IF r.op = "rejected" THEN @ \ {<<"rejected", r.arg>>} ELSE @]
    /\ UNCHANGED <<env, offset, acked, batch, notice, events>>

(* The operation refuses, or the save fails; a dispatch can also fail once *)
(* the job is running.                                                     *)
ActFails(p) ==
    LET r == proc[p] IN
    /\ r.at = "act"
    /\ \/ Outcomes(r.op, r.arg) = {} /\ UNCHANGED <<store, events>>
       \/ /\ Outcomes(r.op, r.arg) # {} /\ Event
          /\ store' \in {store} \cup (IF r.op = "dispatch" THEN Outcomes(r.op, r.arg) ELSE {})
    /\ Set(p, [r EXCEPT !.at = r.then, !.ok = FALSE])
    /\ UNCHANGED <<env, offset, acked, batch, notice, truth>>

KeyOf(p) == <<IF p = "bot" THEN "telegram" ELSE "api", proc[p].text>>

(* createConversationNote: with its automation, or about an action.        *)
NoteKept(p) ==
    LET r == proc[p]
        s == Noted(store, r.update, KeyOf(p), r.at = "talk")
    IN  /\ r.at \in {"talk", "log"}
        /\ store' = s
        /\ Set(p, [r EXCEPT !.at = IF ToDispatch(s, KeyOf(p), r.at = "talk", env.dispatch)
                                   THEN "dispatch" ELSE "notify",
                            !.then = "reply"])
        /\ truth' = IF r.at = "talk" /\ IsRisk(r.text)
                    THEN [truth EXCEPT !.ruled = @ \ {<<"risk", r.text>>}] ELSE truth
        /\ UNCHANGED <<env, offset, acked, batch, notice, events>>

(* The note is not saved: nothing of it stays, and the reply says so.      *)
NoteFails(p) ==
    LET r == proc[p] IN
    /\ r.at \in {"talk", "log"} /\ Event
    /\ Set(p, [r EXCEPT !.at = "reply", !.ok = FALSE])
    /\ truth' = [truth EXCEPT !.warned = @ \cup {r.update}]
    /\ UNCHANGED <<env, store, offset, acked, batch, notice>>

(* The dispatch of a note's planner job: its failure is an event and a     *)
(* warning, the note stays.                                                *)
NoteDispatch(p) ==
    LET r == proc[p]
        k == KeyOf(p)
        ran == [store EXCEPT !.jobs[k] = "running"]
    IN  /\ r.at = "dispatch"
        /\ \/ /\ store.jobs[k] \in {"queued", "failed"}
              /\ \/ store' = ran /\ UNCHANGED events
                 \/ Event /\ store' \in {store, ran}
           \/ store.jobs[k] \notin {"queued", "failed"} /\ UNCHANGED <<store, events>>
        /\ Set(p, [r EXCEPT !.at = "notify"])
        /\ UNCHANGED <<env, offset, acked, batch, notice, truth>>

(* A job that was dispatched ends.                                         *)
JobEnds(k, status) ==
    /\ store.jobs[k] = "running" /\ Event
    /\ store' = JobEnded(store, k, status)
    /\ truth' = [truth EXCEPT !.ruled = @ \ {<<"failed", k>>}]
    /\ UNCHANGED <<env, offset, acked, batch, proc, notice>>
-----------------------------------------------------------------------------
(* maybeNotifyFounderAttention: look, send, remember.                      *)
Notifying(p) == proc[p].at \in {"send", "record"}

(* founderAttentionTelegramPacket and shouldSendFounderTelegramNotice.     *)
LookWhetherToTell(p) ==
    LET r == proc[p]
        tells == env.alerts /\ AlertChat # Unset /\ ~Idle(store)
    IN  /\ r.at = "notify"
        /\ IF tells /\ notice # Attention(store)
           THEN LET others == {q \in Procs \ {p} : Notifying(q)} IN
                proc' = [q \in Procs |->
                    IF q = p THEN [r EXCEPT !.at = "send", !.told = Attention(store),
                                            !.raced = others # {}]
                    ELSE IF q \in others THEN [proc[q] EXCEPT !.raced = TRUE] ELSE proc[q]]
           ELSE Set(p, [r EXCEPT !.at = r.then])
        /\ UNCHANGED <<env, store, offset, acked, batch, notice, events, truth>>

(* SendRoute: an error is dropped, the notice is not remembered.           *)
SendNotice(p) ==
    LET r == proc[p] IN
    /\ r.at = "send"
    /\ \/ /\ Set(p, [r EXCEPT !.at = "record"])
          /\ truth' = [truth EXCEPT !.doubled = @ \/ (notice = r.told /\ ~r.raced)]
          /\ UNCHANGED events
       \/ Event /\ Set(p, [r EXCEPT !.at = r.then]) /\ UNCHANGED truth
    /\ UNCHANGED <<env, store, offset, acked, batch, notice>>

(* recordFounderTelegramNotice.                                            *)
RecordNotice(p) ==
    /\ proc[p].at = "record"
    /\ notice' = proc[p].told
    /\ Set(p, [proc[p] EXCEPT !.at = proc[p].then])
    /\ UNCHANGED <<env, store, offset, acked, batch, events, truth>>

(* The 30 seconds pass.                                                    *)
WindowPasses ==
    /\ notice # <<None>> /\ Event
    /\ notice' = <<None>>
    /\ UNCHANGED <<env, store, offset, acked, batch, proc, truth>>
-----------------------------------------------------------------------------
(* The daemon dies and starts again: the tables are on disk, the offset,   *)
(* the batch, the notice and the calls under way are gone.                 *)
Crash ==
    /\ Event
    /\ proc' = [p \in Procs |-> IdleProc]
    /\ offset' = 1 /\ batch' = << >> /\ notice' = <<None>>
    /\ truth' = [truth EXCEPT !.crashes = @ + 1]
    /\ UNCHANGED <<env, store, acked>>

BotInit ==
    /\ env \in Environments
    /\ store = EmptyStore
    /\ offset = 1 /\ acked = 1 /\ batch = << >>
    /\ proc = [p \in Procs |-> IdleProc]
    /\ notice = <<None>>
    /\ events = 0
    /\ truth = [begun |-> [u \in Updates |-> 0], settled |-> {}, by |-> [a \in Approvals |-> 0],
                warned |-> {}, ruled |-> {}, doubled |-> FALSE, crashes |-> 0]

(* What a process does by itself, once it has something to do.             *)
Step(p) ==
    \/ Reply(p) \/ ActDone(p) \/ ActFails(p) \/ NoteKept(p) \/ NoteFails(p) \/ NoteDispatch(p)
    \/ LookWhetherToTell(p) \/ SendNotice(p) \/ RecordNotice(p)
Intents == {Nothing} \cup UNION {About[t].reads : t \in Texts}
BotStep == fetchUpdates \/ TakeUpdate \/ (\E i \in Intents : Think(i)) \/ Step("bot")

BotNext ==
    \/ BotStep
    \/ fetchFails \/ WindowPasses
    \/ \E c \in Clients : Step(c) \/ \E w \in env.requests : Request(c, w)
    \/ \E k \in Keys, status \in {"failed", "succeeded"} : JobEnds(k, status)
=============================================================================
