------------------------------ MODULE Outbound ------------------------------
(***************************************************************************)
(* The posting of an approved draft, beside the Telegram loop, and the     *)
(* properties of both.  PublishThreadsBrandDraft looks at the approval and *)
(* at the record of an earlier post, posts, and records the post: three    *)
(* steps without a lock in between.                                        *)
(***************************************************************************)
EXTENDS TelegramBot

VARIABLES
    posts,   \* external: how often the draft of each approval went out
    strayed  \* ground truth: approvals with two calls under way together, or with a post
             \* whose answer or record was lost

vars == <<env, store, offset, acked, batch, proc, notice, events, truth, posts, strayed>>

Publishing(a) == {c \in Clients : proc[c].at \in {"post", "save"} /\ proc[c].arg = a}

(* Mutant of LookAtApproval: an earlier post is not looked for.            *)
LookAtApprovalOnly(c) ==
    LET r == proc[c] IN
    /\ r.at = "look"
    /\ Set(c, [r EXCEPT !.at = IF r.arg \in Approvals /\ store.approval[r.arg] = "approved"
                            THEN "post" ELSE "reply"])
    /\ strayed' = IF Publishing(r.arg) # {} THEN strayed \cup {r.arg} ELSE strayed
    /\ UNCHANGED <<env, store, offset, acked, batch, notice, events, truth, posts>>

(* The approval is there and approved, no post is on record.               *)
LookAtApproval(c) ==
    LET r == proc[c]
        ready == r.arg \in Approvals /\ store.approval[r.arg] = "approved"
                 /\ r.arg \notin store.published
    IN  /\ r.at = "look"
        /\ Set(c, [r EXCEPT !.at = IF ready THEN "post" ELSE "reply"])
        /\ strayed' = IF ready /\ Publishing(r.arg) # {} THEN strayed \cup {r.arg} ELSE strayed
        /\ UNCHANGED <<env, store, offset, acked, batch, notice, events, truth, posts>>

(* PublishText: two calls, the second one posts.  One of them fails, or    *)
(* the answer of the second is lost.                                       *)
PublishText(c) ==
    LET r == proc[c] IN
    /\ r.at = "post"
    /\ \/ /\ posts' = [posts EXCEPT ![r.arg] = @ + 1]
          /\ Set(c, [r EXCEPT !.at = "save"])
          /\ UNCHANGED <<events, strayed>>
       \/ /\ Event
          /\ Set(c, [r EXCEPT !.at = "reply"])
          /\ \/ UNCHANGED <<posts, strayed>>
             \/ posts' = [posts EXCEPT ![r.arg] = @ + 1] /\ strayed' = strayed \cup {r.arg}
    /\ UNCHANGED <<env, store, offset, acked, batch, notice, truth>>

(* The record of the post: CreateObservation, which also tells the founder. *)
RecordPost(c) ==
    LET r == proc[c] IN
    /\ r.at = "save"
    /\ \/ /\ store' = [store EXCEPT !.published = @ \cup {r.arg}]
          /\ Set(c, [r EXCEPT !.at = "notify"])
          /\ UNCHANGED <<events, strayed>>
       \/ /\ Event
          /\ Set(c, [r EXCEPT !.at = "reply"])
          /\ strayed' = strayed \cup {r.arg}
          /\ UNCHANGED store
    /\ UNCHANGED <<env, offset, acked, batch, notice, truth, posts>>

Restart ==
    /\ Crash
    /\ strayed' = strayed \cup {proc[c].arg : c \in {x \in Clients : proc[x].at = "save"}}
    /\ UNCHANGED posts

Init == BotInit /\ posts = [a \in Approvals |-> 0] /\ strayed = {}
LoopStep == BotStep /\ UNCHANGED <<posts, strayed>>
Next ==
    \/ BotNext /\ UNCHANGED <<posts, strayed>>
    \/ Restart
    \/ \E c \in Clients : LookAtApproval(c) \/ PublishText(c) \/ RecordPost(c)

Spec == Init /\ [][Next]_vars
(* The loop runs as long as the daemon does; its calls have timeouts.      *)
FairSpec == Spec /\ WF_vars(LoopStep)
-----------------------------------------------------------------------------
TypeOK ==
    /\ env \in Environments
    /\ StoreOK(store)
    /\ offset \in 1 .. Len(env.inbox) + 1 /\ acked \in 1 .. Len(env.inbox) + 1
    /\ \A i \in DOMAIN batch : batch[i] \in Updates
    /\ \A p \in Procs : /\ proc[p].at \in {"idle", "think", "act", "log", "talk", "dispatch", "notify",
                                           "send", "record", "look", "post", "save", "reply"}
                        /\ proc[p].update \in Updates \cup {0}
                        /\ proc[p].text \in Texts \cup {None}
    /\ events \in 0 .. env.events
    /\ truth.settled \subseteq Updates
    /\ strayed \subseteq Approvals

(* What Telegram's server was told to forget was handled to the end, in    *)
(* the order it was sent: a crash in the middle of a batch loses nothing,  *)
(* because fetchUpdates confirms a batch only when it asks for the next.   *)
NothingIsLost ==
    /\ \A u \in Updates : u < acked => u \in truth.settled
    /\ \A u, v \in Updates : u < v /\ truth.begun[v] > 0 => u \in truth.settled

(* A message is taken a second time only after a crash: nothing else makes *)
(* the loop ask for an update it has seen.                                 *)
TakenAgainOnlyAfterCrash == \A u \in Updates : truth.begun[u] <= 1 + truth.crashes

(* Only messages from the two chats the founder configured change the      *)
(* tables, and notes and free text only count outside group chats (unless  *)
(* the group is what was configured for the founder's dm).                 *)
FounderChatsOnly ==
    LET b == proc["bot"]
        chat == env.inbox[b.update].chat
    IN  /\ b.at \in {"think", "act", "log", "talk", "dispatch"} => chat \in {env.dm, env.room}
        /\ b.at \in {"think", "log", "talk", "dispatch"} => chat \notin env.groups \/ chat = env.dm

(* A note with automation is whole: what its words ask for is there.  A    *)
(* risk or a rejection is in the review room until the founder resolves    *)
(* the item, also when the same words come again or after other decisions. *)
NotesAreWhole ==
    LET known(subject) == Items(subject) # {} \/ subject \in truth.ruled IN
    /\ \A n \in store.notes : n.auto =>
          /\ IsPlan(n.key[2]) => n.key \in store.proposals /\ store.jobs[n.key] # "none"
          /\ IsRisk(n.key[2]) => known(<<"risk", n.key[2]>>)
    /\ \A a \in Approvals : store.approval[a] = "rejected" => known(<<"rejected", a>>)

(* Free text that became an action leaves a note about it, or the reply    *)
(* warns that there is none (appendFounderControlLog).                     *)
ActionsAreLogged ==
    LET b == proc["bot"] IN
    b.at = "reply" /\ b.text # None /\ b.op \notin Reads /\ Talks(env.inbox[b.update].chat)
        => \/ b.update \in truth.warned
           \/ \E n \in store.notes : n.update = b.update /\ n.key = <<"telegram", b.text>>

(* ResolveApproval takes any decision at any time.  A decision by an older *)
(* message only follows that of a younger one when a crash had the older   *)
(* one delivered again.                                                    *)
OldDecisionOnlyReplayed ==
    LET b == proc["bot"] IN
    b.at = "act" /\ b.op \in {"approved", "rejected"} /\ b.arg \in Approvals
    /\ truth.by[b.arg] > b.update
        => truth.begun[b.update] > 1

(* The same notice does not go out twice within its window, unless two     *)
(* calls were under way together.                                          *)
NoticeNotRepeated == ~truth.doubled

(* A draft goes out once, unless two calls were under way together or the  *)
(* answer or the record of a post was lost.                                *)
PostedOnce == \A a \in Approvals : posts[a] > 1 => a \in strayed

(* Every message is handled to the end.                                    *)
EveryMessageSettled == \A u \in 1 .. 3 : <>(u \in Updates => u \in truth.settled)

(* The founder's messages are handled: all of them, in order, and nobody   *)
(* else's (startTelegramLoop).                                             *)
MessagesAreHandled == TypeOK /\ NothingIsLost /\ FounderChatsOnly

(* What was said is on record: notes with all they ask for, and actions    *)
(* (CreateConversationNote, appendFounderControlLog).                      *)
SaidIsOnRecord == NotesAreWhole /\ ActionsAreLogged

(* What is done twice is done twice for a crash, a lost answer or two      *)
(* calls at a time, and for no other reason (fetchUpdates,                 *)
(* ResolveApproval, PublishThreadsBrandDraft).                             *)
RepeatsHaveACause ==
    TakenAgainOnlyAfterCrash /\ OldDecisionOnlyReplayed /\ NoticeNotRepeated /\ PostedOnce
=============================================================================
