---------------------------- MODULE Conversation ----------------------------
(***************************************************************************)
(* What a conversation note and a founder's decision do to the stores.     *)
(* createConversationNoteLocked writes the observation and, when its words *)
(* ask for it, a risk item, a proposal and a planner job, all under one    *)
(* lock and one save; the decisions are one locked step each as well.      *)
(*                                                                         *)
(* A text is named; About says which tags its words earn.  The summary of  *)
(* a text is the text: the dedupe key is the pair of channel and text, and *)
(* an item of the review room is named by what it is about.                *)
(***************************************************************************)
EXTENDS Naturals, Sequences, FiniteSets

CONSTANTS
    Approvals,    \* approvals that were asked for
    About         \* tags: the tags a text earns; says: what the rules find in it

Texts == DOMAIN About
Keys == {"telegram", "api"} \X Texts
Tags == {"risk", "critique", "idea", "todo"}
JobStatus == {"none", "queued", "running", "failed", "succeeded"}

ASSUME TextAssumption == \A t \in Texts : About[t].tags \subseteq Tags

(* Items are about a risky note, a rejected approval, a failed job or a    *)
(* point of the agenda.                                                    *)
Subjects == ({"risk", "agenda"} \X Texts) \cup ({"rejected"} \X Approvals)
            \cup ({"failed"} \X Keys)
Item(subject, key) == [about |-> subject, key |-> key, section |-> "open", severity |-> "high"]
NoKey == <<"none", "none">>

(* The tables a conversation reaches.  A note: the update it came from (0: *)
(* none), its key, and whether automation was left on.                     *)
StoreOK(s) ==
    /\ s.approval \in [Approvals -> {"pending", "approved", "rejected"}]
    /\ s.room \subseteq [about : Subjects, key : Keys \cup {NoKey},
                         section : {"open", "accepted", "deferred"}, severity : {"high", "critical"}]
    /\ \A n \in s.notes : n.update \in Nat /\ n.key \in Keys /\ n.auto \in BOOLEAN
    /\ s.proposals \subseteq Keys
    /\ s.jobs \in [Keys -> JobStatus]
    /\ s.published \subseteq Approvals
EmptyStore == [approval |-> [a \in Approvals |-> "pending"], room |-> {}, notes |-> {},
               proposals |-> {}, jobs |-> [k \in Keys |-> "none"], published |-> {}]

(* ensureReviewRoomItem: nothing the room holds in any section is added.   *)
Opened(room, item) ==
    IF \E i \in room : i.about = item.about THEN room ELSE room \cup {item}

(* Mutant of RiskRaised: the item whose severity goes up is not put back.  *)
RiskRaisedDropped(room, key) ==
    LET mine == {i \in room : i.section = "open" /\ i.key = key} IN
    IF mine # {} THEN room \ mine ELSE Opened(room, Item(<<"risk", key[2]>>, key))

(* upsertConversationRiskReviewItemLocked: the open item of this key       *)
(* becomes critical, or an item is opened.                                 *)
RiskRaised(room, key) ==
    LET mine == {i \in room : i.section = "open" /\ i.key = key} IN
    IF mine # {} THEN (room \ mine) \cup {[i EXCEPT !.severity = "critical"] : i \in mine}
    ELSE Opened(room, Item(<<"risk", key[2]>>, key))

(* shouldAutoConversationRisk, shouldAutoConversationPlan: their words are *)
(* among the words that earn the tags.                                     *)
IsRisk(t) == About[t].tags \cap {"risk", "critique"} # {}
IsPlan(t) == About[t].tags \cap {"idea", "todo"} # {}

(* upsertConversationProposalLocked and ...PlannerJobLocked: found by the  *)
(* dedupe key or created.                                                  *)
Planned(s, key) ==
    [s EXCEPT !.proposals = @ \cup {key},
              !.jobs[key] = IF @ = "none" THEN "queued" ELSE @]

(* createConversationNoteLocked.                                           *)
Noted(s, update, key, auto) ==
    LET told == [s EXCEPT !.notes = @ \cup {[update |-> update, key |-> key, auto |-> auto,
                                             nth |-> Cardinality(s.notes) + 1]}]
        warned == IF auto /\ IsRisk(key[2])
                  THEN [told EXCEPT !.room = RiskRaised(@, key)] ELSE told
    IN  IF auto /\ IsPlan(key[2]) THEN Planned(warned, key) ELSE warned

(* The planner job a note hands on to DispatchAgentJob.                    *)
ToDispatch(s, key, auto, dispatchOn) ==
    auto /\ dispatchOn /\ IsPlan(key[2]) /\ s.jobs[key] = "queued"

(* ResolveApproval: whatever was decided before.  A rejection opens an     *)
(* item, an approval resolves the item that is still open.                 *)
Resolved(s, a, status) ==
    [s EXCEPT !.approval[a] = status,
              !.room = IF status = "rejected" THEN Opened(@, Item(<<"rejected", a>>, NoKey))
                       ELSE {i \in @ : ~(i.about = <<"rejected", a>> /\ i.section = "open")}]

(* transitionReviewRoomItem.                                               *)
Transitioned(s, item, action) ==
    [s EXCEPT !.room = (@ \ {item}) \cup
        CASE action = "accept" -> {[item EXCEPT !.section = "accepted"]}
          [] action = "defer" -> {[item EXCEPT !.section = "deferred"]}
          [] OTHER -> {}]

(* The end of a run (AgentJobs has the runs).  A failure opens an item.    *)
JobEnded(s, key, status) ==
    [s EXCEPT !.jobs[key] = status,
              !.room = IF status = "failed" THEN Opened(@, Item(<<"failed", key>>, NoKey)) ELSE @]

(* deriveFounderViewLocked and selectFounderPriority, and the key          *)
(* founderAttentionTelegramPacket makes of them: what comes first, how     *)
(* many items are open, how much is at risk.                               *)
AtRisk(s) == {<<"approval", a>> : a \in {x \in Approvals : s.approval[x] = "rejected"}}
             \cup {<<"job", k>> : k \in {x \in Keys : s.jobs[x] = "failed"}}
Lanes(s) == <<
    <<"review_room", {i.about : i \in {x \in s.room : x.section = "open"}}>>,
    <<"rollback_or_fix", AtRisk(s)>>,
    <<"shape_or_promote", s.proposals>>,
    <<"dispatch_job", {k \in Keys : s.jobs[k] = "queued"}>>,
    <<"approve", {a \in Approvals : s.approval[a] = "pending"}>>,
    <<"continue", {k \in Keys : s.jobs[k] = "running"}>> >>
Idle(s) == \A l \in DOMAIN Lanes(s) : Lanes(s)[l][2] = {}
Attention(s) ==
    LET first == CHOOSE l \in DOMAIN Lanes(s) : /\ Lanes(s)[l][2] # {}
                                                /\ \A k \in 1 .. l - 1 : Lanes(s)[k][2] = {}
    IN  <<Lanes(s)[first][1], CHOOSE ref \in Lanes(s)[first][2] : TRUE,
          Cardinality(Lanes(s)[1][2]), Cardinality(AtRisk(s))>>
=============================================================================
