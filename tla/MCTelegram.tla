----------------------------- MODULE MCTelegram -----------------------------
(***************************************************************************)
(* Instances of Outbound: decisions by message and by request, free text   *)
(* with and without a model, notices, posts, and chats that are set up in  *)
(* different ways.                                                         *)
(***************************************************************************)
EXTENDS Outbound

Text(tags, says, reads, source) == [tags |-> tags, says |-> says, reads |-> reads, source |-> source]
MCAbout ==
    [t \in {"risky", "plan", "yes", "link"} |->
        CASE t = "risky" -> Text({"risk", "todo"}, Nothing, {Wish("status", None)}, FALSE)
          [] t = "plan" -> Text({"todo"}, Nothing, {}, FALSE)
          [] t = "yes" -> Text({"risk"}, Wish("approved", "a1"),
                               {Wish("rejected", "a1"), Wish("agenda", <<"agenda", "yes">>)}, FALSE)
          [] t = "link" -> Text({}, Wish("meta", None), {}, TRUE)]
Msg(chat, op, arg) == [chat |-> chat, wish |-> Wish(op, arg)]
Env(dm, room, groups, inbox, requests, n) ==
    [dm |-> dm, room |-> room, ops |-> "ops", brand |-> "brand", groups |-> groups,
     assistant |-> TRUE, dispatch |-> FALSE, alerts |-> FALSE,
     inbox |-> inbox, requests |-> requests, events |-> n]
Setups == {
    \* decisions of both chats, and of a chat without a role
    Env("dm", "room", {"room"}, <<Msg("dm", "approved", "a1"), Msg("room", "rejected", "a1"),
                                  Msg("ops", "approved", "a1")>>, {Wish("rejected", "a1")}, 3),
    \* free text
    Env("dm", "room", {"room"}, <<Msg("dm", "text", "yes"), Msg("dm", "text", "risky"),
                                  Msg("dm", "resolve", <<"risk", "risky">>)>>,
        {Wish("note", "risky")}, 2),
    \* one room for everything, a group without a dm, a dm that is the room
    Env(Unset, "room", {}, <<Msg("room", "text", "link"), Msg("brand", "text", "plan"),
                             Msg("room", "note", "plan")>>, {}, 1),
    Env(Unset, "room", {"room"}, <<Msg("room", "text", "link"), Msg("room", "note", "plan"),
                                   Msg("room", "text", "plan")>>, {}, 1),
    Env("room", "room", {"room"}, <<Msg("room", "text", "plan"), Msg("room", "list", None)>>, {}, 1),
    \* planner jobs
    [Env("dm", "room", {}, <<Msg("dm", "note", "plan"), Msg("dm", "dispatch", <<"telegram", "plan">>)>>,
         {Wish("dispatch", <<"telegram", "plan">>), Wish("note", "plan")}, 3) EXCEPT !.dispatch = TRUE, !.assistant = FALSE],
    \* notices
    [Env("dm", "room", {}, <<Msg("dm", "note", "risky"), Msg("dm", "defer", <<"risk", "risky">>)>>,
         {Wish("note", "risky")}, 3) EXCEPT !.alerts = TRUE, !.assistant = FALSE],
    \* posts
    Env("dm", "room", {}, <<Msg("dm", "approved", "a1")>>, {Wish("publish", "a1"), Wish("rejected", "a1")}, 5) }
=============================================================================
