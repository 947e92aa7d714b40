------------------------------- MODULE Intake -------------------------------
(***************************************************************************)
(* Source intake: from a feed item or a drop to a publication lane.        *)
(*                                                                         *)
(* The feed sensor, the rss command, the founder's Telegram room and the   *)
(* cockpit work on the same observations.  Each of their operations is a   *)
(* row of short steps under Service.mu: look whether the next record is    *)
(* there, create it if it was not.  Nothing holds the lock in between.     *)
(*                                                                         *)
(* An observation is named by its place in the store.  `refs' and the text *)
(* of an observation are abstracted to the fields that are looked up.      *)
(***************************************************************************)
EXTENDS Naturals, Sequences, FiniteSets

CONSTANTS
    Routes,       \* the accounts a source can be routed to
    Default,      \* the account of a source without a route, "97layer"
    About,        \* what is said of each source, by its name
    Environments, \* feed: the sources the sensor's feed lists, a sequence; drops: the
                  \* sources people drop by hand; kept: the sources dropped in an earlier
                  \* session; auto: how far the sensor goes by itself; events: bound, the
                  \* requests and the steps that fail
    SeedLimit,    \* newest drafts EnsureSourceDraftSeedObservation looks at, 128
    LookupLimit,  \* newest observations the decision lookup looks at, 32
    FindLimit,    \* newest observations findObservationByID looks at, 256
    FeedLimit,    \* items of a feed that are read, 3
    MaxObs        \* bound: observations

(* About a source: its title, the routes its refs name, the policy color   *)
(* its writer gave, the color a line of its excerpt names ("none"), the    *)
(* points its title, link, excerpt and tags earn (an item of a feed has a  *)
(* title: 8 at least), and whether its date is before all else.  A feed    *)
(* gives no color, and the ref by which its items are looked up is not on  *)
(* what people drop: a dropped source is never taken for an item.          *)
Color == {"green", "yellow", "red"}
NoDoc == ""

Elems(s) == {s[i] : i \in DOMAIN s}

ASSUME IntakeAssumption ==
    /\ Default \in Routes /\ IsFiniteSet(Routes)
    /\ \A d \in DOMAIN About :
          /\ DOMAIN About[d] = {"title", "hints", "color", "inner", "signal", "old"}
          /\ About[d].hints \subseteq Routes
          /\ About[d].signal \in 0 .. 52
          /\ About[d].color \in Color /\ About[d].inner \in Color \cup {"none"}
    /\ \A e \in Environments :
          /\ e.feed \in Seq(DOMAIN About) /\ e.kept \in Seq(DOMAIN About)
          /\ e.drops \subseteq DOMAIN About
          /\ Len(e.kept) <= MaxObs
          /\ \A d \in Elems(e.feed) : /\ About[d].signal >= 8 /\ About[d].color = "green"
                                     /\ d \notin e.drops \cup Elems(e.kept)
          /\ e.auto \in {"off", "route", "prep"}
          /\ e.events \in Nat
    /\ {SeedLimit, LookupLimit, FindLimit, FeedLimit} \subseteq Nat \ {0}
    /\ MaxObs \in Nat

Workers == {"sensor", "rss", "founder", "cockpit"}

VARIABLES
    env,       \* the environment
    cursor,    \* the item the sensor takes next
    obs,       \* the observations, oldest first
    room,      \* review room items about sources
    proposals, \* draft seed proposals, how many by source and account
    lane,      \* the publication lane of each draft: the part opened so far
    proc,      \* what each worker is doing
    events,    \* requests and failed steps so far
    overlap,   \* ground truth: docs two workers had in hand at once
    opened,    \* ground truth: drafts whose lane a call opened without error
    ruled      \* ground truth: texts of the items the founder resolved

vars == <<env, cursor, obs, room, proposals, lane, proc, events, overlap, opened, ruled>>

NoRoute == "none"
Idle == [at |-> "idle", doc |-> NoDoc, src |-> 0, intake |-> 0, route |-> NoRoute,
         seed |-> 0, again |-> FALSE, part |-> 0]
-----------------------------------------------------------------------------
(* Lists of observations: newest first by date, then by id.                *)
Later(i, k) == obs[i].at > obs[k].at \/ (obs[i].at = obs[k].at /\ i > k)
Newest(n, ids) == {i \in ids : Cardinality({k \in ids : Later(k, i)}) < n}
Of(kind) == {i \in DOMAIN obs : obs[i].kind = kind}
One(ids) == CHOOSE i \in ids : \A k \in ids : k = i \/ Later(i, k)
NextId == Len(obs) + 1

(* normalizeObservationRecord: a record without a date gets the time now.  *)
Observation(kind, d, hints, color, src, route, by, draft) ==
    [kind |-> kind, doc |-> d, hints |-> hints, color |-> color, src |-> src, route |-> route,
     by |-> by, draft |-> draft,
     at |-> IF kind \in {"content", "intake"} /\ About[d].old THEN 0
            ELSE IF kind = "intake" /\ src # 0 THEN obs[src].at ELSE NextId]
Created(o) == Len(obs) < MaxObs /\ obs' = Append(obs, o)

(* normalizeSourceIntakeRoutes: no route means the default one.            *)
normalizeRoutes(h) == IF h = {} THEN {Default} ELSE h

(* The record goes through its text form: a line of the excerpt that looks *)
(* like a field replaces the field.                                        *)
ParsedColor(color, d) == IF About[d].inner = "none" THEN color ELSE About[d].inner

(* defaultSourceIntakePolicyForContent.                                    *)
SensorColor(h) == IF Cardinality(h) = 1 THEN "green" ELSE "yellow"

(* SourceIntakePriority: the score of a record with n routes, and what to  *)
(* do with it.                                                             *)
Score(signal, color, n) ==
    LET points == 28 + signal + (CASE color = "red" -> 50 [] color = "yellow" -> 22 [] OTHER -> 12)
                     + (IF n = 0 THEN 8 ELSE IF n = 1 THEN 18 ELSE 12)
    IN  IF points > 100 THEN 100 ELSE points
Disposition(signal, color, n) ==
    IF color \in {"red", "yellow"} THEN "review"
    ELSE IF n = 1 /\ Score(signal, color, n) >= 60 THEN "prep"
    ELSE IF Score(signal, color, n) >= 48 THEN "review" ELSE "observe"

(* SourceIntakeAutoRouteTarget of a record built from observation s: the   *)
(* routes it can go to by itself.                                          *)
AutoRouteTargets(s, d) ==
    LET h == obs[s].hints
        c == SensorColor(h) IN
    IF c = "green" /\ Disposition(About[d].signal, c, Cardinality(normalizeRoutes(h))) = "prep"
    THEN h ELSE {}

(* reviewRoomSuggestionForObservation: the text about a red source names   *)
(* its title and routes; the item names the observation.                   *)
RedText(o) == <<"red", About[o.doc].title, o.hints>>
RedItem(o, id) == [source |-> "red", ref |-> id, section |-> "open", text |-> RedText(o)]

(* Mutant of Suggestion: only collected sources are looked at.             *)
SuggestionCollected(o, collected) ==
    IF collected /\ o.color = "red" THEN {RedItem(o, NextId)} ELSE {}

(* reviewRoomSuggestionForObservation: red sources, and collected sources  *)
(* whose refs do not name exactly one route.                               *)
Suggestion(o, collected) ==
    IF o.color = "red" THEN {RedItem(o, NextId)}
    ELSE IF collected /\ Cardinality(o.hints) # 1
         THEN {[source |-> "route", ref |-> NextId, section |-> "open",
                text |-> <<"route", About[o.doc].title, {}>>]}
         ELSE {}

(* ensureReviewRoomItem: texts are unique over all sections.               *)
Ensured(items) == room \cup {i \in items : \A k \in room : k.text # i.text}

(* resolveSourceIntakeRedPolicyReview, resolveSourceIntakeRouteReview.     *)
ResolveItems(source, id) ==
    {i \in room : ~ (i.section = "open" /\ i.source = source /\ i.ref = id)}
-----------------------------------------------------------------------------
Busy(d) == \E w \in Workers : proc[w] # Idle /\ proc[w].doc = d

Start(w, p) ==
    /\ proc[w] = Idle
    /\ proc' = [proc EXCEPT ![w] = p]
    /\ overlap' = IF Busy(p.doc) THEN overlap \cup {p.doc} ELSE overlap

Go(w, p) == proc' = [proc EXCEPT ![w] = p] /\ UNCHANGED overlap

(* A request of a person or a command: the sensor needs none.              *)
Asked == events < env.events /\ events' = events + 1

StoresUnchanged == UNCHANGED <<env, obs, room, proposals, lane, opened, ruled>>

(* ParseFeedDocument: the first items of the feed.                         *)
FeedItems == SubSeq(env.feed, 1, IF Len(env.feed) < FeedLimit THEN Len(env.feed) ELSE FeedLimit)

(* One item of a feed: look for its content.  The query returns the newest *)
(* observation with the item's ref, which may be its intake.               *)
TakeItem(w, d) ==
    LET found == {i \in Of("content") \cup Of("intake") : obs[i].doc = d} IN
    /\ Start(w, [Idle EXCEPT !.doc = d,
                             !.src = IF found = {} THEN 0 ELSE One(found),
                             !.at = IF found = {} THEN "create_content" ELSE "find_intake"])
    /\ StoresUnchanged

(* Without a feed the sensor is not started.                               *)
runFeedSensorTick ==
    /\ env.feed # << >>
    /\ TakeItem("sensor", FeedItems[cursor])
    /\ cursor' = IF cursor = Len(FeedItems) THEN 1 ELSE cursor + 1
    /\ UNCHANGED events

runRSSIngest ==
    /\ Asked
    /\ \E i \in DOMAIN FeedItems : TakeItem("rss", FeedItems[i])
    /\ UNCHANGED cursor

(* BuildContentObservation: refs and date of the item.                     *)
ContentRecord(d, w) == Observation("content", d, About[d].hints, "green", 0, NoRoute, w, 0)

CreateContent(w) ==
    LET p == proc[w] IN
    /\ p.at = "create_content"
    /\ Created(ContentRecord(p.doc, w))
    /\ Go(w, [p EXCEPT !.src = NextId, !.at = "find_intake"])
    /\ UNCHANGED <<env, cursor, room, proposals, lane, events, opened, ruled>>

(* What follows the intake: the sensor routes a source that names one      *)
(* route and is good enough, the command is done with the item.            *)
AfterIntake(p, w, id, targets) ==
    IF w = "sensor" /\ env.auto # "off" /\ targets # {}
    THEN [p EXCEPT !.intake = id, !.route = CHOOSE r \in targets : TRUE, !.at = "find_decision"]
    ELSE Idle

(* Mutant of IntakesOf: the intake is looked for by the content it was     *)
(* made from.                                                              *)
IntakesOfContent(p) == {i \in Of("intake") : obs[i].src = p.src}

(* The intakes with the ref of the item in hand.                           *)
IntakesOf(p) == {i \in Of("intake") : obs[i].doc = p.doc}

(* EnsureSourceIntakeObservation: is there an intake of this item?         *)
FindIntake(w) ==
    LET p == proc[w]
        found == IntakesOf(p) IN
    /\ p.at = "find_intake"
    /\ Go(w, IF found = {} THEN [p EXCEPT !.at = "create_intake"]
             ELSE AfterIntake(p, w, One(found), AutoRouteTargets(p.src, p.doc)))
    /\ UNCHANGED <<cursor, events>>
    /\ StoresUnchanged

(* The intake is created and its review item opened at once.               *)
CreateIntake(w) ==
    LET p == proc[w]
        h == obs[p.src].hints
        o == Observation("intake", p.doc, normalizeRoutes(h), ParsedColor(SensorColor(h), p.doc),
                         p.src, NoRoute, w, 0) IN
    /\ p.at = "create_intake"
    /\ Created(o)
    /\ room' = Ensured(Suggestion(o, TRUE))
    /\ Go(w, AfterIntake(p, w, NextId, AutoRouteTargets(p.src, p.doc)))
    /\ UNCHANGED <<env, cursor, proposals, lane, events, opened, ruled>>

(* A dropped source, and the review item that comes with it.               *)
Dropped(d) ==
    Observation("intake", d, normalizeRoutes(About[d].hints), ParsedColor(About[d].color, d),
                0, NoRoute, "founder", 0)

(* A source dropped by hand: POST /source-intake, or /drop in Telegram.    *)
DropSource(d) ==
    /\ Asked
    /\ Created(Dropped(d))
    /\ room' = Ensured(Suggestion(Dropped(d), FALSE))
    /\ UNCHANGED <<env, cursor, proposals, lane, proc, overlap, opened, ruled>>

(* EnsureSourceIntakeRouteDecisionObservation, on the sensor's way.        *)
FindDecision(w) ==
    LET p == proc[w]
        seen == Newest(LookupLimit, {i \in DOMAIN obs : obs[i].src = p.intake})
                \cup Newest(LookupLimit, {i \in Of("decision") : obs[i].route = p.route}) IN
    /\ p.at = "find_decision"
    /\ Go(w, IF \E i \in seen \cap Of("decision") : obs[i].src = p.intake /\ obs[i].route = p.route
             THEN [p EXCEPT !.at = "resolve_route"]
             ELSE [p EXCEPT !.at = "create_decision"])
    /\ UNCHANGED <<cursor, events>>
    /\ StoresUnchanged

CreateDecision(w) ==
    LET p == proc[w] IN
    /\ p.at = "create_decision"
    /\ Created(Observation("decision", p.doc, {}, "green", p.intake, p.route, w, 0))
    /\ Go(w, [p EXCEPT !.at = "resolve_route"])
    /\ UNCHANGED <<env, cursor, room, proposals, lane, events, opened, ruled>>

ResolveRoute(w) ==
    LET p == proc[w] IN
    /\ p.at = "resolve_route"
    /\ room' = ResolveItems("route", p.intake)
    /\ Go(w, [p EXCEPT !.at = "find_seed"])
    /\ UNCHANGED <<env, cursor, obs, proposals, lane, events, opened, ruled>>

(* /route: the founder decides for one of the newest sources.  The record  *)
(* is created whether or not there is one, and no review item is touched.  *)
handleSourceRouteDecision(id, r) ==
    /\ Asked
    /\ id \in Newest(FindLimit, Of("intake"))
    /\ Created(Observation("decision", obs[id].doc, {}, "green", id, r, "founder", 0))
    /\ Start("founder", [Idle EXCEPT !.doc = obs[id].doc, !.intake = id, !.route = r, !.at = "find_seed"])
    /\ UNCHANGED <<env, cursor, room, proposals, lane, opened, ruled>>

(* sourceDraftSeedObservationMatches, over the newest drafts; a revision   *)
(* of a draft matches like the draft.                                      *)
SeedsOf(p) ==
    {i \in Newest(SeedLimit, Of("seed")) : obs[i].src = p.intake /\ obs[i].route = p.route}

(* buildSourceDraftSeedRecord: the draft of a source for an account, its   *)
(* text left out; a revision names the draft it replaces.                  *)
SeedRecord(src, route, w, parent) ==
    Observation("seed", obs[src].doc, {}, "green", src, route, w, parent)

(* ParseSourceDraftSeedRawExcerpt: source and account are read back from   *)
(* the text of the draft, written by the system.                           *)
ParsedSeed(id) == [src |-> obs[id].src, route |-> obs[id].route]

(* EnsureSourceDraftSeedObservation.                                       *)
FindSeed(w) ==
    LET p == proc[w]
        found == SeedsOf(p) IN
    /\ p.at = "find_seed"
    /\ Go(w, IF found = {} THEN [p EXCEPT !.at = "create_seed"]
             ELSE [p EXCEPT !.seed = IF p.again THEN p.seed ELSE One(found), !.at = "resolve_red"])
    /\ UNCHANGED <<cursor, events>>
    /\ StoresUnchanged

CreateSeed(w) ==
    LET p == proc[w] IN
    /\ p.at = "create_seed"
    /\ Created(SeedRecord(p.intake, p.route, w, 0))
    /\ Go(w, [p EXCEPT !.seed = IF p.again THEN p.seed ELSE NextId, !.at = "resolve_red"])
    /\ UNCHANGED <<env, cursor, room, proposals, lane, events, opened, ruled>>

ResolveRed(w) ==
    LET p == proc[w] IN
    /\ p.at = "resolve_red"
    /\ room' = ResolveItems("red", p.intake)
    /\ Go(w, [p EXCEPT !.at = IF p.again THEN "create_proposal" ELSE "find_proposal"])
    /\ UNCHANGED <<env, cursor, obs, proposals, lane, events, opened, ruled>>

(* After the proposal the sensor opens the publication lane.               *)
AfterProposal(p, w) ==
    IF w = "sensor" /\ env.auto = "prep" THEN [p EXCEPT !.again = FALSE, !.at = "find_prep"] ELSE Idle

(* EnsureSourceDraftSeedProposal; without a proposal it makes sure of the  *)
(* draft once more.                                                        *)
FindProposal(w) ==
    LET p == proc[w] IN
    /\ p.at = "find_proposal"
    /\ Go(w, IF proposals[<<p.intake, p.route>>] > 0 THEN AfterProposal(p, w)
             ELSE [p EXCEPT !.again = TRUE, !.at = "find_seed"])
    /\ UNCHANGED <<cursor, events>>
    /\ StoresUnchanged

(* The proposal's id holds the second of its creation: a second proposal   *)
(* for the pair is refused within that second and accepted after it.       *)
CreateProposal(w) ==
    LET p == proc[w]
        k == <<p.intake, p.route>> IN
    /\ p.at = "create_proposal"
    /\ \/ /\ proposals' = [proposals EXCEPT ![k] = @ + 1]
          /\ Go(w, AfterProposal(p, w))
       \/ /\ proposals[k] > 0
          /\ Go(w, Idle)
          /\ UNCHANGED proposals
    /\ UNCHANGED <<env, cursor, obs, room, lane, events, opened, ruled>>

(* /redraft: a revision of one of the newest drafts whose source is found. *)
ReviseDraft(id) ==
    /\ Asked
    /\ proc["founder"] = Idle
    /\ id \in Newest(FindLimit, Of("seed"))
    /\ obs[id].src \in Newest(FindLimit, DOMAIN obs)
    /\ Created(SeedRecord(obs[id].src, ParsedSeed(id).route, "founder", id))
    /\ UNCHANGED <<env, cursor, room, proposals, lane, proc, overlap, opened, ruled>>

(* POST /source-draft-prep, the same call as Telegram's /prep: the draft   *)
(* is looked up and its lane opened.                                       *)
RequestPrep(id) ==
    /\ Asked
    /\ id \in Of("seed") /\ id \in Newest(FindLimit, DOMAIN obs)
    /\ Start("cockpit", [Idle EXCEPT !.doc = obs[id].doc, !.intake = ParsedSeed(id).src, !.route = ParsedSeed(id).route,
                             !.seed = id, !.at = "find_prep"])
    /\ UNCHANGED <<cursor>>
    /\ StoresUnchanged

PrepsOf(draft) == {i \in Of("prep") : obs[i].draft = draft}

(* OpenSourceDraftSeedPublishPrep: a lane that is open is taken as it is.  *)
FindPrep(w) ==
    LET p == proc[w] IN
    /\ p.at = "find_prep"
    /\ Go(w, IF p.seed \notin Newest(FindLimit, DOMAIN obs) THEN Idle
             ELSE IF PrepsOf(p.seed) # {} THEN [p EXCEPT !.at = "clear_red"]
             ELSE [p EXCEPT !.part = 1, !.at = "find_part"])
    /\ UNCHANGED <<cursor, events>>
    /\ StoresUnchanged

(* The parts of a lane, in order: proposal, work item, approval, flow.     *)
Parts == 4

(* buildSourceDraftPrepIDs: the ids of the parts are made of the draft's   *)
(* id, so a draft has one lane.  The text of the post is left out.         *)
LaneOf(draft) == lane[draft]

(* Mutant of FindPart: a part that is there ends the call.                 *)
FindPartRefuses(w) ==
    LET p == proc[w] IN
    /\ p.at = "find_part"
    /\ Go(w, IF LaneOf(p.seed) < p.part THEN [p EXCEPT !.at = "create_part"] ELSE Idle)
    /\ UNCHANGED <<cursor, events>>
    /\ StoresUnchanged

(* ensureSourceDraftPrepProposal ... SyncFlow: is the part there?          *)
FindPart(w) ==
    LET p == proc[w] IN
    /\ p.at = "find_part"
    /\ Go(w, IF LaneOf(p.seed) < p.part THEN [p EXCEPT !.at = "create_part"]
             ELSE IF p.part = Parts THEN [p EXCEPT !.at = "find_prep_obs"]
             ELSE [p EXCEPT !.part = @ + 1])
    /\ UNCHANGED <<cursor, events>>
    /\ StoresUnchanged

(* CreateProposal, PromoteProposal and CreateApproval refuse an id that is *)
(* there by now; SyncFlow brings the flow it finds up to date.             *)
CreatePart(w) ==
    LET p == proc[w] IN
    /\ p.at = "create_part"
    /\ IF LaneOf(p.seed) >= p.part /\ p.part < Parts
       THEN /\ Go(w, Idle)
            /\ UNCHANGED lane
       ELSE /\ lane' = [lane EXCEPT ![p.seed] = p.part]
            /\ Go(w, IF p.part = Parts THEN [p EXCEPT !.at = "find_prep_obs"]
                     ELSE [p EXCEPT !.part = @ + 1, !.at = "find_part"])
    /\ UNCHANGED <<env, cursor, obs, room, proposals, events, opened, ruled>>

(* ensureSourceDraftPrepObservation: the record of an opened lane.         *)
PrepRecord(p, w) == Observation("prep", p.doc, {}, "green", p.intake, p.route, w, p.seed)

(* ensureSourceDraftPrepObservation.                                       *)
FindPrepObservation(w) ==
    LET p == proc[w] IN
    /\ p.at = "find_prep_obs"
    /\ Go(w, [p EXCEPT !.at = IF PrepsOf(p.seed) # {} THEN "clear_red" ELSE "create_prep"])
    /\ UNCHANGED <<cursor, events>>
    /\ StoresUnchanged

CreatePrep(w) ==
    LET p == proc[w] IN
    /\ p.at = "create_prep"
    /\ Created(PrepRecord(p, w))
    /\ Go(w, [p EXCEPT !.at = "clear_red"])
    /\ UNCHANGED <<env, cursor, room, proposals, lane, events, opened, ruled>>

(* sourceDraftPublishPrepResultFromObservation: the answer names all parts *)
(* of the lane, and is an error when one of them is not found.             *)
Answered(p) == LaneOf(p.seed) = Parts

ClearRed(w) ==
    LET p == proc[w] IN
    /\ p.at = "clear_red"
    /\ room' = ResolveItems("red", p.intake)
    /\ opened' = IF Answered(p) THEN opened \cup {p.seed} ELSE opened
    /\ Go(w, Idle)
    /\ UNCHANGED <<env, cursor, obs, proposals, lane, events, ruled>>

(* The founder accepts or defers an item, or resolves it.                  *)
FileItem(i) ==
    /\ Asked
    /\ i \in room /\ i.section = "open"
    /\ \/ /\ room' = (room \ {i}) \cup {[i EXCEPT !.section = "filed"]}
          /\ UNCHANGED ruled
       \/ /\ room' = room \ {i}
          /\ ruled' = ruled \cup {i.text}
    /\ UNCHANGED <<env, cursor, obs, proposals, lane, proc, overlap, opened>>

(* A step fails, its save undone, or the process that takes it ends.       *)
Fail(w) ==
    /\ Asked
    /\ proc[w] # Idle
    /\ Go(w, Idle)
    /\ UNCHANGED cursor
    /\ StoresUnchanged
-----------------------------------------------------------------------------
Init ==
    /\ env \in Environments
    /\ cursor = 1
    /\ obs = [i \in DOMAIN env.kept |->
                [kind |-> "intake", doc |-> env.kept[i], src |-> 0, route |-> NoRoute,
                 hints |-> normalizeRoutes(About[env.kept[i]].hints), by |-> "founder", draft |-> 0,
                 color |-> ParsedColor(About[env.kept[i]].color, env.kept[i]), at |-> i]]
    /\ LET red == {i \in DOMAIN obs : obs[i].color = "red"} IN
       room = {RedItem(obs[i], i) : i \in
                  {k \in red : \A l \in red : RedText(obs[l]) = RedText(obs[k]) => k <= l}}
    /\ proposals = [k \in (1 .. MaxObs) \X Routes |-> 0]
    /\ lane = [k \in 1 .. MaxObs |-> 0]
    /\ proc = [w \in Workers |-> Idle]
    /\ events = 0
    /\ overlap = {} /\ opened = {} /\ ruled = {}

Continue(w) ==
    \/ CreateContent(w) \/ FindIntake(w) \/ CreateIntake(w)
    \/ FindDecision(w) \/ CreateDecision(w) \/ ResolveRoute(w)
    \/ FindSeed(w) \/ CreateSeed(w) \/ ResolveRed(w)
    \/ FindProposal(w) \/ CreateProposal(w)
    \/ FindPrep(w) \/ FindPart(w) \/ CreatePart(w)
    \/ FindPrepObservation(w) \/ CreatePrep(w) \/ ClearRed(w)

Next ==
    \/ runFeedSensorTick \/ runRSSIngest
    \/ \E d \in env.drops : DropSource(d)
    \/ \E id \in DOMAIN obs, r \in Routes : handleSourceRouteDecision(id, r)
    \/ \E id \in DOMAIN obs : ReviseDraft(id)
    \/ \E id \in DOMAIN obs : RequestPrep(id)
    \/ \E i \in room : FileItem(i)
    \/ \E w \in Workers : Continue(w) \/ Fail(w)

Spec == Init /\ [][Next]_vars

(* The sensor's ticker keeps ticking and a step that can be taken is taken.*)
FairSpec == Spec /\ WF_vars(runFeedSensorTick \/ Continue("sensor"))
-----------------------------------------------------------------------------
(* The shape of the observations and of the work in hand.                  *)
TypeOK ==
    /\ obs \in Seq([kind : {"content", "intake", "decision", "seed", "prep"},
                    doc : Elems(env.feed) \cup env.drops \cup Elems(env.kept), hints : SUBSET Routes, color : Color,
                    src : Nat, route : Routes \cup {NoRoute}, by : Workers, draft : Nat, at : Nat])
    /\ \A i \in DOMAIN obs : obs[i].src < i /\ obs[i].draft < i
    /\ \A i \in room : i.ref \in Of("intake")
    /\ \A w \in Workers : {proc[w].src, proc[w].intake, proc[w].seed} \subseteq 0 .. Len(obs)
    /\ opened \subseteq Of("seed")

(* The lookups of a decision and of a draft see all there is.              *)
DecisionsFit(k, r) ==
    \/ Cardinality({i \in DOMAIN obs : obs[i].src = k}) <= LookupLimit
    \/ Cardinality({i \in Of("decision") : obs[i].route = r}) <= LookupLimit
SeedsFit == Cardinality(Of("seed")) <= SeedLimit

(* Looking first is enough as long as nobody else has the same item in     *)
(* hand: whatever failed or was repeated, an item has one content and one  *)
(* intake, and this per route one sensor decision, one draft and one       *)
(* proposal, as long as the lookups see all there is.                      *)
OneOfEachUnlessOverlap ==
    \A d \in Elems(env.feed) \ overlap :
        LET Mine(kind) == {i \in Of(kind) : obs[i].doc = d}
            For(kind, k, r) == {i \in Of(kind) : obs[i].src = k /\ obs[i].route = r} IN
        /\ Cardinality(Mine("content")) <= 1
        /\ Cardinality(Mine("intake")) <= 1
        /\ \A k \in Mine("intake"), r \in Routes :
            /\ DecisionsFit(k, r) => Cardinality({i \in For("decision", k, r) : obs[i].by = "sensor"}) <= 1
            /\ SeedsFit => Cardinality({i \in For("seed", k, r) : obs[i].draft = 0}) <= 1
            /\ proposals[<<k, r>>] <= 1

(* A preparation record stands for a whole lane: with one on file, its     *)
(* proposal, work item, approval and flow exist, whoever opened them and   *)
(* whatever failed in between.                                             *)
PrepMeansWholeLane == \A i \in Of("prep") : lane[obs[i].draft] = Parts

(* The parts of a lane are never taken back by a slower call.              *)
LaneOnlyGrows == [][\A k \in 1 .. MaxObs : lane'[k] >= lane[k]]_vars

(* "red-policy source intake requires founder review": a red source has an *)
(* item in the room until somebody drafts from it or the founder resolves  *)
(* the item.  (The room keeps one item for all sources of one title and    *)
(* routes, so drafting from one of them takes the item of the others.)     *)
RedIsReviewed ==
    \A i \in Of("intake") :
        (/\ About[obs[i].doc].color = "red" /\ About[obs[i].doc].inner = "none"
         /\ RedText(obs[i]) \notin ruled
         /\ \A k \in Of("seed") : RedText(obs[obs[k].src]) # RedText(obs[i])) =>
            \E item \in room : item.text = RedText(obs[i])

(* A lane that was opened without an error leaves no open red item of its  *)
(* source behind, also when an earlier call failed before it could.        *)
OpenedLaneClearsRed ==
    \A s \in opened : ~ \E i \in room :
        i.section = "open" /\ i.source = "red" /\ i.ref = obs[s].src

(* The sensor never picks among conflicting routes: a source it routed by  *)
(* itself named one route, or none and went to the default account.        *)
SensorFollowsTheCue ==
    \A i \in Of("decision") : obs[i].by = "sensor" =>
        IF About[obs[i].doc].hints = {} THEN obs[i].route = Default
        ELSE About[obs[i].doc].hints = {obs[i].route}

(* A collected source with one route gets its lane, whatever failed on the *)
(* way.                                                                    *)
GoodSourcesGetLanes ==
    <>(\A d \in Elems(FeedItems) : (env.auto = "prep" /\ Cardinality(About[d].hints) = 1) =>
            \E i \in Of("prep") : obs[i].doc = d)

(* The records of a source are single and whole, whatever failed between   *)
(* the steps that made them (EnsureSourceIntakeObservation,                *)
(* EnsureSourceDraftSeedObservation, EnsureSourceDraftSeedProposal,        *)
(* OpenSourceDraftSeedPublishPrep).                                        *)
RecordsAreSound == TypeOK /\ OneOfEachUnlessOverlap /\ PrepMeansWholeLane

(* What needs the founder gets to the founder, and no longer than needed:  *)
(* red sources are reviewed until a draft or a lane is made of them, and   *)
(* the sensor leaves conflicting routes alone (runFeedSensorTick).         *)
FounderDecides == RedIsReviewed /\ OpenedLaneClearsRed /\ SensorFollowsTheCue

(* Lanes get done, whatever failed on the way, and no part of one is taken *)
(* back by a slower call (OpenSourceDraftSeedPublishPrep).                 *)
LanesGetDone == LaneOnlyGrows /\ GoodSourcesGetLanes
=============================================================================
