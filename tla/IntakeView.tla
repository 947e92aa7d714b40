----------------------------- MODULE IntakeView -----------------------------
(***************************************************************************)
(* What the cockpit shows of the sources: the newest ones with their       *)
(* drafts, decisions and lanes, ranked, and the one thing the founder is   *)
(* asked to do next.  A view is computed from lists taken one after the    *)
(* other, all short; here from one state.                                  *)
(***************************************************************************)
EXTENDS Intake

CONSTANT ViewLimit   \* newest records of each kind the view looks at, 16

ASSUME ViewAssumption == ViewLimit \in Nat \ {0}

Shown(kind) == Newest(ViewLimit, Of(kind))

(* groupSourceIntakeDraftsBySource: the newest draft of each account, in   *)
(* the order of the accounts; the first one is offered.                    *)
AccountRank(r) == CASE r = "97layer" -> 0 [] r = "woosunhokr" -> 1 [] r = "woohwahae" -> 2 [] OTHER -> 3
DraftsOf(i) ==
    LET mine == {k \in Shown("seed") : obs[k].src = i} IN
    {k \in mine : \A l \in mine : obs[l].route = obs[k].route => ~ Later(l, k)}
FirstDraft(i) ==
    CHOOSE k \in DraftsOf(i) :
        \A l \in DraftsOf(i) : AccountRank(obs[k].route) <= AccountRank(obs[l].route)

(* groupSourceIntakeRouteDecisionsBySource: the newest decision is shown.  *)
DecisionsOf(i) == {k \in Shown("decision") : obs[k].src = i}
RoutedBySensor(i) == DecisionsOf(i) # {} /\ obs[One(DecisionsOf(i))].by = "sensor"

(* Mutant of LanesOf: lanes are grouped by their draft.                    *)
LanesOfDraft(i) == {k \in Shown("prep") : obs[k].draft = i}

(* groupSourceIntakePrepLanesBySource.                                     *)
LanesOf(i) == {k \in Shown("prep") : obs[k].src = i}

ViewDisposition(i) == Disposition(About[obs[i].doc].signal, obs[i].color, Cardinality(obs[i].hints))

(* sourceIntakeViewAttentionRank.                                          *)
AttentionRank(i) ==
    CASE obs[i].color = "red" -> 900
      [] LanesOf(i) # {} -> 860
      [] DraftsOf(i) # {} -> 820
      [] ViewDisposition(i) = "review" -> 780
      [] ViewDisposition(i) = "prep" -> 720
      [] RoutedBySensor(i) -> 680
      [] DecisionsOf(i) # {} -> 640
      [] OTHER -> 600

(* sortSourceIntakeViewItems: the first of some sources.                   *)
Before(i, k) ==
    LET score(x) == Score(About[obs[x].doc].signal, obs[x].color, Cardinality(obs[x].hints)) IN
    \/ AttentionRank(i) > AttentionRank(k)
    \/ /\ AttentionRank(i) = AttentionRank(k)
       /\ score(i) > score(k) \/ (score(i) = score(k) /\ Later(i, k))
First(ids) == CHOOSE i \in ids : \A k \in ids : k = i \/ Before(i, k)

(* summarizeSourceIntakeViewAttention: kinds of work, in this order.       *)
Attention ==
    LET Show(mode, i, draft) == [mode |-> mode, source |-> i, draft |-> draft]
        items == Shown("intake")
        red == {i \in items : obs[i].color = "red"}
        lanes == {i \in items : LanesOf(i) # {}}
        drafts == {i \in items : DraftsOf(i) # {}}
        review == {i \in items : ViewDisposition(i) = "review"}
        routed == {i \in items : RoutedBySensor(i)}
        prep == {i \in items : ViewDisposition(i) = "prep"}
        sensed(ids) == IF ids \cap routed # {} THEN First(ids \cap routed) ELSE First(ids) IN
    IF items = {} THEN Show("drop_source", 0, 0)
    ELSE IF red # {} THEN Show("review_policy", First(red), 0)
    ELSE IF lanes # {} THEN Show("monitor_prep_lane", sensed(lanes), obs[One(LanesOf(sensed(lanes)))].draft)
    ELSE IF drafts # {} THEN Show("open_threads_prep", sensed(drafts), FirstDraft(sensed(drafts)))
    ELSE IF review # {} THEN Show("review_policy", First(review), 0)
    ELSE IF routed # {} THEN Show("review_route", First(routed), 0)
    ELSE IF prep # {} THEN Show("prep_candidate", First(prep), 0)
    ELSE Show("review_route", First(items), 0)
-----------------------------------------------------------------------------
(* The founder is never asked to open a lane that is open, nor for a draft *)
(* that a newer one for the account has replaced, as long as the lanes fit *)
(* the view.                                                               *)
OfferedDraftHasNoLane ==
    (Attention.mode = "open_threads_prep" /\ Cardinality(Of("prep")) <= ViewLimit) =>
        /\ PrepsOf(Attention.draft) = {}
        /\ \A k \in Of("seed") : obs[k].draft # Attention.draft
=============================================================================
