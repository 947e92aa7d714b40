------------------------------ MODULE MCIntake ------------------------------
(***************************************************************************)
(* Instances of Intake: a feed with one item, that names one route, two    *)
(* routes or none, and sources dropped by hand.                            *)
(***************************************************************************)
EXTENDS IntakeView

Green(hints) == [title |-> hints, hints |-> hints, color |-> "green",
                 inner |-> "none", signal |-> 8, old |-> TRUE]
Sources ==
    [d \in {"hinted", "torn", "hintless", "red", "masked"} |->
        CASE d = "hinted" -> Green({"woosunhokr"})
          [] d = "torn" -> Green({"woosunhokr", "97layer"})
          [] d = "hintless" -> Green({})
          [] d = "red" -> [Green({}) EXCEPT !.title = {"red"}, !.color = "red", !.old = FALSE]
          [] d = "masked" -> [Green({}) EXCEPT !.color = "red", !.inner = "green", !.old = FALSE]]
Env(source, auto, kept, drops, n) ==
    [feed |-> source, auto |-> auto, kept |-> kept, drops |-> drops, events |-> n]
Lanes == {Env(<< "hinted" >>, "prep", << >>, {}, 2), Env(<< "hinted" >>, "route", << >>, {}, 1),
          Env(<< "torn" >>, "prep", << >>, {}, 1), Env(<< "hintless" >>, "prep", << >>, {}, 1),
          Env(<< >>, "off", << "red" >>, {}, 3), Env(<< "hintless", "torn" >>, "off", << >>, {"red", "masked"}, 2)}
TwoRoutes == {"97layer", "woosunhokr"}
=============================================================================
