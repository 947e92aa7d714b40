------------------------------- MODULE Agenda -------------------------------
(***************************************************************************)
(* The review room as the sessions, branches and threads see it: items are *)
(* known by their text, stay in one section, and leave when resolved.      *)
(***************************************************************************)
CONSTANT Items         \* texts of agenda items

VARIABLE agenda        \* the section each item is in, "none" when it is not in the room

Sections == {"open", "accepted", "deferred"}
InRoom(i) == agenda[i] \in Sections

(* ensureReviewRoomItem: nothing happens while the text is in the room, in *)
(* whatever section.                                                       *)
Ensured(a, i) == IF a[i] = "none" THEN [a EXCEPT ![i] = "open"] ELSE a

(* transitionReviewRoomItem: accept, defer, resolve.                       *)
Move(i, to) ==
    /\ InRoom(i) /\ to \in {"accepted", "deferred", "none"} \ {agenda[i]}
    /\ agenda' = [agenda EXCEPT ![i] = to]
=============================================================================
