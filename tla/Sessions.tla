------------------------------ MODULE Sessions ------------------------------
(***************************************************************************)
(* Sessions: the one working memory of the system, and the continuity      *)
(* records, one line of records for each actor and source, from which the  *)
(* next session is resumed.                                                *)
(*                                                                         *)
(* Notes and checkpoints write a whole record over the memory; a finish    *)
(* replaces the memory and resolves a record.  After the save of a finish, *)
(* still under the lock, its corpus entry and its observation are written, *)
(* and neither can undo it.  Next steps behave as open risks do and are    *)
(* left out, and so are focus, goal and handoff note.                      *)
(***************************************************************************)
EXTENDS Agenda, Naturals, Sequences, SequencesExt

CONSTANTS
    Actors,      \* who works
    Sources,     \* where from; a finish is about "terminal" only
    Risks        \* texts of risks

VARIABLES
    memory,      \* open_risks of the working memory
    records,     \* continuity records, the one updated last at the end
    pend,        \* the finish whose entries are being written, 0 for none
    finishes,    \* ground truth: what became of the entries of each finish
    unsaved,     \* items of the room that are not on disk yet
    packet,      \* what quickwork read of the memory last
    last         \* ground truth: the last note, checkpoint or finish

Entries == {"cap", "obs"}
sessionVars == <<memory, records, pend, finishes, unsaved, packet, last>>
-----------------------------------------------------------------------------
(* continuityStatusAt: resolved for good, stale a day after the update.    *)
Status(r) == IF r.done THEN "resolved" ELSE IF r.old THEN "stale" ELSE "active"
IsOpen(r) == Status(r) # "resolved"

(* latestContinuityRecord: an index, 0 for none.                           *)
Those(a, s, status) ==
    {i \in 1 .. Len(records) : a \in {records[i].actor, "*"} /\ records[i].source = s
                               /\ Status(records[i]) = status}
Latest(a, s, status) == LET is == Those(a, s, status) IN
    IF is = {} THEN 0 ELSE CHOOSE i \in is : \A k \in is : k <= i
(* Mutant of LatestOpen: a stale record comes first.                       *)
LatestOpenOldest(a, s) ==
    IF Those(a, s, "stale") # {} THEN Latest(a, s, "stale") ELSE Latest(a, s, "active")
(* latestOpenContinuityRecord.                                             *)
LatestOpen(a, s) ==
    IF Those(a, s, "active") # {} THEN Latest(a, s, "active") ELSE Latest(a, s, "stale")

(* continuityRecordFromMemory: a new record takes over the memory, whoever *)
(* wrote that.                                                             *)
NewRecord(a, s) == [id |-> Len(records) + 1, actor |-> a, source |-> s, risks |-> memory,
                    done |-> FALSE, old |-> FALSE]
RecordAt(a, s, i) == IF i = 0 THEN NewRecord(a, s) ELSE records[i]

(* upsertContinuityRecord, sorted by the time of the update.               *)
Upserted(r) == Append(RemoveFirstMatch(records, LAMBDA q : q.id = r.id), r)

(* The record is saved, and memory is its projection.                      *)
Projected(op, r) ==
    /\ records' = Upserted(r)
    /\ memory' = r.risks
    /\ unsaved' = {}
    /\ last' = [op |-> op, actor |-> r.actor, source |-> r.source]
    /\ UNCHANGED <<agenda, pend, finishes, packet>>

(* applySessionCheckpointToContinuityRecord, ...NoteTo..., ...FinishTo...: *)
(* each is an update that revives the record or closes it.                 *)
CheckpointIn(r, risks) == [r EXCEPT !.risks = risks, !.old = FALSE]
NoteIn(r, added) == [r EXCEPT !.risks = @ \cup added, !.old = FALSE]
FinishIn(r, risks) == [r EXCEPT !.risks = risks, !.done = TRUE, !.old = FALSE]

(* CheckpointSession: the active record, or a new one beside a stale one.  *)
Checkpoint(a, s, risks) ==
    /\ pend = 0
    /\ Projected("checkpoint", CheckpointIn(RecordAt(a, s, Latest(a, s, "active")), risks))

(* SessionNote: the open record, also a stale one, or a new one.           *)
Note(a, s, added) ==
    /\ pend = 0
    /\ Projected("note", NoteIn(RecordAt(a, s, LatestOpen(a, s)), added))
-----------------------------------------------------------------------------
(* Mutant of ToResolve: the latest record of any actor.                    *)
ToResolveAny(a) == LatestOpen("*", "terminal")
(* The record a finish resolves: the actor's own.                          *)
ToResolve(a) == LatestOpen(a, "terminal")

(* FinishSession, up to its save: memory is replaced by the input, whose   *)
(* risks make one agenda item.                                             *)
FinishSession(a, risks) ==
    LET i == ToResolve(a) IN
    /\ pend = 0
    /\ memory' = risks
    /\ records' = IF i = 0 THEN records ELSE Upserted(FinishIn(records[i], risks))
    /\ agenda' = IF risks # {} THEN Ensured(agenda, "risks") ELSE agenda
    /\ finishes' = Append(finishes, [w \in Entries |-> "due"])
    /\ pend' = Len(finishes) + 1
    /\ unsaved' = {}
    /\ last' = [op |-> "finish", actor |-> a, source |-> "terminal"]
    /\ UNCHANGED packet

(* The warning for an entry that could not be written.                     *)
Warned(what) == Ensured(agenda, what)

(* appendCapitalizationEntry, then appendAutoObservationLocked: each may   *)
(* fail, and so may the save of the warning.                               *)
Due(what) == pend # 0 /\ finishes[pend][what] = "due" /\ (what = "obs" => finishes[pend]["cap"] # "due")
Entered(what, how) ==
    /\ Due(what)
    /\ finishes' = [finishes EXCEPT ![pend][what] = how]
    /\ pend' = IF what = "obs" THEN 0 ELSE pend
    /\ UNCHANGED <<memory, records, packet, last>>
EntryWritten(what) == Entered(what, "written") /\ UNCHANGED <<agenda, unsaved>>
EntryFails(what) ==
    /\ Entered(what, "failed")
    /\ agenda' = Warned(what)
    /\ unsaved' \in {{}, unsaved \cup (IF agenda[what] = "none" THEN {what} ELSE {})}

(* A day passes, for the records that were updated first.                  *)
Age(n) ==
    /\ records' = [i \in 1 .. Len(records) |-> [records[i] EXCEPT !.old = @ \/ i <= n]]
    /\ UNCHANGED <<agenda, memory, pend, finishes, unsaved, packet, last>>

(* ReplaceMemory.                                                          *)
ReplaceMemory(risks) ==
    /\ pend = 0
    /\ memory' = risks
    /\ last' = [last EXCEPT !.op = "replace"]
    /\ unsaved' = {}
    /\ UNCHANGED <<agenda, records, pend, finishes, packet>>

(* SessionBootstrap, as quickwork reads it.                                *)
Bootstrap == packet' = memory
Resume == LatestOpen("*", "terminal")

(* The founder files an item; a warning that is resolved is dealt with.    *)
DealtWith(i) == [n \in 1 .. Len(finishes) |-> [w \in Entries |->
    IF w = i /\ finishes[n][w] = "failed" THEN "excused" ELSE finishes[n][w]]]
SessionItemMoved(i, to) ==
    /\ pend = 0
    /\ Move(i, to)
    /\ unsaved' = {}
    /\ finishes' = IF to = "none" THEN DealtWith(i) ELSE finishes
    /\ UNCHANGED <<memory, records, pend, packet, last>>

(* The daemon dies and comes back with what is on disk: entries that were  *)
(* due are not written any more, warnings that were not saved are gone.    *)
SessionRestart ==
    /\ agenda' = [i \in Items |-> IF i \in unsaved THEN "none" ELSE agenda[i]]
    /\ finishes' = [n \in 1 .. Len(finishes) |-> [w \in Entries |->
            IF finishes[n][w] = "due" \/ (w \in unsaved /\ finishes[n][w] = "failed")
            THEN "excused" ELSE finishes[n][w]]]
    /\ pend' = 0
    /\ unsaved' = {}
    /\ UNCHANGED <<memory, records, packet, last>>

SessionInit ==
    /\ memory = {} /\ records = << >> /\ pend = 0 /\ finishes = << >>
    /\ unsaved = {} /\ packet = {} /\ last = [op |-> "none", actor |-> "none", source |-> "none"]
-----------------------------------------------------------------------------
(* An actor has one active record for a source, however its records age,   *)
(* are revived by notes and replaced by checkpoints.                       *)
OneActiveRecord ==
    \A i, k \in 1 .. Len(records) :
        /\ i # k => records[i].id # records[k].id
        /\ i # k /\ records[i].actor = records[k].actor /\ records[i].source = records[k].source =>
            ~ (Status(records[i]) = "active" /\ Status(records[k]) = "active")

OpenRisks(rs, a, s) ==
    UNION {rs[i].risks : i \in {n \in 1 .. Len(rs) : rs[n].actor = a /\ rs[n].source = s /\ IsOpen(rs[n])}}
(* The memory is everybody's: each note, checkpoint or idle exit writes    *)
(* over it.  The records are not: a risk leaves an actor's open records    *)
(* only by a checkpoint or a finish of that actor, for that source.        *)
RisksLeaveByOwnHand ==
    [][\A a \in Actors, s \in Sources :
        ~ (OpenRisks(records, a, s) \subseteq OpenRisks(records', a, s)) =>
            last'.op \in {"checkpoint", "finish"} /\ last'.actor = a /\ last'.source = s]_<<sessionVars, agenda>>

(* The two places a session is picked up from agree: what the bootstrap    *)
(* resumes after a note or a checkpoint at the terminal is what memory     *)
(* says, whatever other records there are and however old they get.        *)
ResumeAgreesWithMemory ==
    last.op \in {"note", "checkpoint"} /\ last.source = "terminal" =>
        Resume # 0 /\ records[Resume].risks = memory

(* A finish whose corpus entry or observation could not be written is      *)
(* noticed: a warning is in the room until the founder resolves it, unless *)
(* the daemon stopped before it was written or saved.                      *)
MissingEntryIsNoticed ==
    \A n \in 1 .. Len(finishes), w \in Entries : finishes[n][w] = "failed" => InRoom(w)
=============================================================================
