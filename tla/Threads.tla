------------------------------ MODULE Threads -------------------------------
(***************************************************************************)
(* Open threads: questions kept in a file of their own, together with the  *)
(* ones the review room raises at the moment.  The file is read, changed   *)
(* and written as a whole, and not under the service's lock: handlers of   *)
(* POST /threads and searches that find a recurring keyword do so at the   *)
(* same time.                                                              *)
(***************************************************************************)
EXTENDS Agenda, Naturals, Sequences, SequencesExt

CONSTANTS
    Manual,      \* questions of people and of searches
    Savers       \* requests that save a thread

VARIABLES
    threads,     \* the file: the status of each thread in it
    saver,       \* the requests under way
    said,        \* ground truth: the status last answered for each thread
    blurred      \* ground truth: threads a later save was not aware of

threadVars == <<threads, saver, said, blurred>>

(* A thread of the room has the kind its item's section gives it, and the  *)
(* kind is part of its id.                                                 *)
RoomThread(i, section) == [item |-> i, kind |-> IF section = "deferred" THEN "stale" ELSE "curiosity"]
ManualThread(q) == [item |-> q, kind |-> "pattern"]
Ids == {ManualThread(q) : q \in Manual} \cup {RoomThread(i, s) : i \in Items, s \in {"open", "deferred"}}
Settlements == {"resolved", "dismissed"}
NoSave == [pc |-> "idle", id |-> CHOOSE t \in Ids : TRUE, want |-> "none",
           file |-> [t \in Ids |-> "none"], behind |-> {}]
-----------------------------------------------------------------------------
(* deriveOpenThreads, of the open and the deferred items.                  *)
deriveOpenThreads == {RoomThread(i, agenda[i]) : i \in {n \in Items : agenda[n] \in {"open", "deferred"}}}

(* Mutant of mergeOpenThreads: what the room raises is open.               *)
mergeOpenThreadsRaised(stored) == [t \in Ids |-> IF t \in deriveOpenThreads THEN "open" ELSE stored[t]]
(* mergeOpenThreads: the file has the last word on a settled thread.       *)
mergeOpenThreads(stored) ==
    [t \in Ids |-> IF stored[t] = "none" /\ t \in deriveOpenThreads THEN "open" ELSE stored[t]]
OpenThreads == {t \in Ids : mergeOpenThreads(threads)[t] = "open"}

upsertStoredOpenThread(stored, t, status) == [stored EXCEPT ![t] = status]

SetSaver(c, r) == saver' = [saver EXCEPT ![c] = r]

(* A save of the status want, or a search that only ensures the thread.    *)
SaveBegins(c, t, want) ==
    /\ saver[c].pc = "idle"
    /\ SetSaver(c, [NoSave EXCEPT !.pc = IF want = "ensure" THEN "ensure" ELSE "read", !.id = t, !.want = want])
    /\ UNCHANGED <<threads, said, blurred, agenda>>

(* EnsureOpenThread returns a thread there is, and otherwise saves one.    *)
SaveEnsures(c) ==
    /\ saver[c].pc = "ensure"
    /\ SetSaver(c, IF mergeOpenThreads(threads)[saver[c].id] # "none" THEN NoSave
                   ELSE [saver[c] EXCEPT !.pc = "read", !.want = "open"])
    /\ UNCHANGED <<threads, said, blurred, agenda>>

(* SaveOpenThread reads the file, or takes it for empty when that fails.   *)
SaveReads(c) ==
    /\ saver[c].pc = "read"
    /\ SetSaver(c, [saver[c] EXCEPT !.pc = "find", !.file = threads])
    /\ UNCHANGED <<threads, said, blurred, agenda>>
SaveMisreads(c) ==
    /\ saver[c].pc = "read"
    /\ SetSaver(c, [saver[c] EXCEPT !.pc = "find", !.behind = Ids])
    /\ UNCHANGED <<threads, said, blurred, agenda>>

(* Threads(0), which reads it again: a transition of a thread there is not *)
(* is an error, since it brings no question.                               *)
SaveFinds(c) ==
    /\ saver[c].pc = "find"
    /\ SetSaver(c, IF saver[c].want \in Settlements /\ mergeOpenThreads(threads)[saver[c].id] = "none"
                   THEN NoSave ELSE [saver[c] EXCEPT !.pc = "write"])
    /\ UNCHANGED <<threads, said, blurred, agenda>>

(* saveOpenThreads: the whole file; every other request that has read is   *)
(* now behind.                                                             *)
SaveWrites(c) ==
    LET t == saver[c].id IN
    /\ saver[c].pc = "write"
    /\ threads' = upsertStoredOpenThread(saver[c].file, t, saver[c].want)
    /\ said' = [said EXCEPT ![t] = saver[c].want]
    /\ blurred' = (blurred \cup saver[c].behind) \ {t}
    /\ saver' = [d \in Savers |->
        IF d = c THEN NoSave
        ELSE IF saver[d].pc \in {"find", "write"}
             THEN [saver[d] EXCEPT !.behind = @ \cup {t} \cup saver[c].behind] ELSE saver[d]]
    /\ UNCHANGED agenda

SaveStep(c) == SaveEnsures(c) \/ SaveReads(c) \/ SaveFinds(c) \/ SaveWrites(c)

ThreadInit ==
    /\ threads = [t \in Ids |-> "none"] /\ said = threads
    /\ saver = [c \in Savers |-> NoSave]
    /\ blurred = {}
-----------------------------------------------------------------------------
(* A thread that a request was answered for keeps its status in the file,  *)
(* unless a save that had read the file before, or could not read it, was  *)
(* written after it (SaveOpenThread holds no lock).                        *)
AnsweredIsStored == \A t \in Ids \ blurred : threads[t] = said[t]

(* A thread that was settled is not asked again, though its item is still  *)
(* on the agenda (mergeOpenThreads).                                       *)
SettledIsNotAsked == \A t \in Ids \ blurred : said[t] \in Settlements => t \notin OpenThreads
=============================================================================
