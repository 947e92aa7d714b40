------------------------------ MODULE Recovery ------------------------------
(***************************************************************************)
(* Scratch files that agents leave behind: stray Gemini artifacts and      *)
(* corpus markdown in the repository, and the runs of Antigravity outside  *)
(* it.  The architect loop collects the first two at every tick, `ingest`  *)
(* commands collect all three: each scans, takes in what is not known yet  *)
(* (as an observation or a corpus entry), and removes the files.           *)
(*                                                                         *)
(* The agents go on writing meanwhile.  A corpus collection holds the      *)
(* service's lock, the others look up and create in separate calls.  A     *)
(* file is removed by its path, whatever it holds by then.  `ingest --job` *)
(* is left out: its report is that of module AgentJobs.                    *)
(***************************************************************************)
EXTENDS Naturals, Sequences, SequencesExt

CONSTANT Roots         \* the stems of each kind
Kinds == {"gemini", "corpus", "antigravity"}
ASSUME RootsAssumption == DOMAIN Roots = Kinds /\ \A k \in Kinds : IsFiniteSet(Roots[k])

VARIABLES
    scratch,     \* the text in each copy of a stem, 0 for no file
    texts,       \* ground truth: texts written so far
    absorbed,    \* observations and corpus entries, oldest first
    gather,      \* the collectors
    lost         \* ground truth: texts that were removed and are not absorbed

recoveryVars == <<scratch, texts, absorbed, gather, lost>>

Stems == UNION {Roots[k] : k \in DOMAIN Roots}
Copies == {"base", "resolved"}
CopiesOf(s) == IF s \in Roots["corpus"] THEN {"base"} ELSE Copies
Here(s) == {f \in Copies : scratch[s][f] # 0}

(* The kinds a collector goes through: the tick, and the commands.         *)
Rounds == [tick |-> <<"gemini", "corpus">>, gemini |-> <<"gemini">>,
           corpus |-> <<"corpus">>, antigravity |-> <<"antigravity">>]
Collectors == DOMAIN Rounds
(* Those that run in the daemon.                                           *)
InDaemon(c) == c \in {"tick", "corpus"}

Resting == [pc |-> "rest", phases |-> << >>, list |-> << >>, clean |-> {}, cleans |-> FALSE,
            since |-> 0, looked |-> 0]
SetGather(c, r) == gather' = [gather EXCEPT ![c] = r]
AtGather(c, p) == gather[c].pc = p
Kind(r) == Head(r.phases)
-----------------------------------------------------------------------------
(* selectAntigravityPrimary: the resolved copy speaks for the stem.        *)
selectAntigravityPrimary(s) == IF "resolved" \in Here(s) THEN "resolved" ELSE "base"

(* An artifact is known by its stem and text (the sync key), and lists the *)
(* files to remove: all those of a stem for Gemini, none for Antigravity.  *)
buildGeminiArtifact(s) ==
    [stem |-> s, text |-> scratch[s][selectAntigravityPrimary(s)],
     main |-> selectAntigravityPrimary(s), copies |-> Here(s)]
buildAntigravityArtifact(s) ==
    [stem |-> s, text |-> scratch[s][selectAntigravityPrimary(s)],
     main |-> selectAntigravityPrimary(s), copies |-> {}]
buildCorpusMarkdownArtifact(s) ==
    [stem |-> s, text |-> scratch[s]["base"], main |-> "base", copies |-> {"base"}]

(* The stems of a kind that are there at present.                          *)
Present(kind) == {s \in Roots[kind] : Here(s) # {}}
ScanGeminiArtifacts == {buildGeminiArtifact(s) : s \in Present("gemini")}
scanAntigravityRun == {buildAntigravityArtifact(s) : s \in Present("antigravity")}
ScanAntigravityRuns == scanAntigravityRun        \* there is one run
ScanCorpusMarkdownArtifacts == {buildCorpusMarkdownArtifact(s) : s \in Present("corpus")}
Scanned(kind) == CASE kind = "gemini" -> ScanGeminiArtifacts
                   [] kind = "antigravity" -> ScanAntigravityRuns
                   [] kind = "corpus" -> ScanCorpusMarkdownArtifacts

(* An observation with the sync reference, an entry with the id.           *)
Known(a) == \E i \in 1 .. Len(absorbed) : absorbed[i].stem = a.stem /\ absorbed[i].text = a.text

FilesOf(a) == {[stem |-> a.stem, copy |-> f, main |-> f = a.main] : f \in a.copies}

(* The next kind, or the end of the round.                                 *)
NextKind(r) == IF Len(r.phases) = 1 THEN [Resting EXCEPT !.pc = "done"]
               ELSE [Resting EXCEPT !.pc = "scan", !.phases = Tail(r.phases), !.cleans = r.cleans]
(* From one artifact to the next, to the removals, to the next kind.       *)
Onward(r) ==
    IF r.list # << >> THEN [r EXCEPT !.pc = "look"]
    ELSE IF r.cleans /\ r.clean # {} THEN [r EXCEPT !.pc = "clean"]
    ELSE NextKind(r)

AfterKnown(r) == Onward([r EXCEPT !.list = Tail(@), !.clean = @ \cup FilesOf(Head(r.list))])

(* Mutant of AfterFailure: an artifact that could not be taken in is       *)
(* removed with the others.                                                *)
AfterFailureCleans(c, r) == AfterKnown(r)
(* After an error the daemon goes on with the next artifact, a command     *)
(* ends (log.Fatal).                                                       *)
AfterFailure(c, r) == IF InDaemon(c) THEN Onward([r EXCEPT !.list = Tail(@)]) ELSE Resting
-----------------------------------------------------------------------------
GatherStarts(c, cleans) ==
    /\ AtGather(c, "rest")
    /\ SetGather(c, [Resting EXCEPT !.pc = "scan", !.phases = Rounds[c], !.cleans = cleans])
    /\ UNCHANGED <<scratch, texts, absorbed, lost>>

(* The scan; AbsorbCorpusMarkdown holds the lock from here to its end.     *)
HoldsCorpus(c) == gather[c].pc \in {"look", "make", "clean"} /\ Kind(gather[c]) = "corpus"
GatherScans(c) ==
    /\ AtGather(c, "scan")
    /\ Kind(gather[c]) = "corpus" => \A d \in Collectors : ~ HoldsCorpus(d)
    /\ SetGather(c, Onward([gather[c] EXCEPT !.list = SetToSeq(Scanned(Kind(gather[c]))), !.since = texts]))
    /\ UNCHANGED <<scratch, texts, absorbed, lost>>

(* ListObservations, or the ids of the entries.                            *)
GatherLooks(c) ==
    /\ AtGather(c, "look")
    /\ SetGather(c, IF Known(Head(gather[c].list)) THEN AfterKnown(gather[c])
                    ELSE [gather[c] EXCEPT !.pc = "make", !.looked = Len(absorbed)])
    /\ UNCHANGED <<scratch, texts, absorbed, lost>>

(* CreateObservation, appendCapitalizationEntry; or its error.             *)
GatherMakes(c) ==
    LET a == Head(gather[c].list) IN
    /\ AtGather(c, "make")
    /\ absorbed' = Append(absorbed, [stem |-> a.stem, text |-> a.text, looked |-> gather[c].looked])
    /\ SetGather(c, AfterKnown(gather[c]))
    /\ UNCHANGED <<scratch, texts, lost>>
GatherFails(c) ==
    /\ AtGather(c, "make")
    /\ SetGather(c, AfterFailure(c, gather[c]))
    /\ UNCHANGED <<scratch, texts, absorbed, lost>>

(* cleanupGeminiArtifactPaths, cleanupCorpusMarkdownPaths: a file is       *)
(* removed, or is gone already; or cannot be removed.                      *)
Removed(c, x) == SetGather(c, LET r == [gather[c] EXCEPT !.clean = @ \ {x}] IN
                              IF r.clean = {} THEN NextKind(r) ELSE r)
GatherRemoves(c) ==
    /\ AtGather(c, "clean")
    /\ \E x \in gather[c].clean :
        LET text == scratch[x.stem][x.copy] IN
        /\ Removed(c, x)
        /\ scratch' = [scratch EXCEPT ![x.stem][x.copy] = 0]
        /\ lost' = IF text = 0 \/ Known([stem |-> x.stem, text |-> text]) THEN lost
                   ELSE lost \cup {[text |-> text, main |-> x.main, late |-> text > gather[c].since]}
    /\ UNCHANGED <<texts, absorbed>>
GatherCannotRemove(c) ==
    /\ AtGather(c, "clean")
    /\ \E x \in gather[c].clean : Removed(c, x)
    /\ UNCHANGED <<scratch, texts, absorbed, lost>>

(* A command that has come to its end may be started again.                *)
GatherEnds(c) ==
    /\ c # "tick" /\ AtGather(c, "done")
    /\ SetGather(c, Resting)
    /\ UNCHANGED <<scratch, texts, absorbed, lost>>

GatherStep(c) == GatherScans(c) \/ GatherLooks(c) \/ GatherMakes(c) \/ GatherRemoves(c) \/ GatherEnds(c)

(* An agent writes.                                                        *)
AgentWrites(s, f) ==
    /\ f \in CopiesOf(s)
    /\ scratch' = [scratch EXCEPT ![s][f] = texts + 1]
    /\ texts' = texts + 1
    /\ UNCHANGED <<absorbed, gather, lost>>

(* The daemon stops.                                                       *)
Interrupted == [c \in Collectors |-> IF InDaemon(c) THEN Resting ELSE gather[c]]

RecoveryInit ==
    /\ scratch = [s \in Stems |-> [f \in Copies |-> 0]] /\ texts = 0
    /\ absorbed = << >> /\ lost = {}
    /\ gather = [c \in Collectors |-> Resting]
-----------------------------------------------------------------------------
(* What is removed was taken in before, except what was written after the  *)
(* collector's scan, and a copy that stood beside a resolved one: only the *)
(* resolved copy is read, all copies are removed (AbsorbGeminiArtifacts).  *)
RemovedIsAbsorbed == \A x \in lost : x.late \/ ~ x.main

(* A text is taken in twice only by two collectors at a time: the second   *)
(* had looked before the first one's observation was there.                *)
TwiceMeansRaced ==
    \A i, k \in 1 .. Len(absorbed) :
        i < k /\ absorbed[i].stem = absorbed[k].stem /\ absorbed[i].text = absorbed[k].text =>
            i > absorbed[k].looked
=============================================================================
