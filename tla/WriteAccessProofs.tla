-------------------------- MODULE WriteAccessProofs -------------------------
(***************************************************************************)
(* Who may write, for any number of processes, files and changes, and of   *)
(* requests, callers, actors and tokens: what the lease keeps apart and what*)
(* a copy of the directory is sure to hold (WriterLease); what is let      *)
(* through was allowed, the founder's token in force is the one on disk, and*)
(* the guard is fair (WriteGate).                                          *)
(***************************************************************************)
EXTENDS WriterLease, WriteGate, TLAPS

-----------------------------------------------------------------------------
(* Writer lease: which process may write.                                 *)

(* A change nobody made yet is nowhere; who made one, or is named by the    *)
(* lease, has opened the directory.                                         *)
Unmade ==
    \A c \in Changes : maker[c] = NoProc =>
        /\ c \notin acked \cup lost
        /\ \A d \in Domains : c \notin disk[d] /\ \A p \in Procs : c \notin mem[p][d]
Opened ==
    /\ \A c \in Changes, p \in Procs : maker[c] = p => phase[p] # "off"
    /\ lease \in Procs => phase[lease] # "off"

(* What is put back is no more than what is there, and a change of the      *)
(* process itself is in all of its stores or in none.                       *)
UndoIsOlder ==
    \A p \in Procs :
        /\ phase[p] \notin Working => undo[p] = Empty
        /\ \A d \in Domains : undo[p][d] \subseteq mem[p][d]
Uniform(s) ==
    \A p \in Procs, c \in Changes, d, e \in Domains :
        maker[c] = p /\ c \in s[p][d] => c \in s[p][e]
WholeChanges == Uniform(mem) /\ Uniform(undo)

(* The signatures a process keeps, the part of a sweep that is done and     *)
(* every acknowledged change are on the files, but for what was lost.       *)
OnFile(S, d) == S \ lost \subseteq disk[d]
Written ==
    /\ \A p \in Procs, d \in Domains : OnFile(saved[p][d], d)
    /\ \A p \in Procs, d \in Domains : phase[p] = "sweep" /\ d \notin todo[p] => OnFile(mem[p][d], d)
    /\ \A d \in Domains : OnFile(acked, d)

(* The life of the lease file: absent, empty while one process writes it,   *)
(* and a process from then on; nothing is saved before.                     *)
Unsaved == disk = Empty /\ acked = {} /\ \A p \in Procs : phase[p] \notin {"take", "sweep"}
LeaseGrows ==
    /\ lease \in {"none", "empty"} => Unsaved
    /\ \A p \in Procs : phase[p] = "write" => lease = "empty"
    /\ \A p, q \in Procs : phase[p] = "write" /\ phase[q] = "write" => p = q

(* While nobody is gone the lease stays with one writer id.                 *)
NoneGone == \A p \in Procs : phase[p] # "dead"
OneId == NoneGone =>
    \A p \in Procs : phase[p] \in {"take", "sweep"} => lease \in Procs /\ Owner[lease] = Owner[p]

(* A living process keeps in memory what was acknowledged to it.            *)
AckedIsKept ==
    \A c \in acked, p \in Procs, d \in Domains : maker[c] = p /\ Alive(p) =>
        c \in mem[p][d] /\ (phase[p] \in Working => c \in undo[p][d])

(* Without stolen leases and shared ids: who sweeps holds the lease, and so *)
(* does a living process one of whose changes is on a file or in the stores *)
(* of another process; and what a living process has of its own changes is  *)
(* not lost.                                                                *)
Clean == stolen = {} /\ ~Shared
HolderSweeps == \A p \in Procs : phase[p] = "sweep" => lease = p
SeenHolds ==
    \A c \in Changes, p \in Procs, d \in Domains : maker[c] = p /\ Alive(p) =>
        /\ c \in disk[d] => lease = p
        /\ \A q \in Procs \ {p} : c \in mem[q][d] => lease = p
OwnNotLost ==
    \A c \in Changes, p \in Procs, d \in Domains :
        maker[c] = p /\ Alive(p) /\ c \in mem[p][d] => c \notin lost
Excluded == Clean => HolderSweeps /\ SeenHolds /\ OwnNotLost

(* What the copy of the directory holds of what was acknowledged before.    *)
CopyHolds ==
    reader.at = "cloning" =>
        /\ reader.base \subseteq acked
        /\ \A d \in Domains \ reader.left : reader.base \ lost \subseteq reader.copy[d]

LeaseInv ==
    /\ LeaseTypeOK /\ Unmade /\ Opened /\ UndoIsOlder /\ WholeChanges /\ Written
    /\ LeaseGrows /\ OneId /\ AckedIsKept /\ Excluded /\ CopyHolds
-----------------------------------------------------------------------------
(* A step of p leaves the other processes where they are.                   *)
Alone(p) ==
    \A q \in Procs : q # p =>
        /\ phase'[q] = phase[q] /\ mem'[q] = mem[q] /\ saved'[q] = saved[q]
        /\ undo'[q] = undo[q] /\ todo'[q] = todo[q]

(* Nobody closes the directory again and no theft is forgotten, so what is  *)
(* clean after a step was clean before it.                                  *)
LEMMA CleanBefore ==
    ASSUME stolen \subseteq stolen', \A q \in Procs : phase[q] # "off" => phase'[q] # "off", Clean'
    PROVE  Clean
<1>1. Shared => Shared'
  BY DEF Shared
<1> QED BY <1>1 DEF Clean

LEMMA CopyKept ==
    ASSUME CopyHolds, reader' = reader, acked \subseteq acked', lost \subseteq lost'
    PROVE  CopyHolds'
BY DEF CopyHolds

LEMMA EmptyTyped == Empty \in Contents /\ \A d \in Domains : Empty[d] = {}
BY DEF Empty, Contents

(* Steps that leave the stores, the files and the ground truth alone.       *)
LEMMA DataKept ==
    ASSUME UNCHANGED <<mem, undo, maker, disk, acked, lost>>
    PROVE  /\ Unmade => Unmade'
           /\ WholeChanges => WholeChanges'
BY DEF Unmade, WholeChanges, Uniform

LEMMA LeaseStart == LeaseInit => LeaseInv
<1> SUFFICES ASSUME LeaseInit PROVE LeaseInv
  OBVIOUS
<1>1. /\ \A p \in Procs : phase[p] = "off" /\ mem[p] = Empty /\ saved[p] = Empty /\ undo[p] = Empty
      /\ \A c \in Changes : maker[c] = NoProc
      /\ disk = Empty /\ lease = "none" /\ acked = {} /\ lost = {} /\ reader.at = "idle"
      /\ lease \notin Procs /\ NoProc \notin Procs
  BY LeaseAssumption DEF LeaseInit, NoReader
<1>2. LeaseTypeOK
  BY EmptyTyped DEF LeaseInit, LeaseTypeOK, NoReader, Working
<1>3. Unmade /\ Opened /\ UndoIsOlder /\ WholeChanges /\ CopyHolds
  BY <1>1, EmptyTyped DEF Working, Unmade, Opened, UndoIsOlder, WholeChanges, Uniform, CopyHolds
<1>4. Written
  BY <1>1, EmptyTyped DEF Written, OnFile
<1>5. LeaseGrows /\ OneId
  BY <1>1 DEF LeaseGrows, Unsaved, OneId
<1>6. AckedIsKept /\ Excluded
  BY <1>1 DEF AckedIsKept, Excluded, HolderSweeps, SeenHolds, OwnNotLost, Alive
<1> QED BY <1>2, <1>3, <1>4, <1>5, <1>6 DEF LeaseInv
-----------------------------------------------------------------------------
LEMMA NewServiceKeeps ==
    ASSUME LeaseInv, NEW p \in Procs, NewService(p)
    PROVE  LeaseInv'
<1> USE DEF LeaseInv
<1>1. /\ phase[p] = "off" /\ phase'[p] = "loaded" /\ mem'[p] = disk /\ saved'[p] = disk
      /\ acked \subseteq Changes
      /\ undo' = undo /\ todo' = todo /\ Alone(p)
      /\ UNCHANGED <<lease, disk, port, reader, maker, acked, lost, stolen>>
  BY DEF NewService, Move, Alone, LeaseTypeOK, truth
<1>2. LeaseTypeOK'
  BY <1>1 DEF LeaseTypeOK, NewService, Move
<1>3. \A c \in Changes : maker[c] # p
  BY <1>1 DEF Opened
<1>4. Unmade'
  BY <1>1 DEF Unmade, Alone
<1>5. Opened'
  BY <1>1 DEF Opened, Alone
<1>6. UndoIsOlder'
  BY <1>1, EmptyTyped DEF UndoIsOlder, Alone, Working
<1>7. WholeChanges'
  BY <1>1, <1>3 DEF WholeChanges, Uniform, Alone
<1>8. Written'
  BY <1>1 DEF Written, OnFile, Alone
<1>9. LeaseGrows' /\ OneId'
  BY <1>1 DEF LeaseGrows, Unsaved, OneId, NoneGone, Alone
<1>10. AckedIsKept'
  BY <1>1, <1>3 DEF AckedIsKept, Alone, Alive
<1>11. Excluded'
  <2>1. Clean' => Clean
    BY <1>1, CleanBefore DEF Alone
  <2>2. HolderSweeps => HolderSweeps'
    BY <1>1 DEF HolderSweeps, Alone
  <2>3. SeenHolds => SeenHolds'
    BY <1>1, <1>3 DEF SeenHolds, Alone, Alive
  <2>4. OwnNotLost => OwnNotLost'
    BY <1>1, <1>3 DEF OwnNotLost, Alone, Alive
  <2> QED BY <2>1, <2>2, <2>3, <2>4 DEF Excluded
<1>12. CopyHolds'
  BY <1>1, CopyKept
<1> QED BY <1>2, <1>4, <1>5, <1>6, <1>7, <1>8, <1>9, <1>10, <1>11, <1>12

(* A process that ends: its memory is gone with it.                         *)
LEMMA GoneKeeps ==
    ASSUME LeaseInv, NEW p \in Procs, Alive(p), Gone(p), port' \in Procs \cup {NoProc},
           UNCHANGED <<lease, disk, reader, truth>>
    PROVE  LeaseInv'
<1> USE DEF LeaseInv
<1>1. /\ phase[p] # "off" /\ phase'[p] = "dead" /\ mem'[p] = Empty /\ saved'[p] = Empty
      /\ undo'[p] = Empty /\ Alone(p)
      /\ UNCHANGED <<lease, disk, reader, maker, acked, lost, stolen>>
  BY DEF Gone, Move, Alone, LeaseTypeOK, truth, Alive
<1>2. LeaseTypeOK'
  BY <1>1, EmptyTyped DEF LeaseTypeOK, Gone, Move
<1>3. Unmade' /\ UndoIsOlder'
  BY <1>1, EmptyTyped DEF Unmade, UndoIsOlder, Alone
<1>4. Opened'
  BY <1>1 DEF Opened, Alone
<1>5. WholeChanges'
  BY <1>1, EmptyTyped DEF WholeChanges, Uniform, Alone
<1>6. Written'
  BY <1>1, EmptyTyped DEF Written, OnFile, Alone
<1>7. LeaseGrows' /\ OneId'
  BY <1>1 DEF LeaseGrows, Unsaved, OneId, NoneGone, Alone
<1>8. AckedIsKept'
  BY <1>1 DEF AckedIsKept, Alone, Alive
<1>9. Excluded'
  <2>1. Clean' => Clean
    BY <1>1, CleanBefore DEF Alone
  <2>2. HolderSweeps => HolderSweeps'
    BY <1>1 DEF HolderSweeps, Alone
  <2>3. SeenHolds => SeenHolds'
    BY <1>1, EmptyTyped DEF SeenHolds, Alone, Alive
  <2>4. OwnNotLost => OwnNotLost'
    BY <1>1 DEF OwnNotLost, Alone, Alive
  <2> QED BY <2>1, <2>2, <2>3, <2>4 DEF Excluded
<1>10. CopyHolds'
  BY <1>1, CopyKept
<1> QED BY <1>2, <1>3, <1>4, <1>5, <1>6, <1>7, <1>8, <1>9, <1>10

(* A process that goes on outside its sweep, without the lease.             *)
LEMMA MovedKeeps ==
    ASSUME LeaseInv, NEW p \in Procs, Alive(p), phase[p] \notin Working, Move(p, "serving"),
           port' \in Procs \cup {NoProc}, UNCHANGED <<mem, saved, undo, todo, lease, disk, reader, truth>>
    PROVE  LeaseInv'
<1> USE DEF LeaseInv
<1>1. /\ phase[p] # "off" /\ phase'[p] = "serving" /\ Alone(p)
      /\ UNCHANGED <<mem, saved, undo, todo, lease, disk, reader, maker, acked, lost, stolen>>
  BY DEF Move, Alone, LeaseTypeOK, truth, Alive
<1>2. LeaseTypeOK'
  BY <1>1 DEF LeaseTypeOK, Move
<1>3. Unmade' /\ WholeChanges'
  BY <1>1, DataKept
<1>4. UndoIsOlder' /\ Opened' /\ Written'
  BY <1>1 DEF UndoIsOlder, Opened, Written, OnFile, Alone
<1>5. LeaseGrows' /\ OneId'
  BY <1>1 DEF LeaseGrows, Unsaved, OneId, NoneGone, Alone, Alive
<1>6. AckedIsKept'
  BY <1>1 DEF AckedIsKept, Alone, Alive, Working
<1>7. Excluded'
  <2>1. Clean' => Clean
    BY <1>1, CleanBefore DEF Alone
  <2>2. HolderSweeps => HolderSweeps'
    BY <1>1 DEF HolderSweeps, Alone
  <2>3. SeenHolds => SeenHolds'
    BY <1>1 DEF SeenHolds, Alone, Alive
  <2>4. OwnNotLost => OwnNotLost'
    BY <1>1 DEF OwnNotLost, Alone, Alive
  <2> QED BY <2>1, <2>2, <2>3, <2>4 DEF Excluded
<1>8. CopyHolds'
  BY <1>1, CopyKept
<1> QED BY <1>2, <1>3, <1>4, <1>5, <1>6, <1>7, <1>8

LEMMA ListenKeeps ==
    ASSUME LeaseInv, NEW p \in Procs, listenDaemon(p)
    PROVE  LeaseInv'
<1>1. Alive(p) /\ phase[p] \notin Working /\ port' \in Procs \cup {NoProc}
  BY DEF listenDaemon, Alive, Working, LeaseInv, LeaseTypeOK
<1> QED BY <1>1, GoneKeeps, MovedKeeps DEF listenDaemon

LEMMA DieKeeps ==
    ASSUME LeaseInv, NEW p \in Procs, Die(p)
    PROVE  LeaseInv'
<1>1. port' \in Procs \cup {NoProc}
  BY DEF Die, LeaseInv, LeaseTypeOK
<1> QED BY <1>1, GoneKeeps DEF Die

LEMMA OperateKeeps ==
    ASSUME LeaseInv, NEW p \in Procs, Operate(p)
    PROVE  LeaseInv'
<1> USE DEF LeaseInv
<1>1. PICK c \in Changes :
        /\ maker[c] = NoProc
        /\ maker' = [maker EXCEPT ![c] = p]
        /\ mem' = [mem EXCEPT ![p] = [d \in Domains |-> @[d] \cup {c}]]
  BY DEF Operate
<1>2. /\ phase[p] \in {"loaded", "serving"} /\ phase'[p] = "lease" /\ undo'[p] = mem[p]
      /\ \A d \in Domains : mem'[p][d] = mem[p][d] \cup {c}
      /\ Alone(p)
      /\ UNCHANGED <<saved, todo, lease, disk, port, reader, acked, lost, stolen>>
  BY <1>1 DEF Operate, Move, Alone, LeaseTypeOK
<1>3. /\ maker'[c] = p /\ \A b \in Changes : b # c => maker'[b] = maker[b]
      /\ NoProc \notin Procs
  BY <1>1, LeaseAssumption DEF LeaseTypeOK
<1>4. /\ c \notin acked \cup lost
      /\ \A d \in Domains : c \notin disk[d] /\ \A q \in Procs : c \notin mem[q][d] /\ c \notin undo[q][d]
  BY <1>1 DEF Unmade, UndoIsOlder
<1>5. LeaseTypeOK'
  <2>1. mem'[p] \in Contents
    BY <1>1 DEF LeaseTypeOK, Contents
  <2> QED BY <1>1, <1>2, <2>1 DEF LeaseTypeOK, Operate, Move, Working
<1>6. Unmade'
  BY <1>2, <1>3 DEF Unmade, Alone
<1>7. Opened'
  BY <1>2, <1>3 DEF Opened, Alone
<1>8. UndoIsOlder'
  BY <1>2 DEF UndoIsOlder, Alone, Working
<1>9. WholeChanges'
  <2>1. Uniform(mem)'
    BY <1>2, <1>3, <1>4 DEF WholeChanges, Uniform, Alone
  <2>2. Uniform(undo)'
    BY <1>2, <1>3, <1>4 DEF WholeChanges, Uniform, Alone
  <2> QED BY <2>1, <2>2 DEF WholeChanges
<1>10. Written'
  BY <1>2 DEF Written, OnFile, Alone
<1>11. LeaseGrows' /\ OneId'
  BY <1>2 DEF LeaseGrows, Unsaved, OneId, NoneGone, Alone
<1>12. AckedIsKept'
  BY <1>2, <1>3, <1>4 DEF AckedIsKept, Alone, Alive, Working, LeaseTypeOK
<1>13. Excluded'
  <2>1. Clean' => Clean
    BY <1>2, CleanBefore DEF Alone
  <2>2. HolderSweeps => HolderSweeps'
    BY <1>2 DEF HolderSweeps, Alone
  <2>3. SeenHolds => SeenHolds'
    BY <1>2, <1>3, <1>4 DEF SeenHolds, Alone, Alive
  <2>4. OwnNotLost => OwnNotLost'
    BY <1>2, <1>3, <1>4 DEF OwnNotLost, Alone, Alive
  <2> QED BY <2>1, <2>2, <2>3, <2>4 DEF Excluded
<1>14. CopyHolds'
  BY <1>2, CopyKept
<1> QED BY <1>5, <1>6, <1>7, <1>8, <1>9, <1>10, <1>11, <1>12, <1>13, <1>14
-----------------------------------------------------------------------------
(* A process in an operation moves on without touching stores or files, and *)
(* without starting to sweep: the lease is created, or it may be taken.     *)
LEMMA AskedKeeps ==
    ASSUME LeaseInv, NEW p \in Procs, phase[p] = "lease", NEW to \in {"write", "take"}, Move(p, to),
           lease' = lease \/ lease = "none",
           lease' \in Procs \cup {"none", "empty"}, lease' \in Procs => lease' = lease,
           LeaseGrows', OneId',
           UNCHANGED <<mem, saved, undo, todo, disk, port, reader, truth>>
    PROVE  LeaseInv'
<1> USE DEF LeaseInv
<1>1. /\ phase'[p] = to /\ Alone(p) /\ "none" \notin Procs
      /\ UNCHANGED <<mem, saved, undo, todo, disk, port, reader, maker, acked, lost, stolen>>
  BY LeaseAssumption DEF Move, Alone, LeaseTypeOK, truth
<1>2. LeaseTypeOK'
  BY <1>1 DEF LeaseTypeOK, Move, Working
<1>3. Unmade' /\ WholeChanges'
  BY <1>1, DataKept
<1>4. UndoIsOlder' /\ Opened' /\ Written'
  BY <1>1 DEF UndoIsOlder, Opened, Written, OnFile, Alone, Working
<1>5. AckedIsKept'
  BY <1>1 DEF AckedIsKept, Alone, Alive, Working
<1>6. Excluded'
  <2>1. Clean' => Clean
    BY <1>1, CleanBefore DEF Alone
  <2>2. HolderSweeps => HolderSweeps'
    BY <1>1 DEF HolderSweeps, Alone
  <2>3. SeenHolds => SeenHolds'
    BY <1>1 DEF SeenHolds, Alone, Alive
  <2>4. OwnNotLost => OwnNotLost'
    BY <1>1 DEF OwnNotLost, Alone, Alive
  <2> QED BY <2>1, <2>2, <2>3, <2>4 DEF Excluded
<1>7. CopyHolds'
  BY <1>1, CopyKept
<1> QED BY <1>2, <1>3, <1>4, <1>5, <1>6, <1>7

LEMMA CreateLeaseKeeps ==
    ASSUME LeaseInv, NEW p \in Procs, CreateLease(p)
    PROVE  LeaseInv'
<1>1. /\ phase[p] = "lease" /\ lease = "none" /\ lease' = "empty" /\ Move(p, "write")
      /\ phase'[p] = "write" /\ Alone(p) /\ {"none", "empty"} \cap Procs = {}
      /\ UNCHANGED <<mem, saved, undo, todo, disk, port, reader, truth, acked>>
  BY LeaseAssumption DEF CreateLease, Move, Alone, LeaseInv, LeaseTypeOK, truth
<1>2. LeaseGrows'
  BY <1>1 DEF LeaseInv, LeaseGrows, Unsaved, Alone
<1>3. OneId'
  BY <1>1 DEF LeaseInv, LeaseGrows, Unsaved, Alone, OneId
<1> QED BY <1>1, <1>2, <1>3, AskedKeeps

LEMMA ReadLeaseKeeps ==
    ASSUME LeaseInv, NEW p \in Procs, ReadLease(p)
    PROVE  LeaseInv'
<1>1. /\ phase[p] = "lease" /\ lease' = lease /\ Move(p, "take") /\ MayTake(p)
      /\ phase'[p] = "take" /\ Alone(p)
      /\ UNCHANGED <<mem, saved, undo, todo, disk, port, reader, truth, acked>>
  BY DEF ReadLease, Move, Alone, LeaseInv, LeaseTypeOK, truth
<1>2. LeaseGrows'
  <2>1. lease \notin {"none", "empty"}
    BY <1>1, LeaseAssumption DEF MayTake
  <2> QED BY <1>1, <2>1 DEF LeaseInv, LeaseGrows, Alone
<1>3. OneId'
  <2>1. NoneGone' => NoneGone
    BY <1>1 DEF NoneGone, Alone
  <2>2. lease \in Procs /\ (NoneGone => Owner[lease] = Owner[p])
    BY <1>1 DEF MayTake, processAlive, Alive, NoneGone, LeaseInv, Opened
  <2> QED BY <1>1, <2>1, <2>2 DEF LeaseInv, OneId, Alone
<1> QED BY <1>1, <1>2, <1>3, AskedKeeps DEF LeaseInv, LeaseTypeOK

(* The process becomes the holder and starts its sweep, with the files to   *)
(* write that differ from what it saved last.                               *)
LEMMA HeldKeeps ==
    ASSUME LeaseInv, NEW p \in Procs, phase[p] \in {"write", "take"}, Move(p, "sweep"), lease' = p,
           todo' = [todo EXCEPT ![p] = Dirty(p)], stolen \subseteq stolen', stolen' \subseteq Procs,
           OneId', \A q \in Procs : phase[q] # "write" \/ q = p,
           Clean' => \A q \in Procs : Alive(q) /\ q # p => lease # q,
           UNCHANGED <<mem, saved, undo, disk, port, reader, maker, acked, lost>>
    PROVE  LeaseInv'
<1> USE DEF LeaseInv
<1>1. /\ phase'[p] = "sweep" /\ Alone(p) /\ {"none", "empty"} \cap Procs = {}
      /\ todo'[p] = Dirty(p)
  BY LeaseAssumption DEF Move, Alone, LeaseTypeOK
<1>2. LeaseTypeOK'
  BY DEF LeaseTypeOK, Move, Working, Dirty
<1>3. Unmade' /\ WholeChanges'
  BY DataKept
<1>4. UndoIsOlder' /\ Opened'
  BY <1>1 DEF UndoIsOlder, Opened, Alone, Working
<1>5. Written'
  <2>1. \A d \in Domains : d \notin todo'[p] => mem[p][d] = saved[p][d]
    BY <1>1 DEF Dirty
  <2> QED BY <1>1, <2>1 DEF Written, OnFile, Alone
<1>6. LeaseGrows'
  BY <1>1 DEF LeaseGrows, Alone
<1>7. AckedIsKept'
  BY <1>1 DEF AckedIsKept, Alone, Alive, Working
<1>8. Excluded'
  <2> SUFFICES ASSUME Clean' PROVE HolderSweeps' /\ SeenHolds' /\ OwnNotLost'
    BY DEF Excluded
  <2>1. HolderSweeps /\ SeenHolds /\ OwnNotLost
    BY <1>1, CleanBefore DEF Alone, Excluded
  <2>2. HolderSweeps'
    BY <1>1, <2>1 DEF HolderSweeps, Alone, Alive
  <2>3. SeenHolds'
    BY <1>1, <2>1 DEF SeenHolds, Alone, Alive
  <2>4. OwnNotLost'
    BY <1>1, <2>1 DEF OwnNotLost, Alone, Alive
  <2> QED BY <2>2, <2>3, <2>4
<1>9. CopyHolds'
  BY CopyKept
<1> QED BY <1>2, <1>3, <1>4, <1>5, <1>6, <1>7, <1>8, <1>9

LEMMA WriteLeaseKeeps ==
    ASSUME LeaseInv, NEW p \in Procs, WriteLease(p)
    PROVE  LeaseInv'
<1>1. /\ phase[p] = "write" /\ phase'[p] = "sweep" /\ Alone(p) /\ lease = "empty" /\ lease \notin Procs
      /\ \A q \in Procs : phase[q] \notin {"take", "sweep"} /\ (phase[q] # "write" \/ q = p)
  BY LeaseAssumption DEF WriteLease, Move, Alone, LeaseInv, LeaseTypeOK, LeaseGrows, Unsaved
<1>2. OneId'
  BY <1>1 DEF OneId, Alone, WriteLease
<1> QED BY <1>1, <1>2, HeldKeeps DEF WriteLease, truth, LeaseInv, LeaseTypeOK

LEMMA TakeLeaseKeeps ==
    ASSUME LeaseInv, NEW p \in Procs, TakeLease(p)
    PROVE  LeaseInv'
<1>1. /\ phase[p] = "take" /\ phase'[p] = "sweep" /\ Alone(p) /\ lease' = p
      /\ lease \notin {"none", "empty"} /\ lease \in Procs
      /\ \A q \in Procs : phase[q] # "write"
  BY DEF TakeLease, Move, Alone, LeaseInv, LeaseTypeOK, LeaseGrows, Unsaved
<1>2. OneId'
  <2>1. NoneGone' => NoneGone
    BY <1>1 DEF NoneGone, Alone
  <2> QED BY <1>1, <2>1 DEF LeaseInv, OneId, Alone
<1>3. stolen \subseteq stolen' /\ stolen' \subseteq Procs
  BY <1>1 DEF TakeLease, LeaseInv, LeaseTypeOK
<1>4. ASSUME NEW q \in Procs, Alive(q), q # p, lease = q, Clean'
      PROVE  FALSE
  <2>1. Owner[q] = Owner[p]
    BY <1>4 DEF TakeLease, Clean
  <2>2. "off" \notin {phase'[p], phase'[q]}
    BY <1>1, <1>4 DEF Alone, Alive
  <2> QED BY <1>4, <2>1, <2>2 DEF Clean, Shared
<1> QED BY <1>1, <1>2, <1>3, <1>4, HeldKeeps DEF TakeLease
-----------------------------------------------------------------------------
(* What was on a file is still there or is lost when a sweep overwrites it. *)
LEMMA OnFileKept ==
    ASSUME NEW p \in Procs, NEW d \in Domains, disk \in Contents, SaveDomain(p, d)
    PROVE  /\ disk'[d] = mem[p][d] /\ \A e \in Domains : e # d => disk'[e] = disk[e]
           /\ lost \subseteq lost'
           /\ \A e \in Domains, S \in SUBSET Changes : OnFile(S, e) => OnFile(S, e)'
BY DEF SaveDomain, OnFile, Contents

LEMMA SaveDomainKeeps ==
    ASSUME LeaseInv, NEW p \in Procs, NEW d \in Domains, SaveDomain(p, d)
    PROVE  LeaseInv'
<1> USE DEF LeaseInv
<1>1. /\ phase[p] = "sweep" /\ lost' = lost \cup (disk[d] \ mem[p][d])
      /\ UNCHANGED <<phase, mem, saved, undo, lease, port, reader, maker, acked, stolen>>
      /\ \A q \in Procs : q # p => todo'[q] = todo[q]
      /\ todo'[p] = todo[p] \ {d}
  BY DEF SaveDomain, LeaseTypeOK
<1>2. /\ disk'[d] = mem[p][d] /\ \A e \in Domains : e # d => disk'[e] = disk[e]
      /\ lost \subseteq lost'
      /\ \A e \in Domains, S \in SUBSET Changes : OnFile(S, e) => OnFile(S, e)'
  BY OnFileKept DEF LeaseTypeOK
<1>3. \A q \in Procs, e \in Domains : {saved[q][e], mem[q][e], acked} \subseteq SUBSET Changes
  BY DEF LeaseTypeOK, Contents
<1>4. LeaseTypeOK'
  <2>1. disk' \in Contents /\ lost' \subseteq Changes
    BY <1>1 DEF SaveDomain, LeaseTypeOK, Contents
  <2>2. todo' \in [Procs -> SUBSET Domains]
    BY DEF SaveDomain, LeaseTypeOK
  <2> QED BY <1>1, <2>1, <2>2 DEF LeaseTypeOK
<1>5. Unmade'
  BY <1>1, <1>2 DEF Unmade
<1>6. Opened' /\ UndoIsOlder' /\ WholeChanges' /\ AckedIsKept'
  BY <1>1 DEF Opened, UndoIsOlder, WholeChanges, Uniform, AckedIsKept, Alive
<1>7. Written'
  <2>1. \A q \in Procs, e \in Domains : OnFile(saved[q][e], e)' /\ OnFile(acked, e)'
    BY <1>1, <1>2, <1>3 DEF Written, OnFile
  <2>2. ASSUME NEW q \in Procs, NEW e \in Domains, phase'[q] = "sweep", e \notin todo'[q]
        PROVE  OnFile(mem[q][e], e)'
    <3>1. CASE q = p /\ e = d
      BY <3>1, <1>1, <1>2 DEF OnFile
    <3>2. CASE q # p \/ e # d
      BY <2>2, <3>2, <1>1, <1>2, <1>3 DEF Written, OnFile
    <3> QED BY <3>1, <3>2
  <2> QED BY <2>1, <2>2 DEF Written
<1>8. LeaseGrows' /\ OneId'
  BY <1>1 DEF LeaseGrows, Unsaved, OneId, NoneGone
<1>9. Excluded'
  <2> SUFFICES ASSUME Clean' PROVE HolderSweeps' /\ SeenHolds' /\ OwnNotLost'
    BY DEF Excluded
  <2>1. HolderSweeps /\ SeenHolds /\ OwnNotLost
    BY <1>1, CleanBefore DEF Excluded
  <2>2. lease = p
    BY <1>1, <2>1 DEF HolderSweeps
  <2>3. HolderSweeps'
    BY <1>1, <2>1 DEF HolderSweeps
  <2>4. SeenHolds'
    BY <1>1, <1>2, <2>1, <2>2 DEF SeenHolds, Alive
  <2>5. OwnNotLost'
    <3> SUFFICES ASSUME NEW c \in Changes, NEW q \in Procs, NEW e \in Domains,
                        maker[c] = q, Alive(q), c \in mem[q][e], c \in disk[d], c \notin mem[p][d]
                 PROVE  FALSE
      BY <1>1, <2>1 DEF OwnNotLost, Alive
    <3>1. lease = q
      BY <2>1 DEF SeenHolds
    <3> QED BY <3>1, <2>2 DEF WholeChanges, Uniform
  <2> QED BY <2>3, <2>4, <2>5
<1>10. CopyHolds'
  BY <1>1, CopyKept
<1> QED BY <1>4, <1>5, <1>6, <1>7, <1>8, <1>9, <1>10

LEMMA AfterTyped == ASSUME NEW p PROVE After(p) \in {"serving", "ready"}
BY DEF After

LEMMA SucceedKeeps ==
    ASSUME LeaseInv, NEW p \in Procs, Succeed(p)
    PROVE  LeaseInv'
<1> USE DEF LeaseInv
<1> DEFINE done == {c \in Changes : maker[c] = p /\ \E d \in Domains : c \in mem[p][d]}
<1>1. /\ phase[p] = "sweep" /\ todo[p] = {} /\ phase'[p] \in {"serving", "ready"} /\ Alone(p)
      /\ saved'[p] = mem[p] /\ undo'[p] = Empty /\ acked' = acked \cup done
      /\ UNCHANGED <<mem, todo, lease, disk, port, reader, maker, lost, stolen>>
  BY AfterTyped DEF Succeed, Move, Alone, LeaseTypeOK
<1>2. \A c \in done, d \in Domains : maker[c] = p /\ c \in mem[p][d]
  BY DEF WholeChanges, Uniform
<1>3. LeaseTypeOK'
  BY <1>1, EmptyTyped, AfterTyped DEF Succeed, LeaseTypeOK, Move
<1>4. Unmade'
  BY <1>1, <1>2, LeaseAssumption DEF Unmade
<1>5. Opened' /\ UndoIsOlder'
  BY <1>1, EmptyTyped DEF Opened, UndoIsOlder, Alone, Working
<1>6. WholeChanges'
  BY <1>1, EmptyTyped DEF WholeChanges, Uniform, Alone
<1>7. Written'
  <2>1. \A d \in Domains : OnFile(mem[p][d], d)
    BY <1>1 DEF Written
  <2>2. \A d \in Domains : OnFile(acked \cup done, d)
    BY <1>2, <2>1 DEF Written, OnFile
  <2> HIDE DEF done
  <2> QED BY <1>1, <2>1, <2>2 DEF Written, OnFile, Alone
<1>8. LeaseGrows'
  BY <1>1 DEF LeaseGrows, Unsaved, Alone
<1>9. OneId'
  BY <1>1 DEF OneId, NoneGone, Alone
<1>10. AckedIsKept'
  BY <1>1, <1>2 DEF AckedIsKept, Alone, Alive, Working
<1>11. Excluded'
  <2>1. Clean' => Clean
    BY <1>1, CleanBefore DEF Alone
  <2>2. HolderSweeps => HolderSweeps'
    BY <1>1 DEF HolderSweeps, Alone
  <2>3. SeenHolds => SeenHolds'
    BY <1>1 DEF SeenHolds, Alone, Alive
  <2>4. OwnNotLost => OwnNotLost'
    BY <1>1 DEF OwnNotLost, Alone, Alive
  <2> QED BY <2>1, <2>2, <2>3, <2>4 DEF Excluded
<1>12. CopyHolds'
  BY <1>1, CopyKept
<1> QED BY <1>3, <1>4, <1>5, <1>6, <1>7, <1>8, <1>9, <1>10, <1>11, <1>12

LEMMA FailKeeps ==
    ASSUME LeaseInv, NEW p \in Procs, Fail(p)
    PROVE  LeaseInv'
<1> USE DEF LeaseInv
<1>1. /\ phase[p] \in Working /\ phase'[p] \in {"serving", "ready"} /\ Alone(p)
      /\ mem'[p] = undo[p] /\ undo'[p] = Empty
      /\ UNCHANGED <<saved, lease, disk, port, reader, maker, acked, lost, stolen>>
  BY AfterTyped DEF Fail, Move, Alone, LeaseTypeOK, Working, truth
<1>2. \A d \in Domains : undo[p][d] \subseteq mem[p][d]
  BY DEF UndoIsOlder
<1>3. LeaseTypeOK'
  BY <1>1, EmptyTyped, AfterTyped DEF Fail, LeaseTypeOK, Move
<1>4. Unmade'
  BY <1>1, <1>2 DEF Unmade, Alone
<1>5. Opened' /\ UndoIsOlder'
  BY <1>1, EmptyTyped DEF Opened, UndoIsOlder, Alone, Working
<1>6. WholeChanges'
  BY <1>1, EmptyTyped DEF WholeChanges, Uniform, Alone
<1>7. Written'
  BY <1>1 DEF Written, OnFile, Alone
<1>8. LeaseGrows' /\ OneId'
  BY <1>1 DEF LeaseGrows, Unsaved, OneId, NoneGone, Alone, Working
<1>9. AckedIsKept'
  BY <1>1 DEF AckedIsKept, Alone, Alive, Working
<1>10. Excluded'
  <2>1. Clean' => Clean
    BY <1>1, CleanBefore DEF Alone, Working
  <2>2. HolderSweeps => HolderSweeps'
    BY <1>1 DEF HolderSweeps, Alone
  <2>3. SeenHolds => SeenHolds'
    BY <1>1, <1>2 DEF SeenHolds, Alone, Alive, Working
  <2>4. OwnNotLost => OwnNotLost'
    BY <1>1, <1>2 DEF OwnNotLost, Alone, Alive, Working
  <2> QED BY <2>1, <2>2, <2>3, <2>4 DEF Excluded
<1>11. CopyHolds'
  BY <1>1, CopyKept
<1> QED BY <1>3, <1>4, <1>5, <1>6, <1>7, <1>8, <1>9, <1>10, <1>11
-----------------------------------------------------------------------------
(* The command that reads changes nothing but its copy.                     *)
LEMMA ReaderFrame ==
    ASSUME LeaseInv, UNCHANGED <<procVars, lease, disk, port, truth>>, CopyHolds',
           reader' \in [at : {"idle", "cloning"}, left : SUBSET Domains, copy : Contents, base : SUBSET Changes]
    PROVE  LeaseInv'
<1> USE DEF LeaseInv
<1>1. UNCHANGED <<phase, mem, saved, undo, todo, lease, disk, port, maker, acked, lost, stolen>>
  BY DEF procVars, truth
<1>2. LeaseTypeOK'
  BY <1>1 DEF LeaseTypeOK
<1>3. Unmade' /\ WholeChanges'
  BY <1>1, DataKept
<1>4. Opened' /\ UndoIsOlder' /\ Written' /\ LeaseGrows' /\ OneId'
  BY <1>1 DEF Opened, UndoIsOlder, Written, OnFile, LeaseGrows, Unsaved, OneId, NoneGone
<1>5. AckedIsKept'
  BY <1>1 DEF AckedIsKept, Alive
<1>6. Excluded'
  <2>1. Clean' => Clean
    BY <1>1, CleanBefore
  <2>2. (HolderSweeps => HolderSweeps') /\ (SeenHolds => SeenHolds') /\ (OwnNotLost => OwnNotLost')
    BY <1>1 DEF HolderSweeps, SeenHolds, OwnNotLost, Alive
  <2> QED BY <2>1, <2>2 DEF Excluded
<1> QED BY <1>2, <1>3, <1>4, <1>5, <1>6

LEMMA StartCloneKeeps == LeaseInv /\ StartClone => LeaseInv'
<1> SUFFICES ASSUME LeaseInv, StartClone PROVE LeaseInv'
  OBVIOUS
<1>1. /\ reader' \in [at : {"idle", "cloning"}, left : SUBSET Domains, copy : Contents, base : SUBSET Changes]
      /\ reader'.base = acked \ lost /\ reader'.left = Domains
  BY DEF StartClone, LeaseInv, LeaseTypeOK, Standing
<1>2. CopyHolds'
  BY <1>1 DEF CopyHolds, StartClone, truth
<1> QED BY <1>1, <1>2, ReaderFrame DEF StartClone

LEMMA ReadCloneKeeps == LeaseInv /\ ReadClone => LeaseInv'
<1> SUFFICES ASSUME LeaseInv, ReadClone PROVE LeaseInv'
  OBVIOUS
<1>1. /\ reader' \in [at : {"idle", "cloning"}, left : SUBSET Domains, copy : Contents, base : SUBSET Changes]
      /\ reader'.at = "idle"
  BY EmptyTyped DEF ReadClone, NoReader
<1>2. CopyHolds'
  BY <1>1 DEF CopyHolds
<1> QED BY <1>1, <1>2, ReaderFrame DEF ReadClone

LEMMA CopyFileKeeps ==
    ASSUME LeaseInv, NEW d \in Domains, copyRegularFile(d)
    PROVE  LeaseInv'
<1> USE DEF LeaseInv
<1>1. /\ reader.at = "cloning" /\ reader'.at = "cloning" /\ reader'.base = reader.base
      /\ reader'.left = reader.left \ {d}
      /\ reader'.copy = [reader.copy EXCEPT ![d] = disk[d] \cap reader.base]
  BY DEF copyRegularFile, LeaseTypeOK
<1>2. /\ reader.copy \in Contents /\ disk \in Contents
      /\ reader' \in [at : {"idle", "cloning"}, left : SUBSET Domains, copy : Contents, base : SUBSET Changes]
  <2>1. reader.copy \in Contents /\ disk \in Contents
    BY DEF LeaseTypeOK
  <2>2. [reader.copy EXCEPT ![d] = disk[d] \cap reader.base] \in Contents
    BY <2>1 DEF Contents
  <2> QED BY <2>1, <2>2 DEF copyRegularFile, LeaseTypeOK
<1>3. /\ reader'.copy[d] = disk[d] \cap reader.base
      /\ \A e \in Domains : e # d => reader'.copy[e] = reader.copy[e]
  BY <1>1, <1>2 DEF Contents
<1>4. acked' = acked /\ lost' = lost
  BY DEF copyRegularFile, truth
<1>5. CopyHolds'
  BY <1>1, <1>3, <1>4 DEF CopyHolds, Written, OnFile
<1> QED BY <1>2, <1>5, ReaderFrame DEF copyRegularFile
-----------------------------------------------------------------------------
LEMMA LeaseStep == LeaseInv /\ [LeaseNext]_leaseVars => LeaseInv'
<1> SUFFICES ASSUME LeaseInv, [LeaseNext]_leaseVars PROVE LeaseInv'
  OBVIOUS
<1>1. ASSUME NEW p \in Procs, NewService(p) \/ listenDaemon(p) \/ Operate(p)
      PROVE  LeaseInv'
  BY <1>1, NewServiceKeeps, ListenKeeps, OperateKeeps
<1>2. ASSUME NEW p \in Procs, CreateLease(p) \/ WriteLease(p) \/ ReadLease(p) \/ TakeLease(p)
      PROVE  LeaseInv'
  BY <1>2, CreateLeaseKeeps, WriteLeaseKeeps, ReadLeaseKeeps, TakeLeaseKeeps
<1>3. ASSUME NEW p \in Procs, Succeed(p) \/ Fail(p) \/ Die(p) \/ \E d \in Domains : SaveDomain(p, d)
      PROVE  LeaseInv'
  BY <1>3, SucceedKeeps, FailKeeps, DieKeeps, SaveDomainKeeps
<1>4. CASE StartClone \/ ReadClone \/ \E d \in Domains : copyRegularFile(d)
  BY <1>4, StartCloneKeeps, ReadCloneKeeps, CopyFileKeeps
<1>5. CASE UNCHANGED leaseVars
  BY <1>5, ReaderFrame, CopyKept DEF leaseVars, truth, LeaseInv, LeaseTypeOK
<1> QED BY <1>1, <1>2, <1>3, <1>4, <1>5 DEF LeaseNext

LEMMA LeaseInvImplies == LeaseInv => LeaseExcludes /\ FallbackIsNotOlder
<1> SUFFICES ASSUME LeaseInv PROVE LeaseExcludes /\ FallbackIsNotOlder
  OBVIOUS
<1> USE DEF LeaseInv
<1>1. OneWriterSweeps
  <2> SUFFICES ASSUME NEW p \in Procs, NEW q \in Procs,
                      phase[p] = "sweep", phase[q] = "sweep", Owner[p] # Owner[q]
               PROVE  (\E r \in Procs : phase[r] = "dead") /\ (stolen # {} \/ Shared)
    BY DEF OneWriterSweeps
  <2>1. ~NoneGone
    BY DEF OneId
  <2>2. ~Clean
    BY DEF Excluded, HolderSweeps
  <2> QED BY <2>1, <2>2 DEF NoneGone, Clean
<1>2. AckedLossIsTakeover
  <2> SUFFICES ASSUME NEW c \in acked \cap lost, Alive(maker[c]), Clean
               PROVE  FALSE
    BY DEF AckedLossIsTakeover, Clean
  <2>1. c \in Changes /\ maker[c] \in Procs
    BY DEF LeaseTypeOK, Unmade
  <2>2. PICK d \in Domains : TRUE
    BY LeaseAssumption
  <2> QED BY <2>1, <2>2 DEF AckedIsKept, Excluded, OwnNotLost
<1>3. EmptyLeaseStopsAll
  BY DEF EmptyLeaseStopsAll, LeaseGrows, Unsaved
<1>4. FallbackIsNotOlder
  BY DEF FallbackIsNotOlder, CopyHolds
<1> QED BY <1>1, <1>2, <1>3, <1>4 DEF LeaseExcludes

(* The inductive invariant holds of every behaviour of the processes.       *)
THEOREM LeaseInvariant == LeaseSpec => []LeaseInv
BY LeaseStart, LeaseStep, PTL DEF LeaseSpec

(* ensureWriterLease, for any number of processes and writer ids: two       *)
(* writers sweep together only after a death and a stolen lease or a shared *)
(* id, nothing a living process was told is saved is overwritten otherwise, *)
(* and an empty lease stops everybody.                                      *)
THEOREM LeaseKeepsOut == LeaseSpec => []LeaseExcludes
BY LeaseInvariant, LeaseInvImplies, PTL

(* What the local fallback of a command reads (cloneReadOnlyRuntimeDataDir) *)
(* is not older than what was acknowledged before its copy began, although  *)
(* sweeps replace the files while they are copied.                          *)
THEOREM FallbackReadsAcked == LeaseSpec => []FallbackIsNotOlder
BY LeaseInvariant, LeaseInvImplies, PTL
-----------------------------------------------------------------------------
(* Write gate: which request may write.                                   *)

TokenMap == [Actors -> Tokens \cup {NoToken}]

(* The tokens and their files, the requests, the guard: TypeOK by parts.   *)
StoreTyped ==
    /\ config \in TokenMap /\ hasMap \in BOOLEAN /\ up \in BOOLEAN
    /\ file \in TokenMap \cup {NoFile} /\ legacy \in TokenMap \cup {NoFile}
ReqTyped == req \in [Requests -> Busy \cup {Idle}]
GuardTyped ==
    /\ tracker \in [Scopes -> [Callers -> Trackers]]
    /\ reported \subseteq Scopes \X Callers
    /\ fails \in [Callers -> 0..AuthThreshold]

LEMMA TypeParts == TypeOK <=> StoreTyped /\ ReqTyped /\ GuardTyped
BY DEF TypeOK, StoreTyped, ReqTyped, GuardTyped, TokenMap

(* Why a request that passes was allowed: from its arrival on, "allowed"   *)
(* holds whenever the tokens of the moment would let the request through,  *)
(* because every change of the tokens is noticed by all requests in        *)
(* flight; and there are none while the daemon is down, so that the tokens *)
(* a start loads meet no request.                                          *)
Permitted(r) == \E a \in CurrentActor(r) : authorize(config, r.token, a)
Watched ==
    \A q \in Requests : req[q].phase # "idle" =>
        /\ up
        /\ req[q].phase = "apply" \/ Permitted(req[q]) => req[q].allowed

(* Why the guard is fair: a counter never runs ahead of the failures, a    *)
(* block follows an escalation, and an escalation that was said is in the  *)
(* review room.                                                            *)
Earned ==
    \A c \in Callers :
        /\ tracker["write_auth"][c].count <= fails[c]
        /\ tracker["write_auth"][c].left > 0 =>
              fails[c] = AuthThreshold /\ tracker["write_auth"][c].escalated # "no"
        /\ tracker["write_auth"][c].escalated = "said" => <<"write_auth", c>> \in reported

GateInv == TypeOK /\ Watched /\ FounderTokenIsSaved /\ Earned
-----------------------------------------------------------------------------
LEMMA BusyFields ==
    ASSUME NEW r \in Busy \cup {Idle}, r.phase # "idle"
    PROVE  /\ r \in Busy
           /\ r.phase \in {"bootstrap", "status", "token", "apply"}
           /\ r.caller \in Callers /\ r.token \in Tokens \cup {NoToken}
           /\ r.kind \in {"write", "auth"} /\ r.allowed \in BOOLEAN
BY DEF Busy, Idle

LEMMA IdleFields == Idle.phase = "idle" /\ Idle \notin Busy
BY DEF Idle, Busy

(* The actors a request may act as: one at least, all of them known.       *)
LEMMA ActsAsSomeone ==
    ASSUME NEW r, r.caller \in Callers
    PROVE  CurrentActor(r) # {} /\ CurrentActor(r) \subseteq Actors
<1>1. r.caller.actor \in Actors \cup {"none"} /\ Founder \in Actors
  BY GateAssumption DEF CallerType
<1> QED BY <1>1 DEF CurrentActor

(* Without tokens everybody is let through.                                *)
LEMMA OpenToAll ==
    ASSUME NEW r, r.caller \in Callers, ~authEnabled(config)
    PROVE  Permitted(r)
BY ActsAsSomeone DEF Permitted, authorize

LEMMA LoadTyped == StoreTyped => loadAuthConfig \in TokenMap
BY GateAssumption DEF StoreTyped, loadAuthConfig, None, TokenMap
-----------------------------------------------------------------------------
(* What a step does to a request.                                          *)
LEMMA FinishTyped ==
    ASSUME ReqTyped, NEW q \in Requests, Finish(q)
    PROVE  /\ ReqTyped'
           /\ req'[q] = Idle
           /\ \A p \in Requests : p # q => req'[p] = req[p]
BY DEF ReqTyped, Finish

LEMMA GotoTyped ==
    ASSUME ReqTyped, NEW q \in Requests, req[q].phase # "idle",
           NEW to \in {"status", "token", "apply"}, Goto(q, to)
    PROVE  /\ ReqTyped'
           /\ req'[q].phase = to /\ req'[q].caller = req[q].caller
           /\ req'[q].allowed = req[q].allowed
           /\ to # "apply" => req'[q].token = req[q].token
           /\ \A p \in Requests : p # q => req'[p] = req[p]
<1>1. req[q] \in Busy
  BY BusyFields DEF ReqTyped
<1>2. req'[q] = [req[q] EXCEPT !.phase = to, !.token = IF to = "apply" THEN NoToken ELSE @]
  BY DEF Goto, ReqTyped
<1>3. req'[q] \in Busy
  BY <1>1, <1>2 DEF Busy
<1> QED BY <1>1, <1>2, <1>3 DEF Goto, ReqTyped, Busy

(* What a failure does to the guard.                                       *)
LEMMA LimitTyped ==
    ASSUME NEW s \in Scopes
    PROVE  /\ Limit(s) \in Nat \ {0} /\ Limit(s) <= AuthThreshold + ProbeThreshold
           /\ Window(s) \in Nat \ {0} /\ Window(s) <= ProbeWindow
           /\ Limit("write_auth") = AuthThreshold
BY GateAssumption DEF Limit, Window

LEMMA ObservedTyped ==
    ASSUME NEW t \in Trackers, NEW s \in Scopes, NEW kept \in BOOLEAN
    PROVE  observeFailure(t, s, kept) \in Trackers
<1> DEFINE u == observeFailure(t, s, kept)
<1>1. t.count \in 0..AuthThreshold + ProbeThreshold /\ t.left \in 0..Throttle
      /\ t.escalated \in {"no", "said", "lost"}
  BY DEF Trackers
<1>2. u.count \in 0..AuthThreshold + ProbeThreshold
  BY <1>1, LimitTyped, GateAssumption DEF observeFailure
<1>3. u.left \in 0..Throttle
  BY <1>1, GateAssumption DEF observeFailure
<1>4. u.escalated \in {"no", "said", "lost"} /\ u.age = 0 /\ 0 \in 0..ProbeWindow
  BY <1>1, GateAssumption DEF observeFailure
<1> QED BY <1>2, <1>3, <1>4 DEF Trackers, observeFailure

LEMMA FreshTyped == Fresh \in Trackers
BY GateAssumption DEF Fresh, Trackers

LEMMA AgedTyped ==
    ASSUME NEW t \in Trackers, NEW s \in Scopes
    PROVE  /\ Aged(t, s) \in Trackers
           /\ Aged(t, s) = Fresh \/ (Aged(t, s).count = t.count /\ Aged(t, s).left <= t.left
                                     /\ Aged(t, s).escalated = t.escalated)
<1>1. CASE Aged(t, s) = Fresh
  BY <1>1, FreshTyped
<1>2. CASE Aged(t, s) # Fresh
  <2> DEFINE u == [t EXCEPT !.age = IF @ < Window(s) THEN @ + 1 ELSE @,
                            !.left = IF @ > 0 THEN @ - 1 ELSE @]
  <2>1. Aged(t, s) = u
    BY <1>2 DEF Aged
  <2>2. t.age \in 0..ProbeWindow /\ t.left \in 0..Throttle
    BY DEF Trackers
  <2>3. u.age \in 0..ProbeWindow /\ u.left \in 0..Throttle /\ u.left <= t.left
    BY <2>2, LimitTyped, GateAssumption DEF Trackers
  <2> QED BY <2>1, <2>3 DEF Trackers
<1> QED BY <1>1, <1>2
-----------------------------------------------------------------------------
(* What leaves the tokens, or the guard, alone.                            *)
LEMMA StoreKept ==
    ASSUME StoreTyped, FounderTokenIsSaved, UNCHANGED Rest
    PROVE  StoreTyped' /\ FounderTokenIsSaved'
BY DEF StoreTyped, FounderTokenIsSaved, loadAuthConfig, None, Rest

LEMMA GuardKept ==
    ASSUME GuardTyped, Earned, UNCHANGED <<tracker, reported, fails>>
    PROVE  GuardTyped' /\ Earned'
BY DEF GuardTyped, Earned

LEMMA FinishKeeps ==
    ASSUME ReqTyped, Watched, NEW q \in Requests, Finish(q), UNCHANGED <<config, up>>
    PROVE  ReqTyped' /\ Watched'
<1>1. ReqTyped' /\ req'[q] = Idle /\ \A p \in Requests : p # q => req'[p] = req[p]
  BY FinishTyped
<1> QED BY <1>1, IdleFields DEF Watched, Permitted, CurrentActor, authorize, authEnabled

LEMMA GotoKeeps ==
    ASSUME ReqTyped, Watched, NEW q \in Requests, req[q].phase # "idle",
           NEW to \in {"status", "token", "apply"}, Goto(q, to),
           to = "apply" => req[q].allowed, UNCHANGED <<config, up>>
    PROVE  ReqTyped' /\ Watched'
<1>1. /\ ReqTyped' /\ req'[q].phase = to /\ req'[q].caller = req[q].caller
      /\ req'[q].allowed = req[q].allowed /\ (to # "apply" => req'[q].token = req[q].token)
      /\ \A p \in Requests : p # q => req'[p] = req[p]
  BY GotoTyped
<1>2. up' /\ (req'[q].phase = "apply" \/ Permitted(req[q])' => req'[q].allowed)
  <2>1. up'
    BY DEF Watched
  <2>2. CASE to = "apply"
    BY <1>1, <2>1, <2>2
  <2>3. CASE to # "apply"
    <3>1. Permitted(req[q])' = Permitted(req[q])
      BY <1>1, <2>3 DEF Permitted, CurrentActor, authorize, authEnabled
    <3> QED BY <1>1, <2>1, <2>3, <3>1 DEF Watched
  <2> QED BY <2>2, <2>3
<1>3. ASSUME NEW p \in Requests, p # q, req'[p].phase # "idle"
      PROVE  up' /\ (req'[p].phase = "apply" \/ Permitted(req[p])' => req'[p].allowed)
  BY <1>1, <1>3 DEF Watched, Permitted, CurrentActor, authorize, authEnabled
<1>4. \A p \in Requests : req'[p].phase # "idle" =>
          up' /\ (req'[p].phase = "apply" \/ Permitted(req[p])' => req'[p].allowed)
  BY <1>2, <1>3
<1> QED BY <1>1, <1>4 DEF Watched

(* A failure that is counted keeps the guard fair, in whatever scope.      *)
LEMMA ObserveKeeps ==
    ASSUME GuardTyped, Earned, NEW s \in Scopes, NEW c \in Callers, NEW kept \in BOOLEAN,
           Observe(s, c, kept)
    PROVE  GuardTyped' /\ Earned'
<1> DEFINE t == tracker[s][c]
           u == observeFailure(t, s, kept)
<1>1. t \in Trackers /\ u \in Trackers
  BY ObservedTyped DEF GuardTyped
<1>2. tracker' = [tracker EXCEPT ![s] = [@ EXCEPT ![c] = u]]
  BY DEF Observe
<1>3. /\ tracker' \in [Scopes -> [Callers -> Trackers]]
      /\ tracker'[s][c] = u
      /\ \A d \in Callers : d # c => tracker'[s][d] = tracker[s][d]
      /\ \A r \in Scopes : r # s => tracker'[r] = tracker[r]
  BY <1>1, <1>2 DEF GuardTyped
<1>4. /\ reported' = IF u.escalated = "said" THEN reported \cup {<<s, c>>} ELSE reported
      /\ reported \subseteq reported' /\ reported' \subseteq Scopes \X Callers
  BY DEF Observe, RecordSecuritySignal, GuardTyped
<1>5. fails' = IF s = "write_auth" /\ fails[c] < AuthThreshold
               THEN [fails EXCEPT ![c] = @ + 1] ELSE fails
  BY DEF Observe
<1>6. /\ fails' \in [Callers -> 0..AuthThreshold]
      /\ \A d \in Callers : d # c => fails'[d] = fails[d]
      /\ fails'[c] >= fails[c]
      /\ s = "write_auth" => fails'[c] = AuthThreshold \/ fails'[c] = fails[c] + 1
  BY <1>5, GateAssumption DEF GuardTyped
<1>7. ASSUME s = "write_auth"
      PROVE  /\ u.count <= fails'[c]
             /\ u.left > 0 => fails'[c] = AuthThreshold /\ u.escalated # "no"
             /\ u.escalated = "said" => <<"write_auth", c>> \in reported'
  <2>1. t.count \in Nat /\ t.left \in 0..Throttle /\ Limit(s) = AuthThreshold /\ AuthThreshold \in Nat \ {0}
    BY <1>1, <1>7, LimitTyped, GateAssumption DEF Trackers
  <2>2. /\ fails[c] \in 0..AuthThreshold /\ fails'[c] \in 0..AuthThreshold
        /\ t.count <= fails[c]
        /\ t.left > 0 => fails[c] = AuthThreshold /\ t.escalated # "no"
    BY <1>6, <1>7 DEF Earned, GuardTyped
  <2>3. u.count <= fails'[c]
    BY <2>1, <2>2, <1>6, <1>7 DEF observeFailure
  <2>4. u.left > 0 => fails'[c] = AuthThreshold /\ u.escalated # "no"
    BY <2>1, <2>2, <1>6, <1>7 DEF observeFailure
  <2>5. u.escalated = "said" => <<"write_auth", c>> \in reported'
    BY <1>4, <1>7
  <2> QED BY <2>3, <2>4, <2>5
<1>8. Earned'
  <2> SUFFICES ASSUME NEW d \in Callers
               PROVE  /\ tracker'["write_auth"][d].count <= fails'[d]
                      /\ tracker'["write_auth"][d].left > 0 =>
                            fails'[d] = AuthThreshold /\ tracker'["write_auth"][d].escalated # "no"
                      /\ tracker'["write_auth"][d].escalated = "said" => <<"write_auth", d>> \in reported'
    BY DEF Earned
  <2>1. CASE s = "write_auth" /\ d = c
    BY <2>1, <1>3, <1>7
  <2>2. CASE s # "write_auth" \/ d # c
    <3>1. tracker'["write_auth"][d] = tracker["write_auth"][d]
      BY <2>2, <1>3 DEF Scopes
    <3>2. tracker["write_auth"][d] \in Trackers /\ {fails[d], fails'[d]} \subseteq 0..AuthThreshold
      BY <1>6 DEF GuardTyped, Scopes
    <3>3. fails'[d] >= fails[d] /\ fails'[d] <= AuthThreshold
      BY <1>6, <3>2, GateAssumption
    <3> QED BY <3>1, <3>2, <3>3, <1>4, GateAssumption DEF Earned, Trackers
  <2> QED BY <2>1, <2>2
<1> QED BY <1>3, <1>4, <1>6, <1>8 DEF GuardTyped
-----------------------------------------------------------------------------
LEMMA GateInit == Init => GateInv
<1> SUFFICES ASSUME Init PROVE GateInv
  OBVIOUS
<1>1. TypeOK
  <2>1. StoreTyped
    BY GateAssumption DEF Init, StoreTyped, None, TokenMap
  <2>2. ReqTyped
    BY DEF Init, ReqTyped
  <2>3. GuardTyped
    BY FreshTyped, GateAssumption DEF Init, GuardTyped
  <2> QED BY <2>1, <2>2, <2>3, TypeParts
<1>2. Watched
  BY IdleFields DEF Init, Watched
<1>3. FounderTokenIsSaved
  BY DEF Init, FounderTokenIsSaved
<1>4. Earned
  BY GateAssumption DEF Init, Earned, Fresh, Scopes
<1> QED BY <1>1, <1>2, <1>3, <1>4 DEF GateInv

LEMMA StartKeeps == GateInv /\ Start => GateInv'
<1> SUFFICES ASSUME GateInv, Start PROVE GateInv'
  OBVIOUS
<1>1. StoreTyped /\ ReqTyped /\ GuardTyped
  BY TypeParts DEF GateInv
<1>2. StoreTyped'
  BY <1>1, LoadTyped DEF Start, StoreTyped
<1>3. FounderTokenIsSaved'
  BY <1>1, GateAssumption DEF Start, FounderTokenIsSaved, loadAuthConfig, StoreTyped, TokenMap, None
<1>4. ReqTyped' /\ Watched'
  <2>1. \A q \in Requests : req'[q].phase = "idle"
    BY DEF Start, GateInv, Watched
  <2> QED BY <1>1, <2>1 DEF Start, ReqTyped, Watched
<1>5. GuardTyped' /\ Earned'
  BY <1>1, GuardKept DEF Start, GateInv
<1> QED BY <1>2, <1>3, <1>4, <1>5, TypeParts DEF GateInv, TypeOK, StoreTyped, ReqTyped, GuardTyped, TokenMap

LEMMA StopKeeps == GateInv /\ Stop => GateInv'
<1> SUFFICES ASSUME GateInv, Stop PROVE GateInv'
  OBVIOUS
<1>1. StoreTyped /\ ReqTyped /\ GuardTyped
  BY TypeParts DEF GateInv
<1>2. StoreTyped' /\ FounderTokenIsSaved'
  BY <1>1 DEF Stop, StoreTyped, FounderTokenIsSaved, None, TokenMap
<1>3. ReqTyped' /\ Watched'
  BY IdleFields DEF Stop, ReqTyped, Watched
<1>4. GuardTyped'
  BY <1>1, FreshTyped, GateAssumption DEF Stop, GuardTyped
<1>5. Earned'
  BY GateAssumption DEF Stop, Earned, Fresh, Scopes
<1> QED BY <1>2, <1>3, <1>4, <1>5, TypeParts DEF GateInv, TypeOK, StoreTyped, ReqTyped, GuardTyped, TokenMap

LEMMA TickKeeps == GateInv /\ Tick => GateInv'
<1> SUFFICES ASSUME GateInv, Tick PROVE GateInv'
  OBVIOUS
<1>1. StoreTyped /\ ReqTyped /\ GuardTyped
  BY TypeParts DEF GateInv
<1>2. StoreTyped' /\ FounderTokenIsSaved'
  BY <1>1, StoreKept DEF Tick, GateInv
<1>3. ReqTyped' /\ Watched'
  BY <1>1 DEF Tick, Rest, GateInv, ReqTyped, Watched, Permitted, CurrentActor, authorize, authEnabled
<1>4. ASSUME NEW s \in Scopes, NEW c \in Callers
      PROVE  /\ tracker'[s][c] = Aged(tracker[s][c], s)
             /\ tracker[s][c] \in Trackers
  BY <1>1 DEF Tick, GuardTyped
<1>5. GuardTyped'
  BY <1>1, <1>4, AgedTyped DEF Tick, GuardTyped
<1>6. Earned'
  <2> SUFFICES ASSUME NEW c \in Callers
               PROVE  /\ tracker'["write_auth"][c].count <= fails[c]
                      /\ tracker'["write_auth"][c].left > 0 =>
                            fails[c] = AuthThreshold /\ tracker'["write_auth"][c].escalated # "no"
                      /\ tracker'["write_auth"][c].escalated = "said" => <<"write_auth", c>> \in reported
    BY DEF Tick, Earned
  <2> DEFINE t == tracker["write_auth"][c]
             u == tracker'["write_auth"][c]
  <2>1. t \in Trackers /\ (u = Fresh \/ (u.count = t.count /\ u.left <= t.left /\ u.escalated = t.escalated))
        /\ u \in Trackers
    BY <1>4, AgedTyped DEF Scopes
  <2>2. /\ t.count <= fails[c]
        /\ t.left > 0 => fails[c] = AuthThreshold /\ t.escalated # "no"
        /\ t.escalated = "said" => <<"write_auth", c>> \in reported
    BY DEF GateInv, Earned
  <2>3. fails[c] \in 0..AuthThreshold
    BY <1>1 DEF GuardTyped
  <2>4. CASE u = Fresh
    BY <2>4, <2>3, GateAssumption DEF Fresh
  <2>5. CASE u # Fresh
    BY <2>1, <2>2, <2>5, GateAssumption DEF Trackers
  <2> QED BY <2>4, <2>5
<1> QED BY <1>2, <1>3, <1>5, <1>6, TypeParts DEF GateInv, TypeOK, StoreTyped, ReqTyped, GuardTyped, TokenMap

LEMMA ArriveKeeps ==
    ASSUME GateInv, NEW q \in Requests, NEW c \in Callers, NEW t \in Tokens \cup {NoToken},
           NEW k \in {"write", "auth"}, Arrive(q, c, t, k)
    PROVE  GateInv'
<1>1. StoreTyped /\ ReqTyped /\ GuardTyped
  BY TypeParts DEF GateInv
<1>2. StoreTyped' /\ FounderTokenIsSaved'
  BY <1>1, StoreKept DEF Arrive, GateInv
<1>3. GuardTyped' /\ Earned'
  BY <1>1, GuardKept DEF Arrive, Guard, GateInv
<1> DEFINE r == [phase |-> IF k = "write" THEN "status" ELSE "bootstrap",
                 caller |-> c, token |-> t, kind |-> k,
                 allowed |-> \E a \in CurrentActor([caller |-> c]) : authorize(config, t, a)]
<1>4. req' = [req EXCEPT ![q] = r]
  BY DEF Arrive
<1>5. r \in Busy
  BY DEF Busy
<1>6. r.allowed = Permitted(r) /\ r.phase # "apply"
  BY DEF Permitted, CurrentActor
<1>7. ReqTyped'
  BY <1>1, <1>4, <1>5 DEF ReqTyped
<1>8. Watched'
  <2>1. UNCHANGED <<config, up>> /\ up
    BY DEF Arrive, Rest
  <2>2. ASSUME NEW p \in Requests, req'[p].phase # "idle"
        PROVE  up' /\ (req'[p].phase = "apply" \/ Permitted(req[p])' => req'[p].allowed)
    <3>1. CASE p = q
      <4>1. req'[p] = r
        BY <3>1, <1>1, <1>4 DEF ReqTyped
      <4>2. Permitted(req[p])' = Permitted(r)
        BY <4>1, <2>1 DEF Permitted, CurrentActor, authorize, authEnabled
      <4> QED BY <4>1, <4>2, <1>6, <2>1
    <3>2. CASE p # q
      <4>1. req'[p] = req[p]
        BY <3>2, <1>1, <1>4 DEF ReqTyped
      <4>2. Permitted(req[p])' = Permitted(req[p])
        BY <4>1, <2>1 DEF Permitted, CurrentActor, authorize, authEnabled
      <4> QED BY <2>2, <4>1, <4>2, <2>1 DEF GateInv, Watched
    <3> QED BY <3>1, <3>2
  <2> QED BY <2>2 DEF Watched
<1> QED BY <1>2, <1>3, <1>7, <1>8, TypeParts DEF GateInv, TypeOK, StoreTyped, ReqTyped, GuardTyped, TokenMap

(* One of a failure that ends the request, and a request that goes on.      *)
LEMMA RefusedKeeps ==
    ASSUME GateInv, NEW q \in Requests, req[q].phase # "idle", NEW s \in Scopes,
           NEW kept \in BOOLEAN, Finish(q), Observe(s, req[q].caller, kept), UNCHANGED Rest
    PROVE  GateInv'
<1>1. StoreTyped /\ ReqTyped /\ GuardTyped
  BY TypeParts DEF GateInv
<1>2. req[q].caller \in Callers
  BY <1>1, BusyFields DEF ReqTyped
<1>3. StoreTyped' /\ FounderTokenIsSaved'
  BY <1>1, StoreKept DEF GateInv
<1>4. ReqTyped' /\ Watched'
  BY <1>1, FinishKeeps DEF GateInv, Rest
<1>5. GuardTyped' /\ Earned'
  BY <1>1, <1>2, ObserveKeeps DEF GateInv
<1> QED BY <1>3, <1>4, <1>5, TypeParts DEF GateInv, TypeOK, StoreTyped, ReqTyped, GuardTyped, TokenMap

LEMMA PassedKeeps ==
    ASSUME GateInv, NEW q \in Requests, req[q].phase # "idle",
           NEW to \in {"status", "token", "apply"}, Goto(q, to),
           to = "apply" => req[q].allowed, UNCHANGED <<Rest, Guard>>
    PROVE  GateInv'
<1>1. StoreTyped /\ ReqTyped /\ GuardTyped
  BY TypeParts DEF GateInv
<1>2. StoreTyped' /\ FounderTokenIsSaved'
  BY <1>1, StoreKept DEF GateInv
<1>3. ReqTyped' /\ Watched'
  BY <1>1, GotoKeeps DEF GateInv, Rest
<1>4. GuardTyped' /\ Earned'
  BY <1>1, GuardKept DEF GateInv, Guard
<1> QED BY <1>2, <1>3, <1>4, TypeParts DEF GateInv, TypeOK, StoreTyped, ReqTyped, GuardTyped, TokenMap

(* A request in flight while no token is set is allowed.                   *)
LEMMA OpenIsAllowed ==
    ASSUME GateInv, NEW q \in Requests, req[q].phase # "idle", ~authEnabled(config)
    PROVE  req[q].allowed
<1>1. req[q].caller \in Callers
  BY BusyFields, TypeParts DEF GateInv, ReqTyped
<1> QED BY <1>1, OpenToAll DEF GateInv, Watched

LEMMA BootstrapKeeps ==
    ASSUME GateInv, NEW q \in Requests, NEW kept \in BOOLEAN, requireAuthBootstrap(q, kept)
    PROVE  GateInv'
<1>1. req[q].phase # "idle" /\ UNCHANGED Rest
  BY DEF requireAuthBootstrap
<1>2. CASE authEnabled(config) /\ Goto(q, "status") /\ UNCHANGED Guard
  BY <1>1, <1>2, PassedKeeps
<1>3. CASE Finish(q) /\ Observe("cross_origin_write", req[q].caller, kept)
  BY <1>1, <1>3, RefusedKeeps DEF Scopes
<1>4. CASE Finish(q) /\ Observe("auth_bootstrap", req[q].caller, kept)
  BY <1>1, <1>4, RefusedKeeps DEF Scopes
<1>5. CASE ~authEnabled(config) /\ Goto(q, "apply") /\ UNCHANGED Guard
  BY <1>1, <1>5, PassedKeeps, OpenIsAllowed
<1> QED BY <1>2, <1>3, <1>4, <1>5 DEF requireAuthBootstrap

LEMMA WriteAuthKeeps ==
    ASSUME GateInv, NEW q \in Requests, NEW kept \in BOOLEAN, requireWriteAuth(q, kept)
    PROVE  GateInv'
<1>1. req[q].phase # "idle" /\ UNCHANGED Rest
  BY DEF requireWriteAuth
<1>2. CASE Finish(q) /\ Observe("cross_origin_write", req[q].caller, kept)
  BY <1>1, <1>2, RefusedKeeps DEF Scopes
<1>3. CASE ~authEnabled(config) /\ Goto(q, "apply") /\ UNCHANGED Guard
  BY <1>1, <1>3, PassedKeeps, OpenIsAllowed
<1>4. CASE Goto(q, "token") /\ UNCHANGED Guard
  BY <1>1, <1>4, PassedKeeps
<1>5. CASE Finish(q) /\ UNCHANGED Guard
  <2>1. StoreTyped /\ ReqTyped /\ GuardTyped
    BY TypeParts DEF GateInv
  <2>2. StoreTyped' /\ FounderTokenIsSaved'
    BY <1>1, <2>1, StoreKept DEF GateInv
  <2>3. ReqTyped' /\ Watched'
    BY <1>1, <1>5, <2>1, FinishKeeps DEF GateInv, Rest
  <2>4. GuardTyped' /\ Earned'
    BY <1>5, <2>1, GuardKept DEF GateInv, Guard
  <2> QED BY <2>2, <2>3, <2>4, TypeParts DEF GateInv, TypeOK, StoreTyped, ReqTyped, GuardTyped, TokenMap
<1> QED BY <1>2, <1>3, <1>4, <1>5 DEF requireWriteAuth

LEMMA AuthorizeKeeps ==
    ASSUME GateInv, NEW q \in Requests, NEW a \in Actors, NEW kept \in BOOLEAN,
           AuthorizeWriteToken(q, a, kept)
    PROVE  GateInv'
<1>1. req[q].phase # "idle" /\ UNCHANGED Rest /\ a \in CurrentActor(req[q])
  BY DEF AuthorizeWriteToken
<1>2. StoreTyped /\ ReqTyped /\ GuardTyped
  BY TypeParts DEF GateInv
<1>3. CASE ~(req[q].token # NoToken /\ authorize(config, req[q].token, a))
  BY <1>1, <1>3, RefusedKeeps DEF AuthorizeWriteToken, Scopes
<1>4. CASE req[q].token # NoToken /\ authorize(config, req[q].token, a)
  <2>1. req[q].caller \in Callers
    BY <1>1, <1>2, BusyFields DEF ReqTyped
  <2>2. req[q].allowed
    BY <1>1, <1>4 DEF GateInv, Watched, Permitted
  <2>3. StoreTyped' /\ FounderTokenIsSaved'
    BY <1>1, <1>2, StoreKept DEF GateInv
  <2>4. ReqTyped' /\ Watched'
    BY <1>1, <1>2, <1>4, <2>2, GotoKeeps DEF GateInv, Rest, AuthorizeWriteToken
  <2>5. /\ tracker' = [tracker EXCEPT !["write_auth"] = [@ EXCEPT ![req[q].caller] = Fresh]]
        /\ fails' = [fails EXCEPT ![req[q].caller] = 0] /\ reported' = reported
    BY <1>4 DEF AuthorizeWriteToken, clearAuthFailures
  <2>6. GuardTyped'
    <3>1. tracker' \in [Scopes -> [Callers -> Trackers]]
      BY <1>2, <2>5, FreshTyped DEF GuardTyped
    <3>2. fails' \in [Callers -> 0..AuthThreshold]
      <4>1. 0 \in 0..AuthThreshold
        BY GateAssumption
      <4> QED BY <1>2, <2>5, <4>1 DEF GuardTyped
    <3> QED BY <1>2, <2>5, <3>1, <3>2 DEF GuardTyped
  <2>7. Earned'
    <3> SUFFICES ASSUME NEW c \in Callers
                 PROVE  /\ tracker'["write_auth"][c].count <= fails'[c]
                        /\ tracker'["write_auth"][c].left > 0 =>
                              fails'[c] = AuthThreshold /\ tracker'["write_auth"][c].escalated # "no"
                        /\ tracker'["write_auth"][c].escalated = "said" => <<"write_auth", c>> \in reported'
      BY DEF Earned
    <3>1. CASE c = req[q].caller
      <4>1. tracker'["write_auth"][c] = Fresh /\ fails'[c] = 0
        BY <1>2, <2>1, <2>5, <3>1 DEF GuardTyped, Scopes
      <4> QED BY <4>1 DEF Fresh
    <3>2. CASE c # req[q].caller
      <4>1. tracker'["write_auth"][c] = tracker["write_auth"][c] /\ fails'[c] = fails[c]
        BY <1>2, <2>1, <2>5, <3>2 DEF GuardTyped, Scopes
      <4> QED BY <4>1, <2>5 DEF GateInv, Earned
    <3> QED BY <3>1, <3>2
  <2> QED BY <2>3, <2>4, <2>6, <2>7, TypeParts DEF GateInv, TypeOK, StoreTyped, ReqTyped, GuardTyped, TokenMap
<1> QED BY <1>3, <1>4

(* A change of the tokens: every request in flight sees it, and what is    *)
(* put back after a failed save never differs in the founder's token.      *)
LEMMA ApplyKeeps ==
    ASSUME GateInv, NEW q \in Requests, NEW a \in Actors, NEW t \in Tokens \cup {NoToken},
           NEW kept \in BOOLEAN, Apply(q, a, t, kept)
    PROVE  GateInv'
<1> DEFINE new == setToken(config, a, t)
           now == IF kept THEN new ELSE restored(config, new, a)
<1>1. StoreTyped /\ ReqTyped /\ GuardTyped
  BY TypeParts DEF GateInv
<1>2. new \in TokenMap /\ now \in TokenMap
  BY <1>1 DEF StoreTyped, TokenMap, setToken, restored
<1>3. /\ config' = now /\ hasMap' \in BOOLEAN /\ file' = (IF kept THEN new ELSE file)
      /\ req' = [Seen(now) EXCEPT ![q] = Idle] /\ legacy' = legacy /\ up' = up
  <2>1. hasMap' = IF ~kept \/ a = Founder THEN hasMap
                  ELSE t # NoToken \/ (hasMap /\ ~NoScoped(new))
    BY DEF Apply
  <2>2. hasMap \in BOOLEAN
    BY <1>1 DEF StoreTyped
  <2>3. hasMap' \in BOOLEAN
    BY <2>1, <2>2
  <2> QED BY <2>3 DEF Apply
<1>4. StoreTyped'
  BY <1>1, <1>2, <1>3 DEF StoreTyped
<1>5. FounderTokenIsSaved'
  <2>1. CASE kept
    <3>1. loadAuthConfig' = now
      BY <1>2, <1>3, <2>1, GateAssumption DEF loadAuthConfig, TokenMap
    <3> QED BY <3>1, <1>3 DEF FounderTokenIsSaved
  <2>2. CASE ~kept
    <3>1. loadAuthConfig' = loadAuthConfig
      BY <1>3, <2>2 DEF loadAuthConfig
    <3>2. now[Founder] = config[Founder]
      BY <1>1, <2>2, GateAssumption DEF restored, setToken, StoreTyped, TokenMap
    <3> QED BY <3>1, <3>2, <1>3 DEF FounderTokenIsSaved, GateInv
  <2> QED BY <2>1, <2>2
<1>6. ASSUME NEW p \in Requests
      PROVE  /\ Seen(now)[p] \in Busy \cup {Idle}
             /\ Seen(now)[p].phase = req[p].phase
             /\ req[p].phase # "idle" =>
                  /\ Seen(now)[p].caller = req[p].caller /\ Seen(now)[p].token = req[p].token
                  /\ Seen(now)[p].allowed = Allowed(req[p], now)
  <2>1. CASE req[p].phase = "idle"
    BY <1>1, <2>1 DEF Seen, ReqTyped
  <2>2. CASE req[p].phase # "idle"
    <3>1. req[p] \in Busy /\ req[p].allowed \in BOOLEAN
      BY <1>1, <2>2, BusyFields DEF ReqTyped
    <3>2. Seen(now)[p] = [req[p] EXCEPT !.allowed = Allowed(req[p], now)]
      BY <2>2 DEF Seen
    <3>3. Allowed(req[p], now) \in BOOLEAN
      BY <3>1 DEF Allowed
    <3>4. Seen(now)[p] \in Busy
      BY <3>1, <3>2, <3>3 DEF Busy
    <3> QED BY <3>1, <3>2, <3>4 DEF Busy
  <2> QED BY <2>1, <2>2
<1>7. /\ req' \in [Requests -> Busy \cup {Idle}]
      /\ req'[q] = Idle
      /\ \A p \in Requests : p # q => req'[p] = Seen(now)[p]
  <2>1. Seen(now) \in [Requests -> Busy \cup {Idle}]
    <3>1. Seen(now) = [p \in Requests |-> Seen(now)[p]]
      BY DEF Seen
    <3> HIDE DEF now
    <3> QED BY <3>1, <1>6
  <2> HIDE DEF now
  <2> QED BY <2>1, <1>3
<1>8. Watched'
  <2> SUFFICES ASSUME NEW p \in Requests, req'[p].phase # "idle"
               PROVE  up' /\ (req'[p].phase = "apply" \/ Permitted(req[p])' => req'[p].allowed)
    BY DEF Watched
  <2>1. p # q /\ req'[p] = Seen(now)[p] /\ req[p].phase # "idle"
    BY <1>6, <1>7, IdleFields
  <2>2. /\ up /\ (req[p].phase = "apply" => req[p].allowed)
    BY <2>1 DEF GateInv, Watched
  <2>3. /\ req'[p].phase = req[p].phase /\ req'[p].caller = req[p].caller
        /\ req'[p].token = req[p].token /\ req'[p].allowed = Allowed(req[p], now)
    BY <2>1, <1>6
  <2>4. Permitted(req[p])' => Allowed(req[p], now)
    BY <2>3, <1>3 DEF Permitted, Allowed, CurrentActor, authorize, authEnabled
  <2>5. req[p].allowed => Allowed(req[p], now)
    BY DEF Allowed
  <2> QED BY <2>2, <2>3, <2>4, <2>5, <1>3
<1>9. GuardTyped' /\ Earned'
  BY <1>1, GuardKept DEF GateInv, Apply
<1> QED BY <1>4, <1>5, <1>7, <1>8, <1>9, TypeParts DEF GateInv, TypeOK, StoreTyped, ReqTyped, GuardTyped, TokenMap

LEMMA WriteKeeps ==
    ASSUME GateInv, NEW q \in Requests, NEW kept \in BOOLEAN, Write(q, kept)
    PROVE  GateInv'
<1>1. StoreTyped /\ ReqTyped /\ GuardTyped
  BY TypeParts DEF GateInv
<1>2. StoreTyped'
  BY <1>1 DEF Write, StoreTyped
<1>3. FounderTokenIsSaved'
  BY <1>1, GateAssumption DEF Write, GateInv, FounderTokenIsSaved, loadAuthConfig, StoreTyped, TokenMap, None
<1>4. ReqTyped' /\ Watched'
  BY <1>1, FinishKeeps DEF GateInv, Write
<1>5. GuardTyped' /\ Earned'
  BY <1>1, GuardKept DEF GateInv, Write
<1> QED BY <1>2, <1>3, <1>4, <1>5, TypeParts DEF GateInv, TypeOK, StoreTyped, ReqTyped, GuardTyped, TokenMap

LEMMA GateStep == GateInv /\ [Next]_vars => GateInv'
<1> SUFFICES ASSUME GateInv, [Next]_vars PROVE GateInv'
  OBVIOUS
<1>1. CASE Start \/ Stop \/ Tick
  BY <1>1, StartKeeps, StopKeeps, TickKeeps
<1>2. CASE \E q \in Requests, c \in Callers, t \in Tokens \cup {NoToken}, k \in {"write", "auth"} :
             Arrive(q, c, t, k)
  BY <1>2, ArriveKeeps
<1>3. ASSUME NEW q \in Requests, NEW kept \in BOOLEAN,
             \/ requireAuthBootstrap(q, kept) \/ requireWriteAuth(q, kept) \/ Write(q, kept)
             \/ \E a \in Actors : AuthorizeWriteToken(q, a, kept) \/ ClearWriteToken(q, a, kept)
             \/ \E a \in Actors, t \in Tokens : SetWriteToken(q, a, t, kept)
      PROVE  GateInv'
  <2>1. CASE requireAuthBootstrap(q, kept) \/ requireWriteAuth(q, kept) \/ Write(q, kept)
    BY <2>1, BootstrapKeeps, WriteAuthKeeps, WriteKeeps
  <2>2. CASE \E a \in Actors : AuthorizeWriteToken(q, a, kept)
    BY <2>2, AuthorizeKeeps
  <2>3. CASE \E a \in Actors : ClearWriteToken(q, a, kept)
    BY <2>3, ApplyKeeps DEF ClearWriteToken
  <2>4. CASE \E a \in Actors, t \in Tokens : SetWriteToken(q, a, t, kept)
    BY <2>4, ApplyKeeps DEF SetWriteToken
  <2> QED BY <1>3, <2>1, <2>2, <2>3, <2>4
<1>4. CASE UNCHANGED vars
  <2>1. UNCHANGED <<Rest, tracker, reported, fails, req>>
    BY <1>4 DEF vars, Rest
  <2>2. StoreTyped /\ ReqTyped /\ GuardTyped
    BY TypeParts DEF GateInv
  <2>3. StoreTyped' /\ FounderTokenIsSaved'
    BY <2>1, <2>2, StoreKept DEF GateInv
  <2>4. GuardTyped' /\ Earned'
    BY <2>1, <2>2, GuardKept DEF GateInv
  <2>5. ReqTyped' /\ Watched'
    BY <2>1, <2>2 DEF Rest, GateInv, ReqTyped, Watched, Permitted, CurrentActor, authorize, authEnabled
  <2> QED BY <2>3, <2>4, <2>5, TypeParts DEF GateInv, TypeOK, StoreTyped, ReqTyped, GuardTyped, TokenMap
<1> QED BY <1>1, <1>2, <1>3, <1>4 DEF Next

LEMMA GateInvImplies == GateInv => AcceptedWasAllowed /\ FounderTokenIsSaved /\ GuardIsFair
<1> SUFFICES ASSUME GateInv PROVE AcceptedWasAllowed /\ FounderTokenIsSaved /\ GuardIsFair
  OBVIOUS
<1>1. AcceptedWasAllowed
  BY DEF GateInv, Watched, AcceptedWasAllowed
<1>2. ThrottleIsEarned
  <2> SUFFICES ASSUME NEW c \in Callers, Throttled(c) PROVE fails[c] >= AuthThreshold
    BY DEF ThrottleIsEarned
  <2>1. fails[c] = AuthThreshold
    BY DEF GateInv, Earned, Throttled
  <2> QED BY <2>1, GateAssumption
<1>3. ThrottleIsReported
  <2> SUFFICES ASSUME NEW c \in Callers, tracker["write_auth"][c].left > 0,
                      tracker["write_auth"][c].escalated # "lost"
               PROVE  <<"write_auth", c>> \in reported
    BY DEF ThrottleIsReported
  <2>1. tracker["write_auth"][c].escalated \in {"no", "said", "lost"}
    BY DEF GateInv, TypeOK, Trackers, Scopes
  <2> QED BY <2>1 DEF GateInv, Earned
<1> QED BY <1>1, <1>2, <1>3 DEF GateInv, GuardIsFair
-----------------------------------------------------------------------------
(* The inductive invariant holds of every behaviour of the gate.           *)
THEOREM GateInvariant == Spec => []GateInv
BY GateInit, GateStep, PTL DEF Spec

(* Whatever requests do between the two reads of the token store in        *)
(* requireWriteAuth and requireAuthBootstrap, a write that is let through  *)
(* was allowed by the tokens of some moment since it came in.              *)
THEOREM AcceptedIsAllowed == Spec => []AcceptedWasAllowed
BY GateInvariant, GateInvImplies, PTL

(* The founder's token in force is the kept one, through failed saves of  *)
(* SetWriteToken and ClearWriteToken, restarts and the legacy file.        *)
THEOREM FounderTokenStays == Spec => []FounderTokenIsSaved
BY GateInvariant, GateInvImplies, PTL

(* writeSecurityGuard throttles only a caller whose own failures reached   *)
(* the threshold, and the review room knows of it unless its save failed.  *)
THEOREM GuardStaysFair == Spec => []GuardIsFair
BY GateInvariant, GateInvImplies, PTL
=============================================================================
