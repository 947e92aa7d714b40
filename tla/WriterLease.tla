---------------------------- MODULE WriterLease ----------------------------
(***************************************************************************)
(* Several processes on one data directory: daemons that load it, reclaim   *)
(* stale jobs, bind their port and serve writes, the lease file that every  *)
(* sweep asks for first (disk_auth.go), and a command that reads through    *)
(* the daemon or, when no daemon answers, from a copy of the directory      *)
(* (read_fallback.go).  A file is the set of changes it holds, so that an   *)
(* old copy that overwrites a newer one shows.  Every operation changes at  *)
(* least its own store and the events, so all files of the model.           *)
(*                                                                         *)
(* The lease is created empty and written afterwards, is read and replaced  *)
(* in two steps, and is never given back; a process that is gone is told    *)
(* from the process id it holds.  The sweep itself is module Persistence.   *)
(***************************************************************************)
EXTENDS Naturals, FiniteSets

CONSTANTS
  Procs,        \* processes that may open the directory, each once
  Owner,        \* LAYER_OS_WRITER_ID of each process
  NoProc,
  Domains,      \* files of the directory, numbered in the order of the sweep
  MaxChanges    \* bound: changes made in a behaviour

ASSUME LeaseAssumption ==
  /\ NoProc \notin Procs \cup {"none", "empty"}
  /\ {"none", "empty"} \cap Procs = {}
  /\ DOMAIN Owner = Procs
  /\ Domains \subseteq Nat /\ Domains # {}
  /\ MaxChanges \in Nat

VARIABLES
  phase,    \* where each process is
  mem,      \* its stores
  saved,    \* its signatures of what is on disk
  undo,     \* the stores an operation puts back when it fails
  todo,     \* files its sweep has still to write
  lease,    \* write_lease.json: "none", "empty" or the process it names
  disk,     \* the files
  port,     \* the process that listens
  reader,   \* the command
  maker,    \* ground truth: who made each change
  acked,    \* ground truth: changes whose operation returned nil
  lost,     \* ground truth: changes that were on a file and were overwritten
  stolen    \* ground truth: processes whose lease was replaced while they lived

procVars == <<phase, mem, saved, undo, todo>>
truth == <<maker, acked, lost, stolen>>
leaseVars == <<procVars, lease, disk, port, reader, truth>>

Changes == 1..MaxChanges
Empty == [d \in Domains |-> {}]
Alive(p) == phase[p] \notin {"off", "dead"}
Working == {"lease", "write", "take", "sweep"}
NoReader == [at |-> "idle", left |-> {}, copy |-> Empty, base |-> {}]

LeaseInit ==
  /\ phase = [p \in Procs |-> "off"]
  /\ mem = [p \in Procs |-> Empty] /\ saved = mem /\ undo = mem
  /\ todo = [p \in Procs |-> {}]
  /\ lease = "none" /\ disk = Empty /\ port = NoProc
  /\ reader = NoReader
  /\ maker = [c \in Changes |-> NoProc]
  /\ acked = {} /\ lost = {} /\ stolen = {}

Move(p, to) == phase' = [phase EXCEPT ![p] = to]

-----------------------------------------------------------------------------
\* A process ends: its memory is gone, its lease stays behind.
Gone(p) ==
  /\ Move(p, "dead")
  /\ mem' = [mem EXCEPT ![p] = Empty]
  /\ saved' = [saved EXCEPT ![p] = Empty]
  /\ undo' = [undo EXCEPT ![p] = Empty]
  /\ todo' = [todo EXCEPT ![p] = {}]

\* main: NewService loads the directory before the port is asked for.
NewService(p) ==
  /\ phase[p] = "off"
  /\ Move(p, "loaded")
  /\ mem' = [mem EXCEPT ![p] = disk]
  /\ saved' = [saved EXCEPT ![p] = disk]
  /\ UNCHANGED <<undo, todo, lease, disk, port, reader, truth>>

listenDaemon(p) ==
  /\ phase[p] \in {"loaded", "ready"}
  /\ IF port = NoProc THEN Move(p, "serving") /\ UNCHANGED <<mem, saved, undo, todo>>
     ELSE Gone(p)
  /\ port' = IF port = NoProc THEN p ELSE port
  /\ UNCHANGED <<lease, disk, reader, truth>>

\* An operation changes stores and asks for the lease: the reclaim of stale
\* jobs at the start, which may find nothing to do, or a request.
Operate(p) ==
  /\ phase[p] \in {"loaded", "serving"}
  /\ \E c \in Changes :
       /\ maker[c] = NoProc /\ \A b \in Changes : b < c => maker[b] # NoProc
       /\ maker' = [maker EXCEPT ![c] = p]
       /\ mem' = [mem EXCEPT ![p] = [d \in Domains |-> @[d] \cup {c}]]
  /\ undo' = [undo EXCEPT ![p] = mem[p]]
  /\ Move(p, "lease")
  /\ UNCHANGED <<saved, todo, lease, disk, port, reader, acked, lost, stolen>>

\* Where a process goes on after an operation.
After(p) == IF port = p THEN "serving" ELSE "ready"

-----------------------------------------------------------------------------
\* Mutant: the create is not exclusive.
CreateLeaseOver(p) ==
  /\ phase[p] = "lease"
  /\ lease' = "empty"
  /\ Move(p, "write")
  /\ UNCHANGED <<mem, saved, undo, todo, disk, port, reader, truth>>

\* ensureWriterLease: the exclusive create, then the write of the content.
CreateLease(p) ==
  /\ phase[p] = "lease" /\ lease = "none"
  /\ lease' = "empty"
  /\ Move(p, "write")
  /\ UNCHANGED <<mem, saved, undo, todo, disk, port, reader, truth>>

\* The sweep writes the files whose content is not the one last saved.
Dirty(p) == {d \in Domains : mem[p][d] # saved[p][d]}

WriteLease(p) ==
  /\ phase[p] = "write"
  /\ lease' = p
  /\ Move(p, "sweep")
  /\ todo' = [todo EXCEPT ![p] = Dirty(p)]
  /\ UNCHANGED <<mem, saved, undo, disk, port, reader, truth>>

\* The existing lease may be used by its owner, or when its process is gone.
processAlive(p) == Alive(p)

MayTake(p) == lease \in Procs /\ (Owner[lease] = Owner[p] \/ ~processAlive(lease))

ReadLease(p) ==
  /\ phase[p] = "lease" /\ MayTake(p)
  /\ Move(p, "take")
  /\ UNCHANGED <<mem, saved, undo, todo, lease, disk, port, reader, truth>>

\* The lease is replaced by what was decided when it was read.
TakeLease(p) ==
  /\ phase[p] = "take"
  /\ lease' = p
  /\ stolen' = IF lease \in Procs /\ Alive(lease) /\ Owner[lease] # Owner[p] THEN stolen \cup {lease} ELSE stolen
  /\ Move(p, "sweep")
  /\ todo' = [todo EXCEPT ![p] = Dirty(p)]
  /\ UNCHANGED <<mem, saved, undo, disk, port, reader, maker, acked, lost>>

\* Mutant: a file is truncated before it is written.
SaveDomainInPlace(p, d) ==
  /\ phase[p] = "sweep" /\ d \in todo[p] /\ \A e \in todo[p] : d <= e
  /\ disk' = [disk EXCEPT ![d] = IF @ = {} THEN mem[p][d] ELSE {}]
  /\ todo' = IF disk[d] = {} THEN [todo EXCEPT ![p] = @ \ {d}] ELSE todo
  /\ UNCHANGED <<phase, mem, saved, undo, lease, port, reader, truth>>

SaveDomain(p, d) ==
  /\ phase[p] = "sweep" /\ d \in todo[p] /\ \A e \in todo[p] : d <= e
  /\ disk' = [disk EXCEPT ![d] = mem[p][d]]
  /\ lost' = lost \cup (disk[d] \ mem[p][d])
  /\ todo' = [todo EXCEPT ![p] = @ \ {d}]
  /\ UNCHANGED <<phase, mem, saved, undo, lease, port, reader, maker, acked, stolen>>

Succeed(p) ==
  /\ phase[p] = "sweep" /\ todo[p] = {}
  /\ saved' = [saved EXCEPT ![p] = mem[p]]
  /\ acked' = acked \cup {c \in Changes : maker[c] = p /\ \E d \in Domains : c \in mem[p][d]}
  /\ undo' = [undo EXCEPT ![p] = Empty]
  /\ Move(p, After(p))
  /\ UNCHANGED <<mem, todo, lease, disk, port, reader, maker, lost, stolen>>

\* "write lease held by", a lease that cannot be read, or a file that cannot
\* be written: the operation puts its stores back.
Fail(p) ==
  /\ \/ phase[p] = "lease" /\ lease # "none" /\ ~MayTake(p)
     \/ phase[p] \in {"write", "take", "sweep"}
  /\ mem' = [mem EXCEPT ![p] = undo[p]]
  /\ undo' = [undo EXCEPT ![p] = Empty]
  /\ todo' = [todo EXCEPT ![p] = {}]
  /\ Move(p, After(p))
  /\ UNCHANGED <<saved, lease, disk, port, reader, truth>>

\* A process stops or is killed.
Die(p) ==
  /\ Alive(p)
  /\ Gone(p)
  /\ port' = IF port = p THEN NoProc ELSE port
  /\ UNCHANGED <<lease, disk, reader, truth>>

-----------------------------------------------------------------------------
\* Acknowledged changes that no other copy of the stores overwrote.
Standing == acked \ lost

\* resolveReadWithLocalFallback: a read that no daemon answered in its attempts
\* (an answer may also be lost while one listens) copies the directory file by
\* file and opens the copy as a directory of its own.
StartClone ==
  /\ reader.at = "idle"
  /\ reader' = [reader EXCEPT !.at = "cloning", !.left = Domains, !.base = Standing]
  /\ UNCHANGED <<procVars, lease, disk, port, truth>>

\* Of a copied file only the changes that were there before are kept.
copyRegularFile(d) ==
  /\ reader.at = "cloning" /\ d \in reader.left /\ \A e \in reader.left : d <= e
  /\ reader' = [reader EXCEPT !.left = @ \ {d}, !.copy[d] = disk[d] \cap reader.base]
  /\ UNCHANGED <<procVars, lease, disk, port, truth>>

ReadClone ==
  /\ reader.at = "cloning" /\ reader.left = {}
  /\ reader' = NoReader
  /\ UNCHANGED <<procVars, lease, disk, port, truth>>

LeaseNext ==
  \/ \E p \in Procs :
       \/ NewService(p) \/ listenDaemon(p) \/ Operate(p)
       \/ CreateLease(p) \/ WriteLease(p) \/ ReadLease(p) \/ TakeLease(p)
       \/ \E d \in Domains : SaveDomain(p, d)
       \/ Succeed(p) \/ Fail(p) \/ Die(p)
  \/ StartClone \/ ReadClone
  \/ \E d \in Domains : copyRegularFile(d)

LeaseSpec == LeaseInit /\ [][LeaseNext]_leaseVars

-----------------------------------------------------------------------------
Contents == [Domains -> SUBSET Changes]

\* The variables keep their types.
LeaseTypeOK ==
  /\ phase \in [Procs -> {"off", "loaded", "ready", "serving", "dead"} \cup Working]
  /\ mem \in [Procs -> Contents] /\ saved \in [Procs -> Contents] /\ undo \in [Procs -> Contents]
  /\ todo \in [Procs -> SUBSET Domains]
  /\ lease \in Procs \cup {"none", "empty"}
  /\ disk \in Contents
  /\ port \in Procs \cup {NoProc}
  /\ maker \in [Changes -> Procs \cup {NoProc}]
  /\ acked \subseteq Changes /\ lost \subseteq Changes /\ stolen \subseteq Procs
  /\ reader \in [at : {"idle", "cloning"}, left : SUBSET Domains, copy : Contents, base : SUBSET Changes]

\* Two processes with one writer id opened the directory.
Shared == \E p, q \in Procs : p # q /\ Owner[p] = Owner[q] /\ "off" \notin {phase[p], phase[q]}

\* Processes of different writers sweep at the same time only when a process
\* is gone, and then because two of them replaced its lease, or because it
\* shared its writer id with a living one (ensureWriterLease).
OneWriterSweeps ==
  \A p, q \in Procs :
    phase[p] = "sweep" /\ phase[q] = "sweep" /\ Owner[p] # Owner[q] =>
      (\E r \in Procs : phase[r] = "dead") /\ (stolen # {} \/ Shared)

\* A change that was acknowledged is overwritten only when the process that
\* made it is gone, when two processes took over the lease of a dead one at the
\* same time, or when processes share a writer id: otherwise the lease keeps
\* every other copy of the stores out.
AckedLossIsTakeover ==
  \A c \in acked \cap lost : ~Alive(maker[c]) \/ stolen # {} \/ Shared

\* A lease that was created and not written (a crash or a full disk in
\* between) stops every writer: nothing is written beside it.
EmptyLeaseStopsAll ==
  lease = "empty" => disk = Empty /\ acked = {} /\ \A p \in Procs : phase[p] \notin {"take", "sweep"}

\* What a local fallback reads holds every change that was acknowledged
\* before the copy began, even though the files are copied one by one beside a
\* running sweep, as long as no writer overwrote it.
FallbackIsNotOlder ==
  \A c \in reader.base \ lost, d \in Domains :
    reader.at = "cloning" /\ d \notin reader.left /\ c \in disk[d] => c \in reader.copy[d]

\* The lease does its work (ensureWriterLease): writers keep out of each other's
\* sweeps and changes, also behind a lease that was never written, except for
\* the races and the shared writer ids that its parts name.
LeaseExcludes == LeaseTypeOK /\ OneWriterSweeps /\ AckedLossIsTakeover /\ EmptyLeaseStopsAll
=============================================================================
