----------------------------- MODULE Persistence -----------------------------
(***************************************************************************)
(* The persistence sweep.  Every domain of the runtime (branches, jobs,    *)
(* events, review room, ...) is one store in memory and one JSON file,     *)
(* replaced whole.  An operation changes some stores under Service.mu and  *)
(* calls persistLocked, which saves the domains that differ from what it   *)
(* last saved, one file after the other.  On an error the operation puts   *)
(* back the stores it changed and returns the error.                       *)
(*                                                                         *)
(* The value of a store is the number of the change that made it.  The     *)
(* review room has a second file, the seal of the room last saved; a start *)
(* that finds a seal that does not match opens an integrity item.          *)
(***************************************************************************)
EXTENDS Naturals, Sequences

CONSTANTS
    Order,          \* persistDomains: the domains in the order they are saved
    Room,           \* the domain of the review room
    MaxChanges,     \* bound: changes in a behaviour
    MaxCrashes      \* bound: crashes in a behaviour

Domain == {Order[i] : i \in DOMAIN Order}

ASSUME SweepAssumption ==
    /\ Order \in Seq(Domain)
    /\ \A i, k \in DOMAIN Order : Order[i] = Order[k] => i = k
    /\ Room \in Domain
    /\ {MaxChanges, MaxCrashes} \subseteq Nat

VARIABLES
    pc,         \* "idle", "save" or "seal" in a sweep, "down", "reseal" in a start
    mem,        \* the stores
    persisted,  \* signatures of what the last full sweep saved
    dirty,      \* domains the sweep in hand still has to save
    touched,    \* domains the operation in hand changed
    undo,       \* the stores before the operation in hand
    number,     \* number of the change the operation in hand makes
    disk,       \* the files
    seal,       \* change whose room the seal matches, 0 for no seal file
    acked,      \* ground truth: the stores when an operation last returned nil
    change,     \* number of the newest change
    failed,     \* ground truth: a save failed since the last start
    crashes     \* crashes so far

memVars == <<mem, persisted>>
opVars == <<dirty, touched, undo, number>>
diskVars == <<disk, seal>>
vars == <<pc, memVars, opVars, diskVars, acked, change, failed, crashes>>

Before(d, e) == \E i, k \in DOMAIN Order : i < k /\ Order[i] = d /\ Order[k] = e
Changed(stores, ds, c) == [d \in Domain |-> IF d \in ds THEN c ELSE stores[d]]
-----------------------------------------------------------------------------
(* syncDirtyLocked: the domains whose signature is not the saved one.      *)
DirtyDomains(stores) == {d \in Domain : stores[d] # persisted[d]}

(* An operation changes some stores and calls persistLocked, where an      *)
(* audit may change the review room as well (syncAuditReviewRoom); that    *)
(* change is not one the operation undoes.                                 *)
Operate(ds, audited) ==
    /\ pc = "idle" /\ change < MaxChanges
    /\ LET stores == Changed(mem, ds \cup audited, change + 1) IN
        /\ mem' = stores
        /\ dirty' = DirtyDomains(stores)
    /\ undo' = mem
    /\ touched' = ds
    /\ number' = change + 1
    /\ change' = change + 1
    /\ pc' = "save"
    /\ UNCHANGED <<persisted, diskVars, acked, failed, crashes>>

(* ImportSnapshot replaces every store and undoes nothing.                 *)
Import ==
    /\ pc = "idle" /\ change < MaxChanges
    /\ LET stores == Changed(mem, Domain, change + 1) IN
        /\ mem' = stores
        /\ dirty' = DirtyDomains(stores)
        /\ undo' = stores
    /\ touched' = Domain
    /\ number' = change + 1
    /\ change' = change + 1
    /\ pc' = "save"
    /\ UNCHANGED <<persisted, diskVars, acked, failed, crashes>>

(* The next dirty domain of persistDomains is saved.                       *)
SaveDomain(d) ==
    /\ pc = "save"
    /\ d \in dirty
    /\ \A e \in dirty : ~ Before(e, d)
    /\ disk' = [disk EXCEPT ![d] = mem[d]]
    /\ dirty' = dirty \ {d}
    /\ pc' = IF d = Room THEN "seal" ELSE "save"
    /\ UNCHANGED <<memVars, touched, undo, number, seal, acked, change, failed, crashes>>

(* Mutant of SaveSeal: the seal is the one of the room before.             *)
SaveSealStale ==
    /\ pc = "seal"
    /\ seal' = persisted[Room]
    /\ pc' = "save"
    /\ UNCHANGED <<memVars, opVars, disk, acked, change, failed, crashes>>

(* saveReviewRoomSeal, after saveReviewRoom.                               *)
SaveSeal ==
    /\ pc = "seal"
    /\ seal' = mem[Room]
    /\ pc' = "save"
    /\ UNCHANGED <<memVars, opVars, disk, acked, change, failed, crashes>>

(* Mutant of Succeed: the operation returns before the sweep is over.      *)
SucceedEarly ==
    /\ pc = "save"
    /\ persisted' = mem
    /\ acked' = mem
    /\ pc' = "idle"
    /\ UNCHANGED <<mem, opVars, diskVars, change, failed, crashes>>

(* Everything is saved: persistLocked and the operation return nil.        *)
Succeed ==
    /\ pc = "save" /\ dirty = {}
    /\ persisted' = mem
    /\ acked' = mem
    /\ pc' = "idle"
    /\ UNCHANGED <<mem, opVars, diskVars, change, failed, crashes>>

(* The lease or a file cannot be written: the operation puts back what it  *)
(* changed and returns the error.  What is saved stays saved.              *)
Fail ==
    /\ pc \in {"save", "seal"}
    /\ mem' = [d \in Domain |-> IF d \in touched THEN undo[d] ELSE mem[d]]
    /\ failed' = TRUE
    /\ pc' = "idle"
    /\ UNCHANGED <<persisted, opVars, diskVars, acked, change, crashes>>

(* The daemon stops, wherever it is.                                       *)
Crash ==
    /\ crashes < MaxCrashes /\ pc # "down"
    /\ crashes' = crashes + 1
    /\ pc' = "down"
    /\ UNCHANGED <<memVars, opVars, diskVars, acked, change, failed>>

(* NewService loads the files; `room' is the review room it ends up with.  *)
Load(room, files) ==
    /\ mem' = [files EXCEPT ![Room] = room]
    /\ persisted' = files
    /\ failed' = FALSE
    /\ pc' = "idle"
    /\ UNCHANGED <<opVars, disk, acked, crashes>>

(* No seal yet: the room as found is sealed.                               *)
StartUnsealed ==
    /\ pc = "down" /\ seal = 0
    /\ seal' = disk[Room]
    /\ Load(disk[Room], disk)
    /\ UNCHANGED change

StartSealed ==
    /\ pc = "down" /\ seal # 0 /\ seal = disk[Room]
    /\ Load(disk[Room], disk)
    /\ UNCHANGED <<seal, change>>

(* applyReviewRoomIntegrityGuardrail: the room gets an integrity item.     *)
StartDrifted ==
    /\ pc = "down" /\ seal # 0 /\ seal # disk[Room]
    /\ change < MaxChanges
    /\ change' = change + 1
    /\ Load(change + 1, disk)
    /\ UNCHANGED seal

(* The data directory was moved: normalizeRuntimeReviewRoomSource changes  *)
(* the room, which is saved and sealed before the seal is looked at.       *)
Relocate ==
    /\ pc = "down" /\ change < MaxChanges
    /\ change' = change + 1
    /\ disk' = [disk EXCEPT ![Room] = change + 1]
    /\ pc' = "reseal"
    /\ UNCHANGED <<memVars, opVars, seal, acked, failed, crashes>>

StartRelocated ==
    /\ pc = "reseal"
    /\ seal' = disk[Room]
    /\ Load(disk[Room], disk)
    /\ UNCHANGED change
-----------------------------------------------------------------------------
(* A new data directory: change 1 stands for the empty stores.             *)
Init ==
    /\ pc = "down"
    /\ mem = [d \in Domain |-> 1]
    /\ persisted = mem /\ undo = mem /\ disk = mem /\ acked = mem
    /\ dirty = {} /\ touched = {}
    /\ number = 1 /\ change = 1
    /\ seal = 0
    /\ failed = FALSE
    /\ crashes = 0

Next ==
    \/ \E ds \in SUBSET Domain \ {{}}, audited \in SUBSET {Room} : Operate(ds, audited)
    \/ Import
    \/ \E d \in Domain : SaveDomain(d)
    \/ SaveSeal \/ Succeed \/ Fail \/ Crash
    \/ StartUnsealed \/ StartSealed \/ StartDrifted \/ Relocate \/ StartRelocated

Spec == Init /\ [][Next]_vars
-----------------------------------------------------------------------------
(* The shape of the stores, the files and the sweep.                       *)
TypeOK ==
    /\ pc \in {"idle", "save", "seal", "down", "reseal"}
    /\ mem \in [Domain -> Nat] /\ persisted \in [Domain -> Nat]
    /\ undo \in [Domain -> Nat] /\ disk \in [Domain -> Nat] /\ acked \in [Domain -> Nat]
    /\ dirty \subseteq Domain /\ touched \subseteq Domain
    /\ seal \in Nat /\ number \in Nat /\ change \in Nat /\ crashes \in Nat
    /\ failed \in BOOLEAN

(* What an operation that returned nil saved is never behind on disk,      *)
(* whatever later operations, failures, crashes and starts do.             *)
AckedIsDurable == \A d \in Domain : disk[d] >= acked[d]

(* The files that hold the last operation's change are those of the first  *)
(* domains it changed: an event, say, is in events.json only if the job it *)
(* is about is in agent_jobs.json.  (A relocated room is newer than both.) *)
SavedInOrder ==
    \A d, e \in touched :
        (Before(d, e) /\ e # Room /\ disk[e] = number) => disk[d] >= number

(* persistLocked returned nil: files, seal and stores agree, if no save    *)
(* failed since the daemon started, however it stopped before.             *)
CleanReturnMeansSaved == [][(Succeed /\ ~ failed) => disk = mem /\ seal = mem[Room]]_vars
==============================================================================
