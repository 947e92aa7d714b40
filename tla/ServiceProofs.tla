---------------------------- MODULE ServiceProofs ---------------------------
(***************************************************************************)
(* What every operation of the service rests on, whatever it does: for any *)
(* number of goroutines and actors the attribution of requests that carry a*)
(* header (ActorScope), and for any number of domains, operations, failures*)
(* and crashes the sweep that saves them (Persistence).                    *)
(***************************************************************************)
EXTENDS ActorScope, Persistence, TLAPS

-----------------------------------------------------------------------------
(* Actor scope: who an event is attributed to.                            *)

(* Why attribution holds: whoever is inside a scope holds actorScope, has  *)
(* set the override and names a real actor; only a holder writes it.       *)
InScope(p) ==
    /\ holder = p
    /\ override = req[p].actor
    /\ req[p].actor # None
    /\ req[p].stamp \in {None, req[p].actor}
Scoped ==
    \A p \in Procs :
        /\ req[p].pc = "body" => InScope(p)
        /\ req[p].pc \in {"prev", "lock"} => req[p].actor # None /\ req[p].stamp = None
        /\ req[p].pc = "check" => req[p].stamp = None
ScopeIInv == ScopeTypeOK /\ Scoped

(* Where a write to one request leaves the others.                         *)
LEMMA SetElsewhere ==
    ASSUME ScopeTypeOK, NEW p \in Procs, NEW r \in Request, Set(p, r)
    PROVE  /\ req' \in [Procs -> Request]
           /\ req'[p] = r
           /\ \A q \in Procs : q # p => req'[q] = req[q]
BY DEF ScopeTypeOK, Set

LEMMA IdleTyped == IdleRequest \in Request /\ IdleRequest.pc = "idle"
BY DEF IdleRequest, Request, None

(* The request in hand, with some fields replaced, is a request.           *)
LEMMA RequestTyped ==
    ASSUME ScopeTypeOK, NEW p \in Procs,
           NEW at \in {"idle", "check", "prev", "lock", "body", "open"},
           NEW a \in Actors \cup {None}
    PROVE  /\ req[p] \in Request
           /\ [req[p] EXCEPT !.pc = at] \in Request
           /\ [req[p] EXCEPT !.pc = at, !.prev = a] \in Request
           /\ [req[p] EXCEPT !.stamp = a] \in Request
<1>1. req[p] \in Request
  BY DEF ScopeTypeOK
<1> QED BY <1>1 DEF Request

LEMMA NormalizeTyped ==
    ASSUME NEW name \in Actors \cup ProcessNames \cup {None}
    PROVE  NormalizeActor(name) \in Actors \cup {None}
BY DEF NormalizeActor

LEMMA CurrentTyped == ScopeTypeOK => CurrentActor \in Actors \cup {None}
BY ActorAssumption DEF ScopeTypeOK, CurrentActor

LEMMA InitScopeIInv == ScopeInit => ScopeIInv
<1> SUFFICES ASSUME ScopeInit PROVE ScopeIInv
  OBVIOUS
<1>1. ScopeTypeOK
  BY IdleTyped DEF ScopeInit, ScopeTypeOK
<1>2. Scoped
  BY IdleTyped DEF ScopeInit, Scoped
<1> QED BY <1>1, <1>2 DEF ScopeIInv

LEMMA NextIInv == ScopeIInv /\ [ScopeNext]_scopeVars => ScopeIInv'
<1> SUFFICES ASSUME ScopeIInv, [ScopeNext]_scopeVars PROVE ScopeIInv'
  OBVIOUS
<1> USE DEF ScopeIInv
<1>0. \A q \in Procs : req[q] \in Request
  BY DEF ScopeTypeOK
<1>1. ASSUME NEW p \in Procs, NEW kind \in Kinds,
             NEW name \in Actors \cup ProcessNames \cup {None}, Arrive(p, kind, name)
      PROVE  ScopeIInv'
  <2> DEFINE at == IF NormalizeActor(name) = None THEN "open" ELSE "prev"
             r == [IdleRequest EXCEPT !.stream = (kind = "stream"), !.actor = NormalizeActor(name), !.pc = at]
  <2>1. Set(p, r) /\ UNCHANGED <<override, holder>>
    BY <1>1 DEF Arrive
  <2>2. r \in Request /\ r.pc = at /\ r.actor = NormalizeActor(name) /\ r.stamp = None
    <3>1. NormalizeActor(name) \in Actors \cup {None}
      BY NormalizeTyped
    <3>2. at \in {"open", "prev"}
      OBVIOUS
    <3> HIDE DEF at
    <3> QED BY <3>1, <3>2 DEF IdleRequest, Request
  <2> HIDE DEF r
  <2>3. req' \in [Procs -> Request] /\ req'[p] = r /\ \A q \in Procs : q # p => req'[q] = req[q]
    BY <2>1, <2>2, SetElsewhere
  <2> QED BY <2>1, <2>2, <2>3 DEF ScopeTypeOK, Scoped, InScope
<1>2. ASSUME NEW p \in Procs, NEW name \in Actors \cup ProcessNames \cup {None}, ArriveNote(p, name)
      PROVE  ScopeIInv'
  <2> DEFINE r == [IdleRequest EXCEPT !.actor = NormalizeActor(name), !.pc = "check"]
  <2>1. Set(p, r) /\ UNCHANGED <<override, holder>> /\ "note" \in Kinds
    BY <1>2 DEF ArriveNote
  <2>2. r \in Request /\ r.pc = "check" /\ r.stamp = None
    <3>1. NormalizeActor(name) \in Actors \cup {None}
      BY NormalizeTyped
    <3> QED BY <2>1, <3>1 DEF IdleRequest, Request
  <2> HIDE DEF r
  <2>3. req' \in [Procs -> Request] /\ req'[p] = r /\ \A q \in Procs : q # p => req'[q] = req[q]
    BY <2>1, <2>2, SetElsewhere
  <2> QED BY <2>1, <2>2, <2>3 DEF ScopeTypeOK, Scoped, InScope
<1>3. ASSUME NEW p \in Procs, CheckNote(p)
      PROVE  ScopeIInv'
  <2> DEFINE at == IF req[p].actor \in {None, override, CurrentActor} THEN "open" ELSE "prev"
             r == [req[p] EXCEPT !.pc = at]
  <2>1. Set(p, r) /\ UNCHANGED <<override, holder>> /\ req[p].pc = "check"
    BY <1>3 DEF CheckNote, Move
  <2>2. r \in Request
    BY RequestTyped
  <2>3. r.pc = at /\ r.actor = req[p].actor /\ r.stamp = req[p].stamp
    BY <1>0 DEF Request
  <2> HIDE DEF r
  <2>4. req' \in [Procs -> Request] /\ req'[p] = r /\ \A q \in Procs : q # p => req'[q] = req[q]
    BY <2>1, <2>2, SetElsewhere
  <2> QED BY <2>1, <2>3, <2>4 DEF ScopeTypeOK, Scoped, InScope
<1>4. ASSUME NEW p \in Procs, ReadPrev(p)
      PROVE  ScopeIInv'
  <2> DEFINE r == [req[p] EXCEPT !.pc = "lock", !.prev = override]
  <2>1. Set(p, r) /\ UNCHANGED <<override, holder>> /\ req[p].pc = "prev"
    BY <1>4 DEF ReadPrev
  <2>2. r \in Request
    BY RequestTyped DEF ScopeTypeOK
  <2>3. r.pc = "lock" /\ r.actor = req[p].actor /\ r.stamp = req[p].stamp
    BY <1>0 DEF Request
  <2> HIDE DEF r
  <2>4. req' \in [Procs -> Request] /\ req'[p] = r /\ \A q \in Procs : q # p => req'[q] = req[q]
    BY <2>1, <2>2, SetElsewhere
  <2> QED BY <2>1, <2>3, <2>4 DEF ScopeTypeOK, Scoped, InScope
<1>5. ASSUME NEW p \in Procs, Enter(p)
      PROVE  ScopeIInv'
  <2> DEFINE r == [req[p] EXCEPT !.pc = "body"]
  <2>1. /\ Set(p, r) /\ holder' = p /\ override' = req[p].actor
        /\ req[p].pc = "lock" /\ holder = Nobody
    BY <1>5 DEF Enter, Move
  <2>2. r \in Request /\ req[p].actor \in Actors \cup {None}
    <3>1. r \in Request
      BY RequestTyped
    <3>2. req[p].actor \in Actors \cup {None}
      BY <1>0 DEF Request
    <3> QED BY <3>1, <3>2
  <2>3. r.pc = "body" /\ r.actor = req[p].actor /\ r.stamp = req[p].stamp
    BY <1>0 DEF Request
  <2> HIDE DEF r
  <2>4. req' \in [Procs -> Request] /\ req'[p] = r /\ \A q \in Procs : q # p => req'[q] = req[q]
    BY <2>1, <2>2, SetElsewhere
  <2>5. \A q \in Procs : req[q].pc # "body"
    BY <2>1, ActorAssumption DEF Scoped, InScope
  <2> QED BY <2>1, <2>2, <2>3, <2>4, <2>5 DEF ScopeTypeOK, Scoped, InScope
<1>6. ASSUME NEW p \in Procs, Stamp(p)
      PROVE  ScopeIInv'
  <2> DEFINE r == [req[p] EXCEPT !.stamp = CurrentActor]
  <2>1. Set(p, r) /\ UNCHANGED <<override, holder>> /\ req[p].pc \in {"body", "open"}
    BY <1>6 DEF Stamp
  <2>2. r \in Request
    BY RequestTyped, CurrentTyped
  <2>3. r.pc = req[p].pc /\ r.actor = req[p].actor /\ r.stamp = CurrentActor
    BY <1>0 DEF Request
  <2> HIDE DEF r
  <2>4. req' \in [Procs -> Request] /\ req'[p] = r /\ \A q \in Procs : q # p => req'[q] = req[q]
    BY <2>1, <2>2, SetElsewhere
  <2> QED BY <2>1, <2>3, <2>4 DEF ScopeTypeOK, Scoped, InScope, CurrentActor
<1>7. ASSUME NEW p \in Procs, Leave(p)
      PROVE  ScopeIInv'
  <2>1. /\ Set(p, IdleRequest) /\ holder' = Nobody /\ override' = req[p].prev
        /\ req[p].pc = "body"
    BY <1>7 DEF Leave
  <2>2. req[p].prev \in Actors \cup {None}
    BY <1>0 DEF Request
  <2>3. /\ req' \in [Procs -> Request] /\ req'[p] = IdleRequest
        /\ \A q \in Procs : q # p => req'[q] = req[q]
    BY <2>1, IdleTyped, SetElsewhere
  <2>4. \A q \in Procs : q # p => req[q].pc # "body"
    BY <2>1 DEF Scoped, InScope
  <2> QED BY <2>1, <2>2, <2>3, <2>4, IdleTyped DEF ScopeTypeOK, Scoped, InScope
<1>8. ASSUME NEW p \in Procs, Finish(p)
      PROVE  ScopeIInv'
  <2>1. Set(p, IdleRequest) /\ UNCHANGED <<override, holder>>
    BY <1>8 DEF Finish
  <2>2. /\ req' \in [Procs -> Request] /\ req'[p] = IdleRequest
        /\ \A q \in Procs : q # p => req'[q] = req[q]
    BY <2>1, IdleTyped, SetElsewhere
  <2> QED BY <2>1, <2>2, IdleTyped DEF ScopeTypeOK, Scoped, InScope
<1>9. CASE UNCHANGED scopeVars
  BY <1>9 DEF scopeVars, ScopeTypeOK, Scoped, InScope
<1> QED BY <1>1, <1>2, <1>3, <1>4, <1>5, <1>6, <1>7, <1>8, <1>9 DEF ScopeNext

(* The state of the scopes keeps its type, however requests overlap.       *)
THEOREM ScopeTyping == ScopeSpec => []ScopeTypeOK
<1>1. ScopeIInv => ScopeTypeOK
  BY DEF ScopeIInv
<1> QED BY <1>1, InitScopeIInv, NextIInv, PTL DEF ScopeSpec

(* Every event of a request with an X-Layer-Actor header is attributed to  *)
(* that header, for any number of overlapping requests, notes and streams. *)
THEOREM HeadersAreHonoured == ScopeSpec => []ScopedStampsAreOwn
<1>1. ScopeIInv => ScopedStampsAreOwn
  BY DEF ScopeIInv, Scoped, InScope, ScopedStampsAreOwn, CurrentActor
<1> QED BY <1>1, InitScopeIInv, NextIInv, PTL DEF ScopeSpec
-----------------------------------------------------------------------------
(* Persistence: the sweep over the domains.                               *)

InSweep == pc \in {"save", "seal"}

(* Every value was made by a change that has a number already.             *)
Numbered ==
    /\ number <= change
    /\ \A d \in Domain :
        /\ mem[d] <= change /\ persisted[d] <= change /\ undo[d] <= change
        /\ disk[d] <= change /\ acked[d] <= change

(* What durability rests on: the files are never behind the signatures,    *)
(* the stores and what the operation would put back are never behind what  *)
(* was acknowledged, and a domain the sweep has no business with any more  *)
(* is on disk.                                                             *)
Ahead ==
    \A d \in Domain :
        /\ disk[d] >= acked[d] /\ disk[d] >= persisted[d]
        /\ (pc = "idle" \/ InSweep) => mem[d] >= acked[d] /\ mem[d] >= persisted[d]
        /\ InSweep => undo[d] >= acked[d] /\ undo[d] >= persisted[d]
        /\ (InSweep /\ d \notin dirty) => disk[d] >= mem[d]

(* What the order rests on: in a sweep, a domain the operation changed is  *)
(* either dirty or on disk, and nothing behind a dirty domain is on disk.  *)
Ordered ==
    InSweep =>
        /\ \A d \in touched : mem[d] = number /\ (d \notin dirty => disk[d] = number)
        /\ \A d \in dirty, e \in touched : Before(d, e) => disk[e] # number

IInv == TypeOK /\ Numbered /\ Ahead /\ Ordered /\ SavedInOrder

LEMMA ChangedTyped ==
    ASSUME NEW stores \in [Domain -> Nat], NEW ds, NEW c \in Nat
    PROVE  /\ Changed(stores, ds, c) \in [Domain -> Nat]
           /\ \A d \in Domain : Changed(stores, ds, c)[d] = IF d \in ds THEN c ELSE stores[d]
BY DEF Changed

LEMMA InitIInv == Init => IInv
<1> SUFFICES ASSUME Init PROVE IInv
  OBVIOUS
<1>1. TypeOK
  BY DEF Init, TypeOK
<1>2. Numbered /\ Ahead /\ Ordered /\ SavedInOrder
  BY DEF Init, Numbered, Ahead, Ordered, SavedInOrder, InSweep
<1> QED BY <1>1, <1>2 DEF IInv

(* A new change, whoever makes it, begins a sweep of everything that is    *)
(* not as it was saved.                                                    *)
LEMMA BeginKeeps ==
    ASSUME IInv, pc = "idle", pc' = "save",
           NEW ds \in SUBSET Domain, NEW more \in SUBSET Domain,
           mem' = Changed(mem, ds \cup more, change + 1),
           dirty' = DirtyDomains(mem'),
           undo' \in {mem, mem'},
           touched' = ds, number' = change + 1, change' = change + 1,
           UNCHANGED <<persisted, diskVars, acked, failed, crashes>>
    PROVE  IInv'
<1> USE DEF IInv
<1>0. change \in Nat /\ mem \in [Domain -> Nat]
  BY DEF TypeOK
<1>1. /\ mem' \in [Domain -> Nat]
      /\ \A d \in Domain : mem'[d] = IF d \in ds \cup more THEN change + 1 ELSE mem[d]
  BY <1>0, ChangedTyped
<1>2. TypeOK'
  <2>1. undo' \in [Domain -> Nat] /\ dirty' \subseteq Domain
    BY <1>0, <1>1 DEF DirtyDomains
  <2>2. change' \in Nat /\ number' \in Nat
    BY <1>0
  <2> QED BY <1>1, <2>1, <2>2 DEF TypeOK, diskVars
<1>a. \A d \in Domain : /\ mem[d] \in Nat /\ persisted[d] \in Nat /\ undo[d] \in Nat
                        /\ disk[d] \in Nat /\ acked[d] \in Nat
                        /\ mem[d] <= change /\ persisted[d] <= change
                        /\ disk[d] <= change /\ acked[d] <= change
  BY DEF TypeOK, Numbered
<1>b. \A d \in Domain : /\ mem'[d] <= change + 1 /\ mem'[d] >= mem[d]
                        /\ undo'[d] = mem[d] \/ undo'[d] = mem'[d]
  <2>1. ASSUME NEW d \in Domain PROVE mem'[d] <= change + 1 /\ mem'[d] >= mem[d]
    <3>1. mem[d] \in Nat /\ mem[d] <= change /\ change \in Nat
      BY <1>0, <1>a
    <3>2. mem'[d] = change + 1 \/ mem'[d] = mem[d]
      BY <1>1
    <3> HIDE DEF IInv
    <3> QED BY <3>1, <3>2
  <2>2. undo' = mem \/ undo' = mem'
    OBVIOUS
  <2>3. \A d \in Domain : undo'[d] = mem[d] \/ undo'[d] = mem'[d]
    BY <2>2
  <2> QED BY <2>1, <2>3
<1>c. /\ persisted' = persisted /\ disk' = disk /\ acked' = acked
      /\ change' = change + 1 /\ number' = change + 1
  BY DEF diskVars
<1>3. Numbered'
  <2>1. ASSUME NEW d \in Domain
        PROVE  mem'[d] <= change + 1 /\ persisted[d] <= change + 1 /\ undo'[d] <= change + 1
               /\ disk[d] <= change + 1 /\ acked[d] <= change + 1
    <3> HIDE DEF IInv
    <3>1. mem'[d] \in Nat /\ change \in Nat
      BY <1>0, <1>1
    <3>2. undo'[d] <= change + 1
      BY <1>0, <1>a, <1>b, <3>1
    <3>3. persisted[d] <= change + 1 /\ disk[d] <= change + 1
      BY <1>a, <3>1
    <3>4. acked[d] <= change + 1
      BY <1>a, <3>1
    <3> QED BY <1>b, <3>2, <3>3, <3>4
  <2> QED BY <1>0, <1>c, <2>1 DEF Numbered
<1>4. Ahead'
  BY <1>0, <1>1, <1>a, <1>b, <1>c DEF Ahead, InSweep, DirtyDomains
<1>5. Ordered'
  BY <1>0, <1>1, <1>a, <1>c DEF Ordered, InSweep, DirtyDomains
<1>6. SavedInOrder'
  BY <1>0 DEF TypeOK, Numbered, SavedInOrder, Before, diskVars
<1> QED BY <1>2, <1>3, <1>4, <1>5, <1>6

LEMMA SaveDomainKeeps ==
    ASSUME IInv, NEW d \in Domain, SaveDomain(d)
    PROVE  IInv'
<1> USE DEF IInv
<1>1. /\ disk' \in [Domain -> Nat] /\ disk'[d] = mem[d]
      /\ \A e \in Domain : e # d => disk'[e] = disk[e]
      /\ InSweep /\ InSweep'
      /\ mem[d] \in Nat
  BY DEF TypeOK, SaveDomain, InSweep
<1>2. TypeOK'
  BY <1>1 DEF TypeOK, SaveDomain, memVars
<1>3. Numbered'
  BY <1>1 DEF TypeOK, Numbered, SaveDomain, memVars
<1>4. Ahead'
  BY <1>1 DEF TypeOK, Ahead, InSweep, SaveDomain, memVars
<1>5. Ordered'
  BY <1>1 DEF TypeOK, Ordered, Before, SaveDomain, memVars
<1>6. SavedInOrder'
  BY <1>1, <1>2, <1>5 DEF TypeOK, Ordered, SavedInOrder, Before, SaveDomain, memVars
<1> QED BY <1>2, <1>3, <1>4, <1>5, <1>6

(* NewService takes the files as they are; only the room may get a newer   *)
(* value in memory.                                                        *)
LEMMA LoadKeeps ==
    ASSUME IInv, NEW room \in Nat, Load(room, disk), room >= disk[Room], room <= change',
           change' \in {change, change + 1}, seal' \in Nat, failed' \in BOOLEAN
    PROVE  IInv'
<1> USE DEF IInv
<1>1. /\ mem' \in [Domain -> Nat] /\ persisted' = disk /\ disk \in [Domain -> Nat]
      /\ \A d \in Domain : mem'[d] >= disk[d] /\ mem'[d] <= change'
      /\ Room \in Domain
  <2>1. Room \in Domain
    BY SweepAssumption
  <2>2. disk \in [Domain -> Nat] /\ change \in Nat
    BY DEF TypeOK
  <2>3. mem' = [disk EXCEPT ![Room] = room] /\ persisted' = disk
    BY DEF Load
  <2>4. \A d \in Domain : mem'[d] = IF d = Room THEN room ELSE disk[d]
    BY <2>1, <2>2, <2>3
  <2>5. \A d \in Domain : disk[d] <= change /\ disk[d] \in Nat
    BY <2>2 DEF Numbered
  <2>6. \A d \in Domain : mem'[d] >= disk[d] /\ mem'[d] <= change'
    BY <2>1, <2>2, <2>4, <2>5
  <2> QED BY <2>1, <2>2, <2>3, <2>6
<1>2. TypeOK'
  BY <1>1 DEF TypeOK, Load, opVars
<1>3. Numbered'
  BY <1>1 DEF TypeOK, Numbered, Load, opVars
<1>4. Ahead'
  BY <1>1 DEF TypeOK, Ahead, InSweep, Load, opVars
<1>5. Ordered' /\ SavedInOrder'
  BY DEF Ordered, SavedInOrder, InSweep, Before, Load, opVars
<1> QED BY <1>2, <1>3, <1>4, <1>5

LEMMA NextKeeps == IInv /\ [Next]_vars => IInv'
<1> SUFFICES ASSUME IInv, [Next]_vars PROVE IInv'
  OBVIOUS
<1> USE DEF IInv
<1>1. CASE \E ds \in SUBSET Domain \ {{}}, audited \in SUBSET {Room} : Operate(ds, audited)
  <2> PICK ds \in SUBSET Domain \ {{}}, audited \in SUBSET {Room} : Operate(ds, audited)
    BY <1>1
  <2>1. audited \in SUBSET Domain
    BY SweepAssumption
  <2> QED BY <2>1, BeginKeeps DEF Operate
<1>2. CASE Import
  <2>1. mem' = Changed(mem, Domain \cup {}, change + 1)
    BY <1>2 DEF Import, Changed
  <2> QED BY <1>2, <2>1, BeginKeeps DEF Import
<1>3. CASE \E d \in Domain : SaveDomain(d)
  BY <1>3, SaveDomainKeeps
<1>4. CASE SaveSeal
  <2>1. TypeOK'
    BY <1>4, SweepAssumption DEF TypeOK, SaveSeal, memVars, opVars
  <2>2. Numbered' /\ Ahead' /\ Ordered' /\ SavedInOrder'
    BY <1>4 DEF Numbered, Ahead, Ordered, SavedInOrder, InSweep, Before, SaveSeal, memVars, opVars
  <2> QED BY <2>1, <2>2
<1>5. CASE Succeed
  <2>1. TypeOK' /\ Numbered' /\ Ahead'
    BY <1>5 DEF TypeOK, Numbered, Ahead, InSweep, Succeed, opVars, diskVars
  <2>2. Ordered' /\ SavedInOrder'
    BY <1>5 DEF Ordered, SavedInOrder, InSweep, Before, Succeed, opVars, diskVars
  <2> QED BY <2>1, <2>2
<1>6. CASE Fail
  <2>1. /\ mem' \in [Domain -> Nat] /\ InSweep
        /\ \A d \in Domain : mem'[d] \in {mem[d], undo[d]}
    BY <1>6 DEF TypeOK, Fail, InSweep
  <2>2. TypeOK' /\ Numbered' /\ Ahead'
    BY <1>6, <2>1 DEF TypeOK, Numbered, Ahead, InSweep, Fail, opVars, diskVars
  <2>3. Ordered' /\ SavedInOrder'
    BY <1>6 DEF Ordered, SavedInOrder, InSweep, Before, Fail, opVars, diskVars
  <2> QED BY <2>2, <2>3
<1>7. CASE Crash
  <2>1. TypeOK' /\ Numbered' /\ Ahead'
    BY <1>7 DEF TypeOK, Numbered, Ahead, InSweep, Crash, memVars, opVars, diskVars
  <2>2. Ordered' /\ SavedInOrder'
    BY <1>7 DEF Ordered, SavedInOrder, InSweep, Before, Crash, memVars, opVars, diskVars
  <2> QED BY <2>1, <2>2
<1>8. CASE StartUnsealed \/ StartSealed \/ StartRelocated
  <2>1. disk[Room] \in Nat /\ disk[Room] <= change /\ change' = change /\ Load(disk[Room], disk)
    BY <1>8, SweepAssumption DEF TypeOK, Numbered, StartUnsealed, StartSealed, StartRelocated
  <2>2. seal' \in Nat /\ failed' \in BOOLEAN
    BY <1>8, <2>1 DEF TypeOK, StartUnsealed, StartSealed, StartRelocated, Load
  <2>3. disk[Room] >= disk[Room] /\ disk[Room] <= change' /\ change' \in {change, change + 1}
    BY <2>1
  <2> QED BY <2>1, <2>2, <2>3, LoadKeeps
<1>9. CASE StartDrifted
  <2>1. change + 1 \in Nat /\ change' = change + 1 /\ Load(change + 1, disk)
    BY <1>9 DEF TypeOK, StartDrifted
  <2>2. seal' \in Nat /\ failed' \in BOOLEAN
    BY <1>9 DEF TypeOK, StartDrifted, Load
  <2>3. change + 1 >= disk[Room] /\ change + 1 <= change'
    BY <2>1, SweepAssumption DEF TypeOK, Numbered
  <2> QED BY <2>1, <2>2, <2>3, LoadKeeps
<1>10. CASE Relocate
  <2>1. /\ disk' \in [Domain -> Nat] /\ change' = change + 1 /\ change \in Nat
        /\ \A d \in Domain : disk'[d] = IF d = Room THEN change + 1 ELSE disk[d]
    BY <1>10, SweepAssumption DEF TypeOK, Relocate
  <2>2. TypeOK' /\ Numbered' /\ Ahead'
    BY <1>10, <2>1 DEF TypeOK, Numbered, Ahead, InSweep, Relocate, memVars, opVars
  <2>3. Ordered' /\ SavedInOrder'
    BY <1>10, <2>1 DEF TypeOK, Numbered, Ordered, SavedInOrder, InSweep, Before, Relocate, opVars
  <2> QED BY <2>2, <2>3
<1>11. CASE UNCHANGED vars
  <2>1. TypeOK' /\ Numbered' /\ Ahead'
    BY <1>11 DEF TypeOK, Numbered, Ahead, InSweep, vars, memVars, opVars, diskVars
  <2>2. Ordered' /\ SavedInOrder'
    BY <1>11 DEF Ordered, SavedInOrder, InSweep, Before, vars, memVars, opVars, diskVars
  <2> QED BY <2>1, <2>2
<1> QED
  BY <1>1, <1>2, <1>3, <1>4, <1>5, <1>6, <1>7, <1>8, <1>9, <1>10, <1>11 DEF Next

LEMMA Inductive == Spec => []IInv
BY InitIInv, NextKeeps, PTL DEF Spec

(* The stores, the files and the sweep keep their shape.                   *)
THEOREM Typing == Spec => []TypeOK
<1>1. IInv => TypeOK
  BY DEF IInv
<1> QED BY <1>1, Inductive, PTL

(* Whatever fails, crashes or is started again, no file falls behind what  *)
(* an operation that returned nil had saved (persistLocked).               *)
THEOREM AckedStays == Spec => []AckedIsDurable
<1>1. IInv => AckedIsDurable
  BY DEF IInv, Ahead, AckedIsDurable
<1> QED BY <1>1, Inductive, PTL

(* Whatever fails or crashes, a change is in the file of a domain only if  *)
(* it is in the file of every earlier domain it touched (persistDomains).  *)
THEOREM SweepsInOrder == Spec => []SavedInOrder
<1>1. IInv => SavedInOrder
  BY DEF IInv
<1> QED BY <1>1, Inductive, PTL
-----------------------------------------------------------------------------
(* What a nil result rests on while no save has failed: outside a sweep    *)
(* the signatures are those of the files, and a seal that does not match   *)
(* waits for a room that will be saved.                                    *)
Tracked ==
  ~ failed =>
    /\ pc = "idle" =>
        /\ persisted = disk
        /\ seal = disk[Room] \/ mem[Room] # persisted[Room]
    /\ InSweep =>
        /\ \A d \in Domain \ dirty : disk[d] = mem[d]
        /\ (pc = "save" /\ Room \notin dirty) => seal = mem[Room]
        /\ pc = "seal" => Room \notin dirty

LEMMA InitTracked == Init => Tracked
BY DEF Init, Tracked, InSweep

LEMMA BeginTracks ==
    ASSUME IInv, Tracked, pc = "idle", pc' = "save",
           NEW ds \in SUBSET Domain,
           mem' = Changed(mem, ds, change + 1),
           dirty' = DirtyDomains(mem'),
           UNCHANGED <<persisted, diskVars, failed>>
    PROVE  Tracked'
<1> SUFFICES ASSUME ~ failed PROVE Tracked'
  BY DEF Tracked
<1>1. /\ Room \in Domain /\ change \in Nat
      /\ persisted \in [Domain -> Nat] /\ disk \in [Domain -> Nat]
  BY SweepAssumption DEF IInv, TypeOK
<1>2. \A d \in Domain : mem'[d] = IF d \in ds THEN change + 1 ELSE mem[d]
  BY ChangedTyped DEF IInv, TypeOK
<1>3. persisted[Room] # change + 1
  BY <1>1 DEF IInv, Numbered
<1>4. \A d \in Domain \ dirty' : disk'[d] = mem'[d]
  BY DEF Tracked, DirtyDomains, diskVars
<1>5. Room \notin dirty' => seal' = mem'[Room]
  BY <1>1, <1>2, <1>3 DEF Tracked, DirtyDomains, diskVars
<1> QED BY <1>4, <1>5 DEF Tracked, InSweep

LEMMA NextTracks ==
    ASSUME IInv, Tracked, [Next]_vars
    PROVE  Tracked'
<1>0. Room \in Domain /\ mem \in [Domain -> Nat] /\ disk \in [Domain -> Nat]
  BY SweepAssumption DEF IInv, TypeOK
<1>1. CASE \E ds \in SUBSET Domain \ {{}}, audited \in SUBSET {Room} : Operate(ds, audited)
  <2> PICK ds \in SUBSET Domain \ {{}}, audited \in SUBSET {Room} : Operate(ds, audited)
    BY <1>1
  <2>1. ds \cup audited \in SUBSET Domain
    BY <1>0
  <2> QED BY <2>1, BeginTracks DEF Operate
<1>2. CASE Import
  BY <1>2, BeginTracks DEF Import
<1>3. CASE \E d \in Domain : SaveDomain(d)
  BY <1>0, <1>3 DEF Tracked, InSweep, SaveDomain, memVars
<1>4. CASE SaveSeal
  BY <1>4 DEF Tracked, InSweep, SaveSeal, memVars, opVars
<1>5. CASE Succeed
  <2> SUFFICES ASSUME ~ failed PROVE Tracked'
    BY <1>5 DEF Tracked, Succeed
  <2>1. \A d \in Domain : disk[d] = mem[d]
    BY <1>5 DEF Tracked, InSweep, Succeed
  <2>2. disk = mem
    BY <1>0, <2>1
  <2> QED BY <1>5, <2>2 DEF Tracked, InSweep, Succeed, diskVars
<1>6. CASE Fail
  BY <1>6 DEF Fail, Tracked
<1>7. CASE Crash \/ Relocate
  BY <1>7 DEF Tracked, InSweep, Crash, Relocate
<1>8. CASE StartUnsealed \/ StartSealed \/ StartRelocated
  BY <1>0, <1>8 DEF Tracked, InSweep, StartUnsealed, StartSealed, StartRelocated, Load
<1>9. CASE StartDrifted
  <2>1. mem'[Room] = change + 1 /\ persisted' = disk /\ disk' = disk /\ pc' = "idle"
    BY <1>0, <1>9 DEF StartDrifted, Load
  <2>2. change + 1 # disk[Room]
    BY <1>0 DEF IInv, TypeOK, Numbered
  <2> QED BY <2>1, <2>2 DEF Tracked, InSweep
<1>10. CASE UNCHANGED vars
  BY <1>10 DEF Tracked, InSweep, vars, memVars, opVars, diskVars
<1> QED
  BY <1>1, <1>2, <1>3, <1>4, <1>5, <1>6, <1>7, <1>8, <1>9, <1>10 DEF Next

(* As long as no save has failed since the start, persistLocked returns    *)
(* nil only with every store and the seal on disk, however often and       *)
(* wherever the daemon crashed before.                                     *)
THEOREM NilMeansSaved == Spec => CleanReturnMeansSaved
<1>1. IInv /\ Tracked /\ [Next]_vars => Tracked'
  BY NextTracks
<1>2. IInv /\ Tracked => [(Succeed /\ ~ failed) => disk = mem /\ seal = mem[Room]]_vars
  <2> SUFFICES ASSUME IInv, Tracked, Succeed, ~ failed PROVE disk = mem /\ seal = mem[Room]
    OBVIOUS
  <2>1. mem \in [Domain -> Nat] /\ disk \in [Domain -> Nat] /\ Room \in Domain
    BY SweepAssumption DEF IInv, TypeOK
  <2>2. \A d \in Domain : disk[d] = mem[d]
    BY DEF Tracked, InSweep, Succeed
  <2> QED BY <2>1, <2>2 DEF Tracked, InSweep, Succeed
<1> QED BY <1>1, <1>2, InitTracked, Inductive, PTL DEF Spec, CleanReturnMeansSaved
=============================================================================
