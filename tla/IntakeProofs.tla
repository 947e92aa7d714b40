---------------------------- MODULE IntakeProofs ----------------------------
(***************************************************************************)
(* Intake and IntakeView for any sources, routes, feeds, limits, requests  *)
(* and failures: the records of a source are single and whole, the founder *)
(* gets to see what needs review, lanes only grow, and the draft that is   *)
(* offered has no lane yet.                                                *)
(***************************************************************************)
EXTENDS IntakeView, SequenceTheorems, FiniteSetTheorems, WellFoundedInduction, TLAPS

(* The invariant is written over values, so that a part of it can be cited *)
(* before and after a step: s stands for the observations, p for what a    *)
(* worker has in hand, e for the environment.                              *)
Docs(e) == Elems(e.feed) \cup e.drops \cup Elems(e.kept)
Kinds == {"content", "intake", "decision", "seed", "prep"}
Rec(e) == [kind : Kinds, doc : Docs(e), hints : SUBSET Routes, color : Color, src : Nat,
           route : Routes \cup {NoRoute}, by : Workers, draft : Nat, at : Nat]

Fetching == {"create_content", "find_intake", "create_intake"}
Routing == {"find_decision", "create_decision", "resolve_route"}
Drafting == {"find_seed", "create_seed"}
Proposing == {"resolve_red", "find_proposal", "create_proposal"}
Preparing == {"find_prep", "find_part", "create_part", "find_prep_obs", "create_prep", "clear_red"}
Steps == {"idle"} \cup Fetching \cup Routing \cup Drafting \cup Proposing \cup Preparing
Proc(e) == [at : Steps, doc : Docs(e) \cup {NoDoc}, src : Nat, intake : Nat,
            route : Routes \cup {NoRoute}, seed : Nat, again : BOOLEAN, part : Nat]

Kind(s, kind) == {i \in DOMAIN s : s[i].kind = kind}
IsIntake(s, i, d) == i \in DOMAIN s /\ s[i].kind = "intake" /\ s[i].doc = d
IsSeed(s, i, k, r) == i \in DOMAIN s /\ s[i].kind = "seed" /\ s[i].src = k /\ s[i].route = r
Cue(d, r) == IF About[d].hints = {} THEN r = Default ELSE About[d].hints = {r}

(* What an observation says of its source and of the records before it.    *)
RecordOK(s, i) ==
    /\ s[i].src < i /\ s[i].draft < i /\ s[i].at <= i
    /\ s[i].kind = "content" => s[i].hints = About[s[i].doc].hints
    /\ s[i].kind = "intake" =>
          /\ s[i].hints = normalizeRoutes(About[s[i].doc].hints)
          /\ About[s[i].doc].color = "red" /\ About[s[i].doc].inner = "none" => s[i].color = "red"
    /\ s[i].kind \in {"decision", "seed", "prep"} => IsIntake(s, s[i].src, s[i].doc)
    /\ s[i].kind = "decision" /\ s[i].by = "sensor" => Cue(s[i].doc, s[i].route)
    /\ s[i].kind = "seed" => s[i].at = i /\ s[i].route \in Routes
    /\ s[i].kind = "prep" \/ (s[i].kind = "seed" /\ s[i].draft # 0) =>
          IsSeed(s, s[i].draft, s[i].src, s[i].route)
Records(e, s) ==
    s \in Seq(Rec(e)) /\ Len(s) <= MaxObs /\ \A i \in DOMAIN s : RecordOK(s, i)

(* The review room: an item is about an intake, and says so; a red intake  *)
(* has its item; a lane that was opened left none behind.                  *)
ItemOK(s, x) ==
    /\ x \in [source : {"red", "route"}, ref : Kind(s, "intake"), section : {"open", "filed"},
              text : {x.text}]
    /\ x.source = "red" => x.text = RedText(s[x.ref])
    /\ x.source = "route" => x.text[1] = "route"
Reviewed(s, rm, done) ==
    \A i \in Kind(s, "intake") :
        (/\ s[i].color = "red" /\ RedText(s[i]) \notin done
         /\ \A k \in Kind(s, "seed") : RedText(s[s[k].src]) # RedText(s[i])) =>
            \E x \in rm : x.text = RedText(s[i])
Cleared(s, rm, op) ==
    /\ op \subseteq Kind(s, "seed")
    /\ \A i \in op, x \in rm : ~ (x.section = "open" /\ x.source = "red" /\ x.ref = s[i].src)
RoomOK(s, rm, done, op) ==
    (\A x \in rm : ItemOK(s, x)) /\ Reviewed(s, rm, done) /\ Cleared(s, rm, op)

(* The lanes, and the proposals.                                           *)
LanesOK(s, ln) ==
    /\ ln \in [1 .. MaxObs -> 0 .. Parts]
    /\ \A i \in Kind(s, "prep") : ln[s[i].draft] = Parts
ProposalsOK(s, pr) ==
    /\ pr \in [(1 .. MaxObs) \X Routes -> Nat]
    /\ \A k \in 1 .. MaxObs, r \in Routes : k > Len(s) => pr[<<k, r>>] = 0

(* A worker at work: what it has in hand is there.                         *)
ProcOK(e, s, ln, w, p) ==
    /\ p.src \in 0 .. Len(s) /\ p.intake \in 0 .. Len(s) /\ p.seed \in 0 .. Len(s)
    /\ IF p.at = "idle" THEN p = Idle ELSE p.doc \in Docs(e)
    /\ p.at \in Fetching => p.doc \in Elems(e.feed)
    /\ p.at \in {"find_intake", "create_intake"} =>
          p.src \in DOMAIN s /\ s[p.src].doc = p.doc /\ s[p.src].kind \in {"content", "intake"}
    /\ p.at \in Routing \cup Drafting \cup Proposing \cup Preparing =>
          IsIntake(s, p.intake, p.doc) /\ p.route \in Routes
    /\ p.at \in Routing => w = "sensor" /\ Cue(p.doc, p.route)
    /\ p.again => p.at \in Drafting \cup {"resolve_red", "create_proposal"}
    /\ p.at = "create_proposal" => p.again
    /\ p.at \in Proposing \cup Preparing \/ p.again => IsSeed(s, p.seed, p.intake, p.route)
    /\ p.at \in {"find_part", "create_part"} => p.part \in 1 .. Parts
    /\ p.at \in {"find_prep_obs", "create_prep"} => ln[p.seed] = Parts
ProcsOK(e, s, ln, ps) ==
    ps \in [Workers -> Proc(e)] /\ \A w \in Workers : ProcOK(e, s, ln, w, ps[w])

(* Two workers with one source in hand are noticed.                        *)
Exclusive(ps, ov) ==
    \A w, v \in Workers :
        w # v /\ ps[w].at # "idle" /\ ps[v].at # "idle" /\ ps[w].doc = ps[v].doc => ps[w].doc \in ov

(* What a lookup did not find is still not there when the record is made,  *)
(* as long as nobody else has the source in hand.                          *)
Visible(s, k, r) ==
    \/ Cardinality({i \in DOMAIN s : s[i].src = k}) <= LookupLimit
    \/ Cardinality({i \in Kind(s, "decision") : s[i].route = r}) <= LookupLimit
NoDecision(s, k, r) ==
    Visible(s, k, r) =>
        \A i \in Kind(s, "decision") : ~ (s[i].src = k /\ s[i].route = r /\ s[i].by = "sensor")
Few(s) == Cardinality(Kind(s, "seed")) <= SeedLimit
NoSeed(s, k, r) == Few(s) => \A i \in DOMAIN s : ~ IsSeed(s, i, k, r)
Claim(s, pr, p) ==
    /\ p.at = "create_content" =>
          \A i \in DOMAIN s : s[i].doc = p.doc => s[i].kind \notin {"content", "intake"}
    /\ p.at = "create_intake" => \A i \in DOMAIN s : ~ IsIntake(s, i, p.doc)
    /\ p.at = "create_seed" => NoSeed(s, p.intake, p.route)
    /\ p.again => pr[<<p.intake, p.route>>] = 0
Claims(s, pr, ps, ov) ==
    \A w \in Workers :
        /\ ps[w].at = "create_decision" => NoDecision(s, ps[w].intake, ps[w].route)
        /\ ps[w].doc \notin ov => Claim(s, pr, ps[w])

(* One record of a kind: OneOfEachUnlessOverlap without counting.          *)
OneRecord(e, s, ov) ==
    \A i, k \in DOMAIN s :
        /\ s[i].kind \in {"content", "intake"} /\ s[k].kind = s[i].kind
        /\ s[k].doc = s[i].doc /\ s[i].doc \in Elems(e.feed) \ ov
        => i = k
OneDecision(s) ==
    \A i, k \in Kind(s, "decision") :
        /\ s[i].by = "sensor" /\ s[k].by = "sensor"
        /\ s[k].src = s[i].src /\ s[k].route = s[i].route /\ Visible(s, s[i].src, s[i].route)
        => i = k
OneSeed(s, ov) ==
    Few(s) =>
        \A i, k \in Kind(s, "seed") :
            /\ s[i].draft = 0 /\ s[k].draft = 0 /\ s[i].doc \notin ov /\ s[k].doc \notin ov
            /\ s[k].src = s[i].src /\ s[k].route = s[i].route
            => i = k
OneProposal(s, pr, ov) ==
    \A k \in Kind(s, "intake"), r \in Routes : s[k].doc \notin ov => pr[<<k, r>>] <= 1

CursorOK == env.feed # << >> => cursor \in 1 .. Len(FeedItems)

IInv ==
    /\ env \in Environments /\ CursorOK
    /\ Records(env, obs) /\ LanesOK(obs, lane) /\ ProposalsOK(obs, proposals)
    /\ RoomOK(obs, room, ruled, opened)
    /\ ProcsOK(env, obs, lane, proc) /\ Exclusive(proc, overlap)
    /\ Claims(obs, proposals, proc, overlap)
    /\ OneRecord(env, obs, overlap) /\ OneDecision(obs)
    /\ OneSeed(obs, overlap) /\ OneProposal(obs, proposals, overlap)
-----------------------------------------------------------------------------
(* Sequences that grow.                                                    *)
Extends(s, t) ==
    /\ DOMAIN s \subseteq DOMAIN t /\ Len(s) <= Len(t)
    /\ \A i \in DOMAIN s : t[i] = s[i]

LEMMA AppendIs ==
    ASSUME NEW R, NEW s \in Seq(R), NEW o \in R
    PROVE  /\ Append(s, o) \in Seq(R) /\ Extends(s, Append(s, o))
           /\ Len(Append(s, o)) = Len(s) + 1
           /\ DOMAIN Append(s, o) = DOMAIN s \cup {Len(s) + 1}
           /\ Len(s) + 1 \notin DOMAIN s /\ Append(s, o)[Len(s) + 1] = o
           /\ Len(s) \in Nat /\ DOMAIN s = 1 .. Len(s)
<1>1. Len(s) \in Nat /\ DOMAIN s = 1 .. Len(s)  OBVIOUS
<1>2. /\ Append(s, o) \in Seq(R) /\ Len(Append(s, o)) = Len(s) + 1
      /\ \A i \in 1 .. Len(s) : Append(s, o)[i] = s[i]
      /\ Append(s, o)[Len(s) + 1] = o
  OBVIOUS
<1>3. DOMAIN Append(s, o) = 1 .. Len(s) + 1  BY <1>2
<1> HIDE <1>2
<1> QED  BY <1>1, <1>2, <1>3 DEF Extends

LEMMA SameIs == ASSUME NEW R, NEW s \in Seq(R) PROVE Extends(s, s)
BY DEF Extends

LEMMA RecordKeeps ==
    ASSUME NEW s, NEW t, Extends(s, t), NEW i \in DOMAIN s, RecordOK(s, i)
    PROVE  RecordOK(t, i)
<1>1. t[i] = s[i]  BY DEF Extends
<1>2. \A k, d : IsIntake(s, k, d) => IsIntake(t, k, d)  BY DEF Extends, IsIntake
<1>3. \A k, x, r : IsSeed(s, k, x, r) => IsSeed(t, k, x, r)  BY DEF Extends, IsSeed
<1> QED  BY <1>1, <1>2, <1>3 DEF RecordOK

LEMMA ProcKeeps ==
    ASSUME NEW e, NEW s, NEW t, NEW ln, NEW lm, NEW w, NEW p,
           Extends(s, t), Len(s) \in Nat, Len(t) \in Nat, ProcOK(e, s, ln, w, p),
           p.at \in {"find_prep_obs", "create_prep"} /\ ln[p.seed] = Parts => lm[p.seed] = Parts
    PROVE  ProcOK(e, t, lm, w, p)
<1>1. \A k, d : IsIntake(s, k, d) => IsIntake(t, k, d)  BY DEF Extends, IsIntake
<1>2. \A k, x, r : IsSeed(s, k, x, r) => IsSeed(t, k, x, r)  BY DEF Extends, IsSeed
<1>3. \A k \in DOMAIN s : k \in DOMAIN t /\ t[k] = s[k]  BY DEF Extends
<1>4. 0 .. Len(s) \subseteq 0 .. Len(t)  BY DEF Extends
<1> QED  BY <1>1, <1>2, <1>3, <1>4 DEF ProcOK

(* The kinds of a sequence that grows.                                     *)
LEMMA KindGrows ==
    ASSUME NEW R, NEW s \in Seq(R), NEW o \in R, NEW kind
    PROVE  /\ Kind(s, kind) \subseteq Kind(Append(s, o), kind)
           /\ Kind(Append(s, o), kind) = Kind(s, kind) \cup (IF o.kind = kind THEN {Len(s) + 1} ELSE {})
           /\ \A i \in Kind(s, kind) : Append(s, o)[i] = s[i]
<1>1. /\ DOMAIN Append(s, o) = DOMAIN s \cup {Len(s) + 1} /\ Append(s, o)[Len(s) + 1] = o
      /\ \A i \in DOMAIN s : Append(s, o)[i] = s[i]
  BY AppendIs DEF Extends
<1> QED  BY <1>1 DEF Kind

LEMMA KindFinite ==
    ASSUME NEW R, NEW s \in Seq(R), NEW T, T \subseteq DOMAIN s
    PROVE  IsFiniteSet(T) /\ Cardinality(T) \in Nat
<1>1. IsFiniteSet(DOMAIN s)  BY FS_Interval
<1> QED  BY <1>1, FS_Subset, FS_CardinalityType

LEMMA FewGrows ==
    ASSUME NEW R, NEW s \in Seq(R), NEW o \in R, Few(Append(s, o)), SeedLimit \in Nat
    PROVE  Few(s)
<1> DEFINE t == Append(s, o)
<1>1. Kind(s, "seed") \subseteq Kind(t, "seed")  BY KindGrows
<1>2. t \in Seq(R)  BY AppendIs
<1>3. IsFiniteSet(Kind(t, "seed")) /\ Cardinality(Kind(t, "seed")) \in Nat  BY <1>2, KindFinite DEF Kind
<1>4. Cardinality(Kind(s, "seed")) \in Nat  BY KindFinite DEF Kind
<1>5. Cardinality(Kind(s, "seed")) <= Cardinality(Kind(t, "seed"))  BY <1>1, <1>3, FS_Subset
<1>6. Cardinality(Kind(t, "seed")) <= SeedLimit  BY DEF Few
<1> HIDE DEF t
<1> QED  BY <1>3, <1>4, <1>5, <1>6 DEF Few

LEMMA VisibleGrows ==
    ASSUME NEW R, NEW s \in Seq(R), NEW o \in R, NEW k, NEW r, Visible(Append(s, o), k, r),
           LookupLimit \in Nat
    PROVE  Visible(s, k, r)
<1> DEFINE t == Append(s, o)
           A(u) == {i \in DOMAIN u : u[i].src = k}
           B(u) == {i \in Kind(u, "decision") : u[i].route = r}
<1>0. DOMAIN s \subseteq DOMAIN t /\ \A i \in DOMAIN s : t[i] = s[i]  BY AppendIs DEF Extends
<1>1. A(s) \subseteq A(t) /\ B(s) \subseteq B(t)
  <2> HIDE DEF t
  <2> QED  BY <1>0 DEF Kind
<1>2. t \in Seq(R)  BY AppendIs
<1>3. A(t) \subseteq DOMAIN t /\ B(t) \subseteq DOMAIN t /\ A(s) \subseteq DOMAIN s /\ B(s) \subseteq DOMAIN s
  BY DEF Kind
<1>4. IsFiniteSet(A(t)) /\ IsFiniteSet(B(t)) /\ Cardinality(A(t)) \in Nat /\ Cardinality(B(t)) \in Nat
  BY <1>2, <1>3, KindFinite
<1>5. Cardinality(A(s)) \in Nat /\ Cardinality(B(s)) \in Nat  BY <1>3, KindFinite
<1>6. Cardinality(A(s)) <= Cardinality(A(t)) /\ Cardinality(B(s)) <= Cardinality(B(t))
  BY <1>1, <1>4, FS_Subset
<1>7. Cardinality(A(t)) <= LookupLimit \/ Cardinality(B(t)) <= LookupLimit  BY DEF Visible
<1>8. Visible(s, k, r) <=> Cardinality(A(s)) <= LookupLimit \/ Cardinality(B(s)) <= LookupLimit
  BY DEF Visible
<1> HIDE DEF A, B, t
<1> QED  BY <1>4, <1>5, <1>6, <1>7, <1>8
-----------------------------------------------------------------------------
(* The parts of the invariant when an observation is added.                *)
LEMMA NoSeedKeeps ==
    ASSUME NEW R, NEW s \in Seq(R), NEW o \in R, NEW k, NEW r, NoSeed(s, k, r), SeedLimit \in Nat,
           o.kind = "seed" /\ o.src = k /\ o.route = r => \E i \in DOMAIN s : IsSeed(s, i, k, r)
    PROVE  NoSeed(Append(s, o), k, r)
<1> DEFINE t == Append(s, o)
<1> SUFFICES ASSUME Few(t), NEW i \in DOMAIN t, IsSeed(t, i, k, r) PROVE FALSE  BY DEF NoSeed
<1>1. Few(s)  BY FewGrows
<1>2. \A j \in DOMAIN s : ~ IsSeed(s, j, k, r)  BY <1>1 DEF NoSeed
<1>3. /\ DOMAIN t = DOMAIN s \cup {Len(s) + 1} /\ t[Len(s) + 1] = o
      /\ \A j \in DOMAIN s : t[j] = s[j]
  BY AppendIs DEF Extends
<1> HIDE DEF t
<1> QED  BY <1>2, <1>3 DEF IsSeed

LEMMA NoDecisionKeeps ==
    ASSUME NEW R, NEW s \in Seq(R), NEW o \in R, NEW k, NEW r, NoDecision(s, k, r), LookupLimit \in Nat,
           ~ (o.kind = "decision" /\ o.src = k /\ o.route = r /\ o.by = "sensor")
    PROVE  NoDecision(Append(s, o), k, r)
<1> DEFINE t == Append(s, o)
<1> SUFFICES ASSUME Visible(t, k, r), NEW i \in Kind(t, "decision"),
                    t[i].src = k /\ t[i].route = r /\ t[i].by = "sensor"
             PROVE  FALSE
  BY DEF NoDecision
<1>1. Visible(s, k, r)  BY VisibleGrows
<1>2. \A j \in Kind(s, "decision") : ~ (s[j].src = k /\ s[j].route = r /\ s[j].by = "sensor")
  BY <1>1 DEF NoDecision
<1>3. /\ DOMAIN t = DOMAIN s \cup {Len(s) + 1} /\ t[Len(s) + 1] = o
      /\ \A j \in DOMAIN s : t[j] = s[j]
  BY AppendIs DEF Extends
<1> HIDE DEF t
<1> QED  BY <1>2, <1>3 DEF Kind

(* The claim of a worker is not hurt by a record of another source, nor by *)
(* a revision.                                                             *)
LEMMA ClaimKeeps ==
    ASSUME NEW R, NEW s \in Seq(R), NEW o \in R, NEW p, NEW pr, Claim(s, pr, p), SeedLimit \in Nat,
           p.at \in {"create_content", "create_intake"} =>
              ~ (o.kind \in {"content", "intake"} /\ o.doc = p.doc),
           p.at = "create_seed" /\ o.kind = "seed" /\ o.src = p.intake /\ o.route = p.route =>
              \E i \in DOMAIN s : IsSeed(s, i, p.intake, p.route)
    PROVE  Claim(Append(s, o), pr, p)
<1> DEFINE t == Append(s, o)
<1>1. /\ DOMAIN t = DOMAIN s \cup {Len(s) + 1} /\ t[Len(s) + 1] = o
      /\ \A j \in DOMAIN s : t[j] = s[j]
  BY AppendIs DEF Extends
<1>2. p.at = "create_seed" => NoSeed(t, p.intake, p.route)  BY NoSeedKeeps DEF Claim
<1> HIDE DEF t
<1>3. p.at = "create_content" =>
         \A i \in DOMAIN t : t[i].doc = p.doc => t[i].kind \notin {"content", "intake"}
  BY <1>1 DEF Claim
<1>4. p.at = "create_intake" => \A i \in DOMAIN t : ~ IsIntake(t, i, p.doc)
  BY <1>1 DEF Claim, IsIntake
<1>5. p.again => pr[<<p.intake, p.route>>] = 0  BY DEF Claim
<1> QED  BY <1>2, <1>3, <1>4, <1>5 DEF Claim, t

LEMMA OneRecordKeeps ==
    ASSUME NEW e, NEW s \in Seq(Rec(e)), NEW o \in Rec(e), NEW ov, NEW ow, ov \subseteq ow, OneRecord(e, s, ov),
           o.kind \in {"content", "intake"} /\ o.doc \in Elems(e.feed) \ ow =>
              \A i \in DOMAIN s : ~ (s[i].doc = o.doc /\ s[i].kind = o.kind)
    PROVE  OneRecord(e, Append(s, o), ow)
<1> DEFINE t == Append(s, o)
<1>1. /\ DOMAIN t = DOMAIN s \cup {Len(s) + 1} /\ t[Len(s) + 1] = o
      /\ \A j \in DOMAIN s : t[j] = s[j]
  BY AppendIs DEF Extends
<1> HIDE DEF t
<1>2. OneRecord(e, t, ow)  BY <1>1 DEF OneRecord
<1> QED  BY <1>2 DEF t

LEMMA OneDecisionKeeps ==
    ASSUME NEW R, NEW s \in Seq(R), NEW o \in R, OneDecision(s), LookupLimit \in Nat,
           o.kind = "decision" /\ o.by = "sensor" => NoDecision(s, o.src, o.route)
    PROVE  OneDecision(Append(s, o))
<1> DEFINE t == Append(s, o)
<1>1. /\ DOMAIN t = DOMAIN s \cup {Len(s) + 1} /\ t[Len(s) + 1] = o
      /\ \A j \in DOMAIN s : t[j] = s[j]
  BY AppendIs DEF Extends
<1>2. \A k, r : Visible(t, k, r) => Visible(s, k, r)  BY VisibleGrows
<1> HIDE DEF t
<1>3. ASSUME NEW i \in Kind(t, "decision"), NEW k \in Kind(t, "decision"),
             t[i].by = "sensor", t[k].by = "sensor", t[k].src = t[i].src, t[k].route = t[i].route,
             Visible(t, t[i].src, t[i].route)
      PROVE  i = k
  <2>1. Visible(s, t[i].src, t[i].route)  BY <1>2, <1>3
  <2>2. CASE i \in DOMAIN s /\ k \in DOMAIN s
    BY <1>1, <1>3, <2>1, <2>2 DEF OneDecision, Kind
  <2>3. CASE i = Len(s) + 1 /\ k \in DOMAIN s
    BY <1>1, <1>3, <2>1, <2>3 DEF NoDecision, Kind
  <2>4. CASE k = Len(s) + 1 /\ i \in DOMAIN s
    BY <1>1, <1>3, <2>1, <2>4 DEF NoDecision, Kind
  <2> QED  BY <1>1, <2>2, <2>3, <2>4 DEF Kind
<1>4. OneDecision(t)  BY <1>3 DEF OneDecision
<1> QED  BY <1>4 DEF t

LEMMA OneSeedKeeps ==
    ASSUME NEW R, NEW s \in Seq(R), NEW o \in R, NEW ov, NEW ow, ov \subseteq ow, OneSeed(s, ov), SeedLimit \in Nat,
           o.kind = "seed" /\ o.draft = 0 /\ o.doc \notin ow => NoSeed(s, o.src, o.route)
    PROVE  OneSeed(Append(s, o), ow)
<1> DEFINE t == Append(s, o)
<1>1. /\ DOMAIN t = DOMAIN s \cup {Len(s) + 1} /\ t[Len(s) + 1] = o
      /\ \A j \in DOMAIN s : t[j] = s[j]
  BY AppendIs DEF Extends
<1> SUFFICES ASSUME Few(t), NEW i \in Kind(t, "seed"), NEW k \in Kind(t, "seed"),
                    t[i].draft = 0, t[k].draft = 0, t[i].doc \notin ow, t[k].doc \notin ow,
                    t[k].src = t[i].src, t[k].route = t[i].route
             PROVE  i = k
  BY DEF OneSeed
<1>2. Few(s)  BY FewGrows
<1> HIDE DEF t
<1>3. CASE i \in DOMAIN s /\ k \in DOMAIN s
  BY <1>1, <1>2, <1>3 DEF OneSeed, Kind
<1>4. CASE i = Len(s) + 1 /\ k \in DOMAIN s
  BY <1>1, <1>2, <1>4 DEF NoSeed, IsSeed, Kind
<1>5. CASE k = Len(s) + 1 /\ i \in DOMAIN s
  BY <1>1, <1>2, <1>5 DEF NoSeed, IsSeed, Kind
<1> QED  BY <1>1, <1>3, <1>4, <1>5 DEF Kind
-----------------------------------------------------------------------------
(* What the assumptions say of the environment in force.                   *)
LEMMA EnvFacts ==
    ASSUME env \in Environments
    PROVE  /\ env.feed \in Seq(DOMAIN About) /\ env.kept \in Seq(DOMAIN About)
           /\ Len(env.kept) <= MaxObs /\ MaxObs \in Nat
           /\ Docs(env) \subseteq DOMAIN About
           /\ \A d \in Elems(env.feed) : /\ About[d].color = "green" /\ d \in Docs(env)
                                         /\ d \notin env.drops /\ d \notin Elems(env.kept)
           /\ Default \in Routes /\ IsFiniteSet(Routes)
           /\ SeedLimit \in Nat /\ LookupLimit \in Nat /\ FindLimit \in Nat /\ FeedLimit \in Nat
           /\ FeedLimit >= 1
           /\ \A d \in Docs(env) : /\ About[d].hints \subseteq Routes /\ About[d].signal \in 0 .. 52
                                   /\ About[d].color \in Color /\ About[d].inner \in Color \cup {"none"}
<1>1. env.feed \in Seq(DOMAIN About) /\ env.kept \in Seq(DOMAIN About) /\ env.drops \subseteq DOMAIN About
  BY IntakeAssumption
<1>2. Elems(env.feed) \subseteq DOMAIN About /\ Elems(env.kept) \subseteq DOMAIN About
  BY <1>1 DEF Elems
<1>3. Docs(env) \subseteq DOMAIN About /\ Elems(env.feed) \subseteq Docs(env)
  BY <1>1, <1>2 DEF Docs
<1>4. SeedLimit \in Nat /\ LookupLimit \in Nat /\ FindLimit \in Nat /\ FeedLimit \in Nat /\ FeedLimit >= 1
  BY IntakeAssumption
<1> QED  BY <1>1, <1>3, <1>4, IntakeAssumption

(* The fields of an observation.                                           *)
LEMMA RecIs ==
    ASSUME NEW e, NEW s, Records(e, s), NEW i \in DOMAIN s
    PROVE  /\ s[i] \in Rec(e) /\ s[i].kind \in Kinds /\ s[i].doc \in Docs(e) /\ s[i].hints \in SUBSET Routes
           /\ s[i].color \in Color /\ s[i].src \in Nat /\ s[i].route \in Routes \cup {NoRoute}
           /\ s[i].by \in Workers /\ s[i].draft \in Nat /\ s[i].at \in Nat
           /\ i \in Nat /\ i >= 1 /\ i <= Len(s) /\ i \in 1 .. MaxObs /\ RecordOK(s, i)
           /\ Len(s) \in Nat /\ DOMAIN s = 1 .. Len(s) /\ MaxObs \in Nat
<1>1. s \in Seq(Rec(e)) /\ Len(s) <= MaxObs /\ RecordOK(s, i)  BY DEF Records
<1>2. s[i] \in Rec(e) /\ Len(s) \in Nat /\ DOMAIN s = 1 .. Len(s) /\ MaxObs \in Nat
  BY <1>1, IntakeAssumption
<1>3. /\ s[i].kind \in Kinds /\ s[i].doc \in Docs(e) /\ s[i].hints \in SUBSET Routes
      /\ s[i].color \in Color /\ s[i].src \in Nat /\ s[i].route \in Routes \cup {NoRoute}
      /\ s[i].by \in Workers /\ s[i].draft \in Nat /\ s[i].at \in Nat
  BY <1>2 DEF Rec
<1> QED  BY <1>1, <1>2, <1>3

(* Sets of numbers that are bounded have a greatest member.                *)
LEMMA MaxExists ==
    ASSUME NEW S, S # {}, NEW N \in Nat, NEW f \in [S -> 0 .. N]
    PROVE  \E m \in S : \A k \in S : f[k] <= f[m]
<1> DEFINE T == {N - f[k] : k \in S}
<1>1. T \in SUBSET Nat /\ T # {}  OBVIOUS
<1> HIDE DEF T
<1>2. PICK x \in T : \A y \in T : ~ (<<y, x>> \in OpToRel(<, Nat))
  BY <1>1, NatLessThanWellFounded, WFMin
<1>3. PICK m \in S : x = N - f[m]  BY DEF T
<1>4. ASSUME NEW k \in S PROVE f[k] <= f[m]
  <2>1. N - f[k] \in T  BY DEF T
  <2>2. ~ (N - f[k] < x)  BY <1>1, <1>2, <2>1 DEF OpToRel
  <2>3. f[k] \in 0 .. N /\ f[m] \in 0 .. N  OBVIOUS
  <2> QED  BY <1>3, <2>2, <2>3
<1> QED  BY <1>4

(* The newest of some observations.                                        *)
LEMMA OneIs ==
    ASSUME Records(env, obs), NEW ids, ids \subseteq DOMAIN obs, ids # {}
    PROVE  One(ids) \in ids /\ \A k \in ids : k = One(ids) \/ Later(One(ids), k)
<1> DEFINE N == Len(obs)
           at == [i \in ids |-> obs[i].at]
<1>1. N \in Nat /\ DOMAIN obs = 1 .. N  BY DEF Records
<1>2. \A i \in ids : obs[i].at \in 0 .. N /\ i \in 0 .. N
  <2>1. \A i \in DOMAIN obs : obs[i].at \in Nat /\ obs[i].at <= i
    BY RecIs DEF RecordOK
  <2> HIDE DEF N
  <2> QED  BY <1>1, <2>1
<1>3. at \in [ids -> 0 .. N]  BY <1>2
<1> HIDE DEF N
<1>4. PICK m \in ids : \A k \in ids : at[k] <= at[m]  BY <1>1, <1>3, MaxExists
<1> DEFINE top == {i \in ids : at[i] = at[m]}
           id == [i \in top |-> i]
<1>5. top # {} /\ id \in [top -> 0 .. N]  BY <1>2
<1>6. PICK n \in top : \A k \in top : id[k] <= id[n]
  <2> HIDE DEF top, id
  <2> QED  BY <1>1, <1>5, MaxExists
<1>7. ASSUME NEW k \in ids PROVE k = n \/ Later(n, k)
  <2>1. obs[k].at <= obs[n].at  BY <1>4
  <2>2. obs[k].at = obs[n].at => k <= n  BY <1>6
  <2>3. obs[k].at \in Nat /\ obs[n].at \in Nat /\ k \in Nat /\ n \in Nat  BY <1>1, <1>2
  <2> QED  BY <2>1, <2>2, <2>3 DEF Later
<1>8. \E i \in ids : \A k \in ids : k = i \/ Later(i, k)  BY <1>7
<1> QED  BY <1>8 DEF One

(* A list that holds all there is.                                         *)
LEMMA NewestAll ==
    ASSUME Records(env, obs), NEW ids, ids \subseteq DOMAIN obs, NEW n \in Nat, Cardinality(ids) <= n
    PROVE  ids = Newest(n, ids)
<1>1. IsFiniteSet(ids) /\ Cardinality(ids) \in Nat  BY KindFinite DEF Records
<1>2. ASSUME NEW i \in ids PROVE i \in Newest(n, ids)
  <2> DEFINE T == {k \in ids : Later(k, i)}
  <2>1. obs[i].at \in Nat /\ i \in Nat  BY RecIs
  <2>2. i \notin T  BY <2>1 DEF Later
  <2>3. T \subseteq ids \ {i}  BY <2>2
  <2>4. IsFiniteSet(ids \ {i}) /\ Cardinality(ids \ {i}) = Cardinality(ids) - 1  BY <1>1, FS_RemoveElement
  <2>5. Cardinality(T) \in Nat /\ Cardinality(T) <= Cardinality(ids) - 1
    BY <2>3, <2>4, FS_Subset, FS_CardinalityType
  <2>6. Cardinality(T) < n
    <3> HIDE DEF T
    <3> QED  BY <1>1, <2>5
  <2> QED  BY <2>6 DEF Newest
<1> QED  BY <1>2 DEF Newest

(* The items of the feed that are read.                                    *)
LEMMA FeedItemsIs ==
    ASSUME env \in Environments
    PROVE  /\ Len(FeedItems) \in Nat /\ DOMAIN FeedItems = 1 .. Len(FeedItems)
           /\ \A i \in DOMAIN FeedItems : FeedItems[i] \in Elems(env.feed)
           /\ env.feed # << >> => Len(FeedItems) >= 1
<1> DEFINE n == IF Len(env.feed) < FeedLimit THEN Len(env.feed) ELSE FeedLimit
<1>1. env.feed \in Seq(DOMAIN About) /\ FeedLimit \in Nat /\ FeedLimit >= 1  BY EnvFacts
<1>2. Len(env.feed) \in Nat /\ DOMAIN env.feed = 1 .. Len(env.feed)  BY <1>1
<1>3. n \in 0 .. Len(env.feed)  BY <1>1, <1>2
<1>4. env.feed # << >> => n >= 1  BY <1>1, <1>2
<1>5. FeedItems = SubSeq(env.feed, 1, n)  BY DEF FeedItems
<1> HIDE DEF n
<1>6. /\ Len(SubSeq(env.feed, 1, n)) = n
      /\ DOMAIN SubSeq(env.feed, 1, n) = 1 .. n
      /\ \A i \in 1 .. n : SubSeq(env.feed, 1, n)[i] = env.feed[i]
  BY <1>1, <1>2, <1>3
<1> QED  BY <1>2, <1>3, <1>4, <1>5, <1>6 DEF Elems

(* The record Observation makes.                                           *)
LEMMA ObservationIs ==
    ASSUME env \in Environments, Records(env, obs), NEW kind \in Kinds, NEW d \in Docs(env), NEW h \in SUBSET Routes,
           NEW c \in Color, NEW src \in 0 .. Len(obs), NEW r \in Routes \cup {NoRoute}, NEW by \in Workers,
           NEW dr \in 0 .. Len(obs)
    PROVE  LET o == Observation(kind, d, h, c, src, r, by, dr) IN
           /\ o \in Rec(env) /\ o.kind = kind /\ o.doc = d /\ o.hints = h /\ o.color = c
           /\ o.src = src /\ o.route = r /\ o.by = by /\ o.draft = dr
           /\ o.src < Len(obs) + 1 /\ o.draft < Len(obs) + 1 /\ o.at <= Len(obs) + 1
           /\ kind = "seed" => o.at = Len(obs) + 1
<1> DEFINE o == Observation(kind, d, h, c, src, r, by, dr)
           at == IF kind \in {"content", "intake"} /\ About[d].old THEN 0
                 ELSE IF kind = "intake" /\ src # 0 THEN obs[src].at ELSE NextId
<1>1. o = [kind |-> kind, doc |-> d, hints |-> h, color |-> c, src |-> src, route |-> r,
           by |-> by, draft |-> dr, at |-> at]
  BY DEF Observation
<1>2. Len(obs) \in Nat /\ DOMAIN obs = 1 .. Len(obs)  BY DEF Records
<1>3. src # 0 => obs[src].at \in Nat /\ obs[src].at <= src
  <2>1. src # 0 => src \in DOMAIN obs  BY <1>2
  <2> QED  BY <2>1, RecIs DEF RecordOK
<1>4. at \in Nat /\ at <= Len(obs) + 1  BY <1>2, <1>3 DEF NextId
<1>5. kind = "seed" => at = Len(obs) + 1  BY DEF NextId
<1> HIDE DEF at
<1> QED  BY <1>1, <1>2, <1>4, <1>5 DEF Rec
-----------------------------------------------------------------------------
(* The workers when one of them moves on.                                  *)
LEMMA ProcIs ==
    ASSUME NEW e, NEW s, NEW ln, NEW ps, ProcsOK(e, s, ln, ps), NEW w \in Workers
    PROVE  /\ ps[w] \in Proc(e) /\ ProcOK(e, s, ln, w, ps[w])
           /\ ps[w].doc \in Docs(e) \cup {NoDoc} /\ ps[w].src \in Nat /\ ps[w].intake \in Nat
           /\ ps[w].route \in Routes \cup {NoRoute} /\ ps[w].seed \in Nat
           /\ ps[w].again \in BOOLEAN /\ ps[w].part \in Nat
<1>1. ps[w] \in Proc(e) /\ ProcOK(e, s, ln, w, ps[w])  BY DEF ProcsOK
<1> QED  BY <1>1 DEF Proc

LEMMA IdleIs ==
    ASSUME NEW e, NEW s, NEW ln, NEW w, Len(s) \in Nat
    PROVE  /\ Idle \in Proc(e) /\ ProcOK(e, s, ln, w, Idle) /\ Idle.at = "idle" /\ Idle.again = FALSE
           /\ \A pr : Claim(s, pr, Idle)
<1>1. Idle.at = "idle" /\ Idle.again = FALSE /\ Idle.src = 0 /\ Idle.intake = 0 /\ Idle.seed = 0
  BY DEF Idle
<1>2. Idle \in Proc(e)  BY DEF Idle, Proc, Steps
<1>3. ProcOK(e, s, ln, w, Idle)
  BY <1>1 DEF ProcOK, Fetching, Routing, Drafting, Proposing, Preparing
<1>4. \A pr : Claim(s, pr, Idle)  BY <1>1 DEF Claim
<1> QED  BY <1>1, <1>2, <1>3, <1>4

LEMMA ProcsKeep ==
    ASSUME NEW e, NEW s, NEW t, NEW ln, NEW lm, NEW ps, NEW w \in Workers, NEW q \in Proc(e),
           Extends(s, t), Len(s) \in Nat, Len(t) \in Nat, ProcsOK(e, s, ln, ps),
           \A v \in Workers \ {w} : ps[v].at \in {"find_prep_obs", "create_prep"} /\ ln[ps[v].seed] = Parts =>
              lm[ps[v].seed] = Parts,
           ProcOK(e, t, lm, w, q)
    PROVE  ProcsOK(e, t, lm, [ps EXCEPT ![w] = q])
<1> DEFINE pt == [ps EXCEPT ![w] = q]
<1>1. ps \in [Workers -> Proc(e)]  BY DEF ProcsOK
<1>2. pt \in [Workers -> Proc(e)] /\ pt[w] = q /\ \A v \in Workers : v # w => pt[v] = ps[v]
  BY <1>1
<1>3. ASSUME NEW v \in Workers PROVE ProcOK(e, t, lm, v, pt[v])
  <2>1. CASE v = w  BY <1>2, <2>1
  <2>2. CASE v # w
    <3>1. pt[v] = ps[v] /\ ProcOK(e, s, ln, v, ps[v])  BY <1>2, <2>2 DEF ProcsOK
    <3>2. ProcOK(e, t, lm, v, ps[v])  BY <3>1, <2>2, ProcKeeps
    <3> QED  BY <3>1, <3>2
  <2> QED  BY <2>1, <2>2
<1> QED  BY <1>2, <1>3 DEF ProcsOK

LEMMA ExclusiveKeeps ==
    ASSUME NEW e, NEW ps \in [Workers -> Proc(e)], NEW w \in Workers, NEW q, NEW ov, NEW ow,
           Exclusive(ps, ov), ov \subseteq ow,
           \A v \in Workers : v # w /\ q.at # "idle" /\ ps[v].at # "idle" /\ ps[v].doc = q.doc => q.doc \in ow
    PROVE  Exclusive([ps EXCEPT ![w] = q], ow)
<1> DEFINE pt == [ps EXCEPT ![w] = q]
<1>1. pt[w] = q /\ \A v \in Workers : v # w => pt[v] = ps[v]  OBVIOUS
<1> HIDE DEF pt
<1>2. Exclusive(pt, ow)  BY <1>1 DEF Exclusive
<1> QED  BY <1>2 DEF pt

(* A step that writes nothing.                                             *)
LEMMA QuietKeeps ==
    ASSUME IInv, NEW w \in Workers, NEW q \in Proc(env), proc' = [proc EXCEPT ![w] = q],
           StoresUnchanged, overlap \subseteq overlap', CursorOK',
           \A v \in Workers : v # w /\ q.at # "idle" /\ proc[v].at # "idle" /\ proc[v].doc = q.doc =>
              q.doc \in overlap',
           ProcOK(env, obs, lane, w, q),
           q.at = "create_decision" => NoDecision(obs, q.intake, q.route),
           q.doc \notin overlap' => Claim(obs, proposals, q)
    PROVE  IInv'
<1>1. /\ env' = env /\ obs' = obs /\ room' = room /\ proposals' = proposals /\ lane' = lane
      /\ opened' = opened /\ ruled' = ruled
  BY DEF StoresUnchanged
<1>2. Records(env, obs) /\ ProcsOK(env, obs, lane, proc)  BY DEF IInv
<1>3. obs \in Seq(Rec(env)) /\ Len(obs) \in Nat  BY <1>2 DEF Records
<1>4. ProcsOK(env, obs, lane, proc')  BY <1>2, <1>3, SameIs, ProcsKeep
<1>5. proc \in [Workers -> Proc(env)]  BY <1>2 DEF ProcsOK
<1>6. Exclusive(proc', overlap')  BY <1>5, ExclusiveKeeps DEF IInv
<1>7. Claims(obs, proposals, proc', overlap')
  <2>1. ASSUME NEW v \in Workers
        PROVE  /\ proc'[v].at = "create_decision" => NoDecision(obs, proc'[v].intake, proc'[v].route)
               /\ proc'[v].doc \notin overlap' => Claim(obs, proposals, proc'[v])
    <3>1. CASE v = w  BY <1>5, <3>1
    <3>2. CASE v # w
      <4>1. proc'[v] = proc[v]  BY <1>5, <3>2
      <4> QED  BY <4>1 DEF IInv, Claims
    <3> QED  BY <3>1, <3>2
  <2> QED  BY <2>1 DEF Claims
<1>8. OneRecord(env, obs, overlap') /\ OneSeed(obs, overlap') /\ OneProposal(obs, proposals, overlap')
  BY DEF IInv, OneRecord, OneSeed, OneProposal
<1> QED  BY <1>1, <1>4, <1>6, <1>7, <1>8 DEF IInv

(* Who stays with a source, or lets go of it, meets nobody new.            *)
LEMMA StaysAlone ==
    ASSUME IInv, NEW w \in Workers, NEW q, q.at = "idle" \/ (proc[w].at # "idle" /\ q.doc = proc[w].doc)
    PROVE  \A v \in Workers : v # w /\ q.at # "idle" /\ proc[v].at # "idle" /\ proc[v].doc = q.doc =>
              q.doc \in overlap
BY DEF IInv, Exclusive

LEMMA CursorKeeps == ASSUME IInv, env' = env, cursor' = cursor PROVE CursorOK'
BY DEF IInv, CursorOK, FeedItems

(* A worker goes on from one step to the next without writing.             *)
LEMMA GoKeeps ==
    ASSUME IInv, NEW w \in Workers, NEW q \in Proc(env), Go(w, q), StoresUnchanged, UNCHANGED cursor,
           q.at = "idle" \/ (proc[w].at # "idle" /\ q.doc = proc[w].doc),
           ProcOK(env, obs, lane, w, q),
           q.at = "create_decision" => NoDecision(obs, q.intake, q.route),
           q.doc \notin overlap => Claim(obs, proposals, q)
    PROVE  IInv'
<1>1. proc' = [proc EXCEPT ![w] = q] /\ overlap' = overlap  BY DEF Go
<1>2. CursorOK'  BY CursorKeeps DEF StoresUnchanged
<1>3. \A v \in Workers : v # w /\ q.at # "idle" /\ proc[v].at # "idle" /\ proc[v].doc = q.doc =>
         q.doc \in overlap
  BY StaysAlone
<1>4. /\ overlap \subseteq overlap'
      /\ \A v \in Workers : v # w /\ q.at # "idle" /\ proc[v].at # "idle" /\ proc[v].doc = q.doc =>
            q.doc \in overlap'
      /\ q.doc \notin overlap' => Claim(obs, proposals, q)
  BY <1>1, <1>3
<1> QED  BY <1>1, <1>2, <1>4, QuietKeeps
-----------------------------------------------------------------------------
(* The routes a source can go to by itself are what its cue says.          *)
LEMMA TargetsFollow ==
    ASSUME env \in Environments, Records(env, obs), NEW s \in DOMAIN obs, NEW d, obs[s].doc = d,
           obs[s].kind \in {"content", "intake"}, NEW r \in AutoRouteTargets(s, d)
    PROVE  r \in Routes /\ Cue(d, r)
<1> DEFINE h == obs[s].hints
<1>1. h \in SUBSET Routes /\ RecordOK(obs, s) /\ d \in Docs(env)  BY RecIs
<1>2. SensorColor(h) = "green" /\ r \in h  BY DEF AutoRouteTargets
<1>3. Cardinality(h) = 1  BY <1>2 DEF SensorColor
<1>4. IsFiniteSet(h)  BY <1>1, EnvFacts, FS_Subset
<1>5. h = {r}  BY <1>2, <1>3, <1>4, FS_Singleton
<1>6. h = About[d].hints \/ h = normalizeRoutes(About[d].hints)  BY <1>1 DEF RecordOK
<1> HIDE DEF h
<1>7. Cue(d, r)  BY <1>5, <1>6 DEF Cue, normalizeRoutes
<1> QED  BY <1>1, <1>2, <1>7

(* Where a worker goes once there is an intake.                            *)
LEMMA AfterIntakeIs ==
    ASSUME NEW e, NEW s, NEW ln, NEW w \in Workers, NEW p \in Proc(e), ProcOK(e, s, ln, w, p), Len(s) \in Nat,
           DOMAIN s = 1 .. Len(s), p.at \in {"find_intake", "create_intake"}, NEW id, IsIntake(s, id, p.doc),
           NEW targets, \A r \in targets : r \in Routes /\ Cue(p.doc, r)
    PROVE  LET q == AfterIntake(p, w, id, targets) IN
           /\ q \in Proc(e) /\ ProcOK(e, s, ln, w, q) /\ q.at # "create_decision"
           /\ q.at = "idle" \/ q.doc = p.doc
           /\ \A pr : Claim(s, pr, q)
<1> DEFINE q == AfterIntake(p, w, id, targets)
           r == CHOOSE x \in targets : TRUE
<1>1. CASE q = Idle  BY <1>1, IdleIs
<1>2. CASE /\ w = "sensor" /\ targets # {}
           /\ q = [p EXCEPT !.intake = id, !.route = r, !.at = "find_decision"]
  <2>1. r \in Routes /\ Cue(p.doc, r)  BY <1>2
  <2>2. id \in Nat /\ id \in 0 .. Len(s)  BY DEF IsIntake
  <2> HIDE DEF q, r
  <2>3. /\ q \in Proc(e) /\ q.at = "find_decision" /\ q.doc = p.doc /\ q.src = p.src /\ q.intake = id
        /\ q.route = r /\ q.seed = p.seed /\ q.again = p.again
    BY <1>2, <2>1, <2>2 DEF Proc, Steps, Routing
  <2>4. p.again \in BOOLEAN /\ ~ p.again
    BY DEF ProcOK, Drafting, Proc
  <2>5. p.doc \in Docs(e) /\ p.src \in 0 .. Len(s) /\ p.seed \in 0 .. Len(s)
    BY DEF ProcOK
  <2>6. ProcOK(e, s, ln, w, q)
    BY <1>2, <2>1, <2>2, <2>3, <2>4, <2>5 DEF ProcOK, Fetching, Routing, Drafting, Proposing, Preparing
  <2>7. \A pr : Claim(s, pr, q)  BY <2>3, <2>4 DEF Claim
  <2> QED  BY <2>3, <2>6, <2>7 DEF q
<1> QED  BY <1>1, <1>2 DEF AfterIntake

LEMMA FindIntakeKeeps == ASSUME IInv, NEW w \in Workers, FindIntake(w) PROVE IInv'
<1> DEFINE p == proc[w]
           found == IntakesOf(p)
           targets == AutoRouteTargets(p.src, p.doc)
           q == IF found = {} THEN [p EXCEPT !.at = "create_intake"] ELSE AfterIntake(p, w, One(found), targets)
<1>1. p.at = "find_intake" /\ Go(w, q) /\ UNCHANGED cursor /\ StoresUnchanged  BY DEF FindIntake
<1>2. env \in Environments /\ Records(env, obs)  BY DEF IInv
<1>3. p \in Proc(env) /\ ProcOK(env, obs, lane, w, p) /\ p.again \in BOOLEAN  BY ProcIs DEF IInv
<1>4. Len(obs) \in Nat /\ DOMAIN obs = 1 .. Len(obs)  BY <1>2 DEF Records
<1>5. p.src \in DOMAIN obs /\ obs[p.src].doc = p.doc /\ obs[p.src].kind \in {"content", "intake"}
  BY <1>1, <1>3 DEF ProcOK
<1>6. \A r \in targets : r \in Routes /\ Cue(p.doc, r)  BY <1>2, <1>5, TargetsFollow
<1>7. /\ q \in Proc(env) /\ ProcOK(env, obs, lane, w, q) /\ q.at # "create_decision"
      /\ q.at = "idle" \/ q.doc = p.doc
      /\ Claim(obs, proposals, q)
  <2>1. CASE found = {}
    <3>1. q = [p EXCEPT !.at = "create_intake"]  BY <2>1
    <3>2. \A i \in DOMAIN obs : ~ IsIntake(obs, i, p.doc)  BY <2>1 DEF IntakesOf, Of, IsIntake
    <3> HIDE DEF p, q
    <3>3. /\ q \in Proc(env) /\ q.at = "create_intake" /\ q.doc = p.doc /\ q.src = p.src
          /\ q.intake = p.intake /\ q.route = p.route /\ q.seed = p.seed /\ q.again = p.again
      BY <1>3, <3>1 DEF Proc, Steps, Fetching
    <3>4. ProcOK(env, obs, lane, w, q)
      BY <1>1, <1>3, <3>3 DEF ProcOK, Fetching, Routing, Drafting, Proposing, Preparing
    <3>5. ~ p.again  BY <1>1, <1>3 DEF ProcOK, Drafting
    <3> QED  BY <3>2, <3>3, <3>4, <3>5 DEF Claim
  <2>2. CASE found # {}
    <3>1. One(found) \in found  BY <1>2, <2>2, OneIs DEF IntakesOf, Of
    <3>2. IsIntake(obs, One(found), p.doc)  BY <3>1 DEF IntakesOf, Of, IsIntake
    <3>3. q = AfterIntake(p, w, One(found), targets)  BY <2>2
    <3> HIDE DEF p, q, targets, found
    <3> QED  BY <1>1, <1>3, <1>4, <1>6, <3>2, <3>3, AfterIntakeIs
  <2> QED  BY <2>1, <2>2
<1> HIDE DEF q
<1> QED  BY <1>1, <1>7, GoKeeps

(* A decision that is not seen is not there, where the lists hold all.     *)
LEMMA FindDecisionKeeps == ASSUME IInv, NEW w \in Workers, FindDecision(w) PROVE IInv'
<1> DEFINE p == proc[w]
           A == {i \in DOMAIN obs : obs[i].src = p.intake}
           B == {i \in Of("decision") : obs[i].route = p.route}
           seen == Newest(LookupLimit, A) \cup Newest(LookupLimit, B)
           hit == \E i \in seen \cap Of("decision") : obs[i].src = p.intake /\ obs[i].route = p.route
           q == IF hit THEN [p EXCEPT !.at = "resolve_route"] ELSE [p EXCEPT !.at = "create_decision"]
<1>1. p.at = "find_decision" /\ Go(w, q) /\ UNCHANGED cursor /\ StoresUnchanged  BY DEF FindDecision
<1>2. env \in Environments /\ Records(env, obs)  BY DEF IInv
<1>3. p \in Proc(env) /\ ProcOK(env, obs, lane, w, p) /\ p.again \in BOOLEAN  BY ProcIs DEF IInv
<1>4. ~ hit => NoDecision(obs, p.intake, p.route)
  <2> SUFFICES ASSUME ~ hit, Visible(obs, p.intake, p.route), NEW i \in Kind(obs, "decision"),
                      obs[i].src = p.intake, obs[i].route = p.route
               PROVE  FALSE
    BY DEF NoDecision
  <2>1. LookupLimit \in Nat  BY <1>2, EnvFacts
  <2>2. A \subseteq DOMAIN obs /\ B \subseteq DOMAIN obs /\ i \in A /\ i \in B /\ i \in Of("decision")
    BY DEF Kind, Of
  <2>3. Cardinality(A) <= LookupLimit \/ Cardinality(B) <= LookupLimit
    BY DEF Visible, Kind, Of
  <2> HIDE DEF A, B
  <2>4. A = Newest(LookupLimit, A) \/ B = Newest(LookupLimit, B)  BY <1>2, <2>1, <2>2, <2>3, NewestAll
  <2> QED  BY <2>2, <2>4
<1> HIDE DEF p, hit
<1>5. /\ q \in Proc(env) /\ q.at \in {"resolve_route", "create_decision"} /\ q.doc = p.doc /\ q.src = p.src
      /\ q.intake = p.intake /\ q.route = p.route /\ q.seed = p.seed /\ q.again = p.again
      /\ q.at = "create_decision" => ~ hit
  BY <1>3 DEF Proc, Steps, Routing
<1> HIDE DEF q
<1>6. ~ p.again  BY <1>1, <1>3 DEF ProcOK, Drafting
<1>7. ProcOK(env, obs, lane, w, q)
  BY <1>1, <1>3, <1>5, <1>6 DEF ProcOK, Fetching, Routing, Drafting, Proposing, Preparing
<1>8. Claim(obs, proposals, q) /\ q.at # "create_content"  BY <1>5, <1>6 DEF Claim
<1>9. q.at = "create_decision" => NoDecision(obs, q.intake, q.route)  BY <1>4, <1>5
<1>10. proc[w].at # "idle" /\ q.doc = proc[w].doc  BY <1>1, <1>5 DEF p
<1> QED  BY <1>1, <1>5, <1>7, <1>8, <1>9, <1>10, GoKeeps

LEMMA FindSeedKeeps == ASSUME IInv, NEW w \in Workers, FindSeed(w) PROVE IInv'
<1> DEFINE p == proc[w]
           found == SeedsOf(p)
           x == IF p.again THEN p.seed ELSE One(found)
           q == IF found = {} THEN [p EXCEPT !.at = "create_seed"]
                ELSE [p EXCEPT !.seed = x, !.at = "resolve_red"]
<1>1. p.at = "find_seed" /\ Go(w, q) /\ UNCHANGED cursor /\ StoresUnchanged  BY DEF FindSeed
<1>2. env \in Environments /\ Records(env, obs)  BY DEF IInv
<1>3. p \in Proc(env) /\ ProcOK(env, obs, lane, w, p) /\ p.again \in BOOLEAN  BY ProcIs DEF IInv
<1>4. proc[w].doc \notin overlap => Claim(obs, proposals, p)  BY DEF IInv, Claims
<1>5. found = {} => NoSeed(obs, p.intake, p.route)
  <2> SUFFICES ASSUME found = {}, Few(obs), NEW i \in DOMAIN obs, IsSeed(obs, i, p.intake, p.route)
               PROVE  FALSE
    BY DEF NoSeed
  <2>1. SeedLimit \in Nat  BY <1>2, EnvFacts
  <2>2. i \in Of("seed") /\ Of("seed") \subseteq DOMAIN obs /\ Cardinality(Of("seed")) <= SeedLimit
    BY DEF Few, IsSeed, Kind, Of
  <2>3. Of("seed") = Newest(SeedLimit, Of("seed"))  BY <1>2, <2>1, <2>2, NewestAll
  <2> QED  BY <2>2, <2>3 DEF SeedsOf, IsSeed
<1>6. found # {} => x \in Nat /\ x \in 0 .. Len(obs) /\ IsSeed(obs, x, p.intake, p.route)
  <2> SUFFICES ASSUME found # {} PROVE x \in Nat /\ x \in 0 .. Len(obs) /\ IsSeed(obs, x, p.intake, p.route)
    OBVIOUS
  <2>1. IsSeed(obs, One(found), p.intake, p.route)
    <3>1. found \subseteq DOMAIN obs  BY DEF SeedsOf, Newest, Of
    <3>2. One(found) \in found  BY <1>2, <3>1, OneIs
    <3> QED  BY <3>2 DEF SeedsOf, Newest, Of, IsSeed
  <2>2. p.again => IsSeed(obs, p.seed, p.intake, p.route)  BY <1>3 DEF ProcOK
  <2>3. IsSeed(obs, x, p.intake, p.route)
    <3> HIDE DEF p, found
    <3> QED  BY <1>3, <2>1, <2>2
  <2>4. x \in DOMAIN obs  BY <2>3 DEF IsSeed
  <2>5. x \in 1 .. Len(obs) /\ x \in Nat /\ Len(obs) \in Nat
    <3> HIDE DEF x
    <3> QED  BY <1>2, <2>4, RecIs
  <2> HIDE DEF x
  <2> QED  BY <2>3, <2>5
<1> HIDE DEF p, found, x
<1>7. /\ q \in Proc(env) /\ q.at \in {"create_seed", "resolve_red"} /\ q.doc = p.doc /\ q.src = p.src
      /\ q.intake = p.intake /\ q.route = p.route /\ q.again = p.again
      /\ IF found = {} THEN q.at = "create_seed" /\ q.seed = p.seed ELSE q.at = "resolve_red" /\ q.seed = x
  BY <1>3, <1>6 DEF Proc, Steps, Drafting, Proposing
<1> HIDE DEF q
<1>8. ProcOK(env, obs, lane, w, q)
  BY <1>1, <1>3, <1>6, <1>7 DEF ProcOK, Fetching, Routing, Drafting, Proposing, Preparing
<1>9. q.doc \notin overlap => Claim(obs, proposals, q)
  BY <1>4, <1>5, <1>7 DEF Claim, p
<1>10. proc[w].at # "idle" /\ q.doc = proc[w].doc  BY <1>1, <1>7 DEF p
<1> QED  BY <1>1, <1>7, <1>8, <1>9, <1>10, GoKeeps

(* After a proposal: the lane, for the sensor.                             *)
LEMMA AfterProposalIs ==
    ASSUME NEW e, NEW s, NEW ln, NEW w \in Workers, NEW p \in Proc(e), ProcOK(e, s, ln, w, p), Len(s) \in Nat,
           p.at \in {"find_proposal", "create_proposal"}
    PROVE  LET q == AfterProposal(p, w) IN
           /\ q \in Proc(e) /\ ProcOK(e, s, ln, w, q) /\ q.at # "create_decision"
           /\ q.at = "idle" \/ q.doc = p.doc
           /\ \A pr : Claim(s, pr, q)
<1> DEFINE q == AfterProposal(p, w)
<1>1. CASE q = Idle  BY <1>1, IdleIs
<1>2. CASE q = [p EXCEPT !.again = FALSE, !.at = "find_prep"]
  <2> HIDE DEF q
  <2>1. /\ q \in Proc(e) /\ q.at = "find_prep" /\ q.doc = p.doc /\ q.src = p.src
        /\ q.intake = p.intake /\ q.route = p.route /\ q.seed = p.seed /\ q.again = FALSE
    BY <1>2 DEF Proc, Steps, Preparing
  <2>2. ProcOK(e, s, ln, w, q)
    BY <2>1 DEF ProcOK, Fetching, Routing, Drafting, Proposing, Preparing
  <2>3. \A pr : Claim(s, pr, q)  BY <2>1 DEF Claim
  <2> QED  BY <2>1, <2>2, <2>3 DEF q
<1> QED  BY <1>1, <1>2 DEF AfterProposal

LEMMA FindProposalKeeps == ASSUME IInv, NEW w \in Workers, FindProposal(w) PROVE IInv'
<1> DEFINE p == proc[w]
           k == <<p.intake, p.route>>
           q == IF proposals[k] > 0 THEN AfterProposal(p, w) ELSE [p EXCEPT !.again = TRUE, !.at = "find_seed"]
<1>1. p.at = "find_proposal" /\ Go(w, q) /\ UNCHANGED cursor /\ StoresUnchanged  BY DEF FindProposal
<1>2. env \in Environments /\ Records(env, obs) /\ ProposalsOK(obs, proposals)  BY DEF IInv
<1>3. p \in Proc(env) /\ ProcOK(env, obs, lane, w, p) /\ p.again \in BOOLEAN  BY ProcIs DEF IInv
<1>4. Len(obs) \in Nat  BY <1>2 DEF Records
<1>5. proposals[k] \in Nat
  <2>1. p.intake \in DOMAIN obs /\ p.route \in Routes
    BY <1>1, <1>3 DEF ProcOK, Proposing, IsIntake
  <2>2. p.intake \in 1 .. MaxObs  BY <1>2, <2>1, RecIs
  <2> HIDE DEF p
  <2> QED  BY <1>2, <2>1, <2>2 DEF ProposalsOK
<1>6. /\ q \in Proc(env) /\ ProcOK(env, obs, lane, w, q) /\ q.at # "create_decision"
      /\ q.at = "idle" \/ q.doc = p.doc
      /\ Claim(obs, proposals, q)
  <2>1. CASE proposals[k] > 0
    <3>1. q = AfterProposal(p, w)  BY <2>1
    <3> HIDE DEF p, q
    <3> QED  BY <1>1, <1>3, <1>4, <3>1, AfterProposalIs
  <2>2. CASE ~ (proposals[k] > 0)
    <3>1. q = [p EXCEPT !.again = TRUE, !.at = "find_seed"] /\ proposals[k] = 0  BY <1>5, <2>2
    <3> HIDE DEF p, q
    <3>2. /\ q \in Proc(env) /\ q.at = "find_seed" /\ q.doc = p.doc /\ q.src = p.src
          /\ q.intake = p.intake /\ q.route = p.route /\ q.seed = p.seed
      BY <1>3, <3>1 DEF Proc, Steps, Drafting
    <3>3. ProcOK(env, obs, lane, w, q)
      BY <1>1, <1>3, <3>2 DEF ProcOK, Fetching, Routing, Drafting, Proposing, Preparing
    <3> QED  BY <3>1, <3>2, <3>3 DEF Claim
  <2> QED  BY <2>1, <2>2
<1> HIDE DEF q
<1> QED  BY <1>1, <1>6, GoKeeps

(* Looking at a lane.                                                      *)
LEMMA LaneStepKeeps ==
    ASSUME IInv, NEW w \in Workers, NEW q \in Proc(env), Go(w, q), StoresUnchanged, UNCHANGED cursor,
           proc[w].at \in Preparing, q.at \in Preparing,
           q.doc = proc[w].doc, q.src = proc[w].src, q.intake = proc[w].intake, q.route = proc[w].route,
           q.seed = proc[w].seed, q.again = proc[w].again,
           q.at \in {"find_part", "create_part"} => q.part \in 1 .. Parts,
           q.at \in {"find_prep_obs", "create_prep"} => lane[q.seed] = Parts
    PROVE  IInv'
<1>1. proc[w] \in Proc(env) /\ ProcOK(env, obs, lane, w, proc[w]) /\ proc[w].again \in BOOLEAN
  BY ProcIs DEF IInv
<1>2. ~ proc[w].again  BY <1>1 DEF ProcOK, Preparing, Drafting
<1>3. ProcOK(env, obs, lane, w, q)
  BY <1>1, <1>2 DEF ProcOK, Fetching, Routing, Drafting, Proposing, Preparing
<1>4. Claim(obs, proposals, q) /\ q.at # "create_decision" /\ proc[w].at # "idle"
  BY <1>2 DEF Claim, Preparing
<1> QED  BY <1>3, <1>4, GoKeeps

LEMMA IdleKeeps ==
    ASSUME IInv, NEW w \in Workers, Go(w, Idle), StoresUnchanged, UNCHANGED cursor
    PROVE  IInv'
<1>1. Len(obs) \in Nat  BY DEF IInv, Records
<1>2. /\ Idle \in Proc(env) /\ ProcOK(env, obs, lane, w, Idle) /\ Idle.at = "idle"
      /\ Claim(obs, proposals, Idle)
  BY <1>1, IdleIs
<1> HIDE DEF Idle
<1> QED  BY <1>2, GoKeeps

LEMMA FailKeeps == ASSUME IInv, NEW w \in Workers, Fail(w) PROVE IInv'
BY IdleKeeps DEF Fail

LEMMA FindPrepKeeps == ASSUME IInv, NEW w \in Workers, FindPrep(w) PROVE IInv'
<1> DEFINE p == proc[w]
           q == IF p.seed \notin Newest(FindLimit, DOMAIN obs) THEN Idle
                ELSE IF PrepsOf(p.seed) # {} THEN [p EXCEPT !.at = "clear_red"]
                ELSE [p EXCEPT !.part = 1, !.at = "find_part"]
<1>1. p.at = "find_prep" /\ Go(w, q) /\ UNCHANGED cursor /\ StoresUnchanged  BY DEF FindPrep
<1>2. p \in Proc(env)  BY ProcIs DEF IInv
<1>3. CASE q = Idle  BY <1>1, <1>3, IdleKeeps
<1>4. CASE q # Idle
  <2>1. q = [p EXCEPT !.at = "clear_red"] \/ q = [p EXCEPT !.part = 1, !.at = "find_part"]  BY <1>4
  <2> HIDE DEF q, p
  <2>2. /\ q \in Proc(env) /\ q.at \in {"clear_red", "find_part"} /\ q.doc = p.doc /\ q.src = p.src
        /\ q.intake = p.intake /\ q.route = p.route /\ q.seed = p.seed /\ q.again = p.again
        /\ q.at = "find_part" => q.part = 1
    <3>1. CASE q = [p EXCEPT !.at = "clear_red"]  BY <1>2, <3>1 DEF Proc, Steps, Preparing
    <3>2. CASE q = [p EXCEPT !.part = 1, !.at = "find_part"]  BY <1>2, <3>2 DEF Proc, Steps, Preparing
    <3> QED  BY <2>1, <3>1, <3>2
  <2>3. 1 \in 1 .. Parts  BY DEF Parts
  <2>4. /\ proc[w].at \in Preparing /\ q.at \in Preparing
        /\ q.at \in {"find_part", "create_part"} => q.part \in 1 .. Parts
        /\ q.at \notin {"find_prep_obs", "create_prep"}
    BY <1>1, <2>2, <2>3 DEF Preparing, p
  <2> QED  BY <1>1, <2>2, <2>4, LaneStepKeeps DEF p
<1> QED  BY <1>3, <1>4

LEMMA FindPartKeeps == ASSUME IInv, NEW w \in Workers, FindPart(w) PROVE IInv'
<1> DEFINE p == proc[w]
           q == IF LaneOf(p.seed) < p.part THEN [p EXCEPT !.at = "create_part"]
                ELSE IF p.part = Parts THEN [p EXCEPT !.at = "find_prep_obs"]
                ELSE [p EXCEPT !.part = @ + 1]
<1>1. p.at = "find_part" /\ Go(w, q) /\ UNCHANGED cursor /\ StoresUnchanged  BY DEF FindPart
<1>2. p \in Proc(env) /\ ProcOK(env, obs, lane, w, p) /\ p.part \in Nat  BY ProcIs DEF IInv
<1>3. p.part \in 1 .. Parts  BY <1>1, <1>2 DEF ProcOK
<1>4. lane[p.seed] \in 0 .. Parts
  <2>1. p.seed \in DOMAIN obs  BY <1>1, <1>2 DEF ProcOK, Preparing, IsSeed
  <2>2. p.seed \in 1 .. MaxObs  BY <2>1, RecIs DEF IInv
  <2> QED  BY <2>2 DEF IInv, LanesOK
<1> HIDE DEF p
<1>5. /\ q \in Proc(env) /\ q.at \in {"create_part", "find_prep_obs", "find_part"} /\ q.doc = p.doc /\ q.src = p.src
      /\ q.intake = p.intake /\ q.route = p.route /\ q.seed = p.seed /\ q.again = p.again
      /\ q.at = "create_part" => q.part = p.part
      /\ q.at = "find_part" => p.part # Parts /\ q.part = p.part + 1
      /\ q.at = "find_prep_obs" => p.part = Parts /\ ~ (lane[p.seed] < p.part)
  BY <1>1, <1>2 DEF Proc, Steps, Preparing, LaneOf
<1> HIDE DEF q
<1>6. /\ q.at \in {"find_part", "create_part"} => q.part \in 1 .. Parts
      /\ q.at \in {"find_prep_obs", "create_prep"} => lane[q.seed] = Parts
  BY <1>3, <1>4, <1>5 DEF Parts
<1>7. proc[w].at \in Preparing /\ q.at \in Preparing  BY <1>1, <1>5 DEF Preparing, p
<1> QED  BY <1>1, <1>5, <1>6, <1>7, LaneStepKeeps DEF p

LEMMA FindPrepObservationKeeps == ASSUME IInv, NEW w \in Workers, FindPrepObservation(w) PROVE IInv'
<1> DEFINE p == proc[w]
           a == IF PrepsOf(p.seed) # {} THEN "clear_red" ELSE "create_prep"
           q == [p EXCEPT !.at = a]
<1>1. p.at = "find_prep_obs" /\ Go(w, q) /\ UNCHANGED cursor /\ StoresUnchanged  BY DEF FindPrepObservation
<1>2. p \in Proc(env) /\ ProcOK(env, obs, lane, w, p)  BY ProcIs DEF IInv
<1>3. lane[p.seed] = Parts  BY <1>1, <1>2 DEF ProcOK
<1>4. a \in {"clear_red", "create_prep"}  OBVIOUS
<1> HIDE DEF p, a
<1>5. /\ q \in Proc(env) /\ q.at = a /\ q.doc = p.doc /\ q.src = p.src
      /\ q.intake = p.intake /\ q.route = p.route /\ q.seed = p.seed /\ q.again = p.again
  BY <1>2, <1>4 DEF Proc, Steps, Preparing
<1> HIDE DEF q
<1>6. /\ proc[w].at \in Preparing /\ q.at \in Preparing /\ q.at \notin {"find_part", "create_part"}
  BY <1>1, <1>4, <1>5 DEF Preparing, p
<1> QED  BY <1>1, <1>3, <1>5, <1>6, LaneStepKeeps DEF p

(* Taking a source in hand.                                                *)
LEMMA StartIs ==
    ASSUME IInv, NEW w \in Workers, NEW q, Start(w, q)
    PROVE  /\ proc' = [proc EXCEPT ![w] = q] /\ overlap \subseteq overlap' /\ proc[w].at = "idle"
           /\ \A v \in Workers : v # w /\ q.at # "idle" /\ proc[v].at # "idle" /\ proc[v].doc = q.doc =>
                 q.doc \in overlap'
<1>1. proc[w] = Idle /\ Idle.at = "idle"  BY DEF Start, Idle
<1>2. ASSUME NEW v \in Workers, proc[v].at # "idle", proc[v].doc = q.doc PROVE q.doc \in overlap'
  <2>1. proc[v] # Idle  BY <1>1, <1>2
  <2>2. Busy(q.doc)  BY <1>2, <2>1 DEF Busy
  <2> QED  BY <2>2 DEF Start
<1> QED  BY <1>1, <1>2 DEF Start

LEMMA TakeItemKeeps ==
    ASSUME IInv, NEW w \in Workers, NEW d \in Elems(env.feed), TakeItem(w, d), CursorOK'
    PROVE  IInv'
<1> DEFINE found == {i \in Of("content") \cup Of("intake") : obs[i].doc = d}
           x == IF found = {} THEN 0 ELSE One(found)
           a == IF found = {} THEN "create_content" ELSE "find_intake"
           q == [Idle EXCEPT !.doc = d, !.src = x, !.at = a]
<1>1. Start(w, q) /\ StoresUnchanged  BY DEF TakeItem
<1>2. env \in Environments /\ Records(env, obs) /\ Len(obs) \in Nat /\ DOMAIN obs = 1 .. Len(obs)
  BY DEF IInv, Records
<1>3. d \in Docs(env)  BY <1>2, EnvFacts
<1>4. /\ a \in {"create_content", "find_intake"} /\ x \in 0 .. Len(obs)
      /\ a = "find_intake" => x \in DOMAIN obs /\ obs[x].doc = d /\ obs[x].kind \in {"content", "intake"}
      /\ a = "create_content" => \A i \in DOMAIN obs : obs[i].doc = d => obs[i].kind \notin {"content", "intake"}
  <2>1. CASE found = {}
    <3>1. a = "create_content" /\ x = 0  BY <2>1
    <3>2. \A i \in DOMAIN obs : obs[i].doc = d => obs[i].kind \notin {"content", "intake"}
      BY <2>1 DEF Of
    <3> HIDE DEF a, x
    <3> QED  BY <1>2, <3>1, <3>2
  <2>2. CASE found # {}
    <3>1. found \subseteq DOMAIN obs  BY DEF Of
    <3>2. One(found) \in found  BY <1>2, <2>2, <3>1, OneIs
    <3>3. a = "find_intake" /\ x = One(found)  BY <2>2
    <3>4. /\ One(found) \in DOMAIN obs /\ obs[One(found)].doc = d
          /\ obs[One(found)].kind \in {"content", "intake"}
      BY <3>2 DEF Of
    <3> HIDE DEF a, x, found
    <3> QED  BY <1>2, <3>3, <3>4
  <2> QED  BY <2>1, <2>2
<1> HIDE DEF a, x, found
<1>5. x \in Nat  BY <1>2, <1>4
<1>6. /\ q \in Proc(env) /\ q.at = a /\ q.doc = d /\ q.src = x /\ q.intake = 0 /\ q.seed = 0 /\ q.again = FALSE
  BY <1>3, <1>4, <1>5 DEF Idle, Proc, Steps, Fetching
<1> HIDE DEF q
<1>7. ProcOK(env, obs, lane, w, q)
  BY <1>2, <1>3, <1>4, <1>6 DEF ProcOK, Fetching, Routing, Drafting, Proposing, Preparing
<1>8. Claim(obs, proposals, q) /\ q.at # "create_decision"
  BY <1>4, <1>6 DEF Claim
<1>9. /\ proc' = [proc EXCEPT ![w] = q] /\ overlap \subseteq overlap'
      /\ \A v \in Workers : v # w /\ q.at # "idle" /\ proc[v].at # "idle" /\ proc[v].doc = q.doc =>
                 q.doc \in overlap'
  BY <1>1, StartIs
<1> QED  BY <1>1, <1>6, <1>7, <1>8, <1>9, QuietKeeps

LEMMA TickKeeps == ASSUME IInv, runFeedSensorTick PROVE IInv'
<1>1. env.feed # << >> /\ TakeItem("sensor", FeedItems[cursor]) /\ env' = env
      /\ cursor' = IF cursor = Len(FeedItems) THEN 1 ELSE cursor + 1
  BY DEF runFeedSensorTick, TakeItem, StoresUnchanged
<1>2. cursor \in 1 .. Len(FeedItems) /\ env \in Environments  BY <1>1 DEF IInv, CursorOK
<1>3. Len(FeedItems) \in Nat /\ FeedItems[cursor] \in Elems(env.feed)  BY <1>2, FeedItemsIs
<1>4. cursor' \in 1 .. Len(FeedItems)
  <2> HIDE DEF FeedItems
  <2> QED  BY <1>1, <1>2, <1>3
<1>5. FeedItems' = FeedItems  BY <1>1 DEF FeedItems
<1>6. CursorOK'  BY <1>4, <1>5 DEF CursorOK
<1> QED  BY <1>1, <1>3, <1>6, TakeItemKeeps DEF Workers

LEMMA IngestKeeps == ASSUME IInv, runRSSIngest PROVE IInv'
<1>1. PICK i \in DOMAIN FeedItems : TakeItem("rss", FeedItems[i])  BY DEF runRSSIngest
<1>2. env' = env /\ cursor' = cursor  BY <1>1 DEF runRSSIngest, TakeItem, StoresUnchanged
<1>3. FeedItems[i] \in Elems(env.feed)  BY FeedItemsIs DEF IInv
<1>4. CursorOK'  BY <1>2, CursorKeeps
<1> QED  BY <1>1, <1>3, <1>4, TakeItemKeeps DEF Workers

LEMMA RequestPrepKeeps == ASSUME IInv, NEW id \in DOMAIN obs, RequestPrep(id) PROVE IInv'
<1> DEFINE q == [Idle EXCEPT !.doc = obs[id].doc, !.intake = ParsedSeed(id).src, !.route = ParsedSeed(id).route,
                             !.seed = id, !.at = "find_prep"]
<1>1. Start("cockpit", q) /\ StoresUnchanged /\ id \in Of("seed") /\ UNCHANGED cursor  BY DEF RequestPrep
<1>2. Records(env, obs) /\ Len(obs) \in Nat /\ DOMAIN obs = 1 .. Len(obs)  BY DEF IInv, Records
<1>3. obs[id].kind = "seed"  BY <1>1 DEF Of
<1>4. /\ obs[id].doc \in Docs(env) /\ obs[id].src \in Nat /\ obs[id].route \in Routes \cup {NoRoute}
      /\ id \in Nat /\ IsIntake(obs, obs[id].src, obs[id].doc) /\ obs[id].route \in Routes
  BY <1>2, <1>3, RecIs DEF RecordOK
<1>5. PICK d, k, r : d = obs[id].doc /\ k = obs[id].src /\ r = obs[id].route  OBVIOUS
<1>6. q = [Idle EXCEPT !.doc = d, !.intake = k, !.route = r, !.seed = id, !.at = "find_prep"]
  BY <1>5 DEF ParsedSeed
<1>7. d \in Docs(env) /\ k \in Nat /\ r \in Routes \cup {NoRoute} /\ k \in 0 .. Len(obs) /\ id \in 0 .. Len(obs)
      /\ IsIntake(obs, k, d) /\ IsSeed(obs, id, k, r)
  BY <1>2, <1>3, <1>4, <1>5 DEF IsSeed, IsIntake
<1> HIDE DEF q
<1>8. /\ q \in Proc(env) /\ q.at = "find_prep" /\ q.doc = d /\ q.src = 0 /\ q.intake = k /\ q.route = r
      /\ q.seed = id /\ q.again = FALSE
  BY <1>4, <1>6, <1>7 DEF Idle, Proc, Steps, Preparing
<1>9. r \in Routes  BY <1>4, <1>5
<1>10. ProcOK(env, obs, lane, "cockpit", q)
  BY <1>2, <1>7, <1>8, <1>9 DEF ProcOK, Fetching, Routing, Drafting, Proposing, Preparing
<1>11. Claim(obs, proposals, q) /\ q.at # "create_decision"  BY <1>8 DEF Claim
<1>12. "cockpit" \in Workers  BY DEF Workers
<1>13. /\ proc' = [proc EXCEPT !["cockpit"] = q] /\ overlap \subseteq overlap'
      /\ \A v \in Workers : v # "cockpit" /\ q.at # "idle" /\ proc[v].at # "idle" /\ proc[v].doc = q.doc =>
                 q.doc \in overlap'
  BY <1>1, <1>12, StartIs
<1>14. CursorOK'  BY <1>1, CursorKeeps DEF StoresUnchanged
<1> QED  BY <1>1, <1>8, <1>10, <1>11, <1>12, <1>13, <1>14, QuietKeeps
-----------------------------------------------------------------------------
(* The review room when an observation is added, with the items it brings. *)
LEMMA ItemKeeps ==
    ASSUME NEW s, NEW t, Extends(s, t), NEW x, ItemOK(s, x)
    PROVE  ItemOK(t, x)
<1>1. x.ref \in Kind(s, "intake") /\ x.ref \in Kind(t, "intake") /\ t[x.ref] = s[x.ref]
  BY DEF ItemOK, Kind, Extends
<1>2. x \in [source : {"red", "route"}, ref : Kind(t, "intake"), section : {"open", "filed"}, text : {x.text}]
  BY <1>1 DEF ItemOK
<1> QED  BY <1>1, <1>2 DEF ItemOK

LEMMA RoomAppend ==
    ASSUME NEW e, NEW s, Records(e, s), NEW o \in Rec(e), NEW rm, NEW done, NEW op, RoomOK(s, rm, done, op),
           NEW rn, rm \subseteq rn,
           \A x \in rn \ rm : ItemOK(Append(s, o), x) /\ x.ref = Len(s) + 1,
           o.kind = "intake" /\ o.color = "red" => \E x \in rn : x.text = RedText(o)
    PROVE  RoomOK(Append(s, o), rn, done, op)
<1> DEFINE t == Append(s, o)
<1>1. s \in Seq(Rec(e))  BY DEF Records
<1>2. /\ DOMAIN t = DOMAIN s \cup {Len(s) + 1} /\ t[Len(s) + 1] = o /\ Extends(s, t)
      /\ \A j \in DOMAIN s : t[j] = s[j]
      /\ Len(s) \in Nat /\ DOMAIN s = 1 .. Len(s)
  BY <1>1, AppendIs DEF Extends
<1>3. \A x \in rn \ rm : ItemOK(t, x) /\ x.ref = Len(s) + 1  OBVIOUS
<1> HIDE DEF t
<1>4. \A x \in rn : ItemOK(t, x)  BY <1>2, <1>3, ItemKeeps DEF RoomOK
<1>5. Reviewed(t, rn, done)
  <2> SUFFICES ASSUME NEW i \in Kind(t, "intake"), t[i].color = "red", RedText(t[i]) \notin done,
                      \A k \in Kind(t, "seed") : RedText(t[t[k].src]) # RedText(t[i])
               PROVE  \E x \in rn : x.text = RedText(t[i])
    BY DEF Reviewed
  <2>1. CASE i = Len(s) + 1  BY <1>2, <2>1 DEF Kind
  <2>2. CASE i \in DOMAIN s
    <3>1. i \in Kind(s, "intake") /\ t[i] = s[i]  BY <1>2, <2>2 DEF Kind
    <3>2. ASSUME NEW k \in Kind(s, "seed") PROVE RedText(s[s[k].src]) # RedText(s[i])
      <4>1. k \in DOMAIN s /\ s[k].kind = "seed" /\ k \in Kind(t, "seed") /\ t[k] = s[k]
        BY <1>2, <3>2 DEF Kind
      <4>2. s[k].src \in DOMAIN s  BY <4>1 DEF Records, RecordOK, IsIntake
      <4> QED  BY <1>2, <3>1, <4>1, <4>2
    <3> QED  BY <3>1, <3>2 DEF RoomOK, Reviewed
  <2> QED  BY <1>2, <2>1, <2>2 DEF Kind
<1>6. Cleared(t, rn, op)
  <2>1. op \subseteq Kind(s, "seed") /\ op \subseteq Kind(t, "seed")  BY <1>2 DEF RoomOK, Cleared, Kind
  <2>2. ASSUME NEW i \in op, NEW x \in rn, x.section = "open", x.source = "red", x.ref = t[i].src PROVE FALSE
    <3>1. i \in DOMAIN s /\ s[i].kind = "seed" /\ t[i] = s[i]  BY <1>2, <2>1 DEF Kind
    <3>2. s[i].src \in DOMAIN s  BY <3>1 DEF Records, RecordOK, IsIntake
    <3>3. x.ref # Len(s) + 1  BY <1>2, <2>2, <3>1, <3>2
    <3>4. x \in rm  BY <1>3, <3>3
    <3> QED  BY <2>2, <3>1, <3>4 DEF RoomOK, Cleared
  <2> QED  BY <2>1, <2>2 DEF Cleared
<1>7. RoomOK(t, rn, done, op)  BY <1>4, <1>5, <1>6 DEF RoomOK
<1> QED  BY <1>7 DEF t

(* What a new record can take from the claim of another worker.            *)
Clash(s, o, p) ==
    \/ /\ p.at \in {"create_content", "create_intake"}
       /\ o.kind \in {"content", "intake"} /\ o.doc = p.doc
    \/ /\ p.at = "create_seed" /\ o.kind = "seed" /\ o.src = p.intake /\ o.route = p.route
       /\ \A i \in DOMAIN s : ~ IsSeed(s, i, p.intake, p.route)

(* A step that adds one observation.                                       *)
LEMMA AppendKeeps ==
    ASSUME IInv, NEW w \in Workers, NEW q \in Proc(env), NEW o \in Rec(env), NEW t, t = Append(obs, o),
           obs' = t, Len(obs) < MaxObs, proc' = [proc EXCEPT ![w] = q],
           UNCHANGED <<env, proposals, lane, opened, ruled>>, overlap \subseteq overlap', CursorOK',
           RecordOK(t, Len(obs) + 1), RoomOK(t, room', ruled, opened),
           o.kind = "prep" => lane[o.draft] = Parts,
           o.kind = "decision" /\ o.by = "sensor" => w = "sensor" /\ NoDecision(obs, o.src, o.route),
           o.kind = "seed" /\ o.draft = 0 /\ o.doc \notin overlap' => NoSeed(obs, o.src, o.route),
           o.kind \in {"content", "intake"} /\ o.doc \in Elems(env.feed) \ overlap' =>
              \A i \in DOMAIN obs : ~ (obs[i].doc = o.doc /\ obs[i].kind = o.kind),
           \A v \in Workers : v # w /\ proc[v].doc \notin overlap' => ~ Clash(obs, o, proc[v]),
           \A v \in Workers : v # w /\ q.at # "idle" /\ proc[v].at # "idle" /\ proc[v].doc = q.doc =>
              q.doc \in overlap',
           ProcOK(env, t, lane, w, q),
           q.at = "create_decision" => NoDecision(t, q.intake, q.route),
           q.doc \notin overlap' => Claim(t, proposals, q)
    PROVE  IInv'
<1>1. /\ env' = env /\ proposals' = proposals /\ lane' = lane /\ opened' = opened /\ ruled' = ruled
  OBVIOUS
<1>2. Records(env, obs) /\ ProcsOK(env, obs, lane, proc) /\ env \in Environments  BY DEF IInv
<1>3. obs \in Seq(Rec(env)) /\ Len(obs) \in Nat  BY <1>2 DEF Records
<1>4. /\ t \in Seq(Rec(env)) /\ Extends(obs, t) /\ Len(t) = Len(obs) + 1 /\ DOMAIN t = DOMAIN obs \cup {Len(obs) + 1}
      /\ t[Len(obs) + 1] = o /\ \A i \in DOMAIN obs : t[i] = obs[i]
  BY <1>3, AppendIs DEF Extends
<1>5. SeedLimit \in Nat /\ LookupLimit \in Nat /\ MaxObs \in Nat  BY <1>2, EnvFacts
<1>6. Records(env, t)
  <2>1. \A i \in DOMAIN obs : RecordOK(t, i)  BY <1>2, <1>4, RecordKeeps DEF Records
  <2>2. Len(t) <= MaxObs  BY <1>3, <1>4, <1>5
  <2> QED  BY <1>4, <2>1, <2>2 DEF Records
<1>7. LanesOK(t, lane)
  <2>1. ASSUME NEW i \in Kind(t, "prep") PROVE lane[t[i].draft] = Parts
    <3>1. CASE i = Len(obs) + 1  BY <1>4, <3>1 DEF Kind
    <3>2. CASE i \in DOMAIN obs  BY <1>4, <3>2 DEF Kind, IInv, LanesOK
    <3> QED  BY <1>4, <3>1, <3>2 DEF Kind
  <2> QED  BY <2>1 DEF IInv, LanesOK
<1>8. ProposalsOK(t, proposals)
  <2>1. ASSUME NEW k \in 1 .. MaxObs, k > Len(t) PROVE k > Len(obs)  BY <1>3, <1>4, <2>1
  <2> QED  BY <2>1 DEF IInv, ProposalsOK
<1>9. ProcsOK(env, t, lane, proc')
  <2>1. Len(t) \in Nat  BY <1>3, <1>4
  <2> QED  BY <1>2, <1>3, <1>4, <2>1, ProcsKeep
<1>10. proc \in [Workers -> Proc(env)]  BY <1>2 DEF ProcsOK
<1>11. Exclusive(proc', overlap')  BY <1>10, ExclusiveKeeps DEF IInv
<1>12. Claims(t, proposals, proc', overlap')
  <2>1. ASSUME NEW v \in Workers
        PROVE  /\ proc'[v].at = "create_decision" => NoDecision(t, proc'[v].intake, proc'[v].route)
               /\ proc'[v].doc \notin overlap' => Claim(t, proposals, proc'[v])
    <3>1. CASE v = w  BY <1>10, <3>1
    <3>2. CASE v # w
      <4> DEFINE p == proc[v]
      <4>1. proc'[v] = p  BY <1>10, <3>2
      <4>2. ProcOK(env, obs, lane, v, p)  BY <1>2 DEF ProcsOK
      <4>3. ASSUME p.at = "create_decision" PROVE NoDecision(t, p.intake, p.route)
        <5>1. v = "sensor"  BY <4>2, <4>3 DEF ProcOK, Routing
        <5>2. ~ (o.kind = "decision" /\ o.by = "sensor")  BY <3>2, <5>1
        <5>3. NoDecision(obs, p.intake, p.route)  BY <4>3 DEF IInv, Claims
        <5> HIDE DEF p
        <5> QED  BY <1>3, <1>5, <5>2, <5>3, NoDecisionKeeps
      <4>4. ASSUME p.doc \notin overlap' PROVE Claim(t, proposals, p)
        <5>1. Claim(obs, proposals, p)  BY <4>4 DEF IInv, Claims
        <5>2. ~ Clash(obs, o, p)  BY <3>2, <4>4
        <5> HIDE DEF p
        <5>3. p.at \in {"create_content", "create_intake"} => ~ (o.kind \in {"content", "intake"} /\ o.doc = p.doc)
          BY <5>2 DEF Clash
        <5>4. p.at = "create_seed" /\ o.kind = "seed" /\ o.src = p.intake /\ o.route = p.route =>
                 \E i \in DOMAIN obs : IsSeed(obs, i, p.intake, p.route)
          BY <5>2 DEF Clash
        <5> QED  BY <1>3, <1>5, <5>1, <5>3, <5>4, ClaimKeeps
      <4> QED  BY <4>1, <4>3, <4>4
    <3> QED  BY <3>1, <3>2
  <2> QED  BY <2>1 DEF Claims
<1>13. OneRecord(env, t, overlap')  BY <1>3, OneRecordKeeps DEF IInv
<1>14. OneDecision(t)  BY <1>3, <1>5, OneDecisionKeeps DEF IInv
<1>15. OneSeed(t, overlap')  BY <1>3, <1>5, OneSeedKeeps DEF IInv
<1>16. OneProposal(t, proposals, overlap')
  <2> SUFFICES ASSUME NEW k \in Kind(t, "intake"), NEW r \in Routes, t[k].doc \notin overlap'
               PROVE  proposals[<<k, r>>] <= 1
    BY DEF OneProposal
  <2>1. CASE k \in DOMAIN obs  BY <1>4, <2>1 DEF Kind, IInv, OneProposal
  <2>2. CASE k = Len(obs) + 1
    <3>1. k \in 1 .. MaxObs /\ k > Len(obs)  BY <1>3, <1>5, <2>2
    <3>2. proposals[<<k, r>>] = 0  BY <3>1 DEF IInv, ProposalsOK
    <3> QED  BY <3>2
  <2> QED  BY <1>4, <2>1, <2>2 DEF Kind
<1> QED  BY <1>1, <1>2, <1>6, <1>7, <1>8, <1>9, <1>11, <1>12, <1>13, <1>14, <1>15, <1>16 DEF IInv

(* A worker adds an observation of the source it has in hand.              *)
LEMMA WorkAppend ==
    ASSUME IInv, NEW w \in Workers, NEW q \in Proc(env), NEW o \in Rec(env), NEW t, t = Append(obs, o),
           Created(o), Go(w, q), UNCHANGED <<env, cursor, proposals, lane, opened, ruled>>,
           proc[w].at # "idle", o.doc = proc[w].doc, q.at = "idle" \/ q.doc = proc[w].doc,
           RecordOK(t, Len(obs) + 1), RoomOK(t, room', ruled, opened),
           o.kind = "prep" => lane[o.draft] = Parts,
           o.kind = "decision" /\ o.by = "sensor" => w = "sensor" /\ NoDecision(obs, o.src, o.route),
           o.kind = "seed" => IsIntake(obs, o.src, o.doc) /\ o.draft = 0,
           o.kind = "seed" /\ o.doc \notin overlap => NoSeed(obs, o.src, o.route),
           o.kind \in {"content", "intake"} /\ o.doc \in Elems(env.feed) \ overlap =>
              \A i \in DOMAIN obs : ~ (obs[i].doc = o.doc /\ obs[i].kind = o.kind),
           ProcOK(env, t, lane, w, q), q.at # "create_decision",
           q.doc \notin overlap => Claim(t, proposals, q)
    PROVE  IInv'
<1>1. proc' = [proc EXCEPT ![w] = q] /\ overlap' = overlap /\ obs' = t /\ Len(obs) < MaxObs
  BY DEF Go, Created
<1>2. CursorOK'  BY CursorKeeps
<1>3. \A v \in Workers : v # w /\ q.at # "idle" /\ proc[v].at # "idle" /\ proc[v].doc = q.doc => q.doc \in overlap
  BY StaysAlone
<1>4. ASSUME NEW v \in Workers, v # w, proc[v].doc \notin overlap, Clash(obs, o, proc[v]) PROVE FALSE
  <2>1. ProcOK(env, obs, lane, v, proc[v])  BY DEF IInv, ProcsOK
  <2>2. proc[v].at # "idle" /\ proc[v].doc = o.doc
    <3>1. CASE proc[v].at = "create_seed" /\ o.kind = "seed" /\ o.src = proc[v].intake
      <4>1. IsIntake(obs, proc[v].intake, proc[v].doc)  BY <2>1, <3>1 DEF ProcOK, Drafting
      <4> QED  BY <3>1, <4>1 DEF IsIntake
    <3>2. CASE proc[v].at \in {"create_content", "create_intake"} /\ o.doc = proc[v].doc  BY <3>2
    <3> QED  BY <1>4, <3>1, <3>2 DEF Clash
  <2> QED  BY <1>4, <2>2 DEF IInv, Exclusive
<1>5. /\ overlap \subseteq overlap'
      /\ o.kind = "seed" /\ o.draft = 0 /\ o.doc \notin overlap' => NoSeed(obs, o.src, o.route)
      /\ o.kind \in {"content", "intake"} /\ o.doc \in Elems(env.feed) \ overlap' =>
            \A i \in DOMAIN obs : ~ (obs[i].doc = o.doc /\ obs[i].kind = o.kind)
      /\ \A v \in Workers : v # w /\ proc[v].doc \notin overlap' => ~ Clash(obs, o, proc[v])
      /\ \A v \in Workers : v # w /\ q.at # "idle" /\ proc[v].at # "idle" /\ proc[v].doc = q.doc =>
            q.doc \in overlap'
      /\ q.doc \notin overlap' => Claim(t, proposals, q)
  BY <1>1, <1>3, <1>4
<1> QED  BY <1>1, <1>2, <1>5, AppendKeeps

(* The invariant of a worker, before and after it adds an observation.     *)
LEMMA WorkerFacts ==
    ASSUME IInv, NEW w \in Workers
    PROVE  /\ env \in Environments /\ Records(env, obs) /\ obs \in Seq(Rec(env))
           /\ Len(obs) \in Nat /\ DOMAIN obs = 1 .. Len(obs) /\ RoomOK(obs, room, ruled, opened)
           /\ proc[w] \in Proc(env) /\ ProcOK(env, obs, lane, w, proc[w])
           /\ proc[w].again \in BOOLEAN /\ proc[w].part \in Nat
           /\ proc[w].doc \notin overlap => Claim(obs, proposals, proc[w])
           /\ proc[w].at = "create_decision" => NoDecision(obs, proc[w].intake, proc[w].route)
<1>1. proc[w] \in Proc(env) /\ ProcOK(env, obs, lane, w, proc[w]) /\ proc[w].again \in BOOLEAN /\ proc[w].part \in Nat
  BY ProcIs DEF IInv
<1>2. Records(env, obs)  BY DEF IInv
<1>3. obs \in Seq(Rec(env)) /\ Len(obs) \in Nat /\ DOMAIN obs = 1 .. Len(obs)  BY <1>2 DEF Records
<1> QED  BY <1>1, <1>2, <1>3 DEF IInv, Claims

LEMMA AppendFacts ==
    ASSUME IInv, NEW o \in Rec(env)
    PROVE  LET t == Append(obs, o) IN
           /\ DOMAIN t = DOMAIN obs \cup {Len(obs) + 1} /\ Len(obs) + 1 \notin DOMAIN obs
           /\ t[Len(obs) + 1] = o /\ Len(t) = Len(obs) + 1
           /\ \A i \in DOMAIN obs : t[i] = obs[i]
           /\ \A w \in Workers : ProcOK(env, t, lane, w, proc[w])
           /\ o.kind # "intake" => RoomOK(t, room, ruled, opened)
<1> DEFINE t == Append(obs, o)
<1>1. /\ Records(env, obs) /\ obs \in Seq(Rec(env)) /\ RoomOK(obs, room, ruled, opened)
  BY DEF IInv, Records
<1>2. /\ DOMAIN t = DOMAIN obs \cup {Len(obs) + 1} /\ Len(obs) + 1 \notin DOMAIN obs
      /\ t[Len(obs) + 1] = o /\ Len(t) = Len(obs) + 1 /\ Extends(obs, t) /\ Len(obs) \in Nat
      /\ \A i \in DOMAIN obs : t[i] = obs[i]
  BY <1>1, AppendIs DEF Extends
<1>3. ASSUME NEW w \in Workers PROVE ProcOK(env, t, lane, w, proc[w])
  <2>1. ProcOK(env, obs, lane, w, proc[w])  BY DEF IInv, ProcsOK
  <2>2. Len(t) \in Nat  BY <1>2
  <2> QED  BY <1>2, <2>1, <2>2, ProcKeeps
<1>4. o.kind # "intake" => RoomOK(t, room, ruled, opened)
  BY <1>1, RoomAppend
<1> QED  BY <1>2, <1>3, <1>4

LEMMA CreateContentKeeps == ASSUME IInv, NEW w \in Workers, CreateContent(w) PROVE IInv'
<1> DEFINE p == proc[w]
           o == ContentRecord(p.doc, w)
           n == Len(obs) + 1
           t == Append(obs, o)
           q == [p EXCEPT !.src = n, !.at = "find_intake"]
<1>1. /\ p.at = "create_content" /\ Created(o) /\ Go(w, q)
      /\ UNCHANGED <<env, cursor, proposals, lane, opened, ruled>> /\ room' = room
  BY DEF CreateContent, NextId
<1>2. /\ env \in Environments /\ Records(env, obs) /\ Len(obs) \in Nat /\ p \in Proc(env)
      /\ ProcOK(env, obs, lane, w, p) /\ p.again \in BOOLEAN
      /\ p.doc \notin overlap => Claim(obs, proposals, p)
  BY WorkerFacts
<1>3. p.doc \in Docs(env) /\ p.doc \in Elems(env.feed) /\ ~ p.again
  BY <1>1, <1>2 DEF ProcOK, Fetching, Drafting
<1>4. About[p.doc].hints \in SUBSET Routes  BY <1>2, <1>3, EnvFacts
<1>5. /\ o \in Rec(env) /\ o.kind = "content" /\ o.doc = p.doc /\ o.hints = About[p.doc].hints
      /\ o.src < n /\ o.draft < n /\ o.at <= n
  <2>1. /\ "content" \in Kinds /\ "green" \in Color /\ 0 \in 0 .. Len(obs)
        /\ NoRoute \in Routes \cup {NoRoute}
    BY <1>2 DEF Kinds, Color
  <2> HIDE DEF p
  <2> QED  BY <1>2, <1>3, <1>4, <2>1, ObservationIs DEF ContentRecord
<1> HIDE DEF o, p
<1>6. /\ DOMAIN t = DOMAIN obs \cup {n} /\ n \notin DOMAIN obs
      /\ t[n] = o /\ Len(t) = n /\ \A i \in DOMAIN obs : t[i] = obs[i]
      /\ ProcOK(env, t, lane, w, p) /\ RoomOK(t, room, ruled, opened)
  BY <1>5, AppendFacts DEF p
<1> HIDE DEF t
<1>7. RecordOK(t, n)  BY <1>5, <1>6 DEF RecordOK
<1>8. n \in Nat /\ n \in 0 .. Len(t)  BY <1>2, <1>6
<1> HIDE DEF n
<1>9. /\ q \in Proc(env) /\ q.at = "find_intake" /\ q.doc = p.doc /\ q.src = n /\ q.intake = p.intake
      /\ q.route = p.route /\ q.seed = p.seed /\ q.again = p.again
  BY <1>2, <1>8 DEF Proc, Steps, Fetching
<1> HIDE DEF q
<1>10. ProcOK(env, t, lane, w, q)
  BY <1>3, <1>5, <1>6, <1>8, <1>9 DEF ProcOK, Fetching, Routing, Drafting, Proposing, Preparing
<1>11. Claim(t, proposals, q)  BY <1>3, <1>9 DEF Claim
<1>12. o.doc \notin overlap => \A i \in DOMAIN obs : ~ (obs[i].doc = o.doc /\ obs[i].kind = o.kind)
  BY <1>1, <1>2, <1>5 DEF Claim
<1>13. proc[w].at # "idle" /\ o.doc = proc[w].doc /\ q.doc = proc[w].doc  BY <1>1, <1>5, <1>9 DEF p
<1>14. RecordOK(t, Len(obs) + 1) /\ t = Append(obs, o) /\ RoomOK(t, room', ruled, opened)
  BY <1>1, <1>6, <1>7 DEF n, t
<1> QED  BY <1>1, <1>5, <1>9, <1>10, <1>11, <1>12, <1>13, <1>14, WorkAppend

(* A new intake and the item it brings.                                    *)
LEMMA EnsuredKeeps ==
    ASSUME IInv, NEW o \in Rec(env), o.kind = "intake", NEW c \in BOOLEAN
    PROVE  RoomOK(Append(obs, o), Ensured(Suggestion(o, c)), ruled, opened)
<1> DEFINE t == Append(obs, o)
           n == Len(obs) + 1
           rn == Ensured(Suggestion(o, c))
<1>1. DOMAIN t = DOMAIN obs \cup {n} /\ t[n] = o  BY AppendFacts
<1>2. n \in Kind(t, "intake")  BY <1>1 DEF Kind
<1>3. ASSUME NEW x \in Suggestion(o, c) PROVE ItemOK(t, x) /\ x.ref = n
  <2>1. CASE x = RedItem(o, n)
    <3>1. x = [source |-> "red", ref |-> n, section |-> "open", text |-> RedText(o)]  BY <2>1 DEF RedItem
    <3> HIDE DEF n, t
    <3> QED  BY <1>1, <1>2, <3>1 DEF ItemOK
  <2>2. CASE x = [source |-> "route", ref |-> n, section |-> "open", text |-> <<"route", About[o.doc].title, {}>>]
    <3> HIDE DEF n, t
    <3> QED  BY <1>1, <1>2, <2>2 DEF ItemOK
  <2> QED  BY <1>3, <2>1, <2>2 DEF Suggestion, NextId
<1>4. room \subseteq rn /\ \A x \in rn \ room : ItemOK(t, x) /\ x.ref = n  BY <1>3 DEF Ensured
<1>5. o.color = "red" => \E x \in rn : x.text = RedText(o)
  <2> SUFFICES ASSUME o.color = "red" PROVE \E x \in rn : x.text = RedText(o)  OBVIOUS
  <2>1. Suggestion(o, c) = {RedItem(o, n)} /\ RedItem(o, n).text = RedText(o)
    BY DEF Suggestion, RedItem, NextId
  <2> QED  BY <2>1 DEF Ensured
<1>6. Records(env, obs) /\ RoomOK(obs, room, ruled, opened)  BY DEF IInv
<1> HIDE DEF rn
<1> QED  BY <1>4, <1>5, <1>6, RoomAppend DEF rn

LEMMA CreateIntakeKeeps == ASSUME IInv, NEW w \in Workers, CreateIntake(w) PROVE IInv'
<1> DEFINE p == proc[w]
           h == obs[p.src].hints
           c == ParsedColor(SensorColor(h), p.doc)
           o == Observation("intake", p.doc, normalizeRoutes(h), c, p.src, NoRoute, w, 0)
           n == Len(obs) + 1
           t == Append(obs, o)
           targets == AutoRouteTargets(p.src, p.doc)
           q == AfterIntake(p, w, n, targets)
<1>1. /\ p.at = "create_intake" /\ Created(o) /\ Go(w, q) /\ room' = Ensured(Suggestion(o, TRUE))
      /\ UNCHANGED <<env, cursor, proposals, lane, opened, ruled>>
  BY DEF CreateIntake, NextId
<1>2. /\ env \in Environments /\ Records(env, obs) /\ Len(obs) \in Nat /\ p \in Proc(env)
      /\ ProcOK(env, obs, lane, w, p) /\ p.again \in BOOLEAN /\ DOMAIN obs = 1 .. Len(obs)
      /\ p.doc \notin overlap => Claim(obs, proposals, p)
  BY WorkerFacts
<1>3. /\ p.doc \in Docs(env) /\ p.doc \in Elems(env.feed)
      /\ p.src \in DOMAIN obs /\ obs[p.src].doc = p.doc /\ obs[p.src].kind \in {"content", "intake"}
      /\ p.src \in 0 .. Len(obs)
  BY <1>1, <1>2 DEF ProcOK, Fetching
<1>4. /\ About[p.doc].hints \in SUBSET Routes /\ About[p.doc].color = "green" /\ Default \in Routes
      /\ About[p.doc].inner \in Color \cup {"none"}
  BY <1>2, <1>3, EnvFacts
<1>5. \A r \in targets : r \in Routes /\ Cue(p.doc, r)  BY <1>2, <1>3, TargetsFollow
<1>6. h = About[p.doc].hints \/ h = normalizeRoutes(About[p.doc].hints)
  <2>1. RecordOK(obs, p.src)  BY <1>2, <1>3 DEF Records
  <2> QED  BY <1>3, <2>1 DEF RecordOK
<1>7. c \in Color
  <2>1. SensorColor(h) \in Color  BY DEF SensorColor, Color
  <2> QED  BY <1>4, <2>1 DEF ParsedColor
<1> HIDE DEF p, h, c, targets
<1>8. normalizeRoutes(h) = normalizeRoutes(About[p.doc].hints) /\ normalizeRoutes(h) \in SUBSET Routes
  BY <1>4, <1>6 DEF normalizeRoutes
<1>9. /\ o \in Rec(env) /\ o.kind = "intake" /\ o.doc = p.doc /\ o.hints = normalizeRoutes(h)
      /\ o.src < n /\ o.draft < n /\ o.at <= n
  <2>1. "intake" \in Kinds /\ 0 \in 0 .. Len(obs) /\ NoRoute \in Routes \cup {NoRoute}
    BY <1>2 DEF Kinds
  <2> QED  BY <1>2, <1>3, <1>7, <1>8, <2>1, ObservationIs
<1> HIDE DEF o
<1>10. /\ DOMAIN t = DOMAIN obs \cup {n} /\ t[n] = o /\ Len(t) = n /\ ProcOK(env, t, lane, w, p)
  BY <1>9, AppendFacts DEF p
<1>11. RoomOK(t, room', ruled, opened)
  BY <1>1, <1>9, EnsuredKeeps
<1> HIDE DEF t
<1>12. RecordOK(t, n)  BY <1>4, <1>8, <1>9, <1>10 DEF RecordOK
<1>13. IsIntake(t, n, p.doc) /\ n \in Nat /\ DOMAIN t = 1 .. n
  BY <1>2, <1>9, <1>10 DEF IsIntake
<1>14. /\ Len(t) \in Nat /\ DOMAIN t = 1 .. Len(t) /\ p.at \in {"find_intake", "create_intake"}
       /\ q = AfterIntake(p, w, n, targets)
  BY <1>1, <1>10, <1>13
<1> HIDE DEF n, q
<1>15. /\ q \in Proc(env) /\ ProcOK(env, t, lane, w, q) /\ q.at # "create_decision"
       /\ q.at = "idle" \/ q.doc = p.doc
       /\ Claim(t, proposals, q)
  <2>1. p \in Proc(env) /\ ProcOK(env, t, lane, w, p) /\ IsIntake(t, n, p.doc)  BY <1>2, <1>10, <1>13
  <2> QED  BY <1>5, <1>14, <2>1, AfterIntakeIs
<1>16. o.doc \notin overlap => \A i \in DOMAIN obs : ~ (obs[i].doc = o.doc /\ obs[i].kind = o.kind)
  BY <1>1, <1>2, <1>9 DEF Claim, IsIntake
<1>17. proc[w].at # "idle" /\ o.doc = proc[w].doc /\ (q.at = "idle" \/ q.doc = proc[w].doc)
  BY <1>1, <1>9, <1>15 DEF p
<1>18. RecordOK(t, Len(obs) + 1) /\ t = Append(obs, o)
  BY <1>12 DEF n, t
<1> QED  BY <1>1, <1>9, <1>11, <1>15, <1>16, <1>17, <1>18, WorkAppend

LEMMA CreateDecisionKeeps == ASSUME IInv, NEW w \in Workers, CreateDecision(w) PROVE IInv'
<1> DEFINE p == proc[w]
           o == Observation("decision", p.doc, {}, "green", p.intake, p.route, w, 0)
           n == Len(obs) + 1
           t == Append(obs, o)
           q == [p EXCEPT !.at = "resolve_route"]
<1>1. /\ p.at = "create_decision" /\ Created(o) /\ Go(w, q) /\ room' = room
      /\ UNCHANGED <<env, cursor, proposals, lane, opened, ruled>>
  BY DEF CreateDecision
<1>2. /\ env \in Environments /\ Records(env, obs) /\ Len(obs) \in Nat /\ p \in Proc(env)
      /\ ProcOK(env, obs, lane, w, p) /\ p.again \in BOOLEAN
      /\ NoDecision(obs, p.intake, p.route)
  BY <1>1, WorkerFacts
<1>3. /\ p.doc \in Docs(env) /\ p.intake \in 0 .. Len(obs) /\ IsIntake(obs, p.intake, p.doc) /\ p.route \in Routes
      /\ w = "sensor" /\ Cue(p.doc, p.route) /\ ~ p.again
  BY <1>1, <1>2 DEF ProcOK, Routing, Drafting
<1> HIDE DEF p
<1>4. /\ o \in Rec(env) /\ o.kind = "decision" /\ o.doc = p.doc /\ o.src = p.intake /\ o.route = p.route
      /\ o.src < n /\ o.draft < n /\ o.at <= n
  <2>1. "decision" \in Kinds /\ "green" \in Color /\ 0 \in 0 .. Len(obs) /\ {} \in SUBSET Routes
    BY <1>2 DEF Kinds, Color
  <2> QED  BY <1>2, <1>3, <2>1, ObservationIs
<1> HIDE DEF o
<1>5. /\ DOMAIN t = DOMAIN obs \cup {n} /\ t[n] = o /\ \A i \in DOMAIN obs : t[i] = obs[i]
      /\ ProcOK(env, t, lane, w, p) /\ RoomOK(t, room, ruled, opened)
  BY <1>4, AppendFacts DEF p
<1> HIDE DEF t
<1>6. RecordOK(t, n)  BY <1>3, <1>4, <1>5 DEF RecordOK, IsIntake
<1>7. /\ q \in Proc(env) /\ q.at = "resolve_route" /\ q.doc = p.doc /\ q.src = p.src /\ q.intake = p.intake
      /\ q.route = p.route /\ q.seed = p.seed /\ q.again = p.again
  BY <1>2 DEF Proc, Steps, Routing
<1> HIDE DEF q
<1>8. ProcOK(env, t, lane, w, q)
  BY <1>1, <1>3, <1>5, <1>7 DEF ProcOK, Fetching, Routing, Drafting, Proposing, Preparing
<1>9. Claim(t, proposals, q)  BY <1>3, <1>7 DEF Claim
<1>10. proc[w].at # "idle" /\ o.doc = proc[w].doc /\ q.doc = proc[w].doc  BY <1>1, <1>4, <1>7 DEF p
<1>11. RecordOK(t, Len(obs) + 1) /\ t = Append(obs, o) /\ RoomOK(t, room', ruled, opened)
       /\ NoDecision(obs, o.src, o.route)
  BY <1>1, <1>2, <1>4, <1>5, <1>6 DEF n, t
<1> QED  BY <1>1, <1>3, <1>4, <1>7, <1>8, <1>9, <1>10, <1>11, WorkAppend

LEMMA CreateSeedKeeps == ASSUME IInv, NEW w \in Workers, CreateSeed(w) PROVE IInv'
<1> DEFINE p == proc[w]
           o == Observation("seed", p.doc, {}, "green", p.intake, p.route, w, 0)
           n == Len(obs) + 1
           t == Append(obs, o)
           x == IF p.again THEN p.seed ELSE n
           q == [p EXCEPT !.seed = x, !.at = "resolve_red"]
<1>1. /\ p.at = "create_seed" /\ Created(SeedRecord(p.intake, p.route, w, 0)) /\ Go(w, q) /\ room' = room
      /\ UNCHANGED <<env, cursor, proposals, lane, opened, ruled>>
  BY DEF CreateSeed, NextId
<1>2. /\ env \in Environments /\ Records(env, obs) /\ Len(obs) \in Nat /\ p \in Proc(env)
      /\ ProcOK(env, obs, lane, w, p) /\ p.again \in BOOLEAN
      /\ p.doc \notin overlap => Claim(obs, proposals, p)
  BY WorkerFacts
<1>3. /\ p.doc \in Docs(env) /\ p.intake \in 0 .. Len(obs) /\ p.seed \in 0 .. Len(obs)
      /\ IsIntake(obs, p.intake, p.doc) /\ p.route \in Routes
  BY <1>1, <1>2 DEF ProcOK, Drafting
<1>4. Created(o)  BY <1>1, <1>3 DEF SeedRecord, IsIntake
<1> HIDE DEF p
<1>5. /\ o \in Rec(env) /\ o.kind = "seed" /\ o.doc = p.doc /\ o.src = p.intake /\ o.route = p.route
      /\ o.draft = 0 /\ o.src < n /\ o.draft < n /\ o.at <= n /\ o.at = n
  <2>1. "seed" \in Kinds /\ "green" \in Color /\ 0 \in 0 .. Len(obs) /\ {} \in SUBSET Routes
    BY <1>2 DEF Kinds, Color
  <2> QED  BY <1>2, <1>3, <2>1, ObservationIs
<1> HIDE DEF o
<1>6. /\ DOMAIN t = DOMAIN obs \cup {n} /\ t[n] = o /\ \A i \in DOMAIN obs : t[i] = obs[i] /\ Len(t) = n
      /\ ProcOK(env, t, lane, w, p) /\ RoomOK(t, room, ruled, opened)
  BY <1>5, AppendFacts DEF p
<1> HIDE DEF t
<1>8. n \in Nat /\ n \in 0 .. Len(t) /\ p.seed \in Nat
  <2>1. n \in Nat  BY <1>2
  <2>2. Len(t) = n  BY <1>6
  <2> HIDE DEF n
  <2>3. n \in 0 .. Len(t)  BY <2>1, <2>2
  <2>4. p.seed \in Nat  BY <1>2, <1>3
  <2> QED  BY <2>1, <2>3, <2>4
<1> HIDE DEF n
<1>7. RecordOK(t, n)
  <2>1. IsIntake(t, o.src, o.doc)  BY <1>3, <1>5, <1>6 DEF IsIntake
  <2>2. o.route \in Routes  BY <1>3, <1>5
  <2> HIDE DEF o, p
  <2> QED  BY <1>5, <1>6, <2>1, <2>2 DEF RecordOK
<1>9. /\ x \in Nat /\ x \in 0 .. Len(t) /\ IsSeed(t, x, p.intake, p.route)
  <2>1. CASE p.again
    <3>1. x = p.seed /\ IsSeed(t, p.seed, p.intake, p.route) /\ p.seed \in 0 .. Len(t)
      BY <1>6, <2>1 DEF ProcOK
    <3> QED  BY <1>8, <3>1
  <2>2. CASE ~ p.again
    <3>1. x = n /\ IsSeed(t, n, p.intake, p.route)  BY <1>5, <1>6, <2>2 DEF IsSeed
    <3> QED  BY <1>8, <3>1
  <2> QED  BY <2>1, <2>2
<1> HIDE DEF x
<1>10. /\ q \in Proc(env) /\ q.at = "resolve_red" /\ q.doc = p.doc /\ q.src = p.src /\ q.intake = p.intake
       /\ q.route = p.route /\ q.seed = x /\ q.again = p.again
  BY <1>2, <1>9 DEF Proc, Steps, Proposing
<1> HIDE DEF q
<1>11. ProcOK(env, t, lane, w, q)
  BY <1>1, <1>2, <1>3, <1>6, <1>9, <1>10 DEF ProcOK, Fetching, Routing, Drafting, Proposing, Preparing
<1>12. q.doc \notin overlap => Claim(t, proposals, q)  BY <1>2, <1>10 DEF Claim
<1>13. o.doc \notin overlap => NoSeed(obs, o.src, o.route)  BY <1>1, <1>2, <1>5 DEF Claim
<1>14. proc[w].at # "idle" /\ o.doc = proc[w].doc /\ q.doc = proc[w].doc  BY <1>1, <1>5, <1>10 DEF p
<1>15. RecordOK(t, Len(obs) + 1) /\ t = Append(obs, o) /\ RoomOK(t, room', ruled, opened)
       /\ IsIntake(obs, o.src, o.doc)
  BY <1>1, <1>3, <1>5, <1>6, <1>7 DEF n, t
<1> QED  BY <1>1, <1>4, <1>5, <1>10, <1>11, <1>12, <1>13, <1>14, <1>15, WorkAppend

LEMMA CreatePrepKeeps == ASSUME IInv, NEW w \in Workers, CreatePrep(w) PROVE IInv'
<1> DEFINE p == proc[w]
           o == PrepRecord(p, w)
           n == Len(obs) + 1
           t == Append(obs, o)
           q == [p EXCEPT !.at = "clear_red"]
<1>1. /\ p.at = "create_prep" /\ Created(o) /\ Go(w, q) /\ room' = room
      /\ UNCHANGED <<env, cursor, proposals, lane, opened, ruled>>
  BY DEF CreatePrep
<1>2. /\ env \in Environments /\ Records(env, obs) /\ Len(obs) \in Nat /\ p \in Proc(env)
      /\ ProcOK(env, obs, lane, w, p) /\ p.again \in BOOLEAN
  BY WorkerFacts
<1>3. /\ p.doc \in Docs(env) /\ p.intake \in 0 .. Len(obs) /\ p.seed \in 0 .. Len(obs) /\ p.route \in Routes
      /\ IsIntake(obs, p.intake, p.doc) /\ IsSeed(obs, p.seed, p.intake, p.route)
      /\ lane[p.seed] = Parts /\ ~ p.again
  BY <1>1, <1>2 DEF ProcOK, Preparing, Drafting
<1> HIDE DEF p
<1>4. /\ o \in Rec(env) /\ o.kind = "prep" /\ o.doc = p.doc /\ o.src = p.intake /\ o.route = p.route
      /\ o.draft = p.seed /\ o.src < n /\ o.draft < n /\ o.at <= n
  <2>1. "prep" \in Kinds /\ "green" \in Color /\ {} \in SUBSET Routes
    BY DEF Kinds, Color
  <2> QED  BY <1>2, <1>3, <2>1, ObservationIs DEF PrepRecord
<1> HIDE DEF o
<1>5. /\ DOMAIN t = DOMAIN obs \cup {n} /\ t[n] = o /\ \A i \in DOMAIN obs : t[i] = obs[i]
      /\ ProcOK(env, t, lane, w, p) /\ RoomOK(t, room, ruled, opened)
  BY <1>4, AppendFacts DEF p
<1> HIDE DEF t
<1>6. RecordOK(t, n)  BY <1>3, <1>4, <1>5 DEF RecordOK, IsIntake, IsSeed
<1>7. /\ q \in Proc(env) /\ q.at = "clear_red" /\ q.doc = p.doc /\ q.src = p.src /\ q.intake = p.intake
      /\ q.route = p.route /\ q.seed = p.seed /\ q.again = p.again
  BY <1>2 DEF Proc, Steps, Preparing
<1> HIDE DEF q
<1>8. ProcOK(env, t, lane, w, q)
  BY <1>1, <1>3, <1>5, <1>7 DEF ProcOK, Fetching, Routing, Drafting, Proposing, Preparing
<1>9. Claim(t, proposals, q)  BY <1>3, <1>7 DEF Claim
<1>10. proc[w].at # "idle" /\ o.doc = proc[w].doc /\ q.doc = proc[w].doc  BY <1>1, <1>4, <1>7 DEF p
<1>11. RecordOK(t, Len(obs) + 1) /\ t = Append(obs, o) /\ RoomOK(t, room', ruled, opened)
       /\ lane[o.draft] = Parts
  BY <1>1, <1>3, <1>4, <1>5, <1>6 DEF n, t
<1> QED  BY <1>1, <1>4, <1>7, <1>8, <1>9, <1>10, <1>11, WorkAppend

(* An observation that comes from no worker: a drop or a revision.         *)
LEMMA SideAppend ==
    ASSUME IInv, NEW o \in Rec(env), NEW t, t = Append(obs, o), Created(o),
           UNCHANGED <<env, cursor, proposals, lane, proc, overlap, opened, ruled>>,
           RecordOK(t, Len(obs) + 1), RoomOK(t, room', ruled, opened),
           o.kind \in {"intake", "seed"}, o.kind = "seed" => o.draft # 0,
           o.kind = "intake" => o.doc \notin Elems(env.feed),
           \A v \in Workers : ~ Clash(obs, o, proc[v])
    PROVE  IInv'
<1> DEFINE w == "founder"
           q == proc[w]
<1>1. w \in Workers  BY DEF Workers
<1>2. /\ q \in Proc(env) /\ ProcOK(env, obs, lane, w, q) /\ env \in Environments /\ obs \in Seq(Rec(env))
      /\ q.doc \notin overlap => Claim(obs, proposals, q)
      /\ q.at = "create_decision" => NoDecision(obs, q.intake, q.route)
  BY <1>1, WorkerFacts
<1>3. ProcOK(env, t, lane, w, q)  BY <1>1, AppendFacts
<1>4. SeedLimit \in Nat /\ LookupLimit \in Nat  BY <1>2, EnvFacts
<1>5. ~ Clash(obs, o, q)  BY <1>1
<1>6. q.doc \notin overlap => Claim(t, proposals, q)
  <2> HIDE DEF q
  <2>1. q.at \in {"create_content", "create_intake"} => ~ (o.kind \in {"content", "intake"} /\ o.doc = q.doc)
    BY <1>5 DEF Clash
  <2>2. q.at = "create_seed" /\ o.kind = "seed" /\ o.src = q.intake /\ o.route = q.route =>
           \E i \in DOMAIN obs : IsSeed(obs, i, q.intake, q.route)
    BY <1>5 DEF Clash
  <2> QED  BY <1>2, <1>4, <2>1, <2>2, ClaimKeeps
<1>7. q.at = "create_decision" => NoDecision(t, q.intake, q.route)
  <2> HIDE DEF q
  <2> QED  BY <1>2, <1>4, NoDecisionKeeps
<1>8. proc' = [proc EXCEPT ![w] = q]
  <2>1. proc \in [Workers -> Proc(env)]  BY DEF IInv, ProcsOK
  <2> QED  BY <1>1, <2>1
<1>9. \A v \in Workers : v # w /\ q.at # "idle" /\ proc[v].at # "idle" /\ proc[v].doc = q.doc => q.doc \in overlap
  BY <1>1 DEF IInv, Exclusive
<1>10. CursorOK' /\ obs' = t /\ Len(obs) < MaxObs /\ overlap' = overlap  BY CursorKeeps DEF Created
<1> HIDE DEF q, w
<1>11. /\ overlap \subseteq overlap'
       /\ \A v \in Workers : v # w /\ proc[v].doc \notin overlap' => ~ Clash(obs, o, proc[v])
       /\ \A v \in Workers : v # w /\ q.at # "idle" /\ proc[v].at # "idle" /\ proc[v].doc = q.doc => q.doc \in overlap'
       /\ q.doc \notin overlap' => Claim(t, proposals, q)
  BY <1>6, <1>9, <1>10
<1>12. /\ o.kind = "prep" => lane[o.draft] = Parts
       /\ o.kind = "decision" /\ o.by = "sensor" => w = "sensor" /\ NoDecision(obs, o.src, o.route)
       /\ o.kind = "seed" /\ o.draft = 0 /\ o.doc \notin overlap' => NoSeed(obs, o.src, o.route)
       /\ o.kind \in {"content", "intake"} /\ o.doc \in Elems(env.feed) \ overlap' =>
             \A i \in DOMAIN obs : ~ (obs[i].doc = o.doc /\ obs[i].kind = o.kind)
  OBVIOUS
<1>13. UNCHANGED <<env, proposals, lane, opened, ruled>>  OBVIOUS
<1>14. q \in Proc(env)  BY <1>2
<1> QED  BY <1>1, <1>3, <1>7, <1>8, <1>10, <1>11, <1>12, <1>13, <1>14, AppendKeeps

LEMMA DropSourceKeeps == ASSUME IInv, NEW d \in env.drops, DropSource(d) PROVE IInv'
<1> DEFINE o == Dropped(d)
           n == Len(obs) + 1
           t == Append(obs, o)
           h == About[d].hints
           c == ParsedColor(About[d].color, d)
<1>1. /\ Created(o) /\ room' = Ensured(Suggestion(o, FALSE))
      /\ UNCHANGED <<env, cursor, proposals, lane, proc, overlap, opened, ruled>>
  BY DEF DropSource
<1>2. env \in Environments /\ Records(env, obs) /\ Len(obs) \in Nat  BY DEF IInv, Records
<1>3. d \in Docs(env) /\ d \notin Elems(env.feed)  BY <1>2, EnvFacts DEF Docs
<1>4. /\ h \in SUBSET Routes /\ About[d].color \in Color /\ Default \in Routes
      /\ About[d].inner \in Color \cup {"none"}
  BY <1>2, <1>3, EnvFacts
<1>5. c \in Color /\ normalizeRoutes(h) \in SUBSET Routes
      /\ (About[d].color = "red" /\ About[d].inner = "none" => c = "red")
  BY <1>4 DEF ParsedColor, normalizeRoutes
<1>6. o = Observation("intake", d, normalizeRoutes(h), c, 0, NoRoute, "founder", 0)  BY DEF Dropped
<1> HIDE DEF o, c, h
<1>7. /\ o \in Rec(env) /\ o.kind = "intake" /\ o.doc = d /\ o.hints = normalizeRoutes(h) /\ o.color = c
      /\ o.src < n /\ o.draft < n /\ o.at <= n
  <2>1. "intake" \in Kinds /\ 0 \in 0 .. Len(obs) /\ NoRoute \in Routes \cup {NoRoute} /\ "founder" \in Workers
    BY <1>2 DEF Kinds, Workers
  <2> QED  BY <1>2, <1>3, <1>5, <1>6, <2>1, ObservationIs
<1>8. t[n] = o  BY <1>7, AppendFacts
<1>9. RoomOK(t, room', ruled, opened)  BY <1>1, <1>7, EnsuredKeeps
<1> HIDE DEF t
<1>10. RecordOK(t, n)  BY <1>5, <1>7, <1>8 DEF RecordOK, h
<1>11. ASSUME NEW v \in Workers, Clash(obs, o, proc[v]) PROVE FALSE
  <2>1. ProcOK(env, obs, lane, v, proc[v])  BY DEF IInv, ProcsOK
  <2>2. proc[v].at \in {"create_content", "create_intake"} /\ proc[v].doc = d
    BY <1>7, <1>11 DEF Clash
  <2> QED  BY <1>3, <2>1, <2>2 DEF ProcOK, Fetching
<1>12. RecordOK(t, Len(obs) + 1) /\ t = Append(obs, o)  BY <1>10 DEF n, t
<1> QED  BY <1>1, <1>3, <1>7, <1>9, <1>11, <1>12, SideAppend

LEMMA ReviseDraftKeeps == ASSUME IInv, NEW id \in DOMAIN obs, ReviseDraft(id) PROVE IInv'
<1>1. PICK d, k, r : d = obs[id].doc /\ k = obs[id].src /\ r = obs[id].route  OBVIOUS
<1> DEFINE o == Observation("seed", d, {}, "green", k, r, "founder", id)
           n == Len(obs) + 1
           t == Append(obs, o)
<1>2. env \in Environments /\ Records(env, obs) /\ Len(obs) \in Nat /\ DOMAIN obs = 1 .. Len(obs)
  BY DEF IInv, Records
<1>3. obs[id].kind = "seed"  BY DEF ReviseDraft, Newest, Of
<1>4. IsIntake(obs, k, d) /\ IsSeed(obs, id, k, r) /\ d \in Docs(env) /\ r \in Routes /\ id # 0
      /\ k \in 0 .. Len(obs) /\ id \in 0 .. Len(obs)
  <2>1. RecordOK(obs, id) /\ obs[id].doc \in Docs(env)  BY <1>2, RecIs
  <2> QED  BY <1>1, <1>2, <1>3, <2>1 DEF RecordOK, IsIntake, IsSeed
<1>5. /\ Created(o) /\ room' = room /\ UNCHANGED <<env, cursor, proposals, lane, proc, overlap, opened, ruled>>
  BY <1>1, <1>4 DEF ReviseDraft, SeedRecord, ParsedSeed, IsIntake
<1>6. /\ o \in Rec(env) /\ o.kind = "seed" /\ o.doc = d /\ o.src = k /\ o.route = r /\ o.draft = id
      /\ o.src < n /\ o.draft < n /\ o.at <= n /\ o.at = n
  <2>1. "seed" \in Kinds /\ "green" \in Color /\ {} \in SUBSET Routes /\ "founder" \in Workers
    BY DEF Kinds, Color, Workers
  <2> QED  BY <1>2, <1>4, <2>1, ObservationIs
<1> HIDE DEF o
<1>7. /\ DOMAIN t = DOMAIN obs \cup {n} /\ t[n] = o /\ \A i \in DOMAIN obs : t[i] = obs[i]
      /\ RoomOK(t, room, ruled, opened)
  BY <1>6, AppendFacts
<1> HIDE DEF t
<1>8. RecordOK(t, n)  BY <1>4, <1>6, <1>7 DEF RecordOK, IsIntake, IsSeed
<1>9. ASSUME NEW v \in Workers, Clash(obs, o, proc[v]) PROVE FALSE
  BY <1>4, <1>6, <1>9 DEF Clash
<1>10. RecordOK(t, Len(obs) + 1) /\ t = Append(obs, o) /\ RoomOK(t, room', ruled, opened)
  BY <1>5, <1>7, <1>8 DEF n, t
<1> QED  BY <1>4, <1>5, <1>6, <1>9, <1>10, SideAppend

LEMMA RouteDecisionKeeps ==
    ASSUME IInv, NEW id \in DOMAIN obs, NEW r \in Routes, handleSourceRouteDecision(id, r)
    PROVE  IInv'
<1>1. PICK d : d = obs[id].doc  OBVIOUS
<1> DEFINE w == "founder"
           o == Observation("decision", d, {}, "green", id, r, w, 0)
           n == Len(obs) + 1
           t == Append(obs, o)
           q == [Idle EXCEPT !.doc = d, !.intake = id, !.route = r, !.at = "find_seed"]
<1>2. env \in Environments /\ Records(env, obs) /\ Len(obs) \in Nat /\ DOMAIN obs = 1 .. Len(obs)
      /\ RoomOK(obs, room, ruled, opened)
  BY DEF IInv, Records
<1>3. IsIntake(obs, id, d) /\ d \in Docs(env) /\ id \in 0 .. Len(obs) /\ id \in Nat
  <2>1. obs[id].kind = "intake"  BY DEF handleSourceRouteDecision, Newest, Of
  <2> QED  BY <1>1, <1>2, <2>1, RecIs DEF IsIntake
<1>4. /\ Created(o) /\ Start(w, q) /\ room' = room
      /\ UNCHANGED <<env, cursor, proposals, lane, opened, ruled>>
  BY <1>1 DEF handleSourceRouteDecision
<1>5. /\ o \in Rec(env) /\ o.kind = "decision" /\ o.doc = d /\ o.src = id /\ o.route = r /\ o.by = w
      /\ o.src < n /\ o.draft < n /\ o.at <= n
  <2>1. "decision" \in Kinds /\ "green" \in Color /\ {} \in SUBSET Routes /\ w \in Workers /\ 0 \in 0 .. Len(obs)
    BY <1>2 DEF Kinds, Color, Workers
  <2> QED  BY <1>2, <1>3, <2>1, ObservationIs
<1> HIDE DEF o
<1>6. /\ DOMAIN t = DOMAIN obs \cup {n} /\ t[n] = o /\ \A i \in DOMAIN obs : t[i] = obs[i] /\ Len(t) = n
      /\ RoomOK(t, room, ruled, opened)
  BY <1>5, AppendFacts
<1> HIDE DEF t
<1>7. RecordOK(t, n)  BY <1>3, <1>5, <1>6 DEF RecordOK, IsIntake
<1>8. /\ q \in Proc(env) /\ q.at = "find_seed" /\ q.doc = d /\ q.src = 0 /\ q.intake = id /\ q.route = r
      /\ q.seed = 0 /\ q.again = FALSE
  BY <1>3 DEF Idle, Proc, Steps, Drafting
<1>9. /\ proc' = [proc EXCEPT ![w] = q] /\ overlap \subseteq overlap' /\ w \in Workers
      /\ \A v \in Workers : v # w /\ q.at # "idle" /\ proc[v].at # "idle" /\ proc[v].doc = q.doc => q.doc \in overlap'
  BY <1>4, StartIs DEF Workers
<1> HIDE DEF q
<1>10. 0 \in 0 .. Len(t) /\ id \in 0 .. Len(t) /\ IsIntake(t, id, d)
  <2>1. IsIntake(t, id, d)  BY <1>3, <1>6 DEF IsIntake
  <2>2. Len(t) = Len(obs) + 1  BY <1>6
  <2>3. 0 \in 0 .. Len(t) /\ id \in 0 .. Len(t)  BY <1>2, <1>3, <2>2
  <2> QED  BY <2>1, <2>3
<1>11. ProcOK(env, t, lane, w, q)
  BY <1>3, <1>8, <1>10 DEF ProcOK, Fetching, Routing, Drafting, Proposing, Preparing
<1>12. Claim(t, proposals, q) /\ q.at # "create_decision"  BY <1>8 DEF Claim
<1>13. \A v \in Workers : ~ Clash(obs, o, proc[v])  BY <1>5 DEF Clash
<1>14. /\ RecordOK(t, Len(obs) + 1) /\ t = Append(obs, o) /\ RoomOK(t, room', ruled, opened)
       /\ o.kind \notin {"prep", "seed", "content", "intake"} /\ o.by # "sensor"
       /\ obs' = t /\ Len(obs) < MaxObs /\ CursorOK'
  BY <1>4, <1>5, <1>6, <1>7, CursorKeeps DEF n, t, Created
<1> HIDE DEF w
<1> QED  BY <1>4, <1>5, <1>8, <1>9, <1>11, <1>12, <1>13, <1>14, AppendKeeps
-----------------------------------------------------------------------------
(* A worker writes to the room, the proposals or the lanes.                *)
LEMMA WriteKeeps ==
    ASSUME IInv, NEW w \in Workers, NEW q \in Proc(env), Go(w, q), UNCHANGED <<env, cursor, obs, ruled>>,
           q.at = "idle" \/ (proc[w].at # "idle" /\ q.doc = proc[w].doc),
           RoomOK(obs, room', ruled, opened'), LanesOK(obs, lane'),
           ProposalsOK(obs, proposals'), OneProposal(obs, proposals', overlap),
           \A v \in Workers \ {w} : proc[v].at \in {"find_prep_obs", "create_prep"} /\ lane[proc[v].seed] = Parts =>
              lane'[proc[v].seed] = Parts,
           \A v \in Workers \ {w} : proc[v].doc \notin overlap => Claim(obs, proposals', proc[v]),
           ProcOK(env, obs, lane', w, q), q.at # "create_decision",
           q.doc \notin overlap => Claim(obs, proposals', q)
    PROVE  IInv'
<1>1. proc' = [proc EXCEPT ![w] = q] /\ overlap' = overlap  BY DEF Go
<1>2. env' = env /\ obs' = obs /\ ruled' = ruled /\ CursorOK'  BY CursorKeeps
<1>3. Records(env, obs) /\ ProcsOK(env, obs, lane, proc)  BY DEF IInv
<1>4. obs \in Seq(Rec(env)) /\ Len(obs) \in Nat  BY <1>3 DEF Records
<1>5. ProcsOK(env, obs, lane', proc')  BY <1>1, <1>3, <1>4, SameIs, ProcsKeep
<1>6. proc \in [Workers -> Proc(env)]  BY <1>3 DEF ProcsOK
<1>7. \A v \in Workers : v # w /\ q.at # "idle" /\ proc[v].at # "idle" /\ proc[v].doc = q.doc => q.doc \in overlap
  BY StaysAlone
<1>8. Exclusive(proc', overlap)  BY <1>1, <1>6, <1>7, ExclusiveKeeps DEF IInv
<1>9. Claims(obs, proposals', proc', overlap)
  <2>1. ASSUME NEW v \in Workers
        PROVE  /\ proc'[v].at = "create_decision" => NoDecision(obs, proc'[v].intake, proc'[v].route)
               /\ proc'[v].doc \notin overlap => Claim(obs, proposals', proc'[v])
    <3>1. CASE v = w
      <4>1. proc'[v] = q  BY <1>1, <1>6, <3>1
      <4> QED  BY <4>1
    <3>2. CASE v # w
      <4>1. proc'[v] = proc[v]  BY <1>1, <1>6, <3>2
      <4>2. proc[v].at = "create_decision" => NoDecision(obs, proc[v].intake, proc[v].route)
        BY DEF IInv, Claims
      <4> QED  BY <3>2, <4>1, <4>2
    <3> QED  BY <3>1, <3>2
  <2> QED  BY <2>1 DEF Claims
<1> QED  BY <1>1, <1>2, <1>5, <1>8, <1>9 DEF IInv

(* Items are taken from the room.  A red one goes when its source has a    *)
(* draft, so no red source loses its review; a lane that was opened has    *)
(* the item of its source taken.                                           *)
LEMMA ResolveKeeps ==
    ASSUME IInv, NEW src \in {"red", "route"}, NEW id, NEW op, op \subseteq Kind(obs, "seed"),
           src = "red" => \E k \in Kind(obs, "seed") : obs[k].src = id,
           \A i \in op : i \in opened \/ (src = "red" /\ obs[i].src = id)
    PROVE  RoomOK(obs, ResolveItems(src, id), ruled, op)
<1> DEFINE rn == ResolveItems(src, id)
<1>1. RoomOK(obs, room, ruled, opened)  BY DEF IInv
<1>2. rn \subseteq room /\ \A x \in room \ rn : x.section = "open" /\ x.source = src /\ x.ref = id
  BY DEF ResolveItems
<1>3. \A x \in rn : ~ (x.section = "open" /\ x.source = src /\ x.ref = id)  BY DEF ResolveItems
<1> HIDE DEF rn
<1>4. \A x \in rn : ItemOK(obs, x)  BY <1>1, <1>2 DEF RoomOK
<1>5. Reviewed(obs, rn, ruled)
  <2> SUFFICES ASSUME NEW i \in Kind(obs, "intake"), obs[i].color = "red", RedText(obs[i]) \notin ruled,
                      \A k \in Kind(obs, "seed") : RedText(obs[obs[k].src]) # RedText(obs[i])
               PROVE  \E x \in rn : x.text = RedText(obs[i])
    BY DEF Reviewed
  <2>1. PICK x \in room : x.text = RedText(obs[i])  BY <1>1 DEF RoomOK, Reviewed
  <2>2. ASSUME x \notin rn PROVE FALSE
    <3>1. x.source = src /\ x.ref = id  BY <1>2, <2>2
    <3>2. ItemOK(obs, x)  BY <1>1 DEF RoomOK
    <3>3. CASE src = "red"
      <4>1. x.text = RedText(obs[id])  BY <3>1, <3>2, <3>3 DEF ItemOK
      <4> QED  BY <2>1, <3>3, <4>1
    <3>4. CASE src = "route"
      <4>1. x.text[1] = "route"  BY <3>1, <3>2, <3>4 DEF ItemOK
      <4>2. RedText(obs[i])[1] = "red"  BY DEF RedText
      <4> QED  BY <2>1, <4>1, <4>2
    <3> QED  BY <3>3, <3>4
  <2> QED  BY <2>1, <2>2
<1>6. Cleared(obs, rn, op)  BY <1>1, <1>2, <1>3 DEF RoomOK, Cleared
<1>7. RoomOK(obs, rn, ruled, op)  BY <1>4, <1>5, <1>6 DEF RoomOK
<1> QED  BY <1>7 DEF rn

(* A step that writes to the room only.                                    *)
LEMMA RoomStepKeeps ==
    ASSUME IInv, NEW w \in Workers, NEW q \in Proc(env), Go(w, q),
           UNCHANGED <<env, cursor, obs, proposals, lane, ruled>>,
           q.at = "idle" \/ (proc[w].at # "idle" /\ q.doc = proc[w].doc),
           RoomOK(obs, room', ruled, opened'), ProcOK(env, obs, lane, w, q), q.at # "create_decision",
           q.doc \notin overlap => Claim(obs, proposals, q)
    PROVE  IInv'
<1>1. lane' = lane /\ proposals' = proposals /\ UNCHANGED <<env, cursor, obs, ruled>>  OBVIOUS
<1>2. LanesOK(obs, lane) /\ ProposalsOK(obs, proposals) /\ OneProposal(obs, proposals, overlap)  BY DEF IInv
<1>3. \A v \in Workers \ {w} : proc[v].doc \notin overlap => Claim(obs, proposals, proc[v])  BY DEF IInv, Claims
<1>4. /\ LanesOK(obs, lane') /\ ProposalsOK(obs, proposals') /\ OneProposal(obs, proposals', overlap)
      /\ \A v \in Workers \ {w} : proc[v].at \in {"find_prep_obs", "create_prep"} /\ lane[proc[v].seed] = Parts =>
            lane'[proc[v].seed] = Parts
      /\ \A v \in Workers \ {w} : proc[v].doc \notin overlap => Claim(obs, proposals', proc[v])
      /\ ProcOK(env, obs, lane', w, q)
      /\ q.doc \notin overlap => Claim(obs, proposals', q)
  BY <1>1, <1>2, <1>3
<1> QED  BY <1>1, <1>4, WriteKeeps

LEMMA ResolveRouteKeeps == ASSUME IInv, NEW w \in Workers, ResolveRoute(w) PROVE IInv'
<1> DEFINE p == proc[w]
           q == [p EXCEPT !.at = "find_seed"]
<1>1. /\ p.at = "resolve_route" /\ room' = ResolveItems("route", p.intake) /\ Go(w, q)
      /\ UNCHANGED <<env, cursor, obs, proposals, lane, ruled>> /\ opened' = opened
  BY DEF ResolveRoute
<1>2. p \in Proc(env) /\ ProcOK(env, obs, lane, w, p) /\ p.again \in BOOLEAN  BY WorkerFacts
<1>3. ~ p.again  BY <1>1, <1>2 DEF ProcOK, Drafting
<1>4. opened \subseteq Kind(obs, "seed")  BY DEF IInv, RoomOK, Cleared
<1>5. RoomOK(obs, room', ruled, opened')  BY <1>1, <1>4, ResolveKeeps
<1> HIDE DEF p
<1>6. /\ q \in Proc(env) /\ q.at = "find_seed" /\ q.doc = p.doc /\ q.src = p.src /\ q.intake = p.intake
      /\ q.route = p.route /\ q.seed = p.seed /\ q.again = p.again
  BY <1>2 DEF Proc, Steps, Drafting
<1> HIDE DEF q
<1>7. ProcOK(env, obs, lane, w, q)
  BY <1>1, <1>2, <1>3, <1>6 DEF ProcOK, Fetching, Routing, Drafting, Proposing, Preparing
<1>8. Claim(obs, proposals, q)  BY <1>3, <1>6 DEF Claim
<1>9. proc[w].at # "idle" /\ q.doc = proc[w].doc /\ q.at # "create_decision"  BY <1>1, <1>6 DEF p
<1> QED  BY <1>1, <1>5, <1>6, <1>7, <1>8, <1>9, RoomStepKeeps

LEMMA ResolveRedKeeps == ASSUME IInv, NEW w \in Workers, ResolveRed(w) PROVE IInv'
<1> DEFINE p == proc[w]
           a == IF p.again THEN "create_proposal" ELSE "find_proposal"
           q == [p EXCEPT !.at = a]
<1>1. /\ p.at = "resolve_red" /\ room' = ResolveItems("red", p.intake) /\ Go(w, q)
      /\ UNCHANGED <<env, cursor, obs, proposals, lane, ruled>> /\ opened' = opened
  BY DEF ResolveRed
<1>2. /\ p \in Proc(env) /\ ProcOK(env, obs, lane, w, p) /\ p.again \in BOOLEAN
      /\ p.doc \notin overlap => Claim(obs, proposals, p)
  BY WorkerFacts
<1>3. IsSeed(obs, p.seed, p.intake, p.route)  BY <1>1, <1>2 DEF ProcOK, Proposing
<1>4. opened \subseteq Kind(obs, "seed") /\ \E k \in Kind(obs, "seed") : obs[k].src = p.intake
  BY <1>3 DEF IInv, RoomOK, Cleared, IsSeed, Kind
<1>5. RoomOK(obs, room', ruled, opened')  BY <1>1, <1>4, ResolveKeeps
<1> HIDE DEF p
<1>6. a \in {"create_proposal", "find_proposal"} /\ (a = "create_proposal" <=> p.again)  BY <1>2
<1> HIDE DEF a
<1>7. /\ q \in Proc(env) /\ q.at = a /\ q.doc = p.doc /\ q.src = p.src /\ q.intake = p.intake
      /\ q.route = p.route /\ q.seed = p.seed /\ q.again = p.again
  BY <1>2, <1>6 DEF Proc, Steps, Proposing
<1> HIDE DEF q
<1>8. ProcOK(env, obs, lane, w, q)
  BY <1>1, <1>2, <1>6, <1>7 DEF ProcOK, Fetching, Routing, Drafting, Proposing, Preparing
<1>9. q.doc \notin overlap => Claim(obs, proposals, q)  BY <1>2, <1>6, <1>7 DEF Claim
<1>10. proc[w].at # "idle" /\ q.doc = proc[w].doc /\ q.at # "create_decision"  BY <1>1, <1>6, <1>7 DEF p
<1> QED  BY <1>1, <1>5, <1>7, <1>8, <1>9, <1>10, RoomStepKeeps

LEMMA ClearRedKeeps == ASSUME IInv, NEW w \in Workers, ClearRed(w) PROVE IInv'
<1> DEFINE p == proc[w]
<1>1. /\ p.at = "clear_red" /\ room' = ResolveItems("red", p.intake) /\ Go(w, Idle)
      /\ UNCHANGED <<env, cursor, obs, proposals, lane, ruled>>
      /\ opened' \subseteq opened \cup {p.seed}
  BY DEF ClearRed
<1>2. p \in Proc(env) /\ ProcOK(env, obs, lane, w, p) /\ Len(obs) \in Nat  BY WorkerFacts
<1>3. IsSeed(obs, p.seed, p.intake, p.route)  BY <1>1, <1>2 DEF ProcOK, Preparing
<1>4. /\ p.seed \in Kind(obs, "seed") /\ obs[p.seed].src = p.intake
      /\ opened \subseteq Kind(obs, "seed")
  BY <1>3 DEF IInv, RoomOK, Cleared, IsSeed, Kind
<1>5. /\ opened' \subseteq Kind(obs, "seed")
      /\ \A i \in opened' : i \in opened \/ obs[i].src = p.intake
      /\ \E k \in Kind(obs, "seed") : obs[k].src = p.intake
  BY <1>1, <1>4
<1>6. RoomOK(obs, room', ruled, opened')  BY <1>1, <1>5, ResolveKeeps
<1>7. /\ Idle \in Proc(env) /\ ProcOK(env, obs, lane, w, Idle) /\ Idle.at = "idle"
      /\ Claim(obs, proposals, Idle)
  BY <1>2, IdleIs
<1> HIDE DEF Idle, p
<1> QED  BY <1>1, <1>6, <1>7, RoomStepKeeps

(* A proposal: nobody else waits to make the same one, unless it shares    *)
(* the source.                                                             *)
LEMMA CreateProposalKeeps == ASSUME IInv, NEW w \in Workers, CreateProposal(w) PROVE IInv'
<1> DEFINE p == proc[w]
           k == <<p.intake, p.route>>
           more == [proposals EXCEPT ![k] = @ + 1]
<1>1. /\ p.at = "create_proposal" /\ UNCHANGED <<env, cursor, obs, ruled>>
      /\ room' = room /\ lane' = lane /\ opened' = opened
      /\ \/ proposals' = more /\ Go(w, AfterProposal(p, w))
         \/ proposals' = proposals /\ Go(w, Idle)
  BY DEF CreateProposal
<1>2. /\ p \in Proc(env) /\ ProcOK(env, obs, lane, w, p) /\ p.again \in BOOLEAN /\ Len(obs) \in Nat
      /\ p.doc \notin overlap => Claim(obs, proposals, p)
      /\ RoomOK(obs, room, ruled, opened) /\ Records(env, obs)
  BY WorkerFacts
<1>3. IsIntake(obs, p.intake, p.doc) /\ p.route \in Routes /\ p.again
  BY <1>1, <1>2 DEF ProcOK, Proposing
<1>4. /\ LanesOK(obs, lane) /\ ProposalsOK(obs, proposals) /\ OneProposal(obs, proposals, overlap)
      /\ RoomOK(obs, room', ruled, opened') /\ LanesOK(obs, lane')
      /\ \A v \in Workers \ {w} : proc[v].at \in {"find_prep_obs", "create_prep"} /\ lane[proc[v].seed] = Parts =>
            lane'[proc[v].seed] = Parts
      /\ \A v \in Workers : proc[v].doc \notin overlap => Claim(obs, proposals, proc[v])
  BY <1>1, <1>2 DEF IInv, Claims
<1>5. CASE proposals' = proposals /\ Go(w, Idle)
  <2>1. /\ Idle \in Proc(env) /\ ProcOK(env, obs, lane, w, Idle) /\ Idle.at = "idle"
        /\ Claim(obs, proposals, Idle)
    BY <1>2, IdleIs
  <2>2. /\ ProposalsOK(obs, proposals') /\ OneProposal(obs, proposals', overlap)
        /\ \A v \in Workers \ {w} : proc[v].doc \notin overlap => Claim(obs, proposals', proc[v])
        /\ ProcOK(env, obs, lane', w, Idle) /\ Claim(obs, proposals', Idle)
    BY <1>1, <1>4, <1>5, <2>1
  <2> HIDE DEF Idle
  <2> QED  BY <1>1, <1>4, <1>5, <2>1, <2>2, WriteKeeps
<1>6. CASE proposals' = more /\ Go(w, AfterProposal(p, w))
  <2> DEFINE q == AfterProposal(p, w)
  <2>1. p.intake \in 1 .. MaxObs /\ p.intake \in 1 .. Len(obs)
    BY <1>2, <1>3, RecIs DEF IsIntake
  <2>2. proposals \in [(1 .. MaxObs) \X Routes -> Nat] /\ k \in (1 .. MaxObs) \X Routes
    BY <1>3, <1>4, <2>1 DEF ProposalsOK
  <2>3. /\ more \in [(1 .. MaxObs) \X Routes -> Nat] /\ more[k] = proposals[k] + 1
        /\ \A j \in (1 .. MaxObs) \X Routes : j # k => more[j] = proposals[j]
    <3> HIDE DEF k
    <3> QED  BY <2>2
  <2>4. ASSUME NEW i, NEW r, <<i, r>> = k PROVE i = p.intake /\ r = p.route
    BY <2>4
  <2>5. ProposalsOK(obs, more)
    <3>1. ASSUME NEW i \in 1 .. MaxObs, NEW r \in Routes, i > Len(obs) PROVE more[<<i, r>>] = 0
      <4>1. proposals[<<i, r>>] = 0  BY <1>4, <3>1 DEF ProposalsOK
      <4>2. i # p.intake  BY <1>2, <2>1, <3>1
      <4>3. <<i, r>> # k  BY <2>4, <4>2
      <4>4. <<i, r>> \in (1 .. MaxObs) \X Routes  OBVIOUS
      <4> HIDE DEF more, k
      <4> QED  BY <2>3, <4>1, <4>3, <4>4
    <3> QED  BY <2>3, <3>1 DEF ProposalsOK
  <2>6. p.doc \notin overlap => proposals[k] = 0  BY <1>2, <1>3 DEF Claim
  <2>7. OneProposal(obs, more, overlap)
    <3> SUFFICES ASSUME NEW i \in Kind(obs, "intake"), NEW r \in Routes, obs[i].doc \notin overlap
                 PROVE  more[<<i, r>>] <= 1
      BY DEF OneProposal
    <3>1. i \in 1 .. MaxObs  BY <1>2, RecIs DEF Kind
    <3>2. proposals[<<i, r>>] <= 1  BY <1>4 DEF OneProposal
    <3>3. CASE <<i, r>> = k
      <4>1. i = p.intake  BY <2>4, <3>3
      <4>2. obs[i].doc = p.doc  BY <1>3, <4>1 DEF IsIntake
      <4>3. proposals[k] = 0  BY <2>6, <4>2
      <4> HIDE DEF more, k
      <4> QED  BY <2>3, <3>3, <4>3
    <3>4. CASE <<i, r>> # k
      <4>1. <<i, r>> \in (1 .. MaxObs) \X Routes  BY <3>1
      <4> HIDE DEF more, k
      <4> QED  BY <2>3, <3>2, <3>4, <4>1
    <3> QED  BY <3>3, <3>4
  <2>8. ASSUME NEW v \in Workers \ {w}, proc[v].doc \notin overlap PROVE Claim(obs, more, proc[v])
    <3> DEFINE u == proc[v]
               j == <<u.intake, u.route>>
    <3>1. Claim(obs, proposals, u)  BY <1>4, <2>8
    <3>2. ASSUME u.again PROVE more[j] = 0
      <4>1. ProcOK(env, obs, lane, v, u)  BY WorkerFacts
      <4>2. /\ IsIntake(obs, u.intake, u.doc) /\ u.route \in Routes /\ u.at # "idle"
        BY <3>2, <4>1 DEF ProcOK, Drafting, Proposing
      <4>3. u.intake \in 1 .. MaxObs  BY <1>2, <4>2, RecIs DEF IsIntake
      <4>4. proposals[j] = 0  BY <3>1, <3>2 DEF Claim
      <4>5. ASSUME j = k PROVE FALSE
        <5>1. u.intake = p.intake  BY <2>4, <4>5
        <5>2. u.doc = p.doc  BY <1>3, <4>2, <5>1 DEF IsIntake
        <5> QED  BY <1>1, <2>8, <4>2, <5>2 DEF IInv, Exclusive
      <4>6. j \in (1 .. MaxObs) \X Routes  BY <4>2, <4>3
      <4> HIDE DEF more, k, j
      <4> QED  BY <2>3, <4>4, <4>5, <4>6
    <3> HIDE DEF more, u
    <3>3. u.again => more[<<u.intake, u.route>>] = 0  BY <3>2
    <3>4. Claim(obs, more, u)  BY <3>1, <3>3 DEF Claim
    <3> QED  BY <3>4 DEF u
  <2>9. /\ q \in Proc(env) /\ ProcOK(env, obs, lane, w, q) /\ q.at # "create_decision"
        /\ q.at = "idle" \/ q.doc = p.doc
        /\ \A pr : Claim(obs, pr, q)
    <3> HIDE DEF p
    <3> QED  BY <1>1, <1>2, AfterProposalIs
  <2> HIDE DEF q, more
  <2>10. /\ ProposalsOK(obs, proposals') /\ OneProposal(obs, proposals', overlap)
         /\ \A v \in Workers \ {w} : proc[v].doc \notin overlap => Claim(obs, proposals', proc[v])
         /\ ProcOK(env, obs, lane', w, q) /\ Claim(obs, proposals', q)
         /\ q.at = "idle" \/ (proc[w].at # "idle" /\ q.doc = proc[w].doc)
    BY <1>1, <1>6, <2>5, <2>7, <2>8, <2>9
  <2>11. Go(w, q)  BY <1>6 DEF q
  <2> QED  BY <1>1, <1>4, <2>9, <2>10, <2>11, WriteKeeps
<1> QED  BY <1>1, <1>5, <1>6

(* Lanes are only raised, so what others know of them stays true.          *)
LEMMA CreatePartIs ==
    ASSUME IInv, NEW w \in Workers, CreatePart(w)
    PROVE  /\ LanesOK(obs, lane')
           /\ \A k \in 1 .. MaxObs : lane'[k] >= lane[k]
           /\ proc[w].part \in 1 .. Parts /\ proc[w].seed \in 1 .. MaxObs
<1> DEFINE p == proc[w]
<1>1. p.at = "create_part"  BY DEF CreatePart
<1>2. p \in Proc(env) /\ ProcOK(env, obs, lane, w, p) /\ p.part \in Nat  BY WorkerFacts
<1>3. p.part \in 1 .. Parts /\ p.seed \in DOMAIN obs
  BY <1>1, <1>2 DEF ProcOK, Preparing, IsSeed
<1>4. p.seed \in 1 .. MaxObs  BY <1>3, RecIs DEF IInv
<1>5. LanesOK(obs, lane) /\ lane \in [1 .. MaxObs -> 0 .. Parts]  BY DEF IInv, LanesOK
<1>6. \A k \in 1 .. MaxObs : lane[k] \in 0 .. Parts /\ lane[k] <= Parts /\ lane[k] \in Nat  BY <1>5 DEF Parts
<1>7. CASE lane' = lane  BY <1>3, <1>4, <1>5, <1>6, <1>7
<1>8. CASE lane' = [lane EXCEPT ![p.seed] = p.part] /\ ~ (lane[p.seed] >= p.part /\ p.part < Parts)
  <2> HIDE DEF p
  <2>1. /\ lane' \in [1 .. MaxObs -> 0 .. Parts] /\ lane'[p.seed] = p.part
        /\ \A k \in 1 .. MaxObs : k # p.seed => lane'[k] = lane[k]
    BY <1>3, <1>4, <1>5, <1>8 DEF Parts
  <2>2. p.part >= lane[p.seed]  BY <1>3, <1>4, <1>6, <1>8 DEF Parts
  <2>3. ASSUME NEW k \in 1 .. MaxObs PROVE lane'[k] >= lane[k]
    <3>1. CASE k = p.seed  BY <2>1, <2>2, <3>1
    <3>2. CASE k # p.seed  BY <1>6, <2>1, <3>2
    <3> QED  BY <3>1, <3>2
  <2>4. ASSUME NEW i \in Kind(obs, "prep") PROVE lane'[obs[i].draft] = Parts
    <3>1. lane[obs[i].draft] = Parts  BY <1>5, <2>4 DEF LanesOK
    <3>2. obs[i].draft \in 1 .. MaxObs
      <4>1. i \in DOMAIN obs /\ obs[i].kind = "prep"  BY <2>4 DEF Kind
      <4>2. obs[i].draft \in DOMAIN obs  BY <4>1 DEF IInv, Records, RecordOK, IsSeed
      <4> QED  BY <4>2, RecIs DEF IInv
    <3>3. lane'[obs[i].draft] \in 0 .. Parts  BY <2>1, <3>2
    <3> QED  BY <2>3, <3>1, <3>2, <3>3 DEF Parts
  <2>5. LanesOK(obs, lane')  BY <2>1, <2>4 DEF LanesOK
  <2> QED  BY <1>3, <1>4, <2>3, <2>5 DEF p
<1> QED  BY <1>7, <1>8 DEF CreatePart, LaneOf

LEMMA CreatePartKeeps == ASSUME IInv, NEW w \in Workers, CreatePart(w) PROVE IInv'
<1> DEFINE p == proc[w]
           q == IF p.part = Parts THEN [p EXCEPT !.at = "find_prep_obs"]
                ELSE [p EXCEPT !.part = @ + 1, !.at = "find_part"]
<1>1. /\ p.at = "create_part" /\ UNCHANGED <<env, cursor, obs, ruled>>
      /\ room' = room /\ proposals' = proposals /\ opened' = opened
      /\ Go(w, Idle) \/ (lane' = [lane EXCEPT ![p.seed] = p.part] /\ Go(w, q))
  BY DEF CreatePart
<1>2. /\ p \in Proc(env) /\ ProcOK(env, obs, lane, w, p) /\ p.again \in BOOLEAN /\ p.part \in Nat
      /\ Len(obs) \in Nat /\ RoomOK(obs, room, ruled, opened) /\ Records(env, obs)
  BY WorkerFacts
<1>3. /\ LanesOK(obs, lane') /\ \A k \in 1 .. MaxObs : lane'[k] >= lane[k]
      /\ p.part \in 1 .. Parts /\ p.seed \in 1 .. MaxObs
  BY CreatePartIs
<1>4. /\ lane \in [1 .. MaxObs -> 0 .. Parts] /\ lane' \in [1 .. MaxObs -> 0 .. Parts]
  BY <1>3 DEF IInv, LanesOK
<1>5. ASSUME NEW k \in 1 .. MaxObs, lane[k] = Parts PROVE lane'[k] = Parts
  <2>1. lane'[k] \in 0 .. Parts /\ lane'[k] >= lane[k]  BY <1>3, <1>4
  <2> QED  BY <1>5, <2>1 DEF Parts
<1>6. ASSUME NEW v \in Workers, proc[v].at \in {"find_prep_obs", "create_prep"} PROVE proc[v].seed \in 1 .. MaxObs
  <2>1. ProcOK(env, obs, lane, v, proc[v])  BY WorkerFacts
  <2>2. proc[v].seed \in DOMAIN obs  BY <1>6, <2>1 DEF ProcOK, Preparing, IsSeed
  <2> QED  BY <1>2, <2>2, RecIs
<1>7. /\ \A v \in Workers \ {w} : proc[v].at \in {"find_prep_obs", "create_prep"} /\ lane[proc[v].seed] = Parts =>
            lane'[proc[v].seed] = Parts
      /\ RoomOK(obs, room', ruled, opened')
      /\ ProposalsOK(obs, proposals') /\ OneProposal(obs, proposals', overlap)
      /\ \A v \in Workers \ {w} : proc[v].doc \notin overlap => Claim(obs, proposals', proc[v])
  BY <1>1, <1>2, <1>5, <1>6 DEF IInv, Claims
<1>8. CASE Go(w, Idle)
  <2>1. /\ Idle \in Proc(env) /\ ProcOK(env, obs, lane', w, Idle) /\ Idle.at = "idle"
        /\ Claim(obs, proposals', Idle)
    BY <1>2, IdleIs
  <2> HIDE DEF Idle
  <2> QED  BY <1>1, <1>3, <1>7, <1>8, <2>1, WriteKeeps
<1>9. CASE lane' = [lane EXCEPT ![p.seed] = p.part] /\ Go(w, q)
  <2>1. lane'[p.seed] = p.part  BY <1>3, <1>4, <1>9
  <2>2. ~ p.again  BY <1>1, <1>2 DEF ProcOK, Drafting
  <2> HIDE DEF p
  <2>3. /\ q \in Proc(env) /\ q.at \in {"find_prep_obs", "find_part"} /\ q.doc = p.doc /\ q.src = p.src
        /\ q.intake = p.intake /\ q.route = p.route /\ q.seed = p.seed /\ q.again = p.again
        /\ q.at = "find_prep_obs" => p.part = Parts
        /\ q.at = "find_part" => p.part # Parts /\ q.part = p.part + 1
    <3>1. CASE p.part = Parts
      <4>1. q = [p EXCEPT !.at = "find_prep_obs"]  BY <3>1
      <4> HIDE DEF q
      <4> QED  BY <1>2, <3>1, <4>1 DEF Proc, Steps, Preparing
    <3>2. CASE p.part # Parts
      <4>1. q = [p EXCEPT !.part = p.part + 1, !.at = "find_part"]  BY <1>2, <3>2 DEF Proc
      <4>2. p.part + 1 \in Nat  BY <1>2
      <4> HIDE DEF q
      <4> QED  BY <1>2, <3>2, <4>1, <4>2 DEF Proc, Steps, Preparing
    <3> QED  BY <3>1, <3>2
  <2> HIDE DEF q
  <2>4. q.at = "find_part" => q.part \in 1 .. Parts  BY <1>3, <2>3 DEF Parts
  <2>5. ProcOK(env, obs, lane', w, q)
    BY <1>1, <1>2, <2>1, <2>2, <2>3, <2>4 DEF ProcOK, Fetching, Routing, Drafting, Proposing, Preparing
  <2>6. Claim(obs, proposals', q) /\ q.at # "create_decision"  BY <2>2, <2>3 DEF Claim
  <2>7. proc[w].at # "idle" /\ q.doc = proc[w].doc  BY <1>1, <2>3 DEF p
  <2> QED  BY <1>1, <1>3, <1>7, <1>9, <2>3, <2>5, <2>6, <2>7, WriteKeeps
<1> QED  BY <1>1, <1>8, <1>9

(* The founder files or resolves an item.                                  *)
LEMMA FileItemKeeps == ASSUME IInv, NEW x \in room, FileItem(x) PROVE IInv'
<1> DEFINE y == [x EXCEPT !.section = "filed"]
<1>1. /\ UNCHANGED <<env, cursor, obs, proposals, lane, proc, overlap, opened>>
      /\ \/ room' = (room \ {x}) \cup {y} /\ ruled' = ruled
         \/ room' = room \ {x} /\ ruled' = ruled \cup {x.text}
  BY DEF FileItem
<1>2. RoomOK(obs, room, ruled, opened)  BY DEF IInv
<1>3. ItemOK(obs, x)  BY <1>2 DEF RoomOK
<1>4. ItemOK(obs, y) /\ y.section = "filed" /\ y.text = x.text
  <2>1. x \in [source : {"red", "route"}, ref : Kind(obs, "intake"), section : {"open", "filed"}, text : {x.text}]
    BY <1>3 DEF ItemOK
  <2>2. /\ y \in [source : {"red", "route"}, ref : Kind(obs, "intake"), section : {"open", "filed"}, text : {x.text}]
        /\ y.section = "filed" /\ y.text = x.text /\ y.source = x.source /\ y.ref = x.ref
    BY <2>1
  <2> HIDE DEF y
  <2> QED  BY <1>3, <2>2 DEF ItemOK
<1> HIDE DEF y
<1>5. \A z \in room' : ItemOK(obs, z)  BY <1>1, <1>2, <1>4 DEF RoomOK
<1>6. Reviewed(obs, room', ruled')
  <2> SUFFICES ASSUME NEW i \in Kind(obs, "intake"), obs[i].color = "red", RedText(obs[i]) \notin ruled',
                      \A k \in Kind(obs, "seed") : RedText(obs[obs[k].src]) # RedText(obs[i])
               PROVE  \E z \in room' : z.text = RedText(obs[i])
    BY DEF Reviewed
  <2>1. RedText(obs[i]) \notin ruled  BY <1>1
  <2>2. PICK z \in room : z.text = RedText(obs[i])  BY <1>2, <2>1 DEF RoomOK, Reviewed
  <2>3. CASE z = x  BY <1>1, <1>4, <2>2, <2>3
  <2>4. CASE z # x  BY <1>1, <2>2, <2>4
  <2> QED  BY <2>3, <2>4
<1>7. Cleared(obs, room', opened)
  <2>1. \A z \in room' : z.section = "open" => z \in room  BY <1>1, <1>4
  <2> QED  BY <1>2, <2>1 DEF RoomOK, Cleared
<1>8. RoomOK(obs, room', ruled', opened)  BY <1>5, <1>6, <1>7 DEF RoomOK
<1>9. CursorOK'  BY <1>1, CursorKeeps
<1> QED  BY <1>1, <1>8, <1>9 DEF IInv

LEMMA StutterKeeps == ASSUME IInv, UNCHANGED vars PROVE IInv'
<1>1. CursorOK'  BY CursorKeeps DEF vars
<1> QED  BY <1>1 DEF IInv, vars
-----------------------------------------------------------------------------
(* Every step keeps the invariant.                                         *)
LEMMA WorkKeeps == ASSUME IInv, NEW w \in Workers, Continue(w) PROVE IInv'
BY CreateContentKeeps, FindIntakeKeeps, CreateIntakeKeeps, FindDecisionKeeps, CreateDecisionKeeps,
   ResolveRouteKeeps, FindSeedKeeps, CreateSeedKeeps, ResolveRedKeeps, FindProposalKeeps, CreateProposalKeeps,
   FindPrepKeeps, FindPartKeeps, CreatePartKeeps, FindPrepObservationKeeps, CreatePrepKeeps, ClearRedKeeps
   DEF Continue

LEMMA NextKeeps == ASSUME IInv, [Next]_vars PROVE IInv'
<1>1. CASE runFeedSensorTick  BY <1>1, TickKeeps
<1>2. CASE runRSSIngest  BY <1>2, IngestKeeps
<1>3. ASSUME NEW d \in env.drops, DropSource(d) PROVE IInv'  BY <1>3, DropSourceKeeps
<1>4. ASSUME NEW id \in DOMAIN obs, NEW r \in Routes, handleSourceRouteDecision(id, r) PROVE IInv'
  BY <1>4, RouteDecisionKeeps
<1>5. ASSUME NEW id \in DOMAIN obs, ReviseDraft(id) PROVE IInv'  BY <1>5, ReviseDraftKeeps
<1>6. ASSUME NEW id \in DOMAIN obs, RequestPrep(id) PROVE IInv'  BY <1>6, RequestPrepKeeps
<1>7. ASSUME NEW x \in room, FileItem(x) PROVE IInv'  BY <1>7, FileItemKeeps
<1>8. ASSUME NEW w \in Workers, Continue(w) PROVE IInv'  BY <1>8, WorkKeeps
<1>9. ASSUME NEW w \in Workers, Fail(w) PROVE IInv'  BY <1>9, FailKeeps
<1>10. CASE UNCHANGED vars  BY <1>10, StutterKeeps
<1> QED  BY <1>1, <1>2, <1>3, <1>4, <1>5, <1>6, <1>7, <1>8, <1>9, <1>10 DEF Next

(* The start: what an earlier session kept, reviewed where it is red, one  *)
(* item for each text.                                                     *)
LEMMA InitRoom ==
    ASSUME NEW e, NEW s, Records(e, s), NEW red, red = {i \in DOMAIN s : s[i].color = "red"},
           \A i \in DOMAIN s : s[i].kind = "intake", NEW rm,
           rm = {RedItem(s[i], i) : i \in {k \in red : \A l \in red : RedText(s[l]) = RedText(s[k]) => k <= l}}
    PROVE  RoomOK(s, rm, {}, {})
<1>1. ASSUME NEW x \in rm PROVE ItemOK(s, x)
  <2>1. PICK i \in red : x = RedItem(s[i], i)  OBVIOUS
  <2>2. i \in Kind(s, "intake")  BY DEF Kind
  <2>3. x.source = "red" /\ x.ref = i /\ x.section = "open" /\ x.text = RedText(s[i])  BY <2>1 DEF RedItem
  <2>4. x \in [source : {"red", "route"}, ref : Kind(s, "intake"), section : {"open", "filed"}, text : {x.text}]
    BY <2>1, <2>2, <2>3 DEF RedItem
  <2> QED  BY <2>3, <2>4 DEF ItemOK
<1>2. ASSUME NEW i \in Kind(s, "intake"), s[i].color = "red" PROVE \E x \in rm : x.text = RedText(s[i])
  <2> DEFINE T == {k \in red : RedText(s[k]) = RedText(s[i])}
  <2>1. \A k \in DOMAIN s : k \in Nat  BY RecIs
  <2>2. T \in SUBSET Nat /\ i \in T  BY <1>2, <2>1 DEF Kind
  <2> HIDE DEF T
  <2>3. PICK k \in T : \A l \in T : ~ (<<l, k>> \in OpToRel(<, Nat))
    BY <2>2, NatLessThanWellFounded, WFMin
  <2>4. ASSUME NEW l \in T PROVE k <= l
    <3>1. k \in Nat /\ l \in Nat  BY <2>2
    <3>2. ~ (l < k)  BY <2>3, <3>1 DEF OpToRel
    <3> QED  BY <3>1, <3>2
  <2>5. k \in red /\ RedText(s[k]) = RedText(s[i])  BY DEF T
  <2>6. \A l \in red : RedText(s[l]) = RedText(s[k]) => k <= l  BY <2>4, <2>5 DEF T
  <2>7. RedItem(s[k], k) \in rm /\ RedItem(s[k], k).text = RedText(s[k])  BY <2>5, <2>6 DEF RedItem
  <2> QED  BY <2>5, <2>7
<1> QED  BY <1>1, <1>2 DEF RoomOK, Reviewed, Cleared

LEMMA InitHolds == ASSUME Init PROVE IInv
<1>1. env \in Environments  BY DEF Init
<1>2. /\ env.kept \in Seq(DOMAIN About) /\ Len(env.kept) <= MaxObs /\ MaxObs \in Nat /\ Default \in Routes
      /\ \A d \in Elems(env.feed) : d \notin Elems(env.kept)
      /\ \A d \in Docs(env) : /\ About[d].hints \subseteq Routes /\ About[d].color \in Color
                              /\ About[d].inner \in Color \cup {"none"}
  BY <1>1, EnvFacts
<1>3. PICK N \in Nat : N = Len(env.kept) /\ DOMAIN env.kept = 1 .. N  BY <1>2
<1> DEFINE R(i) == [kind |-> "intake", doc |-> env.kept[i], src |-> 0, route |-> NoRoute,
                    hints |-> normalizeRoutes(About[env.kept[i]].hints), by |-> "founder", draft |-> 0,
                    color |-> ParsedColor(About[env.kept[i]].color, env.kept[i]), at |-> i]
<1>4. obs = [i \in 1 .. N |-> R(i)]  BY <1>3 DEF Init
<1>5. ASSUME NEW i \in 1 .. N
      PROVE  /\ R(i) \in Rec(env) /\ env.kept[i] \in Elems(env.kept)
             /\ About[env.kept[i]].color = "red" /\ About[env.kept[i]].inner = "none" => R(i).color = "red"
  <2>1. env.kept[i] \in Elems(env.kept)  BY <1>3 DEF Elems
  <2>2. env.kept[i] \in Docs(env)  BY <2>1 DEF Docs
  <2>3. PICK d : d = env.kept[i]  OBVIOUS
  <2>4. /\ About[d].hints \subseteq Routes /\ About[d].color \in Color
        /\ About[d].inner \in Color \cup {"none"} /\ d \in Docs(env)
    BY <1>2, <2>2, <2>3
  <2>5. normalizeRoutes(About[d].hints) \in SUBSET Routes  BY <1>2, <2>4 DEF normalizeRoutes
  <2>6. ParsedColor(About[d].color, d) \in Color
    <3>1. CASE About[d].inner = "none"  BY <2>4, <3>1 DEF ParsedColor
    <3>2. CASE About[d].inner # "none"  BY <2>4, <3>2 DEF ParsedColor
    <3> QED  BY <3>1, <3>2
  <2>7. R(i) = [kind |-> "intake", doc |-> d, src |-> 0, route |-> NoRoute,
                hints |-> normalizeRoutes(About[d].hints), by |-> "founder", draft |-> 0,
                color |-> ParsedColor(About[d].color, d), at |-> i]
    BY <2>3
  <2>8. About[d].color = "red" /\ About[d].inner = "none" => ParsedColor(About[d].color, d) = "red"
    BY DEF ParsedColor
  <2> HIDE DEF R
  <2>9. R(i) \in Rec(env) /\ R(i).color = ParsedColor(About[d].color, d)
    BY <2>4, <2>5, <2>6, <2>7 DEF Rec, Kinds, Workers
  <2> QED  BY <2>1, <2>3, <2>8, <2>9
<1>6. /\ \A i \in 1 .. N : /\ R(i).kind = "intake" /\ R(i).doc = env.kept[i] /\ R(i).src = 0 /\ R(i).draft = 0
                           /\ R(i).at = i /\ R(i).hints = normalizeRoutes(About[R(i).doc].hints)
  OBVIOUS
<1> HIDE DEF R
<1>7. obs \in Seq(Rec(env)) /\ Len(obs) = N /\ DOMAIN obs = 1 .. N /\ \A i \in 1 .. N : obs[i] = R(i)
  BY <1>4, <1>5
<1>8. ASSUME NEW i \in DOMAIN obs PROVE RecordOK(obs, i)
  <2>1. i \in 1 .. N /\ obs[i] = R(i) /\ 0 < i /\ i <= i  BY <1>7
  <2> QED  BY <1>5, <1>6, <2>1 DEF RecordOK
<1>9. Records(env, obs)  BY <1>2, <1>3, <1>7, <1>8 DEF Records
<1>10. \A i \in DOMAIN obs : obs[i].kind = "intake"  BY <1>6, <1>7
<1>11. RoomOK(obs, room, ruled, opened)
  <2> DEFINE red == {i \in DOMAIN obs : obs[i].color = "red"}
  <2>0. room = {RedItem(obs[i], i) : i \in {k \in red : \A l \in red : RedText(obs[l]) = RedText(obs[k]) => k <= l}}
    BY DEF Init
  <2>1. RoomOK(obs, room, {}, {})  BY <1>9, <1>10, <2>0, InitRoom
  <2> QED  BY <2>1 DEF Init
<1>12. \A kind : kind # "intake" => Kind(obs, kind) = {}  BY <1>10 DEF Kind
<1>13. LanesOK(obs, lane)
  <2>1. lane = [k \in 1 .. MaxObs |-> 0]  BY DEF Init
  <2>2. lane \in [1 .. MaxObs -> 0 .. Parts]  BY <2>1 DEF Parts
  <2>3. Kind(obs, "prep") = {}  BY <1>12
  <2> QED  BY <2>2, <2>3 DEF LanesOK
<1>14. \A k \in 1 .. MaxObs, r \in Routes : proposals[<<k, r>>] = 0
  BY DEF Init
<1>15. ProposalsOK(obs, proposals)
  <2>1. proposals \in [(1 .. MaxObs) \X Routes -> Nat]  BY DEF Init
  <2> QED  BY <1>14, <2>1 DEF ProposalsOK
<1>16. \A w \in Workers : proc[w] = Idle  BY DEF Init
<1>17. Len(obs) \in Nat  BY <1>7
<1>18. ProcsOK(env, obs, lane, proc)
  <2>1. Idle \in Proc(env) /\ \A w \in Workers : ProcOK(env, obs, lane, w, Idle)  BY <1>17, IdleIs
  <2>2. proc \in [Workers -> Proc(env)]  BY <2>1 DEF Init
  <2> QED  BY <1>16, <2>1, <2>2 DEF ProcsOK
<1>19. Idle.at = "idle" /\ Claim(obs, proposals, Idle)  BY <1>17, IdleIs
<1>20. Exclusive(proc, overlap) /\ Claims(obs, proposals, proc, overlap)
  BY <1>16, <1>19 DEF Exclusive, Claims
<1>21. OneRecord(env, obs, overlap)
  <2>1. \A i \in DOMAIN obs : obs[i].doc \notin Elems(env.feed)  BY <1>2, <1>5, <1>6, <1>7
  <2> QED  BY <2>1 DEF OneRecord
<1>22. OneDecision(obs) /\ OneSeed(obs, overlap)
  <2>1. Kind(obs, "decision") = {} /\ Kind(obs, "seed") = {}  BY <1>12
  <2> QED  BY <2>1 DEF OneDecision, OneSeed
<1>23. OneProposal(obs, proposals, overlap)
  <2>1. \A k \in Kind(obs, "intake") : k \in 1 .. MaxObs  BY <1>9, RecIs DEF Kind
  <2> QED  BY <1>14, <2>1 DEF OneProposal
<1>24. CursorOK
  <2>1. cursor = 1  BY DEF Init
  <2>2. Len(FeedItems) \in Nat /\ (env.feed # << >> => Len(FeedItems) >= 1)  BY <1>1, FeedItemsIs
  <2> HIDE DEF FeedItems
  <2> QED  BY <2>1, <2>2 DEF CursorOK
<1> QED  BY <1>1, <1>9, <1>11, <1>13, <1>15, <1>18, <1>20, <1>21, <1>22, <1>23, <1>24 DEF IInv

(* What a worker has in hand is there, what a lookup did not find is still *)
(* not there when the record is made, and the room agrees with the records *)
(* (every step of EnsureSourceIntakeObservation,                           *)
(* EnsureSourceDraftSeedProposal and OpenSourceDraftSeedPublishPrep).      *)
THEOREM IntakeInvariant == Spec => []IInv
<1>1. Init => IInv  BY InitHolds
<1>2. IInv /\ [Next]_vars => IInv'  BY NextKeeps
<1> QED  BY <1>1, <1>2, PTL DEF Spec
-----------------------------------------------------------------------------
(* Counting.                                                               *)
LEMMA AtMostOne ==
    ASSUME NEW T, IsFiniteSet(T), \A i, k \in T : i = k
    PROVE  Cardinality(T) <= 1
<1>1. CASE T = {}
  <2>1. Cardinality(T) = 0  BY <1>1, FS_EmptySet
  <2> QED  BY <2>1
<1>2. CASE T # {}
  <2>1. PICK x \in T : TRUE  BY <1>2
  <2>2. T = {x}  BY <2>1
  <2>3. Cardinality(T) = 1  BY <2>2, FS_Singleton
  <2> QED  BY <2>3
<1> QED  BY <1>1, <1>2

LEMMA RecordsSound == ASSUME IInv PROVE RecordsAreSound
<1>1. Records(env, obs) /\ obs \in Seq(Rec(env)) /\ Len(obs) \in Nat  BY DEF IInv, Records
<1>2. TypeOK
  <2>1. obs \in Seq([kind : {"content", "intake", "decision", "seed", "prep"},
                    doc : Elems(env.feed) \cup env.drops \cup Elems(env.kept), hints : SUBSET Routes, color : Color,
                    src : Nat, route : Routes \cup {NoRoute}, by : Workers, draft : Nat, at : Nat])
    BY <1>1 DEF Rec, Docs, Kinds
  <2>2. \A i \in DOMAIN obs : obs[i].src < i /\ obs[i].draft < i  BY <1>1 DEF Records, RecordOK
  <2>3. ASSUME NEW x \in room PROVE x.ref \in Of("intake")
    <3>1. ItemOK(obs, x)  BY DEF IInv, RoomOK
    <3>2. x.ref \in Kind(obs, "intake")  BY <3>1 DEF ItemOK
    <3> QED  BY <3>2 DEF Kind, Of
  <2>4. \A w \in Workers : {proc[w].src, proc[w].intake, proc[w].seed} \subseteq 0 .. Len(obs)
    BY DEF IInv, ProcsOK, ProcOK
  <2>5. opened \subseteq Of("seed")  BY DEF IInv, RoomOK, Cleared, Kind, Of
  <2> QED  BY <2>1, <2>2, <2>3, <2>4, <2>5 DEF TypeOK
<1>3. \A T : T \subseteq DOMAIN obs => IsFiniteSet(T)  BY <1>1, KindFinite
<1>4. OneOfEachUnlessOverlap
  <2> SUFFICES ASSUME NEW d \in Elems(env.feed) \ overlap
               PROVE  LET Mine(kind) == {i \in Of(kind) : obs[i].doc = d}
                          For(kind, k, r) == {i \in Of(kind) : obs[i].src = k /\ obs[i].route = r} IN
                      /\ Cardinality(Mine("content")) <= 1
                      /\ Cardinality(Mine("intake")) <= 1
                      /\ \A k \in Mine("intake"), r \in Routes :
                          /\ DecisionsFit(k, r) =>
                                Cardinality({i \in For("decision", k, r) : obs[i].by = "sensor"}) <= 1
                          /\ SeedsFit => Cardinality({i \in For("seed", k, r) : obs[i].draft = 0}) <= 1
                          /\ proposals[<<k, r>>] <= 1
    BY DEF OneOfEachUnlessOverlap
  <2> DEFINE Mine(kind) == {i \in Of(kind) : obs[i].doc = d}
             For(kind, k, r) == {i \in Of(kind) : obs[i].src = k /\ obs[i].route = r}
  <2>1. ASSUME NEW kind \in {"content", "intake"} PROVE Cardinality(Mine(kind)) <= 1
    <3>1. Mine(kind) \subseteq DOMAIN obs  BY DEF Of
    <3>2. \A i, k \in Mine(kind) : i = k  BY DEF IInv, OneRecord, Of
    <3> HIDE DEF Mine
    <3> QED  BY <1>3, <3>1, <3>2, AtMostOne
  <2>2. ASSUME NEW k \in Mine("intake"), NEW r \in Routes
        PROVE  /\ DecisionsFit(k, r) => Cardinality({i \in For("decision", k, r) : obs[i].by = "sensor"}) <= 1
               /\ SeedsFit => Cardinality({i \in For("seed", k, r) : obs[i].draft = 0}) <= 1
               /\ proposals[<<k, r>>] <= 1
    <3> DEFINE D == {i \in For("decision", k, r) : obs[i].by = "sensor"}
               S == {i \in For("seed", k, r) : obs[i].draft = 0}
    <3>1. ASSUME DecisionsFit(k, r) PROVE Cardinality(D) <= 1
      <4>1. D \subseteq DOMAIN obs  BY DEF Of
      <4>2. Visible(obs, k, r)  BY <3>1 DEF DecisionsFit, Visible, Kind, Of
      <4>3. \A i, j \in D : i = j  BY <4>2 DEF IInv, OneDecision, Kind, Of
      <4> HIDE DEF D
      <4> QED  BY <1>3, <4>1, <4>3, AtMostOne
    <3>2. ASSUME SeedsFit PROVE Cardinality(S) <= 1
      <4>1. S \subseteq DOMAIN obs  BY DEF Of
      <4>2. Few(obs)  BY <3>2 DEF SeedsFit, Few, Kind, Of
      <4>3. ASSUME NEW i \in S PROVE /\ i \in Kind(obs, "seed") /\ obs[i].draft = 0 /\ obs[i].doc \notin overlap
                                     /\ obs[i].src = k /\ obs[i].route = r
        <5>1. i \in DOMAIN obs /\ obs[i].kind = "seed" /\ obs[i].src = k /\ obs[i].route = r /\ obs[i].draft = 0
          BY DEF Of
        <5>2. IsIntake(obs, k, obs[i].doc)  BY <1>1, <5>1 DEF Records, RecordOK
        <5>3. obs[i].doc = d  BY <5>2 DEF IsIntake
        <5> QED  BY <5>1, <5>3 DEF Kind
      <4> HIDE DEF S
      <4>4. \A i, j \in S : i = j  BY <4>2, <4>3 DEF IInv, OneSeed
      <4> QED  BY <1>3, <4>1, <4>4, AtMostOne
    <3>3. proposals[<<k, r>>] <= 1  BY DEF IInv, OneProposal, Kind, Of
    <3> QED  BY <3>1, <3>2, <3>3
  <2> HIDE DEF Mine, For
  <2>3. Cardinality(Mine("content")) <= 1 /\ Cardinality(Mine("intake")) <= 1  BY <2>1
  <2> QED  BY <2>2, <2>3 DEF Mine, For
<1>5. PrepMeansWholeLane  BY DEF PrepMeansWholeLane, IInv, LanesOK, Kind, Of
<1> QED  BY <1>2, <1>4, <1>5 DEF RecordsAreSound

LEMMA FounderSees == ASSUME IInv PROVE FounderDecides
<1>1. Records(env, obs) /\ RoomOK(obs, room, ruled, opened)  BY DEF IInv
<1>2. RedIsReviewed
  <2> SUFFICES ASSUME NEW i \in Of("intake"), About[obs[i].doc].color = "red", About[obs[i].doc].inner = "none",
                      RedText(obs[i]) \notin ruled,
                      \A k \in Of("seed") : RedText(obs[obs[k].src]) # RedText(obs[i])
               PROVE  \E item \in room : item.text = RedText(obs[i])
    BY DEF RedIsReviewed
  <2>1. i \in Kind(obs, "intake") /\ \A k \in Kind(obs, "seed") : RedText(obs[obs[k].src]) # RedText(obs[i])
    BY DEF Kind, Of
  <2>2. obs[i].color = "red"  BY <1>1, <2>1 DEF Records, RecordOK, Kind
  <2> QED  BY <1>1, <2>1, <2>2 DEF RoomOK, Reviewed
<1>3. OpenedLaneClearsRed  BY <1>1 DEF OpenedLaneClearsRed, RoomOK, Cleared
<1>4. SensorFollowsTheCue  BY <1>1 DEF SensorFollowsTheCue, Records, RecordOK, Cue, Of
<1> QED  BY <1>2, <1>3, <1>4 DEF FounderDecides

LEMMA LanesRise == ASSUME IInv, [Next]_vars PROVE \A k \in 1 .. MaxObs : lane'[k] >= lane[k]
<1>1. \A k \in 1 .. MaxObs : lane[k] \in Nat  BY DEF IInv, LanesOK
<1>2. (\E w \in Workers : CreatePart(w)) \/ lane' = lane
  BY DEF Next, vars, Continue, runFeedSensorTick, runRSSIngest, DropSource, handleSourceRouteDecision, ReviseDraft,
         RequestPrep, FileItem, TakeItem, StoresUnchanged, Fail, CreateContent, FindIntake, CreateIntake, FindDecision,
         CreateDecision, ResolveRoute, FindSeed, CreateSeed, ResolveRed, FindProposal, CreateProposal, FindPrep,
         FindPart, FindPrepObservation, CreatePrep, ClearRed
<1>3. CASE lane' = lane  BY <1>1, <1>3
<1> QED  BY <1>2, <1>3, CreatePartIs

(* An item has one content and one intake, and this per route one sensor   *)
(* decision, one draft and one proposal, unless two workers had it in hand *)
(* at once; a preparation record stands for a whole lane                   *)
(* (EnsureSourceIntakeObservation, EnsureSourceDraftSeedObservation,       *)
(* EnsureSourceDraftSeedProposal, OpenSourceDraftSeedPublishPrep).         *)
THEOREM RecordsStaySound == Spec => []RecordsAreSound
<1>1. IInv => RecordsAreSound  BY RecordsSound
<1> QED  BY <1>1, IntakeInvariant, PTL

(* A red source is reviewed until somebody drafts from it or the founder   *)
(* resolves the item, an opened lane leaves no open red item behind, and   *)
(* the sensor leaves conflicting routes alone (runFeedSensorTick,          *)
(* reviewRoomSuggestionForObservation).                                    *)
THEOREM FounderStillDecides == Spec => []FounderDecides
<1>1. IInv => FounderDecides  BY FounderSees
<1> QED  BY <1>1, IntakeInvariant, PTL

(* No part of a lane is taken back by a slower call                        *)
(* (OpenSourceDraftSeedPublishPrep).                                       *)
THEOREM LanesOnlyGrow == Spec => LaneOnlyGrows
<1>1. IInv /\ [Next]_vars => [\A k \in 1 .. MaxObs : lane'[k] >= lane[k]]_vars  BY LanesRise
<1> QED  BY <1>1, IntakeInvariant, PTL DEF Spec, LaneOnlyGrows
-----------------------------------------------------------------------------
(* The order of the view has a first item.                                 *)
LEMMA RankIs ==
    ASSUME IInv, NEW i \in DOMAIN obs
    PROVE  /\ AttentionRank(i) \in Nat /\ AttentionRank(i) <= 900
           /\ Score(About[obs[i].doc].signal, obs[i].color, Cardinality(obs[i].hints)) \in 0 .. 100
<1>1. AttentionRank(i) \in Nat /\ AttentionRank(i) <= 900
  <2>1. AttentionRank(i) \in {900, 860, 820, 780, 720, 680, 640, 600}
    BY DEF AttentionRank
  <2> QED  BY <2>1
<1>2. obs[i].doc \in Docs(env)  BY RecIs DEF IInv
<1>3. About[obs[i].doc].signal \in 0 .. 52  BY <1>2, EnvFacts DEF IInv
<1>4. ASSUME NEW a \in 0 .. 52, NEW c, NEW n PROVE Score(a, c, n) \in 0 .. 100
  <2> DEFINE x == CASE c = "red" -> 50 [] c = "yellow" -> 22 [] OTHER -> 12
             y == IF n = 0 THEN 8 ELSE IF n = 1 THEN 18 ELSE 12
             points == 28 + a + x + y
  <2>1. x \in {50, 22, 12} /\ y \in {8, 18, 12}  OBVIOUS
  <2>2. x \in Nat /\ y \in Nat
    <3> HIDE DEF x, y
    <3> QED  BY <2>1
  <2>3. points \in Nat
    <3> HIDE DEF x, y
    <3> QED  BY <2>2
  <2>4. Score(a, c, n) = IF points > 100 THEN 100 ELSE points  BY DEF Score
  <2> HIDE DEF points
  <2> QED  BY <2>3, <2>4
<1> QED  BY <1>1, <1>3, <1>4

LEMMA FirstIs ==
    ASSUME IInv, NEW ids, ids \subseteq DOMAIN obs, ids # {}
    PROVE  First(ids) \in ids
<1> DEFINE score(x) == Score(About[obs[x].doc].signal, obs[x].color, Cardinality(obs[x].hints))
           rank == [i \in ids |-> AttentionRank(i)]
<1>0. PICK N \in Nat : N = 900  OBVIOUS
<1>1. \A i \in ids : AttentionRank(i) \in 0 .. N /\ AttentionRank(i) \in Nat /\ score(i) \in 0 .. 100
  <2>1. ASSUME NEW i \in ids PROVE AttentionRank(i) \in Nat /\ AttentionRank(i) <= N /\ score(i) \in 0 .. 100
    BY <1>0, RankIs
  <2> HIDE DEF score
  <2> QED  BY <2>1
<1>2. rank \in [ids -> 0 .. N]  BY <1>1
<1>3. PICK a \in ids : \A k \in ids : rank[k] <= rank[a]
  <2> HIDE DEF rank
  <2> QED  BY <1>2, MaxExists
<1> DEFINE top == {i \in ids : AttentionRank(i) = AttentionRank(a)}
           points == [i \in top |-> score(i)]
<1>4. a \in top /\ points \in [top -> 0 .. 100]  BY <1>1
<1>5. PICK b \in top : \A k \in top : points[k] <= points[b]
  <2> HIDE DEF points, top
  <2> QED  BY <1>4, MaxExists
<1> DEFINE best == {i \in top : score(i) = score(b)}
           c == One(best)
<1>6. best # {} /\ best \subseteq DOMAIN obs  OBVIOUS
<1>7. c \in best /\ \A k \in best : k = c \/ Later(c, k)
  <2> HIDE DEF best
  <2> QED  BY <1>6, OneIs DEF IInv
<1>8. ASSUME NEW k \in ids PROVE k = c \/ Before(c, k)
  <2>1. /\ AttentionRank(c) = AttentionRank(a) /\ score(c) = score(b) /\ c \in ids /\ b \in ids
    BY <1>7
  <2>2. AttentionRank(k) <= AttentionRank(a)  BY <1>3
  <2>3. k \in top => score(k) <= score(b)  BY <1>5
  <2>4. k \in best => k = c \/ Later(c, k)  BY <1>7
  <2>5. k \in top <=> AttentionRank(k) = AttentionRank(a)  OBVIOUS
  <2>6. k \in best <=> k \in top /\ score(k) = score(b)  OBVIOUS
  <2>7. /\ AttentionRank(k) \in Nat /\ AttentionRank(a) \in Nat /\ score(k) \in Nat /\ score(b) \in Nat
    <3> HIDE DEF score, top, best, c, points, rank
    <3>1. \A i \in ids : AttentionRank(i) \in Nat /\ score(i) \in Nat  BY <1>1
    <3> QED  BY <2>1, <3>1
  <2>8. Before(c, k) <=> \/ AttentionRank(c) > AttentionRank(k)
                         \/ /\ AttentionRank(c) = AttentionRank(k)
                            /\ score(c) > score(k) \/ (score(c) = score(k) /\ Later(c, k))
    BY DEF Before
  <2> HIDE DEF score, top, best, c
  <2> QED  BY <2>1, <2>2, <2>3, <2>4, <2>5, <2>6, <2>7, <2>8
<1>9. c \in ids  BY <1>7
<1>10. \E i \in ids : \A k \in ids : k = i \/ Before(i, k)
  <2> HIDE DEF c
  <2> QED  BY <1>8, <1>9
<1> QED  BY <1>10 DEF First

LEMMA FirstDraftIs ==
    ASSUME NEW i, DraftsOf(i) # {}
    PROVE  FirstDraft(i) \in DraftsOf(i)
<1> DEFINE f == [k \in DraftsOf(i) |-> 3 - AccountRank(obs[k].route)]
<1>1. ASSUME NEW r PROVE AccountRank(r) \in 0 .. 3
  <2>1. AccountRank(r) \in {0, 1, 2, 3}  BY DEF AccountRank
  <2> QED  BY <2>1
<1>2. f \in [DraftsOf(i) -> 0 .. 3]  BY <1>1
<1>3. PICK m \in DraftsOf(i) : \A k \in DraftsOf(i) : f[k] <= f[m]
  <2> HIDE DEF f
  <2> QED  BY <1>2, MaxExists
<1>4. ASSUME NEW l \in DraftsOf(i) PROVE AccountRank(obs[m].route) <= AccountRank(obs[l].route)
  <2>1. 3 - AccountRank(obs[l].route) <= 3 - AccountRank(obs[m].route)  BY <1>3
  <2>2. AccountRank(obs[l].route) \in 0 .. 3 /\ AccountRank(obs[m].route) \in 0 .. 3  BY <1>1
  <2> QED  BY <2>1, <2>2
<1>5. \E k \in DraftsOf(i) : \A l \in DraftsOf(i) : AccountRank(obs[k].route) <= AccountRank(obs[l].route)
  BY <1>4
<1> QED  BY <1>5 DEF FirstDraft

(* What is later than something in a list is in the list.                  *)
LEMMA ShownLater ==
    ASSUME IInv, NEW n \in Nat, NEW ids, ids \subseteq DOMAIN obs, NEW i \in Newest(n, ids), NEW k \in ids, Later(k, i)
    PROVE  k \in Newest(n, ids)
<1> DEFINE A(x) == {j \in ids : Later(j, x)}
<1>1. \A j \in ids : obs[j].at \in Nat /\ j \in Nat  BY RecIs DEF IInv
<1>2. A(k) \subseteq A(i)
  <2>1. i \in ids  BY DEF Newest
  <2> QED  BY <1>1, <2>1 DEF Later
<1>3. IsFiniteSet(A(i)) /\ IsFiniteSet(A(k))
  <2>1. A(i) \subseteq DOMAIN obs /\ A(k) \subseteq DOMAIN obs /\ obs \in Seq(Rec(env))
    BY DEF IInv, Records
  <2> HIDE DEF A
  <2> QED  BY <2>1, KindFinite
<1>4. Cardinality(A(k)) \in Nat /\ Cardinality(A(i)) \in Nat /\ Cardinality(A(k)) <= Cardinality(A(i))
  <2> HIDE DEF A
  <2> QED  BY <1>2, <1>3, FS_Subset, FS_CardinalityType
<1>5. Cardinality(A(i)) < n  BY DEF Newest
<1>6. Cardinality(A(k)) < n
  <2> HIDE DEF A
  <2> QED  BY <1>4, <1>5
<1> QED  BY <1>6 DEF Newest

(* What the view offers: a draft of a source without a lane.               *)
LEMMA OfferIs ==
    ASSUME IInv, Attention.mode = "open_threads_prep"
    PROVE  \E s \in DOMAIN obs : LanesOf(s) = {} /\ Attention.draft \in DraftsOf(s)
<1> DEFINE items == Shown("intake")
           lanes == {i \in items : LanesOf(i) # {}}
           drafts == {i \in items : DraftsOf(i) # {}}
           routed == {i \in items : RoutedBySensor(i)}
           s == IF drafts \cap routed # {} THEN First(drafts \cap routed) ELSE First(drafts)
<1>1. lanes = {} /\ drafts # {} /\ Attention.draft = FirstDraft(s)
  BY DEF Attention
<1>2. drafts \subseteq DOMAIN obs  BY DEF Shown, Newest, Of
<1>3. s \in drafts
  <2> HIDE DEF drafts, routed
  <2>1. CASE drafts \cap routed # {}
    <3>1. First(drafts \cap routed) \in drafts \cap routed  BY <1>2, <2>1, FirstIs
    <3> QED  BY <2>1, <3>1
  <2>2. CASE drafts \cap routed = {}
    <3>1. First(drafts) \in drafts  BY <1>1, <1>2, FirstIs
    <3> QED  BY <2>2, <3>1
  <2> QED  BY <2>1, <2>2
<1> HIDE DEF s
<1>4. LanesOf(s) = {} /\ DraftsOf(s) # {}  BY <1>1, <1>3
<1>5. FirstDraft(s) \in DraftsOf(s)  BY <1>4, FirstDraftIs
<1> QED  BY <1>1, <1>2, <1>3, <1>4, <1>5

LEMMA OfferFresh == ASSUME IInv PROVE OfferedDraftHasNoLane
<1> SUFFICES ASSUME Attention.mode = "open_threads_prep", Cardinality(Of("prep")) <= ViewLimit
             PROVE  /\ PrepsOf(Attention.draft) = {}
                    /\ \A k \in Of("seed") : obs[k].draft # Attention.draft
  BY DEF OfferedDraftHasNoLane
<1>1. PICK s \in DOMAIN obs : LanesOf(s) = {} /\ Attention.draft \in DraftsOf(s)  BY OfferIs
<1>2. PICK f : f = Attention.draft  OBVIOUS
<1>3. f \in DraftsOf(s)  BY <1>1, <1>2
<1>4. ViewLimit \in Nat  BY ViewAssumption
<1>5. /\ f \in Shown("seed") /\ f \in DOMAIN obs /\ obs[f].kind = "seed" /\ obs[f].src = s
      /\ \A l \in Shown("seed") : obs[l].src = s /\ obs[l].route = obs[f].route => ~ Later(l, f)
  BY <1>3 DEF DraftsOf, Shown, Newest, Of
<1>6. Records(env, obs) /\ \A k \in DOMAIN obs : k \in Nat /\ k >= 1 /\ RecordOK(obs, k)
  BY RecIs DEF IInv
<1>7. ASSUME NEW k \in PrepsOf(f) PROVE FALSE
  <2>1. k \in Of("prep") /\ k \in DOMAIN obs /\ obs[k].kind = "prep" /\ obs[k].draft = f  BY DEF PrepsOf, Of
  <2>2. obs[k].src = s  BY <1>5, <1>6, <2>1 DEF RecordOK, IsSeed
  <2>3. Of("prep") \subseteq DOMAIN obs  BY DEF Of
  <2>4. Of("prep") = Shown("prep")  BY <1>4, <1>6, <2>3, NewestAll DEF Shown
  <2>5. k \in LanesOf(s)  BY <2>1, <2>2, <2>4 DEF LanesOf
  <2> QED  BY <1>1, <2>5
<1>8. ASSUME NEW k \in Of("seed"), obs[k].draft = f PROVE FALSE
  <2>1. k \in DOMAIN obs /\ obs[k].kind = "seed"  BY DEF Of
  <2>2. f # 0 /\ f \in Nat /\ k \in Nat  BY <1>5, <1>6, <2>1
  <2>3. RecordOK(obs, k) /\ RecordOK(obs, f)  BY <1>5, <1>6, <2>1
  <2>4. IsSeed(obs, f, obs[k].src, obs[k].route)  BY <1>8, <2>1, <2>2, <2>3 DEF RecordOK
  <2>5. obs[k].src = s /\ obs[k].route = obs[f].route  BY <1>5, <2>4 DEF IsSeed
  <2>6. obs[k].at = k /\ obs[f].at = f /\ f < k  BY <1>5, <1>8, <2>1, <2>3 DEF RecordOK
  <2>7. Later(k, f)  BY <2>2, <2>6 DEF Later
  <2>8. Of("seed") \subseteq DOMAIN obs  BY DEF Of
  <2>9. k \in Shown("seed")  BY <1>4, <1>5, <2>7, <2>8, ShownLater DEF Shown
  <2> QED  BY <1>5, <2>5, <2>7, <2>9
<1> QED  BY <1>2, <1>7, <1>8

(* The draft the founder is asked to open a lane for has none, and no      *)
(* newer draft for the account has replaced it                             *)
(* (summarizeSourceIntakeViewAttention, sortSourceIntakeViewItems).        *)
THEOREM OfferIsFresh == Spec => []OfferedDraftHasNoLane
<1>1. IInv => OfferedDraftHasNoLane  BY OfferFresh
<1> QED  BY <1>1, IntakeInvariant, PTL
=============================================================================
