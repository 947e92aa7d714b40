---------------------------- MODULE OfficeProofs ----------------------------
(***************************************************************************)
(* Office for any number of jobs, workers, branches, threads, files and    *)
(* operators, and any set-up: what each part of the desk promises holds    *)
(* of the whole, because the steps of the others leave its state alone or  *)
(* change it only as the part itself does.  First the control plane by     *)
(* itself, for any operators, ids, scopes and earlier decisions; then the  *)
(* office, which implements it.  The workers and the two loops come last:  *)
(* WorkInv says what a run, a worker's list and a report owe the job they  *)
(* are for, PlanInv what the loops have planned and made, ShapeInv what    *)
(* is left for the types.                                                  *)
(***************************************************************************)
EXTENDS Office, SequenceTheorems, FiniteSetTheorems, WellFoundedInduction, TLAPS

(* A request that is past the reading carries the first decision of its    *)
(* id, and one on its way to a provider carries a "single" go.             *)
CarriesFirst ==
    \A c \in Operators :
        /\ asked[c].at \in {"create", "send", "record"} =>
              \E d \in 1 .. Len(decisions) : Answers(d, asked[c].of) /\ decisions[d] = asked[c].under
        /\ asked[c].at \in {"send", "record"} =>
              asked[c].under.decision = "go" /\ asked[c].under.mode = "single"

(* An item is heard of in the next state.                                  *)
HeardThen(i) == notices'[i] \in Room!Sections \/ i \in ruled'

ControlInv == ControlTypes /\ CarriesFirst /\ FailureIsHeard /\ OpenIsUnanswered /\ DecisionIsFinal
-----------------------------------------------------------------------------
(* What becomes of the room when a failure is raised.                      *)
LEMMA RaiseKeeps ==
    ASSUME ControlTypes, NEW failed \in BOOLEAN, NEW item \in Subjects, Raise(failed, item)
    PROVE  /\ notices' \in [Subjects -> Room!Sections \cup {"none"}]
           /\ ruled' \subseteq Subjects
           /\ \A i \in Subjects : Heard(i) => HeardThen(i)
           /\ failed => HeardThen(item)
           /\ \A i \in Subjects : i # item => notices'[i] = notices[i]
<1>1. CASE failed
  <2>1. notices' = IF notices[item] = "none" THEN [notices EXCEPT ![item] = "open"] ELSE notices
    BY <1>1 DEF Raise, Room!Ensured
  <2>2. ruled' = ruled \ {item}
    BY <1>1 DEF Raise
  <2>3. notices \in [Subjects -> Room!Sections \cup {"none"}] /\ ruled \subseteq Subjects
    BY DEF ControlTypes
  <2>4. notices' \in [Subjects -> Room!Sections \cup {"none"}]
    BY <2>1, <2>3 DEF Room!Sections
  <2>5. \A i \in Subjects : i # item => notices'[i] = notices[i]
    BY <2>1, <2>3
  <2>6. notices'[item] \in Room!Sections
    BY <2>1, <2>3 DEF Room!Sections
  <2> QED  BY <1>1, <2>2, <2>3, <2>4, <2>5, <2>6 DEF Heard, HeardThen, Room!InRoom
<1>2. CASE ~ failed
  <2>1. notices' = notices /\ ruled' = ruled
    BY <1>2 DEF Raise
  <2> QED  BY <1>2, <2>1 DEF ControlTypes, Heard, HeardThen, Room!InRoom
<1> QED  BY <1>1, <1>2

(* A request moves on, or ends: the others stay as they are.               *)
LEMMA GoesKeeps ==
    ASSUME ControlTypes, NEW c \in Operators, NEW r, r \in Request, InShape(r), Goes(c, r)
    PROVE  /\ asked' \in [Operators -> Request] /\ \A o \in Operators : InShape(asked'[o])
           /\ asked'[c] = r
           /\ \A o \in Operators \ {c} : asked'[o] = asked[o]
<1>1. asked' = [asked EXCEPT ![c] = r] /\ asked \in [Operators -> Request]
  BY DEF Goes, ControlTypes
<1>2. asked' \in [Operators -> Request]
  BY <1>1
<1>3. asked'[c] = r /\ \A o \in Operators \ {c} : asked'[o] = asked[o]
  BY <1>1
<1>4. \A o \in Operators : InShape(asked'[o])
  BY <1>3 DEF ControlTypes
<1> QED  BY <1>2, <1>3, <1>4

(* No request is one, too.                                                 *)
LEMMA NoRequestOK == NoRequest \in Request /\ InShape(NoRequest)
BY DEF NoRequest, Request, InShape

(* ... and so is what an operator is left with at the end.                 *)
LEMMA EndsKeeps ==
    ASSUME ControlTypes, NEW c \in Operators, Ends(c)
    PROVE  /\ asked' \in [Operators -> Request] /\ \A o \in Operators : InShape(asked'[o])
           /\ asked'[c].at = "idle"
           /\ \A o \in Operators \ {c} : asked'[o] = asked[o]
<1>1. Goes(c, NoRequest)
  BY DEF Ends, Goes
<1> QED  BY <1>1, NoRequestOK, GoesKeeps DEF NoRequest

(* The decisions a request may find are on record.                         *)
LEMMA FoundOnRecord ==
    ASSUME ControlTypes, NEW id, NEW d \in Found(id)
    PROVE  d \in 1 .. Len(decisions) /\ Answers(d, id) /\ decisions[d] \in Decision
BY DEF ControlTypes, Found

(* The status of an execute.                                               *)
LEMMA ExecuteStatusType ==
    ASSUME NEW d \in Decision
    PROVE  /\ ExecuteStatus(d) \in {"recorded", "succeeded", "failed"}
           /\ ExecuteStatus(d) = "succeeded" => d.decision = "go" /\ d.mode = "local"
           /\ ExecuteStatus(d) = "recorded" => d.decision = "go" /\ d.mode = "single"
BY DEF Decision, Modes, ExecuteStatus, executeStatusFromDecision
-----------------------------------------------------------------------------
(* Requests leave the stores alone until they record.                      *)
LEMMA BeginsTypes ==
    ASSUME ControlTypes, NEW c \in Operators, NEW r, r \in Request, InShape(r), Begins(c, r)
    PROVE  ControlTypes'
<1>1. asked' \in [Operators -> Request] /\ \A o \in Operators : InShape(asked'[o])
  BY GoesKeeps DEF Begins
<1> QED  BY <1>1 DEF ControlTypes, Begins, quietStores, quietRoom

(* What leaves the stores and the room alone keeps their shape.            *)
LEMMA QuietTypes ==
    ASSUME ControlTypes, quietStores, quietRoom, asked' \in [Operators -> Request],
           \A o \in Operators : InShape(asked'[o])
    PROVE  ControlTypes'
BY DEF ControlTypes, quietStores, quietRoom

(* A verification goes on record: it raises an item, or resolves some.     *)
LEMMA CheckTypes ==
    ASSUME ControlTypes, NEW v \in [id : RecordIds, scope : Scopes, status : {"passed", "failed"}],
           CreateVerification(v)
    PROVE  /\ checks' \in Seq([id : RecordIds, scope : Scopes, status : {"passed", "failed"}])
           /\ notices' \in [Subjects -> Room!Sections \cup {"none"}]
           /\ ruled' \subseteq Subjects
           /\ UNCHANGED <<decisions, executes, calls, preflights>>
<1>1. checks' \in Seq([id : RecordIds, scope : Scopes, status : {"passed", "failed"}])
  BY DEF CreateVerification, ControlTypes
<1>2. CASE v.status = "failed"
  <2>1. CheckItem(v) \in Subjects
    BY DEF CheckItem, Subjects
  <2> QED  BY <1>1, <1>2, <2>1, RaiseKeeps DEF CreateVerification
<1>3. CASE v.status # "failed"
  BY <1>1, <1>3 DEF CreateVerification, ControlTypes, Room!Sections
<1> QED  BY <1>2, <1>3

(* Every step keeps the shape of the state.                                *)
LEMMA ControlTypesKept ==
    ASSUME ControlTypes, [ControlNext]_controlVars PROVE ControlTypes'
<1>1. CASE CreatePreflight
  BY <1>1 DEF ControlTypes, CreatePreflight, quietRoom
<1>2. CASE \E id \in DecisionIds, r, n \in LevelOf, s \in SizeOf, a \in BOOLEAN : EvaluatePolicy(id, r, n, s, a)
  <2>1. PICK id \in DecisionIds, r \in LevelOf, n \in LevelOf, s \in SizeOf, a \in BOOLEAN :
              EvaluatePolicy(id, r, n, s, a)
    BY <1>2
  <2> DEFINE d == decidePolicy(r, n, s, a)
             e == [id |-> id, mode |-> d[1], decision |-> d[2]]
  <2>2. d \in {<<"blocked", "hold">>, <<"single", "go">>, <<"local", "go">>}
    BY DEF decidePolicy
  <2>3. normalizePolicyDecision(e) \in Decision
    BY <2>2 DEF normalizePolicyDecision, canonicalPolicyMode, Decision, Modes
  <2>4. decisions' = Append(decisions, normalizePolicyDecision(e))
    BY <2>1 DEF EvaluatePolicy, CreatePolicy
  <2>5. decisions' \in Seq(Decision)
    BY <2>3, <2>4 DEF ControlTypes
  <2>6. UNCHANGED <<executes, calls, checks, preflights, asked, notices, ruled>>
    BY <2>1 DEF EvaluatePolicy, CreatePolicy, quietRoom
  <2> QED  BY <2>5, <2>6 DEF ControlTypes
<1>3. ASSUME NEW c \in Operators, Control(c) PROVE ControlTypes'
  <2>1. ASSUME NEW id \in RecordIds, NEW of \in DecisionIds, handleExecuteRunRoute(c, id, of)
        PROVE  ControlTypes'
    <3> DEFINE r == [NoRequest EXCEPT !.at = "execute", !.id = id, !.of = of]
    <3>1. r \in Request /\ InShape(r)
      BY DEF NoRequest, Request, InShape
    <3> QED  BY <2>1, <3>1, BeginsTypes DEF handleExecuteRunRoute
  <2>2. ASSUME NEW id \in RecordIds, NEW of \in DecisionIds, NEW says \in CallStates,
               handleGatewayCallsRoute(c, id, of, says)
        PROVE  ControlTypes'
    <3> DEFINE r == [NoRequest EXCEPT !.at = "call", !.id = id, !.of = of, !.says = says]
    <3>1. r \in Request /\ InShape(r)
      BY DEF NoRequest, Request, InShape
    <3> QED  BY <2>2, <3>1, BeginsTypes DEF handleGatewayCallsRoute
  <2>3. ASSUME NEW id \in RecordIds, NEW scope \in Scopes, handleVerificationRunRoute(c, id, scope)
        PROVE  ControlTypes'
    <3> DEFINE r == [NoRequest EXCEPT !.at = "test", !.id = id, !.of = scope]
    <3>1. r \in Request /\ InShape(r)
      BY DEF NoRequest, Request, InShape
    <3> QED  BY <2>3, <3>1, BeginsTypes DEF handleVerificationRunRoute
  <2>4. CASE WorkIsUnknown(c)
    BY <2>4, EndsKeeps, QuietTypes DEF WorkIsUnknown
  <2>5. CASE Fails(c)
    BY <2>5, EndsKeeps, QuietTypes DEF Fails
  <2> QED  BY <1>3, <2>1, <2>2, <2>3, <2>4, <2>5 DEF Control
<1>4. ASSUME NEW c \in Operators, NEW adapter \in {"record", "api"}, Serve(c, adapter) PROVE ControlTypes'
  <2>0. asked[c] \in Request /\ InShape(asked[c])
    BY DEF ControlTypes
  <2>1. CASE RunExecute(c)
    <3>1. ASSUME NEW d \in Found(asked[c].of), Goes(c, [asked[c] EXCEPT !.at = "create", !.under = decisions[d]])
          PROVE  ControlTypes'
      <4> DEFINE r == [asked[c] EXCEPT !.at = "create", !.under = decisions[d]]
      <4>1. asked[c].at = "execute" /\ decisions[d] \in Decision
        BY <2>1, FoundOnRecord DEF RunExecute, Asked
      <4>2. r \in Request /\ InShape(r)
        BY <2>0, <4>1 DEF Request, InShape
      <4> QED  BY <2>1, <3>1, <4>2, GoesKeeps, QuietTypes DEF RunExecute
    <3> QED  BY <2>1, <3>1, EndsKeeps, QuietTypes DEF RunExecute
  <2>2. CASE CreateExecute(c)
    <3>1. asked[c].id \in RecordIds /\ asked[c].of \in DecisionIds /\ asked[c].under \in Decision
      BY <2>0, <2>2 DEF CreateExecute, Asked, InShape
    <3>2. executes' \in Seq([id : RecordIds, of : DecisionIds, status : {"recorded", "succeeded", "failed"}])
      BY <2>2, <3>1, ExecuteStatusType DEF CreateExecute, ExecuteOf, ControlTypes
    <3>3. ExecuteItem(asked[c]) \in Subjects
      BY <3>1 DEF ExecuteItem, Subjects
    <3>4. notices' \in [Subjects -> Room!Sections \cup {"none"}] /\ ruled' \subseteq Subjects
      BY <2>2, <3>3, RaiseKeeps DEF CreateExecute
    <3> QED  BY <2>2, <3>2, <3>4, EndsKeeps DEF ControlTypes, CreateExecute
  <2>3. CASE GatewayAsks(c)
    <3>1. ASSUME NEW d \in Found(asked[c].of), Goes(c, [asked[c] EXCEPT !.at = "send", !.under = decisions[d]])
          PROVE  ControlTypes'
      <4> DEFINE r == [asked[c] EXCEPT !.at = "send", !.under = decisions[d]]
      <4>1. asked[c].at = "call" /\ decisions[d] \in Decision
        BY <2>3, FoundOnRecord DEF GatewayAsks, Asked
      <4>2. r \in Request /\ InShape(r)
        BY <2>0, <4>1 DEF Request, InShape
      <4> QED  BY <2>3, <3>1, <4>2, GoesKeeps, QuietTypes DEF GatewayAsks
    <3> QED  BY <2>3, <3>1, EndsKeeps, QuietTypes DEF GatewayAsks
  <2>4. CASE GatewaySends(c, adapter)
    <3>1. PICK s \in Prepared(adapter, asked[c].says) : Goes(c, [asked[c] EXCEPT !.at = "record", !.says = s])
      BY <2>4 DEF GatewaySends
    <3> DEFINE r == [asked[c] EXCEPT !.at = "record", !.says = s]
    <3>2. asked[c].at = "send"
      BY <2>4 DEF GatewaySends, Asked
    <3>3. s \in CallStates
      BY <2>0, <3>2 DEF Prepared, InShape, CallStates
    <3>4. r \in Request /\ InShape(r)
      BY <2>0, <3>2, <3>3 DEF Request, InShape
    <3> QED  BY <2>4, <3>1, <3>4, GoesKeeps, QuietTypes DEF GatewaySends
  <2>5. CASE GatewayRecords(c)
    <3>1. asked[c].id \in RecordIds /\ asked[c].of \in DecisionIds /\ asked[c].says \in CallStates
      BY <2>0, <2>5 DEF GatewayRecords, Asked, InShape
    <3>2. calls' \in Seq([id : RecordIds, of : DecisionIds, status : CallStates])
      BY <2>5, <3>1 DEF GatewayRecords, ControlTypes
    <3>3. CallItem(asked[c]) \in Subjects
      BY <3>1 DEF CallItem, Subjects
    <3>4. notices' \in [Subjects -> Room!Sections \cup {"none"}] /\ ruled' \subseteq Subjects
      BY <2>5, <3>3, RaiseKeeps DEF GatewayRecords
    <3> QED  BY <2>5, <3>2, <3>4, EndsKeeps DEF ControlTypes, GatewayRecords
  <2>6. ASSUME NEW status \in {"passed", "failed"}, RunVerification(c, status) PROVE ControlTypes'
    <3>1. asked[c].id \in RecordIds /\ asked[c].of \in Scopes
      BY <2>0, <2>6 DEF RunVerification, Asked, InShape
    <3> DEFINE v == [id |-> asked[c].id, scope |-> asked[c].of, status |-> status]
    <3>2. CreateVerification(v)
      BY <2>6 DEF RunVerification
    <3>3. v \in [id : RecordIds, scope : Scopes, status : {"passed", "failed"}]
      BY <3>1
    <3> QED  BY <2>6, <3>2, <3>3, EndsKeeps, CheckTypes DEF ControlTypes, RunVerification
  <2> QED  BY <1>4, <2>1, <2>2, <2>3, <2>4, <2>5, <2>6 DEF Serve
<1>5. ASSUME NEW id \in RecordIds, NEW status \in {"passed", "failed"}, LoopVerification(id, status)
      PROVE  ControlTypes'
  <2> DEFINE v == [id |-> id, scope |-> LoopScope, status |-> status]
  <2>1. v \in [id : RecordIds, scope : Scopes, status : {"passed", "failed"}]
    BY ScopeAssumption
  <2>2. CreateVerification(v) /\ UNCHANGED asked
    BY <1>5 DEF LoopVerification
  <2> QED  BY <2>1, <2>2, CheckTypes DEF ControlTypes
<1>6. ASSUME NEW i \in Subjects, NEW to \in Room!Sections \cup {"none"}, ItemMoved(i, to) PROVE ControlTypes'
  <2>1. notices' = [notices EXCEPT ![i] = to] /\ ruled' \subseteq ruled \cup {i}
    BY <1>6 DEF ItemMoved, Room!Move
  <2> QED  BY <1>6, <2>1 DEF ControlTypes, ItemMoved, quietStores
<1>7. CASE ControlRestart
  BY <1>7, NoRequestOK, QuietTypes DEF ControlRestart, Forgotten
<1>8. CASE UNCHANGED controlVars
  BY <1>8 DEF ControlTypes, controlVars
<1> QED  BY <1>1, <1>2, <1>3, <1>4, <1>5, <1>6, <1>7, <1>8 DEF ControlNext
-----------------------------------------------------------------------------
(* The store only grows, so the first decision of an id stays the first.   *)
LEMMA FirstStays ==
    ASSUME ControlTypes, NEW e, decisions' = Append(decisions, e)
    PROVE  /\ \A id : \A d \in 1 .. Len(decisions) :
                 /\ d \in 1 .. Len(decisions') /\ decisions'[d] = decisions[d]
                 /\ Answers(d, id) => Answers(d, id)'
           /\ \A id, mode : FirstDecision(id, mode) => FirstDecision(id, mode)'
<1>1. Len(decisions') = Len(decisions) + 1 /\ Len(decisions) \in Nat
  BY DEF ControlTypes
<1>2. \A d \in 1 .. Len(decisions) : d \in 1 .. Len(decisions') /\ decisions'[d] = decisions[d]
  BY <1>1 DEF ControlTypes
<1>3. \A d \in 1 .. Len(decisions) : \A k \in 1 .. d - 1 : k \in 1 .. Len(decisions)
  BY <1>1
<1>4. ASSUME NEW id, NEW d \in 1 .. Len(decisions), Answers(d, id) PROVE Answers(d, id)'
  BY <1>2, <1>3, <1>4 DEF Answers
<1>5. ASSUME NEW id, NEW mode, FirstDecision(id, mode) PROVE FirstDecision(id, mode)'
  <2>1. PICK d \in 1 .. Len(decisions) :
            /\ decisions[d].id = id /\ decisions[d].decision = "go" /\ decisions[d].mode = mode
            /\ \A k \in 1 .. d - 1 : decisions[k].id # id
    BY <1>5 DEF FirstDecision
  <2>2. d \in 1 .. Len(decisions') /\ decisions'[d] = decisions[d]
    BY <1>2
  <2>3. \A k \in 1 .. d - 1 : decisions'[k] = decisions[k]
    BY <1>2, <1>3
  <2> QED  BY <2>1, <2>2, <2>3 DEF FirstDecision
<1> QED  BY <1>2, <1>4, <1>5

(* A decision a request carries permits what its status says.              *)
LEMMA CarriedIsFirst ==
    ASSUME ControlTypes, CarriesFirst, NEW c \in Operators, asked[c].at \in {"create", "send", "record"},
           asked[c].under.decision = "go"
    PROVE  FirstDecision(asked[c].of, asked[c].under.mode)
<1>1. PICK d \in 1 .. Len(decisions) : Answers(d, asked[c].of) /\ decisions[d] = asked[c].under
  BY DEF CarriesFirst
<1> QED  BY <1>1 DEF FirstDecision, Answers

(* A request that carries nothing has nothing to show.                     *)
LEMMA CarriesKept ==
    ASSUME ControlTypes, CarriesFirst, UNCHANGED decisions, NEW c \in Operators,
           \A o \in Operators \ {c} : asked'[o] = asked[o],
           asked'[c].at \notin {"create", "send", "record"}
    PROVE  CarriesFirst'
BY DEF CarriesFirst, Answers

(* Every step keeps the first decision with the requests that read it.     *)
LEMMA CarriesFirstKept ==
    ASSUME ControlTypes, CarriesFirst, [ControlNext]_controlVars PROVE CarriesFirst'
<1>1. CASE UNCHANGED <<decisions, asked>>
  BY <1>1 DEF CarriesFirst, Answers
<1>2. ASSUME NEW e, decisions' = Append(decisions, e), UNCHANGED asked PROVE CarriesFirst'
  <2> SUFFICES ASSUME NEW c \in Operators
               PROVE  /\ asked[c].at \in {"create", "send", "record"} =>
                            \E d \in 1 .. Len(decisions') : Answers(d, asked[c].of)' /\ decisions'[d] = asked[c].under
                      /\ asked[c].at \in {"send", "record"} =>
                            asked[c].under.decision = "go" /\ asked[c].under.mode = "single"
    BY <1>2 DEF CarriesFirst, Answers
  <2>1. ASSUME NEW d \in 1 .. Len(decisions), Answers(d, asked[c].of), decisions[d] = asked[c].under
        PROVE  \E k \in 1 .. Len(decisions') : Answers(k, asked[c].of)' /\ decisions'[k] = asked[c].under
    <3>1. d \in 1 .. Len(decisions') /\ decisions'[d] = decisions[d]
      BY <1>2, FirstStays
    <3>2. decisions'[d].id = asked[c].of /\ \A k \in 1 .. d - 1 : decisions'[k].id # asked[c].of
      BY <1>2, <2>1, FirstStays, <3>1 DEF Answers, ControlTypes
    <3> QED  BY <1>2, <2>1, <3>1, <3>2 DEF Answers
  <2> QED  BY <2>1 DEF CarriesFirst
<1>3. ASSUME NEW c \in Operators, NEW r, r \in Request, InShape(r), Begins(c, r),
             r.at \notin {"create", "send", "record"}
      PROVE  CarriesFirst'
  BY <1>3, GoesKeeps, CarriesKept DEF Begins, quietStores
<1>4. ASSUME NEW c \in Operators, Ends(c), UNCHANGED decisions PROVE CarriesFirst'
  BY <1>4, EndsKeeps, CarriesKept
<1>5. ASSUME NEW c \in Operators, NEW r, Goes(c, r), UNCHANGED decisions, r \in Request,
             \E d \in 1 .. Len(decisions) : Answers(d, r.of) /\ decisions[d] = r.under,
             r.at \in {"send", "record"} => r.under.decision = "go" /\ r.under.mode = "single"
      PROVE  CarriesFirst'
  <2>1. asked'[c] = r /\ \A o \in Operators \ {c} : asked'[o] = asked[o]
    BY <1>5 DEF Goes, ControlTypes
  <2> QED  BY <1>5, <2>1 DEF CarriesFirst, Answers
<1>6. ASSUME NEW c \in Operators, Control(c) PROVE CarriesFirst'
  <2>1. ASSUME NEW id \in RecordIds, NEW of \in DecisionIds, handleExecuteRunRoute(c, id, of)
        PROVE  CarriesFirst'
    <3> DEFINE r == [NoRequest EXCEPT !.at = "execute", !.id = id, !.of = of]
    <3>1. r \in Request /\ InShape(r) /\ r.at = "execute"
      BY DEF NoRequest, Request, InShape
    <3> QED  BY <2>1, <3>1, <1>3 DEF handleExecuteRunRoute
  <2>2. ASSUME NEW id \in RecordIds, NEW of \in DecisionIds, NEW says \in CallStates,
               handleGatewayCallsRoute(c, id, of, says)
        PROVE  CarriesFirst'
    <3> DEFINE r == [NoRequest EXCEPT !.at = "call", !.id = id, !.of = of, !.says = says]
    <3>1. r \in Request /\ InShape(r) /\ r.at = "call"
      BY DEF NoRequest, Request, InShape
    <3> QED  BY <2>2, <3>1, <1>3 DEF handleGatewayCallsRoute
  <2>3. ASSUME NEW id \in RecordIds, NEW scope \in Scopes, handleVerificationRunRoute(c, id, scope)
        PROVE  CarriesFirst'
    <3> DEFINE r == [NoRequest EXCEPT !.at = "test", !.id = id, !.of = scope]
    <3>1. r \in Request /\ InShape(r) /\ r.at = "test"
      BY DEF NoRequest, Request, InShape
    <3> QED  BY <2>3, <3>1, <1>3 DEF handleVerificationRunRoute
  <2> QED  BY <1>4, <1>6, <2>1, <2>2, <2>3 DEF Control, WorkIsUnknown, Fails, quietStores
<1>7. ASSUME NEW c \in Operators, NEW adapter \in {"record", "api"}, Serve(c, adapter) PROVE CarriesFirst'
  <2>0. asked[c] \in Request /\ InShape(asked[c])
    BY DEF ControlTypes
  <2>1. CASE RunExecute(c)
    <3>1. ASSUME NEW d \in Found(asked[c].of), Goes(c, [asked[c] EXCEPT !.at = "create", !.under = decisions[d]])
          PROVE  CarriesFirst'
      <4> DEFINE r == [asked[c] EXCEPT !.at = "create", !.under = decisions[d]]
      <4>1. d \in 1 .. Len(decisions) /\ Answers(d, asked[c].of) /\ decisions[d] \in Decision
        BY FoundOnRecord
      <4>2. r \in Request /\ r.at = "create" /\ r.of = asked[c].of /\ r.under = decisions[d]
        BY <2>0, <4>1 DEF Request
      <4> QED  BY <1>5, <2>1, <3>1, <4>1, <4>2 DEF RunExecute, quietStores
    <3> QED  BY <1>4, <2>1, <3>1 DEF RunExecute, quietStores
  <2>2. CASE GatewayAsks(c)
    <3>1. ASSUME NEW d \in Found(asked[c].of), Permits(d),
                 Goes(c, [asked[c] EXCEPT !.at = "send", !.under = decisions[d]])
          PROVE  CarriesFirst'
      <4> DEFINE r == [asked[c] EXCEPT !.at = "send", !.under = decisions[d]]
      <4>1. d \in 1 .. Len(decisions) /\ Answers(d, asked[c].of) /\ decisions[d] \in Decision
        BY FoundOnRecord
      <4>2. r \in Request /\ r.at = "send" /\ r.of = asked[c].of /\ r.under = decisions[d]
        BY <2>0, <4>1 DEF Request
      <4>3. decisions[d].decision = "go" /\ decisions[d].mode = "single"
        BY <3>1, <4>1 DEF Permits, canonicalPolicyMode, Decision, Modes
      <4> QED  BY <1>5, <2>2, <3>1, <4>1, <4>2, <4>3 DEF GatewayAsks, quietStores
    <3> QED  BY <1>4, <2>2, <3>1 DEF GatewayAsks, quietStores
  <2>3. CASE GatewaySends(c, adapter)
    <3>1. PICK s \in Prepared(adapter, asked[c].says) : Goes(c, [asked[c] EXCEPT !.at = "record", !.says = s])
      BY <2>3 DEF GatewaySends
    <3> DEFINE r == [asked[c] EXCEPT !.at = "record", !.says = s]
    <3>2. asked[c].at = "send"
      BY <2>3 DEF GatewaySends, Asked
    <3>3. s \in CallStates
      BY <2>0, <3>2 DEF Prepared, InShape, CallStates
    <3>4. r \in Request /\ r.at = "record" /\ r.of = asked[c].of /\ r.under = asked[c].under
      BY <2>0, <3>3 DEF Request
    <3>5. /\ \E d \in 1 .. Len(decisions) : Answers(d, r.of) /\ decisions[d] = r.under
          /\ r.under.decision = "go" /\ r.under.mode = "single"
      BY <3>2, <3>4 DEF CarriesFirst
    <3> QED  BY <1>5, <2>3, <3>1, <3>4, <3>5 DEF GatewaySends, quietStores
  <2>4. CASE CreateExecute(c) \/ GatewayRecords(c) \/ \E status \in {"passed", "failed"} : RunVerification(c, status)
    <3>1. Ends(c) /\ UNCHANGED decisions
      BY <2>4 DEF CreateExecute, GatewayRecords, RunVerification, CreateVerification
    <3> QED  BY <1>4, <3>1
  <2> QED  BY <1>7, <2>1, <2>2, <2>3, <2>4 DEF Serve
<1>8. CASE ControlRestart
  <2>1. \A o \in Operators : asked'[o].at = "idle"
    BY <1>8 DEF ControlRestart, Forgotten, NoRequest
  <2> QED  BY <2>1 DEF CarriesFirst
<1>9. CASE \/ CreatePreflight \/ UNCHANGED controlVars
           \/ \E id \in RecordIds, status \in {"passed", "failed"} : LoopVerification(id, status)
           \/ \E i \in Subjects, to \in Room!Sections \cup {"none"} : ItemMoved(i, to)
  BY <1>1, <1>9 DEF CreatePreflight, controlVars, LoopVerification, CreateVerification, ItemMoved, quietStores
<1>10. CASE \E id \in DecisionIds, r, n \in LevelOf, s \in SizeOf, a \in BOOLEAN : EvaluatePolicy(id, r, n, s, a)
  BY <1>2, <1>10 DEF EvaluatePolicy, CreatePolicy
<1> QED  BY <1>6, <1>7, <1>8, <1>9, <1>10 DEF ControlNext
-----------------------------------------------------------------------------
(* What leaves the records and the room alone keeps all that is said of    *)
(* them.                                                                   *)
LEMMA QuietKeeps ==
    ASSUME ControlInv, UNCHANGED <<decisions, executes, calls, checks, notices, ruled>>
    PROVE  FailureIsHeard' /\ OpenIsUnanswered' /\ DecisionIsFinal'
<1>1. /\ decisions' = decisions /\ executes' = executes /\ calls' = calls /\ checks' = checks
      /\ notices' = notices /\ ruled' = ruled
  OBVIOUS
<1>2. FailureIsHeard'
  BY <1>1 DEF ControlInv, FailureIsHeard, Heard, Room!InRoom
<1>3. OpenIsUnanswered'
  <2>1. OpenIsUnanswered
    BY DEF ControlInv
  <2> QED BY <1>1, <2>1 DEF OpenIsUnanswered
<1>4. DecisionIsFinal'
  <2>1. DecisionIsFinal
    BY DEF ControlInv
  <2>2. ASSUME NEW id, NEW mode PROVE FirstDecision(id, mode)' <=> FirstDecision(id, mode)
    BY <1>1 DEF FirstDecision
  <2> QED BY <1>1, <2>1, <2>2 DEF DecisionIsFinal
<1> QED BY <1>2, <1>3, <1>4

(* Without a new decision, execute or call nothing changes about them.     *)
LEMMA SameDecisions ==
    ASSUME ControlInv, UNCHANGED <<decisions, executes, calls>> PROVE DecisionIsFinal'
<1>1. \A id, mode : FirstDecision(id, mode)' <=> FirstDecision(id, mode)
  BY DEF FirstDecision
<1> QED  BY <1>1 DEF ControlInv, DecisionIsFinal

(* A decision goes on record.                                              *)
LEMMA PolicyKeeps ==
    ASSUME ControlInv, NEW e, decisions' = Append(decisions, e),
           UNCHANGED <<executes, calls, checks, notices, ruled>>
    PROVE  FailureIsHeard' /\ OpenIsUnanswered' /\ DecisionIsFinal'
<1>1. FailureIsHeard' /\ OpenIsUnanswered'
  BY DEF ControlInv, FailureIsHeard, OpenIsUnanswered, Heard, Room!InRoom
<1>2. \A id, mode : FirstDecision(id, mode) => FirstDecision(id, mode)'
  BY FirstStays DEF ControlInv
<1>3. DecisionIsFinal'
  BY <1>2 DEF ControlInv, DecisionIsFinal
<1> QED  BY <1>1, <1>3

(* Where the items of the records are.                                     *)
LEMMA ItemsInRoom ==
    ASSUME ControlTypes
    PROVE  /\ \A n \in 1 .. Len(executes) : ExecuteItem(executes[n]) \in Subjects
           /\ \A n \in 1 .. Len(calls) : CallItem(calls[n]) \in Subjects
           /\ \A n \in 1 .. Len(checks) : CheckItem(checks[n]) \in Subjects
<1> DEFINE E == [id : RecordIds, of : DecisionIds, status : {"recorded", "succeeded", "failed"}]
           G == [id : RecordIds, of : DecisionIds, status : CallStates]
           V == [id : RecordIds, scope : Scopes, status : {"passed", "failed"}]
<1>1. executes \in Seq(E) /\ calls \in Seq(G) /\ checks \in Seq(V)
  BY DEF ControlTypes
<1>2. /\ \A n \in 1 .. Len(executes) : executes[n] \in E
      /\ \A n \in 1 .. Len(calls) : calls[n] \in G
      /\ \A n \in 1 .. Len(checks) : checks[n] \in V
  <2> HIDE DEF E, G, V
  <2> QED  BY <1>1
<1>3. \A e \in E : ExecuteItem(e) \in Subjects
  BY DEF ExecuteItem, Subjects
<1>4. \A g \in G : CallItem(g) \in Subjects
  BY DEF CallItem, Subjects
<1>5. \A v \in V : CheckItem(v) \in Subjects
  BY DEF CheckItem, Subjects
<1> QED
  <2> HIDE DEF E, G, V
  <2> QED  BY <1>2, <1>3, <1>4, <1>5

(* How FailureIsHeard reads in the next state.                             *)
LEMMA HeardInNext ==
    ASSUME ControlInv,
           \A n \in 1 .. Len(executes') : executes'[n].status = "failed" => HeardThen(ExecuteItem(executes'[n])),
           \A n \in 1 .. Len(calls') : calls'[n].status = "failed" => HeardThen(CallItem(calls'[n])),
           \/ /\ UNCHANGED checks
              /\ \A n \in 1 .. Len(checks) : Heard(CheckItem(checks[n])) => HeardThen(CheckItem(checks[n]))
           \/ \A n \in 1 .. Len(checks') : checks'[n].status = "failed" =>
                 \/ HeardThen(CheckItem(checks'[n]))
                 \/ \E k \in n + 1 .. Len(checks') : checks'[k].status = "passed" /\ checks'[k].scope = checks'[n].scope
    PROVE  FailureIsHeard'
<1>1. \A n \in 1 .. Len(checks') : checks'[n].status = "failed" =>
          \/ HeardThen(CheckItem(checks'[n]))
          \/ \E k \in n + 1 .. Len(checks') : checks'[k].status = "passed" /\ checks'[k].scope = checks'[n].scope
  BY DEF ControlInv, FailureIsHeard
<1> QED  BY <1>1 DEF FailureIsHeard, Heard, HeardThen, Room!InRoom, ExecuteItem, CallItem, CheckItem

(* An execute goes on record.                                              *)
LEMMA ExecuteKeeps ==
    ASSUME ControlInv, NEW c \in Operators, CreateExecute(c)
    PROVE  FailureIsHeard' /\ OpenIsUnanswered' /\ DecisionIsFinal'
<1> DEFINE e == ExecuteOf(asked[c])
           item == ExecuteItem(asked[c])
<1>0. ControlTypes /\ CarriesFirst
  BY DEF ControlInv
<1>1. /\ asked[c].at = "create" /\ asked[c].id \in RecordIds /\ asked[c].of \in DecisionIds
      /\ asked[c].under \in Decision
  BY <1>0 DEF CreateExecute, Asked, ControlTypes, InShape
<1>2. item \in Subjects /\ item.kind = "execute"
  BY <1>1 DEF ExecuteItem, Subjects
<1>3. e.id = asked[c].id /\ e.of = asked[c].of /\ e.status = ExecuteStatus(asked[c].under)
  BY DEF ExecuteOf
<1>4. /\ \A i \in Subjects : Heard(i) => HeardThen(i)
      /\ ExecuteStatus(asked[c].under) = "failed" => HeardThen(item)
      /\ \A i \in Subjects : i # item => notices'[i] = notices[i]
  <2>1. Raise(ExecuteStatus(asked[c].under) = "failed", item)
    BY <1>3 DEF CreateExecute
  <2>2. (ExecuteStatus(asked[c].under) = "failed") \in BOOLEAN
    OBVIOUS
  <2> HIDE DEF item
  <2> QED  BY <1>0, <1>2, <2>1, <2>2, RaiseKeeps
<1>5. executes' = Append(executes, e) /\ UNCHANGED <<decisions, calls, checks>>
  BY DEF CreateExecute
<1>6. /\ Len(executes') = Len(executes) + 1 /\ Len(executes) \in Nat
      /\ \A n \in 1 .. Len(executes) : executes'[n] = executes[n]
      /\ executes'[Len(executes) + 1] = e
  BY <1>0, <1>5 DEF ControlTypes
<1>7. FailureIsHeard'
  <2>1. ASSUME NEW n \in 1 .. Len(executes'), executes'[n].status = "failed"
        PROVE  HeardThen(ExecuteItem(executes'[n]))
    <3>1. CASE n \in 1 .. Len(executes)
      <4>1. executes'[n] = executes[n]
        BY <1>6, <3>1
      <4>2. Heard(ExecuteItem(executes[n]))
        BY <2>1, <3>1, <4>1 DEF ControlInv, FailureIsHeard
      <4>3. ExecuteItem(executes[n]) \in Subjects
        BY <1>0, <3>1, ItemsInRoom
      <4> QED  BY <1>4, <4>1, <4>2, <4>3
    <3>2. CASE n = Len(executes) + 1
      <4>1. executes'[n] = e
        BY <1>6, <3>2
      <4>2. ExecuteItem(e) = item
        BY <1>3 DEF ExecuteItem
      <4> QED  BY <1>3, <1>4, <2>1, <4>1, <4>2
    <3> QED  BY <1>6, <3>1, <3>2
  <2>2. ASSUME NEW n \in 1 .. Len(calls), calls[n].status = "failed" PROVE HeardThen(CallItem(calls[n]))
    BY <1>0, <1>4, <2>2, ItemsInRoom DEF ControlInv, FailureIsHeard
  <2>3. ASSUME NEW n \in 1 .. Len(checks), Heard(CheckItem(checks[n])) PROVE HeardThen(CheckItem(checks[n]))
    BY <1>0, <1>4, <2>3, ItemsInRoom
  <2> QED  BY <1>5, <2>1, <2>2, <2>3, HeardInNext
<1>8. OpenIsUnanswered'
  BY <1>2, <1>4, <1>5 DEF ControlInv, OpenIsUnanswered
<1>9. DecisionIsFinal'
  <2>1. \A id, mode : FirstDecision(id, mode)' <=> FirstDecision(id, mode)
    BY <1>5 DEF FirstDecision
  <2>2. /\ e.status = "succeeded" => FirstDecision(e.of, "local")
        /\ e.status = "recorded" => FirstDecision(e.of, "single")
    BY <1>0, <1>1, <1>3, ExecuteStatusType, CarriedIsFirst
  <2> QED  BY <1>5, <1>6, <2>1, <2>2 DEF ControlInv, DecisionIsFinal
<1> QED  BY <1>7, <1>8, <1>9

(* A provider call goes on record.                                         *)
LEMMA CallKeeps ==
    ASSUME ControlInv, NEW c \in Operators, GatewayRecords(c)
    PROVE  FailureIsHeard' /\ OpenIsUnanswered' /\ DecisionIsFinal'
<1> DEFINE g == [id |-> asked[c].id, of |-> asked[c].of, status |-> asked[c].says]
           item == CallItem(asked[c])
<1>0. ControlTypes /\ CarriesFirst
  BY DEF ControlInv
<1>1. asked[c].at = "record" /\ asked[c].id \in RecordIds
  BY <1>0 DEF GatewayRecords, Asked, ControlTypes, InShape
<1>2. item \in Subjects /\ item.kind = "call"
  BY <1>1 DEF CallItem, Subjects
<1>3. g.id = asked[c].id /\ g.of = asked[c].of /\ g.status = asked[c].says
  OBVIOUS
<1>4. /\ \A i \in Subjects : Heard(i) => HeardThen(i)
      /\ asked[c].says = "failed" => HeardThen(item)
      /\ \A i \in Subjects : i # item => notices'[i] = notices[i]
  <2>1. Raise(asked[c].says = "failed", item)
    BY DEF GatewayRecords
  <2>2. (asked[c].says = "failed") \in BOOLEAN
    OBVIOUS
  <2> HIDE DEF item
  <2> QED  BY <1>0, <1>2, <2>1, <2>2, RaiseKeeps
<1>5. calls' = Append(calls, g) /\ UNCHANGED <<decisions, executes, checks>>
  BY DEF GatewayRecords
<1>6. /\ Len(calls') = Len(calls) + 1 /\ Len(calls) \in Nat
      /\ \A n \in 1 .. Len(calls) : calls'[n] = calls[n]
      /\ calls'[Len(calls) + 1] = g
  BY <1>0, <1>5 DEF ControlTypes
<1>7. FailureIsHeard'
  <2>1. ASSUME NEW n \in 1 .. Len(calls'), calls'[n].status = "failed" PROVE HeardThen(CallItem(calls'[n]))
    <3>1. CASE n \in 1 .. Len(calls)
      <4>1. calls'[n] = calls[n]
        BY <1>6, <3>1
      <4>2. Heard(CallItem(calls[n]))
        BY <2>1, <3>1, <4>1 DEF ControlInv, FailureIsHeard
      <4> QED  BY <1>0, <1>4, <3>1, <4>1, <4>2, ItemsInRoom
    <3>2. CASE n = Len(calls) + 1
      <4>1. calls'[n] = g
        BY <1>6, <3>2
      <4>2. CallItem(g) = item
        BY <1>3 DEF CallItem
      <4> QED  BY <1>3, <1>4, <2>1, <4>1, <4>2
    <3> QED  BY <1>6, <3>1, <3>2
  <2>2. ASSUME NEW n \in 1 .. Len(executes), executes[n].status = "failed" PROVE HeardThen(ExecuteItem(executes[n]))
    BY <1>0, <1>4, <2>2, ItemsInRoom DEF ControlInv, FailureIsHeard
  <2>3. ASSUME NEW n \in 1 .. Len(checks), Heard(CheckItem(checks[n])) PROVE HeardThen(CheckItem(checks[n]))
    BY <1>0, <1>4, <2>3, ItemsInRoom
  <2> QED  BY <1>5, <2>1, <2>2, <2>3, HeardInNext
<1>8. OpenIsUnanswered'
  BY <1>2, <1>4, <1>5 DEF ControlInv, OpenIsUnanswered
<1>9. DecisionIsFinal'
  <2>1. \A id, mode : FirstDecision(id, mode)' <=> FirstDecision(id, mode)
    BY <1>5 DEF FirstDecision
  <2>2. asked[c].under.decision = "go" /\ asked[c].under.mode = "single"
    BY <1>0, <1>1 DEF CarriesFirst
  <2>3. FirstDecision(g.of, "single")
    BY <1>0, <1>1, <1>3, <2>2, CarriedIsFirst
  <2> QED  BY <1>5, <1>6, <2>1, <2>3 DEF ControlInv, DecisionIsFinal
<1> QED  BY <1>7, <1>8, <1>9

(* A verification goes on record: a failure is heard of, and a success     *)
(* answers the open items of its scope and no others.                      *)
LEMMA CheckKeeps ==
    ASSUME ControlInv, NEW v \in [id : RecordIds, scope : Scopes, status : {"passed", "failed"}],
           CreateVerification(v)
    PROVE  FailureIsHeard' /\ OpenIsUnanswered' /\ DecisionIsFinal'
<1> DEFINE item == CheckItem(v)
<1>0. ControlTypes
  BY DEF ControlInv
<1>1. item \in Subjects /\ item.kind = "check" /\ item.of = v.scope
  BY DEF CheckItem, Subjects
<1>2. checks' = Append(checks, v) /\ UNCHANGED <<decisions, executes, calls>>
  BY DEF CreateVerification
<1>3. /\ Len(checks') = Len(checks) + 1 /\ Len(checks) \in Nat
      /\ \A n \in 1 .. Len(checks) : checks'[n] = checks[n]
      /\ checks'[Len(checks) + 1] = v
  BY <1>0, <1>2 DEF ControlTypes
<1>4. DecisionIsFinal'
  BY <1>2, SameDecisions
<1>5. CASE v.status = "failed"
  <2>1. /\ \A i \in Subjects : Heard(i) => HeardThen(i)
        /\ HeardThen(item)
        /\ \A i \in Subjects : i # item => notices'[i] = notices[i]
    <3>1. Raise(TRUE, item)
      BY <1>5 DEF CreateVerification
    <3> HIDE DEF item
    <3> QED  BY <1>0, <1>1, <3>1, RaiseKeeps
  <2>2. FailureIsHeard'
    <3>1. ASSUME NEW n \in 1 .. Len(checks'), checks'[n].status = "failed"
          PROVE  \/ HeardThen(CheckItem(checks'[n]))
                 \/ \E k \in n + 1 .. Len(checks') : checks'[k].status = "passed" /\ checks'[k].scope = checks'[n].scope
      <4>1. CASE n \in 1 .. Len(checks)
        <5>1. CASE Heard(CheckItem(checks[n]))
          BY <1>0, <1>3, <2>1, <4>1, <5>1, ItemsInRoom
        <5>2. CASE \E k \in n + 1 .. Len(checks) : checks[k].status = "passed" /\ checks[k].scope = checks[n].scope
          BY <1>3, <4>1, <5>2
        <5> QED  BY <1>3, <3>1, <4>1, <5>1, <5>2 DEF ControlInv, FailureIsHeard
      <4>2. CASE n = Len(checks) + 1
        BY <1>3, <2>1, <4>2
      <4> QED  BY <1>3, <4>1, <4>2
    <3>2. ASSUME NEW n \in 1 .. Len(executes), executes[n].status = "failed" PROVE HeardThen(ExecuteItem(executes[n]))
      BY <1>0, <2>1, <3>2, ItemsInRoom DEF ControlInv, FailureIsHeard
    <3>3. ASSUME NEW n \in 1 .. Len(calls), calls[n].status = "failed" PROVE HeardThen(CallItem(calls[n]))
      BY <1>0, <2>1, <3>3, ItemsInRoom DEF ControlInv, FailureIsHeard
    <3> QED  BY <1>2, <3>1, <3>2, <3>3, HeardInNext
  <2>3. OpenIsUnanswered'
    <3> SUFFICES ASSUME NEW i \in Subjects, i.kind = "check", notices'[i] = "open"
                 PROVE  \E n \in 1 .. Len(checks') :
                            /\ CheckItem(checks'[n]) = i /\ checks'[n].status = "failed"
                            /\ \A k \in n + 1 .. Len(checks') : checks'[k].status = "passed" => checks'[k].scope # i.of
      BY DEF OpenIsUnanswered, CheckItem
    <3>1. CASE i = item
      <4>1. Len(checks) + 1 \in 1 .. Len(checks')
        BY <1>3
      <4>2. \A k \in Len(checks) + 1 + 1 .. Len(checks') : FALSE
        BY <1>3
      <4> QED  BY <1>3, <1>5, <3>1, <4>1, <4>2
    <3>2. CASE i # item
      <4>1. PICK n \in 1 .. Len(checks) :
                /\ CheckItem(checks[n]) = i /\ checks[n].status = "failed"
                /\ \A k \in n + 1 .. Len(checks) : checks[k].status = "passed" => checks[k].scope # i.of
        BY <2>1, <3>2 DEF ControlInv, OpenIsUnanswered
      <4>2. n \in 1 .. Len(checks')
        BY <1>3
      <4>3. \A k \in n + 1 .. Len(checks') : checks'[k].status = "passed" => checks'[k].scope # i.of
        BY <1>3, <1>5, <4>1
      <4> QED  BY <1>3, <4>1, <4>2, <4>3
    <3> QED  BY <3>1, <3>2
  <2> QED  BY <1>4, <2>2, <2>3
<1>6. CASE v.status = "passed"
  <2>1. /\ \A i \in Subjects : notices'[i] = IF i \in Cleared(v.scope) THEN "none" ELSE notices[i]
        /\ ruled' = ruled
    BY <1>6 DEF CreateVerification
  <2>2. \A i \in Subjects : Heard(i) => HeardThen(i) \/ (i.kind = "check" /\ i.of = v.scope)
    BY <2>1 DEF Heard, HeardThen, Room!InRoom, Cleared
  <2>3. FailureIsHeard'
    <3>1. ASSUME NEW n \in 1 .. Len(checks'), checks'[n].status = "failed"
          PROVE  \/ HeardThen(CheckItem(checks'[n]))
                 \/ \E k \in n + 1 .. Len(checks') : checks'[k].status = "passed" /\ checks'[k].scope = checks'[n].scope
      <4>1. n \in 1 .. Len(checks) /\ checks'[n] = checks[n]
        BY <1>3, <1>6, <3>1
      <4>2. CASE Heard(CheckItem(checks[n]))
        <5>1. HeardThen(CheckItem(checks[n])) \/ checks[n].scope = v.scope
          BY <1>0, <2>2, <4>1, <4>2, ItemsInRoom DEF CheckItem
        <5>2. Len(checks) + 1 \in n + 1 .. Len(checks')
          BY <1>3, <4>1
        <5> QED  BY <1>3, <1>6, <4>1, <5>1, <5>2
      <4>3. CASE \E k \in n + 1 .. Len(checks) : checks[k].status = "passed" /\ checks[k].scope = checks[n].scope
        BY <1>3, <4>1, <4>3
      <4> QED  BY <3>1, <4>1, <4>2, <4>3 DEF ControlInv, FailureIsHeard
    <3>2. ASSUME NEW n \in 1 .. Len(executes), executes[n].status = "failed" PROVE HeardThen(ExecuteItem(executes[n]))
      <4>1. Heard(ExecuteItem(executes[n])) /\ ExecuteItem(executes[n]) \in Subjects
        BY <1>0, <3>2, ItemsInRoom DEF ControlInv, FailureIsHeard
      <4>2. ExecuteItem(executes[n]).kind = "execute"
        BY DEF ExecuteItem
      <4> QED  BY <2>2, <4>1, <4>2
    <3>3. ASSUME NEW n \in 1 .. Len(calls), calls[n].status = "failed" PROVE HeardThen(CallItem(calls[n]))
      <4>1. Heard(CallItem(calls[n])) /\ CallItem(calls[n]) \in Subjects
        BY <1>0, <3>3, ItemsInRoom DEF ControlInv, FailureIsHeard
      <4>2. CallItem(calls[n]).kind = "call"
        BY DEF CallItem
      <4> QED  BY <2>2, <4>1, <4>2
    <3> QED  BY <1>2, <3>1, <3>2, <3>3, HeardInNext
  <2>4. OpenIsUnanswered'
    <3> SUFFICES ASSUME NEW i \in Subjects, i.kind = "check", notices'[i] = "open"
                 PROVE  \E n \in 1 .. Len(checks') :
                            /\ CheckItem(checks'[n]) = i /\ checks'[n].status = "failed"
                            /\ \A k \in n + 1 .. Len(checks') : checks'[k].status = "passed" => checks'[k].scope # i.of
      BY DEF OpenIsUnanswered, CheckItem
    <3>1. notices[i] = "open" /\ i.of # v.scope
      BY <2>1 DEF Cleared
    <3>2. PICK n \in 1 .. Len(checks) :
              /\ CheckItem(checks[n]) = i /\ checks[n].status = "failed"
              /\ \A k \in n + 1 .. Len(checks) : checks[k].status = "passed" => checks[k].scope # i.of
      BY <3>1 DEF ControlInv, OpenIsUnanswered
    <3>3. n \in 1 .. Len(checks')
      BY <1>3
    <3>4. \A k \in n + 1 .. Len(checks') : checks'[k].status = "passed" => checks'[k].scope # i.of
      BY <1>3, <3>1, <3>2
    <3> QED  BY <1>3, <3>2, <3>3, <3>4
  <2> QED  BY <1>4, <2>3, <2>4
<1> QED  BY <1>5, <1>6

(* The founder moves an item: one that leaves the room is ruled on.        *)
LEMMA MoveKeeps ==
    ASSUME ControlInv, NEW i \in Subjects, NEW to \in Room!Sections \cup {"none"}, ItemMoved(i, to)
    PROVE  FailureIsHeard' /\ OpenIsUnanswered' /\ DecisionIsFinal'
<1>0. ControlTypes
  BY DEF ControlInv
<1>1. UNCHANGED <<decisions, executes, calls, checks>>
  BY DEF ItemMoved, quietStores
<1>2. /\ notices' = [notices EXCEPT ![i] = to] /\ to # "open"
      /\ ruled' = IF to = "none" THEN ruled \cup {i} ELSE ruled
  BY DEF ItemMoved, Room!Move
<1>3. \A s \in Subjects : notices'[s] = IF s = i THEN to ELSE notices[s]
  BY <1>0, <1>2 DEF ControlTypes
<1>4. \A s \in Subjects : Heard(s) => HeardThen(s)
  BY <1>2, <1>3 DEF Heard, HeardThen, Room!InRoom
<1>5. FailureIsHeard'
  <2>1. ASSUME NEW n \in 1 .. Len(executes), executes[n].status = "failed" PROVE HeardThen(ExecuteItem(executes[n]))
    BY <1>0, <1>4, <2>1, ItemsInRoom DEF ControlInv, FailureIsHeard
  <2>2. ASSUME NEW n \in 1 .. Len(calls), calls[n].status = "failed" PROVE HeardThen(CallItem(calls[n]))
    BY <1>0, <1>4, <2>2, ItemsInRoom DEF ControlInv, FailureIsHeard
  <2>3. ASSUME NEW n \in 1 .. Len(checks), Heard(CheckItem(checks[n])) PROVE HeardThen(CheckItem(checks[n]))
    BY <1>0, <1>4, <2>3, ItemsInRoom
  <2> QED  BY <1>1, <2>1, <2>2, <2>3, HeardInNext
<1>6. OpenIsUnanswered'
  BY <1>1, <1>2, <1>3 DEF ControlInv, OpenIsUnanswered
<1>7. DecisionIsFinal'
  BY <1>1, SameDecisions
<1> QED  BY <1>5, <1>6, <1>7
-----------------------------------------------------------------------------
(* The store starts with decisions in their canonical modes.               *)
LEMMA ControlInitial ==
    ASSUME NEW legacy \in Seq(Legacy), ControlInit(legacy) PROVE ControlInv
<1>1. Len(legacy) \in Nat /\ \A d \in 1 .. Len(legacy) : legacy[d] \in Legacy
  OBVIOUS
<1>2. \A d \in Legacy : normalizePolicyDecision(d) \in Decision
  BY DEF Legacy, normalizePolicyDecision, canonicalPolicyMode, Decision, Modes
<1>3. decisions \in Seq(Decision)
  <2>1. decisions \in [1 .. Len(legacy) -> Decision]
    BY <1>1, <1>2 DEF ControlInit
  <2> QED  BY <1>1, <2>1
<1>4. asked \in [Operators -> Request] /\ \A c \in Operators : InShape(asked[c]) /\ asked[c].at = "idle"
  BY NoRequestOK DEF ControlInit, Forgotten, NoRequest
<1>5. ControlTypes
  BY <1>3, <1>4 DEF ControlTypes, ControlInit, Room!Sections
<1>6. CarriesFirst
  BY <1>4 DEF CarriesFirst
<1>7. Len(executes) = 0 /\ Len(calls) = 0 /\ Len(checks) = 0 /\ \A i \in Subjects : notices[i] = "none"
  BY DEF ControlInit
<1>8. FailureIsHeard /\ OpenIsUnanswered /\ DecisionIsFinal
  BY <1>7 DEF FailureIsHeard, OpenIsUnanswered, DecisionIsFinal
<1> QED  BY <1>5, <1>6, <1>8 DEF ControlInv

(* Every step keeps the invariant.                                         *)
LEMMA ControlStepKeeps ==
    ASSUME ControlInv, [ControlNext]_controlVars PROVE ControlInv'
<1>0. ControlTypes' /\ CarriesFirst'
  BY ControlTypesKept, CarriesFirstKept DEF ControlInv
<1> DEFINE Kept == FailureIsHeard' /\ OpenIsUnanswered' /\ DecisionIsFinal'
<1> SUFFICES Kept  BY <1>0 DEF ControlInv
<1>1. CASE CreatePreflight \/ ControlRestart \/ UNCHANGED controlVars
  BY <1>1, QuietKeeps DEF CreatePreflight, ControlRestart, controlVars, quietStores, quietRoom
<1>2. CASE \E id \in DecisionIds, r, n \in LevelOf, s \in SizeOf, a \in BOOLEAN : EvaluatePolicy(id, r, n, s, a)
  BY <1>2, PolicyKeeps DEF EvaluatePolicy, CreatePolicy, quietRoom
<1>3. ASSUME NEW c \in Operators, Control(c) PROVE Kept
  BY <1>3, QuietKeeps DEF Control, handleExecuteRunRoute, handleGatewayCallsRoute, handleVerificationRunRoute,
     Begins, WorkIsUnknown, Fails, quietStores, quietRoom
<1>4. ASSUME NEW c \in Operators, NEW adapter \in {"record", "api"}, Serve(c, adapter) PROVE Kept
  <2>1. CASE RunExecute(c) \/ GatewayAsks(c) \/ GatewaySends(c, adapter)
    BY <2>1, QuietKeeps DEF RunExecute, GatewayAsks, GatewaySends, quietStores, quietRoom
  <2>2. CASE CreateExecute(c)
    BY <2>2, ExecuteKeeps
  <2>3. CASE GatewayRecords(c)
    BY <2>3, CallKeeps
  <2>4. ASSUME NEW status \in {"passed", "failed"}, RunVerification(c, status) PROVE Kept
    <3> DEFINE v == [id |-> asked[c].id, scope |-> asked[c].of, status |-> status]
    <3>1. asked[c].id \in RecordIds /\ asked[c].of \in Scopes
      BY <2>4 DEF ControlInv, ControlTypes, RunVerification, Asked, InShape
    <3>2. v \in [id : RecordIds, scope : Scopes, status : {"passed", "failed"}]
      BY <3>1
    <3>3. CreateVerification(v)
      BY <2>4 DEF RunVerification
    <3> QED  BY <3>2, <3>3, CheckKeeps
  <2> QED  BY <1>4, <2>1, <2>2, <2>3, <2>4 DEF Serve
<1>5. ASSUME NEW id \in RecordIds, NEW status \in {"passed", "failed"}, LoopVerification(id, status) PROVE Kept
  <2> DEFINE v == [id |-> id, scope |-> LoopScope, status |-> status]
  <2>1. v \in [id : RecordIds, scope : Scopes, status : {"passed", "failed"}]
    BY ScopeAssumption
  <2>2. CreateVerification(v)
    BY <1>5 DEF LoopVerification
  <2> QED  BY <2>1, <2>2, CheckKeeps
<1>6. CASE \E i \in Subjects, to \in Room!Sections \cup {"none"} : ItemMoved(i, to)
  BY <1>6, MoveKeeps
<1> QED  BY <1>1, <1>2, <1>3, <1>4, <1>5, <1>6 DEF ControlNext

(* All that follows rests on this invariant.                               *)
THEOREM ControlInvariant == ControlSpec => []ControlInv
<1>1. (\E legacy \in Seq(Legacy) : ControlInit(legacy)) => ControlInv
  BY ControlInitial
<1>2. ControlInv /\ [ControlNext]_controlVars => ControlInv'
  BY ControlStepKeeps
<1> QED  BY <1>1, <1>2, PTL DEF ControlSpec

(* Every failed execute, call and verification is on the agenda until the  *)
(* founder rules or, for a verification, its scope passes (CreateExecute,  *)
(* createGatewayCallWithPayload, CreateVerification).                      *)
THEOREM FailuresAreHeard == ControlSpec => []FailureIsHeard
<1>1. ControlInv => FailureIsHeard  BY DEF ControlInv
<1> QED  BY <1>1, ControlInvariant, PTL

(* No item of a verification stays open after its scope has passed         *)
(* (autoResolveReviewRoomItemsByEvidenceLocked).                           *)
THEOREM OpenItemsAreUnanswered == ControlSpec => []OpenIsUnanswered
<1>1. ControlInv => OpenIsUnanswered  BY DEF ControlInv
<1> QED  BY <1>1, ControlInvariant, PTL

(* Executes and calls keep to the first decision of their id, although it  *)
(* is read in one critical section and used in another (RunExecute,        *)
(* createGatewayCallWithPayload).                                          *)
THEOREM DecisionsAreFinal == ControlSpec => []DecisionIsFinal
<1>1. ControlInv => DecisionIsFinal  BY DEF ControlInv
<1> QED  BY <1>1, ControlInvariant, PTL
-----------------------------------------------------------------------------
(* The office as a whole.                                                  *)
LEMMA EnvInit == Init => env \in Environments
BY DEF Init, LoopInit, WorkInit

(* The set-up of an office does not change.                                *)
LEMMA EnvKept == [Next]_vars => env' = env
<1> SUFFICES ASSUME [Next]_vars PROVE env' = env
  OBVIOUS
<1>1. CASE LoopNext
  <2>1. ASSUME NEW w \in Workers, WorkerStep(w) PROVE env' = env
    BY <2>1 DEF WorkerStep, Poll, DispatchQueued, StartRun, StartFails, Write, Finish, Report,
         ReportAccepted, ReportRefused, ReportUnheard
  <2>2. ASSUME NEW w \in Workers, Kill(w) \/ StartWorker(w) PROVE env' = env
    BY <2>2 DEF Kill, StartWorker
  <2>3. ASSUME NEW j \in Jobs, ClientDispatches(j) PROVE env' = env
    BY <2>3 DEF ClientDispatches
  <2>4. CASE Develop \/ Settle
    BY <2>4 DEF Develop, Settle, quietDaemon
  <2>5. CASE QuickStep
    BY <2>5 DEF QuickStep, QuickSeed, QuickOpen, QuickPromotes, QuickTries, QuickSends, QuickWaits,
         QuickLooksAgain, QuickIdles, quietQuick
  <2> QED BY <1>1, <2>1, <2>2, <2>3, <2>4, <2>5 DEF LoopNext
<1>2. CASE QuickReadsBootstrap \/ QuickLeaves
  BY <1>2 DEF QuickReadsBootstrap, QuickLeaves, QuickExits, QuickIdles, quietQuick, workVars
<1>3. CASE \E w \in Workers : WorkerLeaves(w)
  BY <1>3 DEF WorkerLeaves, WorkerExits
<1>4. CASE DaemonRestarts
  BY <1>4 DEF DaemonRestarts, Restart, quietDaemon
<1>5. CASE Desk \/ Entering \/ Saving \/ Serving
  BY <1>5 DEF Desk, atDesk, quietWork, Entering, Saving, Serving, workVars
<1>6. CASE Architecting
  <2>1. CASE ArchitectStep
    BY <2>1 DEF ArchitectStep, VerificationEnds, VerificationLost, Repair, RepairFails, Send,
         EnsureExisting, EnsureNew, EnsureFails, quietDaemon, workVars
  <2>2. CASE TickRecovers \/ Collecting("tick") \/ TickGoesOn
    BY <2>2 DEF TickRecovers, Collecting, TickGoesOn, Tick, workVars
  <2> QED BY <1>6, <2>1, <2>2 DEF Architecting
<1>7. CASE \E c \in Collectors \ {"tick"} : Collecting(c)
  BY <1>7 DEF Collecting, workVars
<1>8. CASE UNCHANGED vars
  BY <1>8 DEF vars, workVars
<1> QED BY <1>1, <1>2, <1>3, <1>4, <1>5, <1>6, <1>7, <1>8 DEF Next

(* The set-up is one of those there are, and stays.                        *)
EnvOk == env \in Environments

(* The set-up of a behaviour is one the assumptions on Environments        *)
(* cover.                                                                  *)
LEMMA EnvMeans == EnvOk => WorkEnvironment(env) /\ LoopEnvironment(env) /\ DeskEnvironment(env)
BY OfficeAssumption DEF EnvOk
-----------------------------------------------------------------------------
(* Threads.  A request that has read the file has it right but for what it *)
(* is behind with, so that its write brings back nothing that was answered *)
(* since without the ground truth knowing.                                 *)
ThreadState == {"none", "open", "ensure"} \cup Settlements
SaverType ==
    [pc : {"idle", "ensure", "read", "find", "write"}, id : Ids \cup {NoSave.id}, want : ThreadState,
     file : [Ids -> ThreadState], behind : SUBSET Ids]
ThreadTypes ==
    /\ threads \in [Ids -> ThreadState] /\ said \in [Ids -> ThreadState] /\ blurred \subseteq Ids
    /\ saver \in [Savers -> SaverType]
    /\ \A c \in Savers : saver[c].pc # "idle" => saver[c].id \in Ids
HasRead(c) == saver[c].pc \in {"find", "write"}
ReadIsRight ==
    \A c \in Savers : HasRead(c) => \A t \in Ids \ saver[c].behind : saver[c].file[t] = threads[t]
ThreadInv == ThreadTypes /\ ReadIsRight /\ AnsweredIsStored

(* What the office does to the threads.                                    *)
ThreadNext ==
    \/ \E c \in Savers, t \in Ids, want \in ThreadState : SaveBegins(c, t, want)
    \/ \E c \in Savers : SaveMisreads(c) \/ SaveStep(c)
    \/ saver' = [c \in Savers |-> NoSave] /\ UNCHANGED <<threads, said, blurred>>

(* Every step of the office is, for the thread file and its writers, one   *)
(* of theirs or none.                                                      *)
LEMMA ThreadSteps == EnvOk /\ [Next]_vars => [ThreadNext]_threadVars
<1> SUFFICES ASSUME EnvOk, [Next]_vars PROVE ThreadNext \/ UNCHANGED threadVars
  OBVIOUS
<1>1. CASE (LoopNext /\ UNCHANGED deskVars) \/ UNCHANGED vars
  BY <1>1 DEF deskVars, vars
<1>2. CASE QuickReadsBootstrap \/ QuickLeaves \/ \E w \in Workers : WorkerLeaves(w)
  BY <1>2 DEF QuickReadsBootstrap, QuickLeaves, WorkerLeaves
<1>3. CASE DaemonRestarts
  BY <1>3 DEF DaemonRestarts, ThreadNext
<1>4. CASE Desk
  <2>1. CASE UNCHANGED threadVars
    BY <2>1
  <2>2. CASE Asking
    <3>1. ASSUME NEW c \in Savers, NEW q \in env.questions, NEW want \in {"open", "ensure", "resolved"},
                 SaveBegins(c, ManualThread(q), want)
          PROVE  ThreadNext
      <4>1. ManualThread(q) \in Ids
        BY EnvMeans DEF DeskEnvironment, Ids
      <4> QED BY <3>1, <4>1 DEF ThreadNext, ThreadState, Settlements
    <3>2. ASSUME NEW c \in Savers, NEW i \in env.agenda, NEW s \in {"open", "deferred"},
                 SaveBegins(c, RoomThread(i, s), "dismissed")
          PROVE  ThreadNext
      <4>1. RoomThread(i, s) \in Ids
        BY EnvMeans DEF DeskEnvironment, Ids
      <4> QED BY <3>2, <4>1 DEF ThreadNext, ThreadState, Settlements
    <3>3. ASSUME NEW c \in Savers, SaveMisreads(c) PROVE ThreadNext
      BY <3>3 DEF ThreadNext
    <3> QED BY <2>2, <3>1, <3>2, <3>3 DEF Asking
  <2> QED BY <1>4, <2>1, <2>2 DEF Desk
<1>5. CASE Saving
  BY <1>5 DEF Saving, ThreadNext
<1>6. CASE Entering \/ Serving
  BY <1>6 DEF Entering, Serving
<1>7. CASE Architecting \/ \E c \in Collectors \ {"tick"} : Collecting(c)
  BY <1>7 DEF Architecting, TickRecovers, TickGoesOn, Collecting
<1> QED BY <1>1, <1>2, <1>3, <1>4, <1>5, <1>6, <1>7 DEF Next

(* A request that is not at work has read nothing and is behind with       *)
(* nothing.                                                                *)
LEMMA NoSaveTyped == NoSave \in SaverType /\ NoSave.pc = "idle" /\ NoSave.behind = {}
BY DEF NoSave, SaverType, ThreadState

(* The file and the writers start as the invariant says.                   *)
LEMMA ThreadInitial == ThreadInit => ThreadInv
BY NoSaveTyped DEF ThreadInit, ThreadInv, ThreadTypes, ReadIsRight, HasRead, AnsweredIsStored, ThreadState

(* A request moves on and nothing is written.                              *)
LEMMA SaverMoves ==
    ASSUME ThreadInv, NEW c \in Savers, NEW r \in SaverType, r.pc # "idle" => r.id \in Ids,
           SetSaver(c, r), UNCHANGED <<threads, said, blurred>>,
           r.pc \in {"find", "write"} => \A t \in Ids \ r.behind : r.file[t] = threads[t]
    PROVE  ThreadInv'
<1>1. saver' \in [Savers -> SaverType] /\ saver'[c] = r /\ \A d \in Savers : d # c => saver'[d] = saver[d]
  BY DEF SetSaver, ThreadInv, ThreadTypes
<1>2. ThreadTypes'
  BY <1>1 DEF ThreadInv, ThreadTypes
<1>3. ReadIsRight'
  BY <1>1 DEF ThreadInv, ReadIsRight, HasRead
<1> QED BY <1>2, <1>3 DEF ThreadInv, AnsweredIsStored

(* A save that begins, reads, misreads or writes keeps it, and so does a   *)
(* restart.                                                                *)
LEMMA ThreadStep == ThreadInv /\ [ThreadNext]_threadVars => ThreadInv'
<1> SUFFICES ASSUME ThreadInv, [ThreadNext]_threadVars PROVE ThreadInv'
  OBVIOUS
<1>1. \A c \in Savers : saver[c] \in SaverType /\ (saver[c].pc # "idle" => saver[c].id \in Ids)
  BY DEF ThreadInv, ThreadTypes
<1>2. ASSUME NEW c \in Savers, NEW t \in Ids, NEW want \in ThreadState, SaveBegins(c, t, want)
      PROVE  ThreadInv'
  <2> DEFINE r == [NoSave EXCEPT !.pc = IF want = "ensure" THEN "ensure" ELSE "read", !.id = t, !.want = want]
  <2>1. r \in SaverType /\ r.pc \notin {"find", "write"} /\ r.id = t
    BY NoSaveTyped DEF SaverType
  <2> QED BY <1>2, <2>1, SaverMoves DEF SaveBegins
<1>3. ASSUME NEW c \in Savers, SaveMisreads(c) PROVE ThreadInv'
  <2> DEFINE r == [saver[c] EXCEPT !.pc = "find", !.behind = Ids]
  <2>1. r \in SaverType /\ r.behind = Ids /\ r.id = saver[c].id
    BY <1>1 DEF SaverType
  <2> QED BY <1>1, <1>3, <2>1, SaverMoves DEF SaveMisreads
<1>4. ASSUME NEW c \in Savers, SaveEnsures(c) PROVE ThreadInv'
  <2> DEFINE r == [saver[c] EXCEPT !.pc = "read", !.want = "open"]
  <2>1. r \in SaverType /\ r.pc = "read" /\ r.id = saver[c].id
    BY <1>1 DEF SaverType, ThreadState
  <2>2. SetSaver(c, NoSave) \/ SetSaver(c, r)
    BY <1>4 DEF SaveEnsures
  <2> QED BY <1>1, <1>4, <2>1, <2>2, NoSaveTyped, SaverMoves DEF SaveEnsures
<1>5. ASSUME NEW c \in Savers, SaveReads(c) PROVE ThreadInv'
  <2> DEFINE r == [saver[c] EXCEPT !.pc = "find", !.file = threads]
  <2>1. threads \in [Ids -> ThreadState]
    BY DEF ThreadInv, ThreadTypes
  <2>2. r \in SaverType /\ r.file = threads /\ r.id = saver[c].id
    BY <1>1, <2>1 DEF SaverType
  <2> QED BY <1>1, <1>5, <2>2, SaverMoves DEF SaveReads
<1>6. ASSUME NEW c \in Savers, SaveFinds(c) PROVE ThreadInv'
  <2> DEFINE r == [saver[c] EXCEPT !.pc = "write"]
  <2>1. r \in SaverType /\ r.file = saver[c].file /\ r.behind = saver[c].behind /\ r.id = saver[c].id
    BY <1>1 DEF SaverType
  <2>2. \A t \in Ids \ saver[c].behind : saver[c].file[t] = threads[t]
    BY <1>6 DEF SaveFinds, ThreadInv, ReadIsRight, HasRead
  <2>3. SetSaver(c, NoSave) \/ SetSaver(c, r)
    BY <1>6 DEF SaveFinds
  <2> QED BY <1>1, <1>6, <2>1, <2>2, <2>3, NoSaveTyped, SaverMoves DEF SaveFinds
<1>7. ASSUME NEW c \in Savers, SaveWrites(c) PROVE ThreadInv'
  <2> DEFINE t == saver[c].id
             behind(d) == saver[d].behind \cup {t} \cup saver[c].behind
  <2>1. /\ saver[c].pc = "write" /\ t \in Ids /\ saver[c] \in SaverType
        /\ \A u \in Ids \ saver[c].behind : saver[c].file[u] = threads[u]
    BY <1>1, <1>7 DEF SaveWrites, ThreadInv, ReadIsRight, HasRead
  <2>2. /\ saver[c].file \in [Ids -> ThreadState] /\ saver[c].want \in ThreadState
        /\ saver[c].behind \subseteq Ids
        /\ threads \in [Ids -> ThreadState] /\ said \in [Ids -> ThreadState] /\ blurred \subseteq Ids
    BY <2>1 DEF SaverType, ThreadInv, ThreadTypes
  <2>3. /\ threads' = [saver[c].file EXCEPT ![t] = saver[c].want]
        /\ said' = [said EXCEPT ![t] = saver[c].want]
        /\ blurred' = (blurred \cup saver[c].behind) \ {t}
    BY <1>7 DEF SaveWrites, upsertStoredOpenThread
  <2>4. ASSUME NEW d \in Savers
        PROVE  /\ saver'[d] \in SaverType
               /\ saver'[d].pc # "idle" => saver'[d].id \in Ids
               /\ HasRead(d)' => /\ HasRead(d) /\ saver'[d].file = saver[d].file
                                 /\ saver'[d].behind = behind(d)
    <3>1. saver'[d] = IF d = c THEN NoSave
                      ELSE IF HasRead(d) THEN [saver[d] EXCEPT !.behind = behind(d)] ELSE saver[d]
      BY <1>7 DEF SaveWrites, HasRead
    <3>2. saver[d] \in SaverType /\ behind(d) \subseteq Ids
      BY <1>1, <2>1, <2>2 DEF SaverType
    <3>3. CASE d = c
      BY <3>1, <3>3, NoSaveTyped DEF HasRead
    <3>4. CASE d # c /\ HasRead(d)
      <4>1. saver'[d] = [saver[d] EXCEPT !.behind = behind(d)]
        BY <3>1, <3>4
      <4> HIDE DEF behind
      <4>2. saver'[d] \in SaverType /\ saver'[d].id = saver[d].id /\ saver'[d].pc = saver[d].pc
            /\ saver'[d].file = saver[d].file /\ saver'[d].behind = behind(d)
        BY <4>1, <3>2 DEF SaverType
      <4> QED BY <4>2, <3>4, <1>1
    <3>5. CASE d # c /\ ~HasRead(d)
      BY <3>1, <3>2, <3>5, <1>1 DEF HasRead
    <3> QED BY <3>3, <3>4, <3>5
  <2>5. ThreadTypes'
    <3>1. saver' \in [Savers -> SaverType]
      <4>1. saver' = [d \in Savers |-> saver'[d]]
        BY <1>7 DEF SaveWrites
      <4> QED BY <4>1, <2>4
    <3>2. threads' \in [Ids -> ThreadState] /\ said' \in [Ids -> ThreadState] /\ blurred' \subseteq Ids
      BY <2>2, <2>3
    <3> QED BY <3>1, <3>2, <2>4 DEF ThreadTypes
  <2>6. \A u \in Ids : u # t /\ u \notin saver[c].behind => threads'[u] = threads[u]
    BY <2>1, <2>2, <2>3
  <2>7. ReadIsRight'
    <3> SUFFICES ASSUME NEW d \in Savers, HasRead(d)', NEW u \in Ids, u \notin saver'[d].behind
                 PROVE  saver'[d].file[u] = threads'[u]
      BY DEF ReadIsRight
    <3>1. HasRead(d) /\ u # t /\ u \notin saver[c].behind /\ u \notin saver[d].behind
      BY <2>4
    <3> QED BY <3>1, <2>4, <2>6 DEF ThreadInv, ReadIsRight
  <2>8. AnsweredIsStored'
    <3> SUFFICES ASSUME NEW u \in Ids, u \notin blurred' PROVE threads'[u] = said'[u]
      BY DEF AnsweredIsStored
    <3>1. CASE u = t
      BY <2>2, <2>3, <3>1
    <3>2. CASE u # t
      <4>1. u \notin blurred /\ u \notin saver[c].behind
        BY <2>3, <3>2
      <4> QED BY <2>2, <2>3, <2>6, <3>2, <4>1 DEF ThreadInv, AnsweredIsStored
    <3> QED BY <3>1, <3>2
  <2> QED BY <2>5, <2>7, <2>8 DEF ThreadInv
<1>8. CASE saver' = [c \in Savers |-> NoSave] /\ UNCHANGED <<threads, said, blurred>>
  BY <1>8, NoSaveTyped DEF ThreadInv, ThreadTypes, ReadIsRight, HasRead, AnsweredIsStored
<1>9. CASE UNCHANGED threadVars
  BY <1>9 DEF threadVars, ThreadInv, ThreadTypes, ReadIsRight, HasRead, AnsweredIsStored
<1> QED BY <1>2, <1>3, <1>4, <1>5, <1>6, <1>7, <1>8, <1>9 DEF ThreadNext, SaveStep

(* Answers are stored, and what was settled is not asked again.            *)
LEMMA ThreadInvImplies == ThreadInv => ThreadsAreKept
<1> SUFFICES ASSUME ThreadInv, NEW t \in Ids, t \notin blurred, said[t] \in Settlements
             PROVE  mergeOpenThreads(threads)[t] # "open"
  BY DEF ThreadInv, ThreadsAreKept, SettledIsNotAsked, OpenThreads
<1>1. threads[t] \in Settlements
  BY DEF ThreadInv, AnsweredIsStored
<1> QED BY <1>1 DEF mergeOpenThreads, Settlements
-----------------------------------------------------------------------------
(* Branches.  Work that was promoted names its proposal by the place it    *)
(* has, which no later proposal takes.                                     *)
ProposalType == [id : Proposals, branch : Branches \cup {NoBranch}, status : {"proposed", "promoted"}]
WorkType == [branch : Branches \cup {NoBranch}, from : Nat]
BranchInv ==
    /\ proposal \in Seq(ProposalType) /\ work \in Seq(WorkType)
    /\ \A n \in 1 .. Len(work) : work[n].from <= Len(proposal)
    /\ PromotedHasOneWork

(* What the office does to proposals and work items.                       *)
BranchNext ==
    \/ \E b \in Branches \cup {NoBranch} : CreateWorkItem(b) \/ \E p \in Proposals : CreateProposal(p, b)
    \/ \E p \in Proposals : PromoteProposal(p)

(* Every step of the office is, for proposals and work, one of these or    *)
(* none.                                                                   *)
LEMMA BranchSteps == EnvOk /\ [Next]_vars => [BranchNext]_<<proposal, work>>
<1> SUFFICES ASSUME EnvOk, [Next]_vars PROVE BranchNext \/ UNCHANGED <<proposal, work>>
  OBVIOUS
<1>1. CASE UNCHANGED branchVars
  BY <1>1 DEF branchVars
<1>2. CASE Branching
  <2>1. env.branches \subseteq Branches
    BY EnvMeans DEF DeskEnvironment
  <2>2. ASSUME NEW b \in env.branches, NEW p \in env.branches \cup {NoBranch}, CreateBranch(b, p)
        PROVE  UNCHANGED <<proposal, work>>
    BY <2>2 DEF CreateBranch
  <2>3. ASSUME NEW b \in env.branches, NEW into \in env.branches, MergeBranch(b, into)
        PROVE  UNCHANGED <<proposal, work>>
    BY <2>3 DEF MergeBranch
  <2>4. ASSUME NEW b \in env.branches, NEW to, BranchItemMoved(MergeItem(b), to)
        PROVE  UNCHANGED <<proposal, work>>
    BY <2>4 DEF BranchItemMoved
  <2> QED BY <1>2, <2>1, <2>2, <2>3, <2>4 DEF Branching, BranchNext
<1>3. CASE (LoopNext /\ UNCHANGED deskVars) \/ UNCHANGED vars
  BY <1>1, <1>3 DEF deskVars, vars
<1>4. CASE QuickReadsBootstrap \/ QuickLeaves \/ DaemonRestarts \/ \E w \in Workers : WorkerLeaves(w)
  BY <1>1, <1>4 DEF QuickReadsBootstrap, QuickLeaves, WorkerLeaves, DaemonRestarts
<1>5. CASE Desk
  BY <1>1, <1>2, <1>5 DEF Desk
<1>6. CASE Entering \/ Saving \/ Serving
  BY <1>1, <1>6 DEF Entering, Saving, Serving
<1>7. CASE Architecting \/ \E c \in Collectors \ {"tick"} : Collecting(c)
  BY <1>1, <1>7 DEF Architecting, TickRecovers, TickGoesOn, Collecting
<1> QED BY <1>3, <1>4, <1>5, <1>6, <1>7 DEF Next

(* There are no proposals and no work at the start.                        *)
LEMMA BranchInitial == BranchInit => BranchInv
BY DEF BranchInit, BranchInv, PromotedHasOneWork

(* A promotion marks the proposal and records its work in one step.        *)
LEMMA BranchStep == BranchInv /\ [BranchNext]_<<proposal, work>> => BranchInv'
<1> SUFFICES ASSUME BranchInv, [BranchNext]_<<proposal, work>> PROVE BranchInv'
  OBVIOUS
<1> USE DEF BranchInv
<1> DEFINE Once(ps, ws, k) ==
             /\ ps[k].status = "promoted" <=> \E n \in 1 .. Len(ws) : ws[n].from = k
             /\ \A n, m \in 1 .. Len(ws) : ws[n].from = k /\ ws[m].from = k =>
                    n = m /\ ws[n].branch = ps[k].branch
<1>c. /\ Len(work) \in Nat /\ Len(proposal) \in Nat
      /\ \A n \in 1 .. Len(work) : work[n] \in WorkType /\ work[n].from \in Nat
  <2>1. Len(work) \in Nat /\ Len(proposal) \in Nat /\ \A n \in 1 .. Len(work) : work[n] \in WorkType
    BY LenProperties, ElementOfSeq
  <2>2. \A w \in WorkType : w.from \in Nat
    BY DEF WorkType
  <2> QED BY <2>1, <2>2
<1>d. \A k \in 1 .. Len(proposal) : Once(proposal, work, k)
  BY DEF PromotedHasOneWork
<1>a. /\ Len(work) \in Nat /\ \A n \in 1 .. Len(work) : work[n] \in WorkType /\ work[n].from \in Nat
      /\ Len(proposal) \in Nat /\ \A k \in 1 .. Len(proposal) : Once(proposal, work, k)
  BY <1>c, <1>d
<1>b. (\A k \in 1 .. Len(proposal') : Once(proposal', work', k)) => PromotedHasOneWork'
  BY DEF PromotedHasOneWork
<1>1. ASSUME NEW b \in Branches \cup {NoBranch}, CreateWorkItem(b) PROVE BranchInv'
  <2> DEFINE w == [branch |-> b, from |-> 0]
  <2>1. w \in WorkType /\ work' = Append(work, w) /\ proposal' = proposal
    BY <1>1 DEF CreateWorkItem, WorkType
  <2>2. /\ work' \in Seq(WorkType) /\ Len(work') = Len(work) + 1 /\ work'[Len(work) + 1].from = 0
        /\ \A n \in 1 .. Len(work) : work'[n] = work[n]
    BY <2>1, <1>a
  <2>3. \A n \in 1 .. Len(work') : work'[n].from <= Len(proposal')
    BY <1>a, <2>1, <2>2
  <2>4. \A k \in 1 .. Len(proposal') : Once(proposal', work', k)
    BY <1>a, <2>1, <2>2
  <2> QED BY <1>b, <2>1, <2>2, <2>3, <2>4
<1>2. ASSUME NEW b \in Branches \cup {NoBranch}, NEW p \in Proposals, CreateProposal(p, b) PROVE BranchInv'
  <2> DEFINE r == [id |-> p, branch |-> b, status |-> "proposed"]
  <2>1. r \in ProposalType /\ proposal' = Append(proposal, r) /\ work' = work
    BY <1>2 DEF CreateProposal, ProposalType
  <2>2. /\ proposal' \in Seq(ProposalType) /\ Len(proposal') = Len(proposal) + 1
        /\ proposal'[Len(proposal) + 1].status = "proposed"
        /\ \A n \in 1 .. Len(proposal) : proposal'[n] = proposal[n]
    BY <2>1, <1>a
  <2>3. \A n \in 1 .. Len(work) : work[n].from <= Len(proposal)
    OBVIOUS
  <2>4. \A n \in 1 .. Len(work) : work[n].from # Len(proposal) + 1 /\ work[n].from <= Len(proposal')
    BY <1>a, <2>2, <2>3
  <2>5. \A k \in 1 .. Len(proposal') : Once(proposal', work', k)
    BY <1>a, <2>1, <2>2, <2>4
  <2> QED BY <1>b, <2>1, <2>2, <2>4, <2>5
<1>3. ASSUME NEW p \in Proposals, PromoteProposal(p) PROVE BranchInv'
  <2>1. PICK i \in 1 .. Len(proposal) :
          /\ proposal[i].status = "proposed"
          /\ work' = Append(work, [branch |-> proposal[i].branch, from |-> i])
          /\ proposal' = [proposal EXCEPT ![i] = [@ EXCEPT !.status = "promoted"]]
    BY <1>3 DEF PromoteProposal, Promotable
  <2>2. proposal[i] \in ProposalType
    OBVIOUS
  <2>3. /\ [proposal[i] EXCEPT !.status = "promoted"] \in ProposalType
        /\ [branch |-> proposal[i].branch, from |-> i] \in WorkType
    BY <2>2 DEF ProposalType, WorkType
  <2>4. /\ proposal' \in Seq(ProposalType) /\ Len(proposal') = Len(proposal)
        /\ proposal'[i].status = "promoted" /\ proposal'[i].branch = proposal[i].branch
        /\ \A n \in 1 .. Len(proposal) : n # i => proposal'[n] = proposal[n]
    BY <2>1, <2>2, <2>3 DEF ProposalType
  <2>5. /\ work' \in Seq(WorkType) /\ Len(work') = Len(work) + 1
        /\ work'[Len(work) + 1] = [branch |-> proposal[i].branch, from |-> i]
        /\ \A n \in 1 .. Len(work) : work'[n] = work[n]
    BY <2>1, <2>3, <1>a
  <2>6. \A n \in 1 .. Len(work) : work[n].from # i
    BY <2>1, <1>a
  <2>7. \A n \in 1 .. Len(work') : work'[n].from <= Len(proposal')
    <3>1. \A n \in 1 .. Len(work) : work[n].from <= Len(proposal)
      OBVIOUS
    <3> QED BY <2>4, <2>5, <1>a, <3>1
  <2>8. ASSUME NEW k \in 1 .. Len(proposal') PROVE Once(proposal', work', k)
    <3>1. CASE k = i
      <4> DEFINE m == Len(work) + 1
      <4>1. m \in 1 .. Len(work') /\ work'[m].from = k /\ work'[m].branch = proposal[i].branch
        BY <1>c, <3>1, <2>5
      <4>2. \A n \in 1 .. Len(work') : work'[n].from = k => n = m
        <5> SUFFICES ASSUME NEW n \in 1 .. Len(work'), n # m PROVE work'[n].from # k
          OBVIOUS
        <5>1. n \in 1 .. Len(work)
          BY <1>c, <2>5
        <5> QED BY <5>1, <2>5, <2>6, <3>1
      <4>3. proposal'[k].status = "promoted" /\ proposal'[k].branch = proposal[i].branch
        BY <2>4, <3>1
      <4> HIDE DEF m
      <4> QED BY <4>1, <4>2, <4>3
    <3>2. CASE k # i
      <4>1. proposal'[k] = proposal[k] /\ Once(proposal, work, k)
        BY <1>a, <3>2, <2>4
      <4>2. \A n \in 1 .. Len(work') : work'[n].from = k => n \in 1 .. Len(work) /\ work'[n] = work[n]
        BY <1>a, <3>2, <2>5
      <4>3. \A n \in 1 .. Len(work) : n \in 1 .. Len(work') /\ work'[n] = work[n]
        BY <1>a, <2>5
      <4> QED BY <4>1, <4>2, <4>3
    <3> QED BY <3>1, <3>2
  <2> HIDE DEF Once
  <2> QED BY <1>b, <2>4, <2>5, <2>7, <2>8
<1>4. CASE UNCHANGED <<proposal, work>>
  BY <1>4 DEF PromotedHasOneWork
<1> QED BY <1>1, <1>2, <1>3, <1>4 DEF BranchNext
-----------------------------------------------------------------------------
(* The room.  Items of merges, of sessions and of other origin have texts  *)
(* of their own, and only a warning that was not saved goes at a restart.  *)
EntryState == {"due", "written", "failed", "excused"}
EntryRecord == [Entries -> EntryState]
RoomTypes ==
    /\ agenda \in [Items -> Sections \cup {"none"}]
    /\ finishes \in Seq(EntryRecord) /\ pend \in 0 .. Len(finishes)
    /\ unsaved \subseteq Entries /\ unfiled \subseteq Branches
MergesAreOnAgenda == \A b \in unfiled : InRoom(b)
RoomInv == RoomTypes /\ MergesAreOnAgenda /\ MissingEntryIsNoticed

roomVars == <<agenda, finishes, pend, unsaved, unfiled>>
FinishBegins ==
    /\ agenda' \in {agenda, Ensured(agenda, "risks")}
    /\ finishes' = Append(finishes, [w \in Entries |-> "due"]) /\ pend' = Len(finishes) + 1 /\ unsaved' = {}
FoundersItem(i, to) ==
    \/ i \in {"cap", "obs", "risks"} /\ SessionItemMoved(i, to) /\ UNCHANGED unfiled
    \/ i \in Branches /\ BranchItemMoved(i, to) /\ UNCHANGED <<finishes, pend, unsaved>>
    \/ /\ i \in Items \ (Branches \cup Entries) /\ Move(i, to)
       /\ UNCHANGED <<finishes, pend, unsaved, unfiled>>
(* What the office does to the room.                                       *)
RoomNext ==
    \/ FinishBegins /\ UNCHANGED unfiled
    \/ unsaved' = {} /\ UNCHANGED <<agenda, finishes, pend, unfiled>>
    \/ \E w \in Entries : (EntryWritten(w) \/ EntryFails(w)) /\ UNCHANGED unfiled
    \/ \E b, into \in Branches : MergeBranch(b, into) /\ UNCHANGED <<finishes, pend, unsaved>>
    \/ \E i \in Items, to \in Sections \cup {"none"} : FoundersItem(i, to)
    \/ SessionRestart /\ UNCHANGED unfiled

(* Every step of the office is, for the agenda, the finishes and the       *)
(* merges, one of these or none.                                           *)
LEMMA RoomSteps == EnvOk /\ [Next]_vars => [RoomNext]_roomVars
<1> SUFFICES ASSUME EnvOk, [Next]_vars PROVE RoomNext \/ UNCHANGED roomVars
  OBVIOUS
<1>1. CASE UNCHANGED <<agenda, sessionVars, branchVars>>
  BY <1>1 DEF sessionVars, branchVars, roomVars
<1>2. ASSUME NEW a, NEW r, FinishSession(a, r), UNCHANGED branchVars PROVE RoomNext
  BY <1>2 DEF FinishSession, branchVars, RoomNext, FinishBegins
<1>3. CASE (LoopNext /\ UNCHANGED deskVars) \/ UNCHANGED vars
  BY <1>1, <1>3 DEF deskVars, vars
<1>4. CASE QuickReadsBootstrap
  BY <1>4 DEF QuickReadsBootstrap, branchVars, roomVars
<1>5. CASE QuickLeaves \/ \E w \in Workers : WorkerLeaves(w)
  BY <1>2, <1>5 DEF QuickLeaves, WorkerLeaves
<1>6. CASE DaemonRestarts
  BY <1>6 DEF DaemonRestarts, branchVars, RoomNext
<1>7. CASE Desk
  <2>1. CASE Sitting /\ UNCHANGED branchVars
    <3>0. UNCHANGED unfiled
      BY <2>1 DEF branchVars
    <3>1. ASSUME NEW a, NEW s, NEW r, Checkpoint(a, s, r) \/ Note(a, s, r) PROVE RoomNext
      BY <3>0, <3>1 DEF Checkpoint, Note, Projected, RoomNext
    <3>2. ASSUME NEW r, ReplaceMemory(r) PROVE RoomNext
      BY <3>0, <3>2 DEF ReplaceMemory, RoomNext
    <3>3. ASSUME NEW n, Age(n) PROVE UNCHANGED roomVars
      BY <3>0, <3>3 DEF Age, roomVars
    <3>4. ASSUME NEW w \in Entries, EntryFails(w) PROVE RoomNext
      BY <3>0, <3>4 DEF RoomNext
    <3>5. ASSUME NEW i \in {"cap", "obs", "risks"}, NEW to \in Sections \cup {"none"}, SessionItemMoved(i, to)
          PROVE  RoomNext
      <4>1. FoundersItem(i, to)
        BY <3>0, <3>5 DEF FoundersItem
      <4>2. i \in Items
        BY OfficeAssumption
      <4> QED BY <4>1, <4>2 DEF RoomNext
    <3> QED BY <2>1, <1>2, <3>1, <3>2, <3>3, <3>4, <3>5 DEF Sitting
  <2>2. CASE Branching /\ UNCHANGED sessionVars
    <3>0. UNCHANGED <<finishes, pend, unsaved>>
      BY <2>2 DEF sessionVars
    <3>1. env.branches \subseteq Branches /\ Branches \subseteq Items
      BY EnvMeans, OfficeAssumption DEF DeskEnvironment
    <3>2. ASSUME NEW b, NEW p, CreateBranch(b, p) PROVE UNCHANGED roomVars
      BY <3>0, <3>2 DEF CreateBranch, roomVars
    <3>3. ASSUME NEW b \in env.branches, NEW into \in env.branches, MergeBranch(b, into) PROVE RoomNext
      BY <3>0, <3>1, <3>3 DEF RoomNext
    <3>4. ASSUME NEW b, NEW p, CreateWorkItem(b) \/ CreateProposal(p, b) \/ PromoteProposal(p)
          PROVE  UNCHANGED roomVars
      BY <3>0, <3>4 DEF CreateWorkItem, CreateProposal, PromoteProposal, roomVars
    <3>5. ASSUME NEW b \in env.branches, NEW to \in Sections \cup {"none"}, BranchItemMoved(MergeItem(b), to)
          PROVE  RoomNext
      <4>1. FoundersItem(b, to)
        BY <3>0, <3>1, <3>5 DEF FoundersItem, MergeItem
      <4> QED BY <3>1, <4>1 DEF RoomNext
    <3> QED BY <2>2, <3>2, <3>3, <3>4, <3>5 DEF Branching
  <2>3. CASE Asking /\ UNCHANGED <<sessionVars, branchVars>>
    <3>0. UNCHANGED <<finishes, pend, unsaved, unfiled>>
      BY <2>3 DEF sessionVars, branchVars
    <3>1. ASSUME NEW c, NEW t, NEW want, SaveBegins(c, t, want) \/ SaveMisreads(c) PROVE UNCHANGED agenda
      BY <3>1 DEF SaveBegins, SaveMisreads
    <3>2. ASSUME NEW i \in env.agenda, NEW to \in Sections \cup {"none"}, Move(i, to) PROVE RoomNext
      <4>1. i \in Items \ (Branches \cup Entries)
        BY EnvMeans DEF DeskEnvironment, Entries
      <4>2. FoundersItem(i, to)
        BY <3>0, <3>2, <4>1 DEF FoundersItem
      <4> QED BY <4>1, <4>2 DEF RoomNext
    <3> QED BY <2>3, <3>0, <3>1, <3>2 DEF Asking, roomVars
  <2>4. CASE UNCHANGED <<agenda, sessionVars, branchVars>>
    BY <1>1, <2>4
  <2> QED BY <1>7, <2>1, <2>2, <2>3, <2>4 DEF Desk
<1>8. CASE Entering
  BY <1>8 DEF Entering, branchVars, RoomNext
<1>9. CASE Saving \/ Serving
  <2>1. UNCHANGED agenda
    BY <1>9 DEF Saving, Serving, SaveStep, SaveEnsures, SaveReads, SaveFinds, SaveWrites
  <2> QED BY <1>1, <1>9, <2>1 DEF Saving, Serving
<1>10. CASE Architecting \/ \E c \in Collectors \ {"tick"} : Collecting(c)
  BY <1>1, <1>10 DEF Architecting, TickRecovers, TickGoesOn, Collecting
<1> QED BY <1>3, <1>4, <1>5, <1>6, <1>7, <1>8, <1>9, <1>10 DEF Next

(* Room items a step leaves in the room are still there after it.          *)
LEMMA EnsuredKeeps ==
    ASSUME NEW a \in [Items -> Sections \cup {"none"}], NEW i \in Items
    PROVE  /\ Ensured(a, i) \in [Items -> Sections \cup {"none"}]
           /\ Ensured(a, i)[i] \in Sections
           /\ \A k \in Items : a[k] \in Sections => Ensured(a, i)[k] \in Sections
<1>1. "open" \in Sections
  BY DEF Sections
<1>2. CASE a[i] = "none"
  BY <1>1, <1>2 DEF Ensured
<1>3. CASE a[i] # "none"
  BY <1>3 DEF Ensured
<1> QED BY <1>2, <1>3

(* Moving one item leaves the others in their sections.                    *)
LEMMA MovedKeeps ==
    ASSUME agenda \in [Items -> Sections \cup {"none"}], NEW i \in Items, NEW to, Move(i, to)
    PROVE  /\ agenda' \in [Items -> Sections \cup {"none"}]
           /\ agenda'[i] = to /\ to \in Sections \cup {"none"}
           /\ \A k \in Items : k # i => agenda'[k] = agenda[k]
<1>1. to \in Sections \cup {"none"} /\ agenda' = [agenda EXCEPT ![i] = to]
  BY DEF Move, Sections
<1>2. QED BY <1>1

(* Of the finishes, one entry is settled.                                  *)
LEMMA EnteredKeeps ==
    ASSUME RoomTypes, NEW w \in Entries, NEW how \in EntryState, Entered(w, how)
    PROVE  /\ finishes' \in Seq(EntryRecord) /\ Len(finishes') = Len(finishes) /\ pend' \in 0 .. Len(finishes')
           /\ \A n \in 1 .. Len(finishes), v \in Entries :
                 finishes'[n][v] = finishes[n][v] \/ (v = w /\ finishes'[n][v] = how)
<1>1. /\ pend \in 1 .. Len(finishes) /\ finishes \in Seq(EntryRecord) /\ Len(finishes) \in Nat
      /\ pend' \in {0, pend}
      /\ finishes' = [finishes EXCEPT ![pend] = [finishes[pend] EXCEPT ![w] = how]]
  BY DEF Entered, Due, RoomTypes
<1>2. finishes[pend] \in EntryRecord
  BY <1>1
<1>3. /\ [finishes[pend] EXCEPT ![w] = how] \in EntryRecord
      /\ [finishes[pend] EXCEPT ![w] = how][w] = how
      /\ \A v \in Entries : v # w => [finishes[pend] EXCEPT ![w] = how][v] = finishes[pend][v]
  BY <1>2 DEF EntryRecord
<1> DEFINE r == [finishes[pend] EXCEPT ![w] = how]
<1>4. /\ r \in EntryRecord /\ r[w] = how /\ \A v \in Entries : v # w => r[v] = finishes[pend][v]
      /\ finishes' = [finishes EXCEPT ![pend] = r]
  BY <1>1, <1>3
<1> HIDE DEF r
<1>5. /\ finishes' \in Seq(EntryRecord) /\ Len(finishes') = Len(finishes)
      /\ finishes'[pend] = r /\ \A n \in 1 .. Len(finishes) : n # pend => finishes'[n] = finishes[n]
  BY <1>1, <1>4
<1> QED BY <1>1, <1>4, <1>5

(* Entries are excused, one way or another.                                *)
LEMMA ExcusedKeeps ==
    ASSUME finishes \in Seq(EntryRecord), NEW Gone,
           finishes' = [n \in 1 .. Len(finishes) |-> [w \in Entries |->
                           IF <<n, w>> \in Gone THEN "excused" ELSE finishes[n][w]]]
    PROVE  /\ finishes' \in Seq(EntryRecord) /\ Len(finishes') = Len(finishes)
           /\ \A n \in 1 .. Len(finishes), w \in Entries :
                 finishes'[n][w] = "failed" => <<n, w>> \notin Gone /\ finishes[n][w] = "failed"
<1> DEFINE r(n) == [w \in Entries |-> IF <<n, w>> \in Gone THEN "excused" ELSE finishes[n][w]]
<1>1. ASSUME NEW n \in 1 .. Len(finishes)
      PROVE  r(n) \in EntryRecord /\ \A w \in Entries : r(n)[w] = "failed" => <<n, w>> \notin Gone /\ finishes[n][w] = "failed"
  <2>1. finishes[n] \in EntryRecord
    OBVIOUS
  <2> QED BY <2>1 DEF EntryRecord, EntryState
<1>2. Len(finishes) \in Nat /\ finishes' = [n \in 1 .. Len(finishes) |-> r(n)]
  OBVIOUS
<1> HIDE DEF r
<1>3. finishes' \in Seq(EntryRecord) /\ Len(finishes') = Len(finishes)
  <2>1. finishes' \in [1 .. Len(finishes) -> EntryRecord]
    BY <1>1, <1>2
  <2>2. finishes' \in Seq(EntryRecord)
    <3> DEFINE n == Len(finishes)
               f == finishes'
    <3>1. n \in Nat /\ f \in [1 .. n -> EntryRecord]
      BY <1>2, <2>1
    <3> HIDE DEF n, f
    <3>2. f \in UNION {[1 .. m -> EntryRecord] : m \in Nat}
      BY <3>1
    <3> QED BY <3>2, SeqDef DEF f
  <2>3. DOMAIN finishes' = 1 .. Len(finishes)
    BY <2>1
  <2> QED BY <1>2, <2>2, <2>3
<1> QED BY <1>1, <1>2, <1>3

(* At the start nothing is finished and nothing merged.                    *)
LEMMA RoomInitial == EnvOk /\ Init => RoomInv
BY OfficeAssumption DEF Init, SessionInit, BranchInit, RoomInv, RoomTypes, MergesAreOnAgenda,
   MissingEntryIsNoticed, Sections, InRoom

(* A merge, a finish, the corpus and the founder keep it, each by one      *)
(* step.                                                                   *)
LEMMA RoomStep == RoomInv /\ [RoomNext]_roomVars => RoomInv'
<1> SUFFICES ASSUME RoomInv, [RoomNext]_roomVars PROVE RoomInv'
  OBVIOUS
<1> USE DEF RoomInv
<1>a. /\ Branches \subseteq Items /\ {"cap", "obs", "risks"} \subseteq Items /\ Entries \subseteq Items
      /\ \A b \in Branches : b \notin Entries /\ b # "risks"
  BY OfficeAssumption DEF Entries
<1>b. /\ agenda \in [Items -> Sections \cup {"none"}] /\ finishes \in Seq(EntryRecord)
      /\ Len(finishes) \in Nat /\ pend \in 0 .. Len(finishes) /\ unsaved \subseteq Entries /\ unfiled \subseteq Branches
  BY DEF RoomTypes
<1>c. /\ \A b \in unfiled : agenda[b] \in Sections
      /\ \A n \in 1 .. Len(finishes), w \in Entries : finishes[n][w] = "failed" => agenda[w] \in Sections
  BY DEF MergesAreOnAgenda, MissingEntryIsNoticed, InRoom
<1>d. ASSUME RoomTypes',
             \A b \in unfiled' : agenda'[b] \in Sections,
             \A n \in 1 .. Len(finishes'), w \in Entries : finishes'[n][w] = "failed" => agenda'[w] \in Sections
      PROVE  RoomInv'
  BY <1>d DEF MergesAreOnAgenda, MissingEntryIsNoticed, InRoom
<1> HIDE DEF RoomInv
<1>1. CASE FinishBegins /\ UNCHANGED unfiled
  <2>1. /\ agenda' \in [Items -> Sections \cup {"none"}]
        /\ \A k \in Items : agenda[k] \in Sections => agenda'[k] \in Sections
    BY <1>1, <1>a, <1>b, EnsuredKeeps DEF FinishBegins
  <2> DEFINE r == [w \in Entries |-> "due"]
  <2>2. r \in EntryRecord /\ \A w \in Entries : r[w] = "due"
    BY DEF EntryRecord, EntryState
  <2> HIDE DEF r
  <2>3. finishes' = Append(finishes, r) /\ pend' = Len(finishes) + 1 /\ unsaved' = {} /\ unfiled' = unfiled
    BY <1>1 DEF FinishBegins, r
  <2>4. /\ finishes' \in Seq(EntryRecord) /\ Len(finishes') = Len(finishes) + 1
        /\ finishes'[Len(finishes) + 1] = r /\ \A n \in 1 .. Len(finishes) : finishes'[n] = finishes[n]
    BY <1>b, <2>2, <2>3
  <2>5. RoomTypes'
    BY <1>b, <2>1, <2>3, <2>4 DEF RoomTypes
  <2>6. \A n \in 1 .. Len(finishes'), w \in Entries : finishes'[n][w] = "failed" =>
            n \in 1 .. Len(finishes) /\ finishes[n][w] = "failed"
    BY <1>b, <2>2, <2>4
  <2>7. \A b \in unfiled' : agenda'[b] \in Sections
    BY <1>a, <1>b, <1>c, <2>1, <2>3
  <2>8. \A n \in 1 .. Len(finishes'), w \in Entries : finishes'[n][w] = "failed" => agenda'[w] \in Sections
    BY <1>a, <1>c, <2>1, <2>6
  <2> QED BY <1>d, <2>5, <2>7, <2>8
<1>2. CASE unsaved' = {} /\ UNCHANGED <<agenda, finishes, pend, unfiled>>
  BY <1>2, <1>b, <1>c, <1>d DEF RoomTypes
<1>3. ASSUME NEW w \in Entries, EntryWritten(w), UNCHANGED unfiled PROVE RoomInv'
  <2>1. Entered(w, "written") /\ "written" \in EntryState /\ UNCHANGED <<agenda, unsaved>>
    BY <1>3 DEF EntryWritten, EntryState
  <2>2. /\ finishes' \in Seq(EntryRecord) /\ Len(finishes') = Len(finishes) /\ pend' \in 0 .. Len(finishes')
        /\ \A n \in 1 .. Len(finishes), v \in Entries :
              finishes'[n][v] = finishes[n][v] \/ (v = w /\ finishes'[n][v] = "written")
    BY <2>1, EnteredKeeps DEF RoomInv
  <2>3. RoomTypes'
    BY <1>3, <1>b, <2>1, <2>2 DEF RoomTypes
  <2> QED BY <1>3, <1>c, <1>d, <2>1, <2>2, <2>3
<1>4. ASSUME NEW w \in Entries, EntryFails(w), UNCHANGED unfiled PROVE RoomInv'
  <2>1. /\ Entered(w, "failed") /\ "failed" \in EntryState /\ agenda' = Ensured(agenda, w)
        /\ unsaved' \subseteq unsaved \cup {w}
    BY <1>4 DEF EntryFails, EntryState, Warned
  <2>2. /\ finishes' \in Seq(EntryRecord) /\ Len(finishes') = Len(finishes) /\ pend' \in 0 .. Len(finishes')
        /\ \A n \in 1 .. Len(finishes), v \in Entries :
              finishes'[n][v] = finishes[n][v] \/ (v = w /\ finishes'[n][v] = "failed")
    BY <2>1, EnteredKeeps DEF RoomInv
  <2>3. /\ agenda' \in [Items -> Sections \cup {"none"}] /\ agenda'[w] \in Sections
        /\ \A k \in Items : agenda[k] \in Sections => agenda'[k] \in Sections
    BY <1>a, <1>b, <2>1, EnsuredKeeps
  <2>4. RoomTypes'
    BY <1>4, <1>b, <2>1, <2>2, <2>3 DEF RoomTypes
  <2> QED BY <1>4, <1>a, <1>b, <1>c, <1>d, <2>2, <2>3, <2>4
<1>5. ASSUME NEW b \in Branches, NEW into \in Branches, MergeBranch(b, into), UNCHANGED <<finishes, pend, unsaved>>
      PROVE  RoomInv'
  <2>1. agenda' = Ensured(agenda, b) /\ unfiled' = unfiled \cup {b}
    BY <1>5 DEF MergeBranch, MergeOpens, MergeItem
  <2>2. /\ agenda' \in [Items -> Sections \cup {"none"}] /\ agenda'[b] \in Sections
        /\ \A k \in Items : agenda[k] \in Sections => agenda'[k] \in Sections
    BY <1>a, <1>b, <2>1, EnsuredKeeps
  <2>3. RoomTypes'
    BY <1>5, <1>b, <2>1, <2>2 DEF RoomTypes
  <2> QED BY <1>5, <1>a, <1>b, <1>c, <1>d, <2>1, <2>2, <2>3
<1>6. ASSUME NEW i \in Items, NEW to \in Sections \cup {"none"}, FoundersItem(i, to) PROVE RoomInv'
  <2>0. Move(i, to)
    BY <1>6 DEF FoundersItem, SessionItemMoved, BranchItemMoved
  <2>1. /\ agenda' \in [Items -> Sections \cup {"none"}] /\ agenda'[i] = to
        /\ \A k \in Items : k # i => agenda'[k] = agenda[k]
    BY <1>b, <2>0, MovedKeeps
  <2>2. CASE i \in {"cap", "obs", "risks"} /\ SessionItemMoved(i, to) /\ UNCHANGED unfiled
    <3>1. /\ pend' = pend /\ unsaved' = {} /\ unfiled' = unfiled
          /\ finishes' = IF to = "none" THEN DealtWith(i) ELSE finishes
      BY <2>2 DEF SessionItemMoved
    <3>2. i \notin Branches
      BY <2>2, <1>a DEF Entries
    <3>3. \A b \in unfiled' : agenda'[b] \in Sections
      BY <1>a, <1>b, <1>c, <2>1, <3>1, <3>2
    <3>4. CASE to = "none"
      <4> DEFINE Gone == {x \in (1 .. Len(finishes)) \X Entries : x[2] = i /\ finishes[x[1]][x[2]] = "failed"}
      <4>1. \A n \in 1 .. Len(finishes), w \in Entries : <<n, w>> \in Gone <=> w = i /\ finishes[n][w] = "failed"
        OBVIOUS
      <4> HIDE DEF Gone
      <4>2. finishes' = [n \in 1 .. Len(finishes) |-> [w \in Entries |->
                           IF <<n, w>> \in Gone THEN "excused" ELSE finishes[n][w]]]
        BY <3>1, <3>4, <4>1 DEF DealtWith
      <4>3. /\ finishes' \in Seq(EntryRecord) /\ Len(finishes') = Len(finishes)
            /\ \A n \in 1 .. Len(finishes), w \in Entries :
                 finishes'[n][w] = "failed" => <<n, w>> \notin Gone /\ finishes[n][w] = "failed"
        BY <1>b, <4>2, ExcusedKeeps
      <4>4. RoomTypes'
        BY <1>b, <2>1, <3>1, <4>3 DEF RoomTypes
      <4>5. \A n \in 1 .. Len(finishes'), w \in Entries : finishes'[n][w] = "failed" => agenda'[w] \in Sections
        BY <1>a, <1>c, <2>1, <4>1, <4>3
      <4> QED BY <1>d, <3>3, <4>4, <4>5
    <3>5. CASE to # "none"
      <4>1. RoomTypes'
        BY <1>b, <2>1, <3>1, <3>5 DEF RoomTypes
      <4>2. \A n \in 1 .. Len(finishes'), w \in Entries : finishes'[n][w] = "failed" => agenda'[w] \in Sections
        BY <1>a, <1>c, <2>1, <3>1, <3>5
      <4> QED BY <1>d, <3>3, <4>1, <4>2
    <3> QED BY <3>4, <3>5
  <2>3. CASE i \in Branches /\ BranchItemMoved(i, to) /\ UNCHANGED <<finishes, pend, unsaved>>
    <3>1. unfiled' = IF to = "none" THEN unfiled \ {i} ELSE unfiled
      BY <2>3 DEF BranchItemMoved
    <3>2. RoomTypes'
      BY <1>b, <2>1, <2>3, <3>1 DEF RoomTypes
    <3>3. \A b \in unfiled' : agenda'[b] \in Sections
      BY <1>a, <1>b, <1>c, <2>1, <3>1
    <3>4. \A n \in 1 .. Len(finishes'), w \in Entries : finishes'[n][w] = "failed" => agenda'[w] \in Sections
      BY <1>a, <1>c, <2>1, <2>3
    <3> QED BY <1>d, <3>2, <3>3, <3>4
  <2>4. CASE i \in Items \ (Branches \cup Entries) /\ UNCHANGED <<finishes, pend, unsaved, unfiled>>
    <3>1. RoomTypes'
      BY <1>b, <2>1, <2>4 DEF RoomTypes
    <3> QED BY <1>a, <1>b, <1>c, <1>d, <2>1, <2>4, <3>1
  <2> QED BY <1>6, <2>2, <2>3, <2>4 DEF FoundersItem
<1>7. CASE SessionRestart /\ UNCHANGED unfiled
  <2> DEFINE Gone == {x \in (1 .. Len(finishes)) \X Entries :
                        finishes[x[1]][x[2]] = "due" \/ (x[2] \in unsaved /\ finishes[x[1]][x[2]] = "failed")}
  <2>1. \A n \in 1 .. Len(finishes), w \in Entries :
            <<n, w>> \in Gone <=> finishes[n][w] = "due" \/ (w \in unsaved /\ finishes[n][w] = "failed")
    OBVIOUS
  <2> HIDE DEF Gone
  <2>2. /\ finishes' = [n \in 1 .. Len(finishes) |-> [w \in Entries |->
                           IF <<n, w>> \in Gone THEN "excused" ELSE finishes[n][w]]]
        /\ pend' = 0 /\ unsaved' = {} /\ unfiled' = unfiled
        /\ agenda' = [i \in Items |-> IF i \in unsaved THEN "none" ELSE agenda[i]]
    BY <1>7, <2>1 DEF SessionRestart
  <2>3. /\ finishes' \in Seq(EntryRecord) /\ Len(finishes') = Len(finishes)
        /\ \A n \in 1 .. Len(finishes), w \in Entries :
             finishes'[n][w] = "failed" => <<n, w>> \notin Gone /\ finishes[n][w] = "failed"
    BY <1>b, <2>2, ExcusedKeeps
  <2>4. agenda' \in [Items -> Sections \cup {"none"}] /\ \A i \in Items \ unsaved : agenda'[i] = agenda[i]
    BY <1>b, <2>2
  <2>5. RoomTypes'
    BY <1>b, <2>2, <2>3, <2>4 DEF RoomTypes
  <2>6. \A b \in unfiled' : agenda'[b] \in Sections
    BY <1>a, <1>b, <1>c, <2>2, <2>4
  <2>7. \A n \in 1 .. Len(finishes'), w \in Entries : finishes'[n][w] = "failed" => agenda'[w] \in Sections
    BY <1>a, <1>c, <2>1, <2>3, <2>4
  <2> QED BY <1>d, <2>5, <2>6, <2>7
<1>8. CASE UNCHANGED roomVars
  BY <1>8, <1>b, <1>c, <1>d DEF roomVars, RoomTypes
<1> QED BY <1>1, <1>2, <1>3, <1>4, <1>5, <1>6, <1>7, <1>8 DEF RoomNext

(* A promoted proposal has one piece of work, and what a merge left        *)
(* stranded is on the agenda.                                              *)
LEMMA BranchInvImplies == BranchInv /\ RoomInv => BranchWorkIsKnown
BY DEF BranchInv, RoomInv, MergesAreOnAgenda, BranchWorkIsKnown, StrandedIsOnAgenda, MergeItem
-----------------------------------------------------------------------------
(* Scratch files.  Until a collector comes to a file it has read, the file *)
(* holds what was read, is gone, or was written after the scan.            *)
ArtifactType == [stem : Stems, text : Nat, main : Copies, copies : SUBSET Copies]
FileType == [stem : Stems, copy : Copies, main : BOOLEAN]
AbsorbedType == [stem : Stems, text : Nat, looked : Nat]
GatherType ==
    [pc : {"rest", "scan", "look", "make", "clean", "done"}, phases : Seq(Kinds), list : Seq(ArtifactType),
     clean : SUBSET FileType, cleans : BOOLEAN, since : Nat, looked : Nat]

(* The state is a parameter, so that the same is said of both its ends.    *)
Matches(e, a) == e.stem = a.stem /\ e.text = a.text
KnownIn(ab, a) == \E i \in 1 .. Len(ab) : Matches(ab[i], a)
ReadOrLate(now, text, since) == now \in {0, text} \/ now > since
AsRead(r, sc) == \A n \in 1 .. Len(r.list) :
    ReadOrLate(sc[r.list[n].stem][r.list[n].main], r.list[n].text, r.since)
Backed(x, since, sc, ab) ==
    \E i \in 1 .. Len(ab) : ab[i].stem = x.stem /\ ReadOrLate(sc[x.stem][x.copy], ab[i].text, since)
Cleanable(r, sc, ab) == \A x \in r.clean : x.main => Backed(x, r.since, sc, ab)
Unseen(r, ab) == \A i \in 1 .. r.looked : ~ Matches(ab[i], Head(r.list))
(* A collector between two artifacts ...                                   *)
Collects(r, sc, tx, ab) ==
    /\ r \in GatherType /\ r.phases # << >> /\ r.since <= tx
    /\ AsRead(r, sc) /\ Cleanable(r, sc, ab)
(* ... and at any time.                                                    *)
GatherOk(r, sc, tx, ab) ==
    /\ r \in GatherType /\ r.since <= tx
    /\ r.pc \in {"scan", "look", "make", "clean"} => r.phases # << >>
    /\ r.pc \in {"look", "make"} => r.list # << >>
    /\ r.pc = "scan" => r.clean = {}
    /\ AsRead(r, sc) /\ Cleanable(r, sc, ab)
    /\ r.pc = "make" => r.looked <= Len(ab) /\ Unseen(r, ab)
ScratchTypes ==
    /\ scratch \in [Stems -> [Copies -> Nat]] /\ texts \in Nat /\ absorbed \in Seq(AbsorbedType)
    /\ DOMAIN gather = Collectors
ScratchInv ==
    /\ ScratchTypes /\ \A c \in Collectors : GatherOk(gather[c], scratch, texts, absorbed)
    /\ ScratchIsKept

(* What is left of a line without its head.                                *)
LEMMA TailFacts ==
    ASSUME NEW S, NEW q \in Seq(S), q # << >>
    PROVE  /\ Head(q) \in S /\ Head(q) = q[1] /\ 1 \in 1 .. Len(q) /\ Len(q) \in Nat
           /\ Tail(q) \in Seq(S) /\ Len(Tail(q)) = Len(q) - 1
           /\ \A n \in 1 .. Len(Tail(q)) : n + 1 \in 1 .. Len(q) /\ Tail(q)[n] = q[n + 1]
           /\ Len(q) # 1 => Tail(q) # << >>
<1>1. /\ Head(q) \in S /\ Head(q) = q[1] /\ 1 \in 1 .. Len(q) /\ Len(q) \in Nat
      /\ Tail(q) \in Seq(S) /\ Len(Tail(q)) = Len(q) - 1
      /\ \A n \in 1 .. Len(Tail(q)) : n + 1 \in 1 .. Len(q) /\ Tail(q)[n] = q[n + 1]
  OBVIOUS
<1>2. Len(q) # 1 => Len(Tail(q)) # 0
  BY <1>1
<1>3. Len(<< >>) = 0
  OBVIOUS
<1>4. Len(q) # 1 => Tail(q) # << >>
  BY <1>2, <1>3, Zenon
<1> QED BY <1>1, <1>4, Zenon

(* The files of a kind are among the stems, and finitely many.             *)
LEMMA KindsFound == \A k \in Kinds : Roots[k] \subseteq Stems /\ IsFiniteSet(Roots[k])
BY RootsAssumption DEF Stems

(* A collector goes through kinds of file, at least one.                   *)
LEMMA RoundsTyped == \A c \in Collectors : Rounds[c] \in Seq(Kinds) /\ Rounds[c] # << >>
<1>1. Collectors = {"tick", "gemini", "corpus", "antigravity"}
  BY DEF Collectors, Rounds
<1>2. /\ Rounds["tick"] = <<"gemini", "corpus">> /\ Rounds["gemini"] = <<"gemini">>
      /\ Rounds["corpus"] = <<"corpus">> /\ Rounds["antigravity"] = <<"antigravity">>
  BY DEF Rounds
<1>3. \A k, l \in Kinds : <<k>> \in Seq(Kinds) /\ <<k>> # << >> /\ <<k, l>> \in Seq(Kinds) /\ <<k, l>> # << >>
  OBVIOUS
<1>4. "gemini" \in Kinds /\ "corpus" \in Kinds /\ "antigravity" \in Kinds
  BY DEF Kinds
<1> QED BY <1>1, <1>2, <1>3, <1>4

(* A collector at rest owes nothing, whatever the files are.               *)
LEMMA RestingOk ==
    ASSUME NEW sc, NEW tx \in Nat, NEW ab
    PROVE  /\ GatherOk(Resting, sc, tx, ab)
           /\ Resting \in GatherType /\ Resting.list = << >> /\ Resting.clean = {} /\ Resting.since = 0
<1>1. /\ Resting \in GatherType /\ Resting.list = << >> /\ Resting.clean = {} /\ Resting.since = 0
      /\ Resting.pc = "rest"
  BY DEF Resting, GatherType
<1> QED BY <1>1 DEF GatherOk, AsRead, Cleanable

(* The next kind, or the end.                                              *)
LEMMA NextKindOk ==
    ASSUME NEW sc, NEW tx \in Nat, NEW ab, NEW r \in GatherType, r.phases # << >>
    PROVE  GatherOk(NextKind(r), sc, tx, ab)
<1>1. Resting \in GatherType /\ Resting.list = << >> /\ Resting.clean = {} /\ Resting.since = 0
  BY RestingOk
<1>2. CASE Len(r.phases) = 1
  <2> DEFINE q == [Resting EXCEPT !.pc = "done"]
  <2>1. /\ q \in GatherType /\ q.list = << >> /\ q.clean = {} /\ q.since = 0 /\ q.pc = "done" /\ NextKind(r) = q
    BY <1>1, <1>2 DEF GatherType, NextKind
  <2> QED BY <2>1 DEF GatherOk, AsRead, Cleanable
<1>3. CASE Len(r.phases) # 1
  <2>1. r.phases \in Seq(Kinds) /\ r.cleans \in BOOLEAN
    BY DEF GatherType
  <2> DEFINE t == Tail(r.phases)
  <2>2. t \in Seq(Kinds) /\ t # << >>
    BY <1>3, <2>1, TailFacts
  <2> HIDE DEF t
  <2> DEFINE q == [Resting EXCEPT !.pc = "scan", !.phases = t, !.cleans = r.cleans]
  <2>3. /\ q \in GatherType /\ q.list = << >> /\ q.clean = {} /\ q.since = 0 /\ q.pc = "scan"
        /\ q.phases = t /\ NextKind(r) = q
    BY <1>1, <1>3, <2>1, <2>2 DEF GatherType, NextKind, t
  <2> HIDE DEF q
  <2>4. AsRead(q, sc) /\ Cleanable(q, sc, ab)
    BY <2>3 DEF AsRead, Cleanable
  <2> QED BY <2>2, <2>3, <2>4 DEF GatherOk
<1> QED BY <1>2, <1>3

(* Going on to the next file, kind or rest keeps what a collector          *)
(* promises.                                                               *)
LEMMA OnwardOk ==
    ASSUME NEW sc, NEW tx \in Nat, NEW ab, NEW r, Collects(r, sc, tx, ab)
    PROVE  GatherOk(Onward(r), sc, tx, ab)
<1>1. ASSUME NEW p \in {"look", "clean"}, p = "look" => r.list # << >>
      PROVE  GatherOk([r EXCEPT !.pc = p], sc, tx, ab)
  <2> DEFINE q == [r EXCEPT !.pc = p]
  <2>1. /\ q \in GatherType /\ q.pc = p /\ q.phases = r.phases /\ q.list = r.list /\ q.clean = r.clean
        /\ q.since = r.since
    BY <1>1 DEF Collects, GatherType
  <2> HIDE DEF q
  <2>2. GatherOk(q, sc, tx, ab)
    BY <1>1, <2>1 DEF Collects, GatherOk, AsRead, Cleanable
  <2> QED BY <2>2 DEF q
<1>2. GatherOk(NextKind(r), sc, tx, ab)
  BY NextKindOk DEF Collects
<1> QED BY <1>1, <1>2 DEF Onward

(* From the first artifact to the next: it has been taken in ...           *)
LEMMA AfterKnownOk ==
    ASSUME NEW sc, NEW tx \in Nat, NEW ab \in Seq(AbsorbedType), NEW r, Collects(r, sc, tx, ab), r.list # << >>,
           KnownIn(ab, Head(r.list))
    PROVE  GatherOk(AfterKnown(r), sc, tx, ab)
<1> DEFINE a == Head(r.list)
           t == Tail(r.list)
           k == r.clean \cup FilesOf(a)
<1>1. r \in GatherType /\ r.list \in Seq(ArtifactType) /\ r.clean \subseteq FileType
  BY DEF Collects, GatherType
<1>2. /\ a \in ArtifactType /\ a = r.list[1] /\ 1 \in 1 .. Len(r.list) /\ t \in Seq(ArtifactType)
      /\ \A n \in 1 .. Len(t) : n + 1 \in 1 .. Len(r.list) /\ t[n] = r.list[n + 1]
  BY <1>1, TailFacts
<1>3. /\ FilesOf(a) \subseteq FileType
      /\ \A x \in FilesOf(a) : x.stem = a.stem /\ (x.main => x.copy = a.main)
  <2> SUFFICES ASSUME NEW f \in a.copies
               PROVE  LET x == [stem |-> a.stem, copy |-> f, main |-> f = a.main] IN
                      x \in FileType /\ x.stem = a.stem /\ (x.main => x.copy = a.main)
    BY DEF FilesOf
  <2>1. a.stem \in Stems /\ f \in Copies /\ (f = a.main) \in BOOLEAN
    BY <1>2 DEF ArtifactType
  <2> QED BY <2>1 DEF FileType
<1>4. ReadOrLate(sc[a.stem][a.main], a.text, r.since)
  BY <1>2 DEF Collects, AsRead
<1>5. PICK i \in 1 .. Len(ab) : ab[i].stem = a.stem /\ ab[i].text = a.text
  BY DEF KnownIn, Matches
<1> DEFINE q == [r EXCEPT !.list = t, !.clean = k]
<1>6. k \subseteq FileType
  BY <1>1, <1>3
<1> HIDE DEF a, t, k
<1>7. /\ q \in GatherType /\ q.list = t /\ q.clean = k /\ q.phases = r.phases /\ q.since = r.since
  BY <1>1, <1>2, <1>6 DEF GatherType
<1>8. AfterKnown(r) = Onward(q)
  BY DEF AfterKnown, a, t, k
<1> HIDE DEF q
<1>9. AsRead(q, sc)
  BY <1>2, <1>7 DEF Collects, AsRead
<1>10. Cleanable(q, sc, ab)
  <2> SUFFICES ASSUME NEW x \in k, x.main PROVE Backed(x, r.since, sc, ab)
    BY <1>7 DEF Cleanable
  <2>1. CASE x \in r.clean
    BY <2>1 DEF Collects, Cleanable
  <2>2. CASE x \in FilesOf(a)
    BY <2>2, <1>3, <1>4, <1>5 DEF Backed
  <2> QED BY <2>1, <2>2 DEF k
<1>11. Collects(q, sc, tx, ab)
  BY <1>7, <1>9, <1>10 DEF Collects
<1> QED BY <1>8, <1>11, OnwardOk

(* ... or could not be.                                                    *)
LEMMA AfterFailureOk ==
    ASSUME NEW sc, NEW tx \in Nat, NEW ab, NEW c, NEW r, Collects(r, sc, tx, ab), r.list # << >>
    PROVE  GatherOk(AfterFailure(c, r), sc, tx, ab)
<1> DEFINE t == Tail(r.list)
           q == [r EXCEPT !.list = t]
<1>1. r \in GatherType /\ r.list \in Seq(ArtifactType)
  BY DEF Collects, GatherType
<1>2. /\ t \in Seq(ArtifactType)
      /\ \A n \in 1 .. Len(t) : n + 1 \in 1 .. Len(r.list) /\ t[n] = r.list[n + 1]
  BY <1>1, TailFacts
<1>3. AfterFailure(c, r) = IF InDaemon(c) THEN Onward(q) ELSE Resting
  BY DEF AfterFailure
<1> HIDE DEF t
<1>4. /\ q \in GatherType /\ q.list = t /\ q.clean = r.clean /\ q.phases = r.phases /\ q.since = r.since
  BY <1>1, <1>2 DEF GatherType
<1> HIDE DEF q
<1>5. AsRead(q, sc) /\ Cleanable(q, sc, ab)
  BY <1>2, <1>4 DEF Collects, AsRead, Cleanable
<1>6. Collects(q, sc, tx, ab)
  BY <1>4, <1>5 DEF Collects
<1> QED BY <1>3, <1>6, OnwardOk, RestingOk

(* A collector that looks or makes has a file in hand.                     *)
LEMMA IsCollecting ==
    ASSUME NEW sc, NEW tx, NEW ab, NEW r, GatherOk(r, sc, tx, ab), r.pc \in {"look", "make"}
    PROVE  Collects(r, sc, tx, ab) /\ r.list # << >>
BY DEF GatherOk, Collects

(* Files are removed and written, texts are taken in: a collector that     *)
(* does nothing is as well off as before.                                  *)
LEMMA OthersOk ==
    ASSUME NEW sc, NEW tx \in Nat, NEW ab \in Seq(AbsorbedType), NEW r, GatherOk(r, sc, tx, ab),
           NEW sc2, NEW tx2 \in Nat, NEW ab2 \in Seq(AbsorbedType), tx <= tx2,
           \A s \in Stems, f \in Copies : sc2[s][f] \in {sc[s][f], 0} \/ sc2[s][f] > tx,
           \A s \in Stems, f \in Copies : sc2[s][f] \in Nat,
           Len(ab) <= Len(ab2), \A i \in 1 .. Len(ab) : ab2[i] = ab[i]
    PROVE  GatherOk(r, sc2, tx2, ab2)
<1>1. r \in GatherType /\ r.since \in Nat /\ r.since <= tx /\ r.clean \subseteq FileType /\ r.looked \in Nat
  BY DEF GatherOk, GatherType
<1>2. \A s \in Stems, f \in Copies : \A text :
         ReadOrLate(sc[s][f], text, r.since) => ReadOrLate(sc2[s][f], text, r.since)
  BY <1>1 DEF ReadOrLate
<1>3. AsRead(r, sc2)
  <2> SUFFICES ASSUME NEW n \in 1 .. Len(r.list)
               PROVE  ReadOrLate(sc2[r.list[n].stem][r.list[n].main], r.list[n].text, r.since)
    BY DEF AsRead
  <2>1. r.list[n] \in ArtifactType
    BY <1>1 DEF GatherType
  <2>2. r.list[n].stem \in Stems /\ r.list[n].main \in Copies
    BY <2>1 DEF ArtifactType
  <2> QED BY <1>2, <2>2 DEF GatherOk, AsRead
<1>4. Len(ab) \in Nat /\ Len(ab2) \in Nat /\ \A i \in 1 .. Len(ab) : i \in 1 .. Len(ab2)
  OBVIOUS
<1>5. Cleanable(r, sc2, ab2)
  <2> SUFFICES ASSUME NEW x \in r.clean, x.main PROVE Backed(x, r.since, sc2, ab2)
    BY DEF Cleanable
  <2>1. x.stem \in Stems /\ x.copy \in Copies
    BY <1>1 DEF FileType
  <2>2. PICK i \in 1 .. Len(ab) : ab[i].stem = x.stem /\ ReadOrLate(sc[x.stem][x.copy], ab[i].text, r.since)
    BY DEF GatherOk, Cleanable, Backed
  <2> QED BY <1>2, <1>4, <2>1, <2>2 DEF Backed
<1>6. r.pc = "make" => r.looked <= Len(ab2) /\ Unseen(r, ab2)
  <2> SUFFICES ASSUME r.pc = "make" PROVE r.looked <= Len(ab2) /\ Unseen(r, ab2)
    OBVIOUS
  <2>1. r.looked <= Len(ab) /\ Unseen(r, ab)
    BY DEF GatherOk
  <2>2. \A i \in 1 .. r.looked : i \in 1 .. Len(ab)
    BY <1>1, <1>4, <2>1
  <2> QED BY <1>1, <1>4, <2>1, <2>2 DEF Unseen
<1>7. r.since <= tx2
  BY <1>1
<1> QED BY <1>1, <1>3, <1>5, <1>6, <1>7 DEF GatherOk

(* SetToSeq lists a finite set without repetition.                         *)
LEMMA SetToSeqFacts ==
    ASSUME NEW S, IsFiniteSet(S) PROVE SetToSeq(S) \in Seq(S) /\ IsInjective(SetToSeq(S))
<1>1. Cardinality(S) \in Nat /\ ExistsBijection(1 .. Cardinality(S), S)
  BY FS_CardinalityType
<1>2. \E f \in [1 .. Cardinality(S) -> S] : IsInjective(f)
  BY <1>1 DEF ExistsBijection, Bijection, Injection
<1>3. SetToSeq(S) \in [1 .. Cardinality(S) -> S] /\ IsInjective(SetToSeq(S))
  BY <1>2 DEF SetToSeq
<1> DEFINE n == Cardinality(S)
           q == SetToSeq(S)
<1>4. n \in Nat /\ q \in [1 .. n -> S]
  BY <1>1, <1>3
<1> HIDE DEF n, q
<1>5. q \in UNION {[1 .. m -> S] : m \in Nat}
  BY <1>4
<1> QED BY <1>3, <1>5, SeqDef DEF q

(* A scan finds the files as they are.                                     *)
LEMMA ScannedFacts ==
    ASSUME ScratchTypes, NEW kind \in Kinds
    PROVE  /\ IsFiniteSet(Scanned(kind))
           /\ \A a \in Scanned(kind) : a \in ArtifactType /\ a.text = scratch[a.stem][a.main]
<1>1. IsFiniteSet(Present(kind)) /\ Present(kind) \subseteq Stems
  <2>1. Present(kind) \subseteq Roots[kind]
    BY DEF Present
  <2> QED BY <2>1, KindsFound, FS_Subset
<1>2. \A s \in Stems : /\ selectAntigravityPrimary(s) \in Copies /\ Here(s) \subseteq Copies
                       /\ \A f \in Copies : scratch[s][f] \in Nat
  BY DEF selectAntigravityPrimary, Here, Copies, ScratchTypes
<1>3. "base" \in Copies
  BY DEF Copies
<1>4. ASSUME NEW s \in Stems
      PROVE  /\ buildGeminiArtifact(s) \in ArtifactType
             /\ buildGeminiArtifact(s).text = scratch[buildGeminiArtifact(s).stem][buildGeminiArtifact(s).main]
             /\ buildAntigravityArtifact(s) \in ArtifactType
             /\ buildAntigravityArtifact(s).text =
                    scratch[buildAntigravityArtifact(s).stem][buildAntigravityArtifact(s).main]
             /\ buildCorpusMarkdownArtifact(s) \in ArtifactType
             /\ buildCorpusMarkdownArtifact(s).text =
                    scratch[buildCorpusMarkdownArtifact(s).stem][buildCorpusMarkdownArtifact(s).main]
  BY <1>2, <1>3 DEF buildGeminiArtifact, buildAntigravityArtifact, buildCorpusMarkdownArtifact, ArtifactType
<1>5. CASE kind = "gemini"
  <2> DEFINE P == Present(kind)
             f == [s \in P |-> buildGeminiArtifact(s)]
             S == Scanned(kind)
  <2>1. S = {buildGeminiArtifact(s) : s \in P}
    BY <1>5 DEF Scanned, ScanGeminiArtifacts
  <2>2. f \in Surjection(P, S)
    BY <2>1 DEF Surjection
  <2>3. IsFiniteSet(S)
    BY <2>2, <1>1, FS_Surjection
  <2> QED BY <2>1, <2>3, <1>1, <1>4
<1>6. CASE kind = "antigravity"
  <2> DEFINE P == Present(kind)
             f == [s \in P |-> buildAntigravityArtifact(s)]
             S == Scanned(kind)
  <2>1. S = {buildAntigravityArtifact(s) : s \in P}
    BY <1>6 DEF Scanned, ScanAntigravityRuns, scanAntigravityRun
  <2>2. f \in Surjection(P, S)
    BY <2>1 DEF Surjection
  <2>3. IsFiniteSet(S)
    BY <2>2, <1>1, FS_Surjection
  <2> QED BY <2>1, <2>3, <1>1, <1>4
<1>7. CASE kind = "corpus"
  <2> DEFINE P == Present(kind)
             f == [s \in P |-> buildCorpusMarkdownArtifact(s)]
             S == Scanned(kind)
  <2>1. S = {buildCorpusMarkdownArtifact(s) : s \in P}
    BY <1>7 DEF Scanned, ScanCorpusMarkdownArtifacts
  <2>2. f \in Surjection(P, S)
    BY <2>1 DEF Surjection
  <2>3. IsFiniteSet(S)
    BY <2>2, <1>1, FS_Surjection
  <2> QED BY <2>1, <2>3, <1>1, <1>4
<1> QED BY <1>5, <1>6, <1>7 DEF Kinds

(* The files a scan lists are there when it lists them.                    *)
LEMMA ScanOk ==
    ASSUME ScratchTypes, NEW r, GatherOk(r, scratch, texts, absorbed), r.pc = "scan"
    PROVE  GatherOk(Onward([r EXCEPT !.list = SetToSeq(Scanned(Kind(r))), !.since = texts]),
                    scratch, texts, absorbed)
<1>1. r \in GatherType /\ r.phases \in Seq(Kinds) /\ r.phases # << >>
  BY DEF GatherOk, GatherType
<1>2. Kind(r) \in Kinds
  BY <1>1, TailFacts DEF Kind
<1> DEFINE S == Scanned(Kind(r))
           l == SetToSeq(S)
<1>3. /\ l \in Seq(S) /\ \A a \in S : a \in ArtifactType /\ a.text = scratch[a.stem][a.main]
  BY <1>2, ScannedFacts, SetToSeqFacts
<1> HIDE DEF S
<1> DEFINE q == [r EXCEPT !.list = l, !.since = texts]
<1>4. l \in Seq(ArtifactType) /\ \A n \in 1 .. Len(l) : l[n].text = scratch[l[n].stem][l[n].main]
  <2>1. S \subseteq ArtifactType /\ \A n \in 1 .. Len(l) : l[n] \in S
    BY <1>3, ElementOfSeq
  <2>2. l \in Seq(ArtifactType)
    BY <1>3, <2>1, SeqMonotonic
  <2> QED BY <1>3, <2>1, <2>2
<1> HIDE DEF l
<1>5. texts \in Nat
  BY DEF ScratchTypes
<1>6. /\ q \in GatherType /\ q.list = l /\ q.since = texts /\ q.phases = r.phases /\ q.clean = r.clean
  BY <1>1, <1>4, <1>5 DEF GatherType
<1> HIDE DEF q
<1>7. AsRead(q, scratch)
  BY <1>4, <1>6 DEF AsRead, ReadOrLate
<1>8. Cleanable(q, scratch, absorbed)
  <2>1. r.clean = {}
    BY DEF GatherOk
  <2> QED BY <1>6, <2>1 DEF Cleanable
<1>9. Collects(q, scratch, texts, absorbed)
  BY <1>1, <1>5, <1>6, <1>7, <1>8 DEF Collects
<1>10. GatherOk(Onward(q), scratch, texts, absorbed)
  BY <1>5, <1>9, OnwardOk
<1> QED BY <1>10 DEF q, l, S

(* What the office does to the scratch files.                              *)
quietScratch == UNCHANGED <<scratch, texts, absorbed, lost>>
ScratchNext ==
    \/ \E c \in Collectors : GatherStep(c) \/ GatherFails(c) \/ GatherCannotRemove(c)
    \/ \E c \in Collectors, cleans \in BOOLEAN : GatherStarts(c, cleans)
    \/ \E c \in Collectors : SetGather(c, Resting) /\ quietScratch
    \/ \E s \in Stems, f \in Copies : AgentWrites(s, f)
    \/ gather' = Interrupted /\ quietScratch

(* Every step of the office is, for the scratch files and the collectors,  *)
(* one of Recovery or none.                                                *)
LEMMA ScratchSteps == EnvOk /\ [Next]_vars => [ScratchNext]_recoveryVars
<1> SUFFICES ASSUME EnvOk, [Next]_vars PROVE ScratchNext \/ UNCHANGED recoveryVars
  OBVIOUS
<1>0. /\ env.scratch \subseteq Stems /\ env.tools \subseteq Collectors /\ env.cleans \in BOOLEAN
      /\ "tick" \in Collectors
  BY EnvMeans DEF DeskEnvironment, Collectors, Rounds
<1>1. CASE (LoopNext /\ UNCHANGED deskVars) \/ UNCHANGED vars
  BY <1>1 DEF deskVars, vars
<1>2. CASE QuickReadsBootstrap \/ QuickLeaves \/ \E w \in Workers : WorkerLeaves(w)
  BY <1>2 DEF QuickReadsBootstrap, QuickLeaves, WorkerLeaves
<1>3. CASE DaemonRestarts
  BY <1>3 DEF DaemonRestarts, ScratchNext, quietScratch
<1>4. CASE Desk
  <2>1. CASE Scribbling
    BY <2>1, <1>0 DEF Scribbling, ScratchNext
  <2>2. CASE UNCHANGED recoveryVars
    BY <2>2
  <2> QED BY <1>4, <2>1, <2>2 DEF Desk
<1>5. CASE Entering \/ Saving \/ Serving
  BY <1>5 DEF Entering, Saving, Serving
<1>6. CASE Architecting
  <2>1. CASE TickRecovers
    BY <2>1, <1>0 DEF TickRecovers, ScratchNext
  <2>2. CASE Collecting("tick")
    BY <2>2, <1>0 DEF Collecting, ScratchNext
  <2>3. CASE TickGoesOn
    BY <2>3, <1>0 DEF TickGoesOn, ScratchNext, quietScratch
  <2> QED BY <1>6, <2>1, <2>2, <2>3 DEF Architecting
<1>7. CASE \E c \in Collectors \ {"tick"} : Collecting(c)
  BY <1>7 DEF Collecting, ScratchNext
<1> QED BY <1>1, <1>2, <1>3, <1>4, <1>5, <1>6, <1>7 DEF Next

(* Nothing was absorbed and no collector is at work at the start.          *)
LEMMA ScratchInitial == RecoveryInit => ScratchInv
<1> SUFFICES ASSUME RecoveryInit PROVE ScratchInv
  OBVIOUS
<1>1. ScratchTypes
  BY DEF RecoveryInit, ScratchTypes
<1>2. \A c \in Collectors : GatherOk(gather[c], scratch, texts, absorbed)
  BY RestingOk DEF RecoveryInit
<1>3. ScratchIsKept
  BY DEF RecoveryInit, ScratchIsKept, RemovedIsAbsorbed, TwiceMeansRaced
<1> QED BY <1>1, <1>2, <1>3 DEF ScratchInv

(* A collector moves, and nothing else does.                               *)
LEMMA GatherMoves ==
    ASSUME ScratchInv, NEW c \in Collectors, NEW r, GatherOk(r, scratch, texts, absorbed),
           SetGather(c, r), quietScratch
    PROVE  ScratchInv'
<1>1. DOMAIN gather' = Collectors /\ \A d \in Collectors : gather'[d] = IF d = c THEN r ELSE gather[d]
  BY DEF SetGather, ScratchInv, ScratchTypes
<1>2. ScratchTypes' /\ ScratchIsKept'
  BY <1>1 DEF ScratchInv, ScratchTypes, quietScratch, ScratchIsKept, RemovedIsAbsorbed, TwiceMeansRaced
<1>3. \A d \in Collectors : GatherOk(gather'[d], scratch', texts', absorbed')
  BY <1>1 DEF ScratchInv, quietScratch
<1> QED BY <1>2, <1>3 DEF ScratchInv

(* A collector is through with a file.                                     *)
LEMMA RemovedOk ==
    ASSUME NEW sc, NEW tx \in Nat, NEW ab, NEW r, GatherOk(r, sc, tx, ab), r.pc = "clean", NEW x
    PROVE  LET q == [r EXCEPT !.clean = @ \ {x}] IN
           GatherOk(IF q.clean = {} THEN NextKind(q) ELSE q, sc, tx, ab)
<1> DEFINE k == r.clean \ {x}
           q == [r EXCEPT !.clean = k]
<1>1. r \in GatherType /\ r.phases # << >> /\ k \subseteq FileType
  BY DEF GatherOk, GatherType
<1> HIDE DEF k
<1>2. /\ q \in GatherType /\ q.phases = r.phases /\ q.clean = k /\ q.list = r.list /\ q.since = r.since
      /\ q.pc = "clean"
  BY <1>1 DEF GatherType
<1> HIDE DEF q
<1>3. AsRead(q, sc) /\ Cleanable(q, sc, ab)
  BY <1>2 DEF GatherOk, AsRead, Cleanable, k
<1>4. GatherOk(q, sc, tx, ab)
  BY <1>1, <1>2, <1>3 DEF GatherOk
<1>5. GatherOk(NextKind(q), sc, tx, ab)
  BY <1>1, <1>2, NextKindOk
<1> QED BY <1>4, <1>5 DEF q, k

(* A look at the next file keeps the invariant: the collector reads the    *)
(* text or passes over it.                                                 *)
LEMMA LooksOk == ASSUME ScratchInv, NEW c \in Collectors, GatherLooks(c) PROVE ScratchInv'
<1> DEFINE r == gather[c]
<1>0. texts \in Nat /\ absorbed \in Seq(AbsorbedType) /\ Len(absorbed) \in Nat
  BY DEF ScratchInv, ScratchTypes
<1>1. GatherOk(r, scratch, texts, absorbed) /\ r.pc = "look" /\ quietScratch
  BY DEF ScratchInv, GatherLooks, AtGather, quietScratch
<1>2. Collects(r, scratch, texts, absorbed) /\ r.list # << >>
  BY <1>1, IsCollecting
<1>3. CASE Known(Head(r.list))
  <2>1. KnownIn(absorbed, Head(r.list))
    BY <1>3 DEF Known, KnownIn, Matches
  <2>2. GatherOk(AfterKnown(r), scratch, texts, absorbed)
    BY <1>0, <1>2, <2>1, AfterKnownOk
  <2>3. SetGather(c, AfterKnown(r))
    BY <1>3 DEF GatherLooks
  <2> QED BY <1>1, <2>2, <2>3, GatherMoves
<1>4. CASE ~ Known(Head(r.list))
  <2> DEFINE q == [r EXCEPT !.pc = "make", !.looked = Len(absorbed)]
  <2>1. SetGather(c, q)
    BY <1>4 DEF GatherLooks
  <2>2. /\ q \in GatherType /\ q.pc = "make" /\ q.looked = Len(absorbed) /\ q.list = r.list /\ q.clean = r.clean
        /\ q.since = r.since /\ q.phases = r.phases
    BY <1>0, <1>1 DEF GatherOk, GatherType
  <2> HIDE DEF q
  <2>3. Unseen(q, absorbed)
    BY <1>4, <2>2 DEF Unseen, Known, Matches
  <2>4. AsRead(q, scratch) /\ Cleanable(q, scratch, absorbed)
    BY <1>2, <2>2 DEF Collects, AsRead, Cleanable
  <2>5. GatherOk(q, scratch, texts, absorbed)
    BY <1>0, <1>2, <2>2, <2>3, <2>4 DEF Collects, GatherOk
  <2> QED BY <1>1, <2>1, <2>5, GatherMoves
<1> QED BY <1>3, <1>4

(* Making the entry keeps it: the file goes on the list to be removed      *)
(* only with its entry.                                                    *)
LEMMA MakesOk == ASSUME ScratchInv, NEW c \in Collectors, GatherMakes(c) PROVE ScratchInv'
<1> DEFINE r == gather[c]
           a == Head(r.list)
           e == [stem |-> a.stem, text |-> a.text, looked |-> r.looked]
<1>0. /\ texts \in Nat /\ absorbed \in Seq(AbsorbedType) /\ Len(absorbed) \in Nat
      /\ scratch \in [Stems -> [Copies -> Nat]] /\ DOMAIN gather = Collectors
  BY DEF ScratchInv, ScratchTypes
<1>1. GatherOk(r, scratch, texts, absorbed) /\ r.pc = "make"
  BY DEF ScratchInv, GatherMakes, AtGather
<1>2. /\ absorbed' = Append(absorbed, e) /\ SetGather(c, AfterKnown(r)) /\ UNCHANGED <<scratch, texts, lost>>
  BY DEF GatherMakes
<1>3. Collects(r, scratch, texts, absorbed) /\ r.list # << >>
  BY <1>1, IsCollecting
<1>4. r.looked \in Nat /\ r.looked <= Len(absorbed) /\ Unseen(r, absorbed) /\ r.list \in Seq(ArtifactType)
  BY <1>1 DEF GatherOk, GatherType
<1>5. a \in ArtifactType
  BY <1>3, <1>4, TailFacts
<1>6. e \in AbsorbedType /\ e.stem = a.stem /\ e.text = a.text /\ e.looked = r.looked
  BY <1>4, <1>5 DEF ArtifactType, AbsorbedType
<1> HIDE DEF a, e
<1>7. /\ absorbed' \in Seq(AbsorbedType) /\ Len(absorbed') = Len(absorbed) + 1
      /\ absorbed'[Len(absorbed) + 1] = e /\ \A i \in 1 .. Len(absorbed) : absorbed'[i] = absorbed[i]
  BY <1>0, <1>2, <1>6
<1>8. ASSUME NEW d \in Collectors PROVE GatherOk(gather[d], scratch', texts', absorbed')
  <2>1. GatherOk(gather[d], scratch, texts, absorbed)
    BY DEF ScratchInv
  <2>2. /\ \A s \in Stems, f \in Copies : scratch'[s][f] \in {scratch[s][f], 0} \/ scratch'[s][f] > texts
        /\ \A s \in Stems, f \in Copies : scratch'[s][f] \in Nat
        /\ texts' \in Nat /\ texts <= texts' /\ Len(absorbed) <= Len(absorbed')
    BY <1>0, <1>2, <1>7
  <2> QED BY <1>0, <1>7, <2>1, <2>2, OthersOk
<1>9. KnownIn(absorbed', Head(r.list))
  <2>1. Len(absorbed) + 1 \in 1 .. Len(absorbed')
    BY <1>0, <1>7
  <2> QED BY <1>6, <1>7, <2>1 DEF KnownIn, Matches, a
<1>10. GatherOk(AfterKnown(r), scratch', texts', absorbed')
  <2>1. Collects(r, scratch', texts', absorbed')
    BY <1>1, <1>8, IsCollecting
  <2>2. texts' \in Nat
    BY <1>0, <1>2
  <2> QED BY <1>3, <1>7, <1>9, <2>1, <2>2, AfterKnownOk
<1>11. /\ DOMAIN gather' = Collectors
       /\ \A d \in Collectors : gather'[d] = IF d = c THEN AfterKnown(r) ELSE gather[d]
  BY <1>0, <1>2 DEF SetGather
<1>12. ScratchTypes'
  BY <1>0, <1>2, <1>7, <1>11 DEF ScratchTypes
<1>13. ScratchIsKept'
  <2>1. RemovedIsAbsorbed'
    BY <1>2 DEF ScratchInv, ScratchIsKept, RemovedIsAbsorbed
  <2> SUFFICES ASSUME NEW i \in 1 .. Len(absorbed'), NEW k \in 1 .. Len(absorbed'), i < k,
                      absorbed'[i].stem = absorbed'[k].stem, absorbed'[i].text = absorbed'[k].text
               PROVE  i > absorbed'[k].looked
    BY <2>1 DEF ScratchIsKept, TwiceMeansRaced
  <2>2. i \in 1 .. Len(absorbed)
    BY <1>0, <1>7
  <2>3. CASE k \in 1 .. Len(absorbed)
    BY <1>7, <2>2, <2>3 DEF ScratchInv, ScratchIsKept, TwiceMeansRaced
  <2>4. CASE k = Len(absorbed) + 1
    <3>1. Matches(absorbed[i], Head(r.list)) /\ absorbed'[k].looked = r.looked
      BY <1>6, <1>7, <2>2, <2>4 DEF Matches, a
    <3>2. i \notin 1 .. r.looked
      BY <1>4, <3>1 DEF Unseen
    <3> QED BY <1>0, <1>4, <2>2, <3>1, <3>2
  <2>5. k \in 1 .. Len(absorbed) \/ k = Len(absorbed) + 1
    <3>1. Len(absorbed) \in Nat /\ Len(absorbed') = Len(absorbed) + 1
      BY <1>0, <1>7
    <3> QED BY <3>1
  <2> QED BY <2>3, <2>4, <2>5
<1> QED BY <1>8, <1>10, <1>11, <1>12, <1>13 DEF ScratchInv

(* Removing the files keeps it: those that go are backed by an entry, or   *)
(* were written anew meanwhile.                                            *)
LEMMA RemovesOk == ASSUME ScratchInv, NEW c \in Collectors, GatherRemoves(c) PROVE ScratchInv'
<1> DEFINE r == gather[c]
<1>0. /\ texts \in Nat /\ absorbed \in Seq(AbsorbedType) /\ Len(absorbed) \in Nat
      /\ scratch \in [Stems -> [Copies -> Nat]] /\ DOMAIN gather = Collectors
  BY DEF ScratchInv, ScratchTypes
<1>1. GatherOk(r, scratch, texts, absorbed) /\ r.pc = "clean" /\ UNCHANGED <<texts, absorbed>>
  BY DEF ScratchInv, GatherRemoves, AtGather
<1>2. PICK x \in r.clean :
        LET text == scratch[x.stem][x.copy] IN
        /\ Removed(c, x)
        /\ scratch' = [scratch EXCEPT ![x.stem][x.copy] = 0]
        /\ lost' = IF text = 0 \/ Known([stem |-> x.stem, text |-> text]) THEN lost
                   ELSE lost \cup {[text |-> text, main |-> x.main, late |-> text > r.since]}
  BY DEF GatherRemoves
<1> DEFINE text == scratch[x.stem][x.copy]
           q == [r EXCEPT !.clean = @ \ {x}]
           r2 == IF q.clean = {} THEN NextKind(q) ELSE q
<1>3. x \in FileType /\ x.stem \in Stems /\ x.copy \in Copies /\ r.since \in Nat /\ text \in Nat
  <2>1. x \in FileType /\ r.since \in Nat
    BY <1>1 DEF GatherOk, GatherType
  <2> QED BY <2>1, <1>0 DEF FileType
<1>4. /\ scratch' \in [Stems -> [Copies -> Nat]]
      /\ \A s \in Stems, f \in Copies : scratch'[s][f] \in {scratch[s][f], 0}
  BY <1>0, <1>2, <1>3
<1>5. ASSUME NEW d \in Collectors PROVE GatherOk(gather[d], scratch', texts', absorbed')
  <2>1. GatherOk(gather[d], scratch, texts, absorbed)
    BY DEF ScratchInv
  <2>2. /\ \A s \in Stems, f \in Copies : scratch'[s][f] \in {scratch[s][f], 0} \/ scratch'[s][f] > texts
        /\ \A s \in Stems, f \in Copies : scratch'[s][f] \in Nat
        /\ texts' \in Nat /\ texts <= texts' /\ Len(absorbed) <= Len(absorbed')
        /\ absorbed' \in Seq(AbsorbedType) /\ \A i \in 1 .. Len(absorbed) : absorbed'[i] = absorbed[i]
    BY <1>0, <1>1, <1>4
  <2> QED BY <1>0, <2>1, <2>2, OthersOk
<1>6. GatherOk(r2, scratch', texts', absorbed')
  <2>1. texts' \in Nat
    BY <1>0, <1>1
  <2> QED BY <1>1, <1>5, <2>1, RemovedOk
<1>7. SetGather(c, r2)
  BY <1>2 DEF Removed
<1> HIDE DEF r2, q
<1>8. /\ DOMAIN gather' = Collectors /\ \A d \in Collectors : gather'[d] = IF d = c THEN r2 ELSE gather[d]
  BY <1>0, <1>7 DEF SetGather
<1>9. ScratchTypes'
  BY <1>0, <1>1, <1>4, <1>8 DEF ScratchTypes
<1>10. ScratchIsKept'
  <2>1. TwiceMeansRaced'
    BY <1>1 DEF ScratchInv, ScratchIsKept, TwiceMeansRaced
  <2>2. CASE text = 0 \/ Known([stem |-> x.stem, text |-> text])
    BY <1>2, <2>1, <2>2 DEF ScratchInv, ScratchIsKept, RemovedIsAbsorbed
  <2>3. CASE text # 0 /\ ~ Known([stem |-> x.stem, text |-> text])
    <3> DEFINE y == [text |-> text, main |-> x.main, late |-> text > r.since]
    <3>1. lost' = lost \cup {y}
      BY <1>2, <2>3
    <3>2. x.main => text > r.since
      <4> SUFFICES ASSUME x.main PROVE text > r.since
        OBVIOUS
      <4>1. PICK i \in 1 .. Len(absorbed) : absorbed[i].stem = x.stem /\ ReadOrLate(text, absorbed[i].text, r.since)
        BY <1>1, <1>2 DEF GatherOk, Cleanable, Backed
      <4>2. text # absorbed[i].text
        BY <2>3, <4>1 DEF Known
      <4> QED BY <2>3, <4>1, <4>2 DEF ReadOrLate
    <3>3. y.late \/ ~ y.main
      BY <3>2
    <3> HIDE DEF y
    <3> QED BY <2>1, <3>1, <3>3 DEF ScratchInv, ScratchIsKept, RemovedIsAbsorbed
  <2> QED BY <2>2, <2>3
<1> QED BY <1>5, <1>6, <1>8, <1>9, <1>10 DEF ScratchInv

(* An agent that writes while a collector is at work makes a text newer    *)
(* than any scan.                                                          *)
LEMMA WritesOk == ASSUME ScratchInv, NEW s \in Stems, NEW f \in Copies, AgentWrites(s, f) PROVE ScratchInv'
<1>0. /\ texts \in Nat /\ absorbed \in Seq(AbsorbedType) /\ Len(absorbed) \in Nat
      /\ scratch \in [Stems -> [Copies -> Nat]] /\ DOMAIN gather = Collectors
  BY DEF ScratchInv, ScratchTypes
<1>1. /\ scratch' = [scratch EXCEPT ![s][f] = texts + 1] /\ texts' = texts + 1 /\ UNCHANGED <<absorbed, gather, lost>>
  BY DEF AgentWrites
<1>2. /\ scratch' \in [Stems -> [Copies -> Nat]]
      /\ \A u \in Stems, g \in Copies : scratch'[u][g] \in {scratch[u][g], 0} \/ scratch'[u][g] > texts
      /\ \A u \in Stems, g \in Copies : scratch'[u][g] \in Nat
  BY <1>0, <1>1
<1>3. ASSUME NEW d \in Collectors PROVE GatherOk(gather'[d], scratch', texts', absorbed')
  <2>1. GatherOk(gather[d], scratch, texts, absorbed)
    BY DEF ScratchInv
  <2>2. /\ texts' \in Nat /\ texts <= texts' /\ Len(absorbed) <= Len(absorbed')
        /\ absorbed' \in Seq(AbsorbedType) /\ \A i \in 1 .. Len(absorbed) : absorbed'[i] = absorbed[i]
    BY <1>0, <1>1
  <2>3. GatherOk(gather[d], scratch', texts', absorbed')
    BY <1>0, <1>2, <2>1, <2>2, OthersOk
  <2> QED BY <1>1, <2>3
<1>4. ScratchTypes' /\ ScratchIsKept'
  BY <1>0, <1>1, <1>2 DEF ScratchTypes, ScratchInv, ScratchIsKept, RemovedIsAbsorbed, TwiceMeansRaced
<1> QED BY <1>3, <1>4 DEF ScratchInv

(* So every step of the agents and the collectors keeps the invariant.     *)
LEMMA ScratchStep == ScratchInv /\ [ScratchNext]_recoveryVars => ScratchInv'
<1> SUFFICES ASSUME ScratchInv, [ScratchNext]_recoveryVars PROVE ScratchInv'
  OBVIOUS
<1>0. /\ ScratchTypes /\ texts \in Nat /\ \A c \in Collectors : GatherOk(gather[c], scratch, texts, absorbed)
      /\ DOMAIN gather = Collectors
  BY DEF ScratchInv, ScratchTypes
<1>1. ASSUME NEW c \in Collectors, NEW cleans \in BOOLEAN, GatherStarts(c, cleans) PROVE ScratchInv'
  <2> DEFINE p == Rounds[c]
             q == [Resting EXCEPT !.pc = "scan", !.phases = p, !.cleans = cleans]
  <2>1. p \in Seq(Kinds) /\ p # << >>
    BY RoundsTyped
  <2>2. SetGather(c, q) /\ quietScratch
    BY <1>1 DEF GatherStarts, quietScratch
  <2> HIDE DEF p
  <2>3. Resting \in GatherType /\ Resting.list = << >> /\ Resting.clean = {} /\ Resting.since = 0
    BY <1>0, RestingOk
  <2>4. /\ q \in GatherType /\ q.list = << >> /\ q.clean = {} /\ q.since = 0 /\ q.pc = "scan" /\ q.phases = p
    BY <2>1, <2>3 DEF GatherType
  <2> HIDE DEF q
  <2>5. AsRead(q, scratch) /\ Cleanable(q, scratch, absorbed)
    BY <2>4 DEF AsRead, Cleanable
  <2>6. GatherOk(q, scratch, texts, absorbed)
    BY <1>0, <2>1, <2>4, <2>5 DEF GatherOk
  <2> QED BY <2>2, <2>6, GatherMoves
<1>2. ASSUME NEW c \in Collectors, SetGather(c, Resting), quietScratch PROVE ScratchInv'
  BY <1>0, <1>2, RestingOk, GatherMoves
<1>3. ASSUME NEW c \in Collectors, GatherScans(c) PROVE ScratchInv'
  <2> DEFINE q == Onward([gather[c] EXCEPT !.list = SetToSeq(Scanned(Kind(gather[c]))), !.since = texts])
  <2>1. SetGather(c, q) /\ quietScratch /\ gather[c].pc = "scan"
    BY <1>3 DEF GatherScans, AtGather, quietScratch
  <2>2. GatherOk(q, scratch, texts, absorbed)
    BY <1>0, <2>1, ScanOk
  <2> HIDE DEF q
  <2> QED BY <2>1, <2>2, GatherMoves
<1>4. ASSUME NEW c \in Collectors, GatherFails(c) PROVE ScratchInv'
  <2>1. SetGather(c, AfterFailure(c, gather[c])) /\ quietScratch /\ gather[c].pc = "make"
    BY <1>4 DEF GatherFails, AtGather, quietScratch
  <2>2. Collects(gather[c], scratch, texts, absorbed) /\ gather[c].list # << >>
    BY <1>0, <2>1, IsCollecting
  <2>3. GatherOk(AfterFailure(c, gather[c]), scratch, texts, absorbed)
    BY <1>0, <2>2, AfterFailureOk
  <2> QED BY <2>1, <2>3, GatherMoves
<1>5. ASSUME NEW c \in Collectors, GatherCannotRemove(c) PROVE ScratchInv'
  <2>1. PICK x \in gather[c].clean : Removed(c, x)
    BY <1>5 DEF GatherCannotRemove
  <2> DEFINE q == [gather[c] EXCEPT !.clean = @ \ {x}]
             r2 == IF q.clean = {} THEN NextKind(q) ELSE q
  <2>2. SetGather(c, r2) /\ quietScratch /\ gather[c].pc = "clean"
    BY <1>5, <2>1 DEF GatherCannotRemove, AtGather, quietScratch, Removed
  <2>3. GatherOk(r2, scratch, texts, absorbed)
    BY <1>0, <2>2, RemovedOk
  <2> HIDE DEF r2, q
  <2> QED BY <2>2, <2>3, GatherMoves
<1>6. ASSUME NEW c \in Collectors, GatherEnds(c) PROVE ScratchInv'
  BY <1>6, <1>2 DEF GatherEnds, quietScratch
<1>7. CASE gather' = Interrupted /\ quietScratch
  <2>1. ScratchTypes' /\ ScratchIsKept'
    BY <1>0, <1>7 DEF Interrupted, quietScratch, ScratchTypes, ScratchInv, ScratchIsKept, RemovedIsAbsorbed,
       TwiceMeansRaced
  <2>2. \A c \in Collectors : GatherOk(gather'[c], scratch', texts', absorbed')
    BY <1>0, <1>7, RestingOk DEF Interrupted, quietScratch
  <2> QED BY <2>1, <2>2 DEF ScratchInv
<1>8. CASE UNCHANGED recoveryVars
  BY <1>8 DEF recoveryVars, ScratchInv, ScratchTypes, ScratchIsKept, RemovedIsAbsorbed, TwiceMeansRaced
<1>9. ASSUME NEW c \in Collectors, GatherStep(c) PROVE ScratchInv'
  BY <1>9, <1>3, <1>6, LooksOk, MakesOk, RemovesOk DEF GatherStep
<1> QED BY <1>1, <1>2, <1>4, <1>5, <1>7, <1>8, <1>9, WritesOk DEF ScratchNext
-----------------------------------------------------------------------------
(* Verifications of the loop.  While tests run, and on record, a stamp     *)
(* that is still the tree's goes with a test that saw nothing else.        *)
VerificationType == [stamp : Nat, seen : SUBSET Nat, status : {"passed", "failed"}]
ArchFields == {"pc", "stamp", "seen"}
Tells(now, stamp, seen) ==
    stamp \in Nat /\ seen \subseteq Nat /\ stamp <= now /\ (stamp = now => seen = {now})
LoopInv ==
    /\ tree \in Nat \ {0} /\ ArchFields \subseteq DOMAIN arch
    /\ vlog \in Seq(VerificationType) /\ Len(vlog) <= Len(RepairIds)
    /\ Arch("test") => Tells(tree, arch.stamp, arch.seen)
    /\ \A n \in 1 .. Len(vlog) : Tells(tree, vlog[n].stamp, vlog[n].seen)

(* The loop is at something else than a test.                              *)
AtElse(r) == ArchFields \subseteq DOMAIN r /\ r.pc # "test"
(* What the office does to the loop, its record and the tree.              *)
loopSees == <<tree, vlog, arch>>
TestNext ==
    \/ tree' \in {tree, tree + 1} /\ ArchSees /\ UNCHANGED vlog
    \/ AtElse(arch') /\ UNCHANGED <<tree, vlog>>
    \/ /\ arch' = [Asleep EXCEPT !.pc = "test", !.stamp = tree, !.seen = {tree}]
       /\ UNCHANGED <<tree, vlog>>
    \/ VerificationEnds /\ AtElse(arch') /\ UNCHANGED tree

(* An architect that sleeps is not at its tests.                           *)
LEMMA AsleepElse == AtElse(Asleep)
BY DEF AtElse, Asleep, ArchFields

(* Nor is one that repairs, sends or promotes.                             *)
LEMMA ElseFacts ==
    /\ \A p : p # "test" => AtElse([Asleep EXCEPT !.pc = p])
    /\ \A p, t : p # "test" => AtElse([Asleep EXCEPT !.pc = p, !.todo = t])
    /\ AtElse(Promotion)
<1>1. \A p, t, k, l : p # "test" =>
        /\ AtElse([Asleep EXCEPT !.pc = p]) /\ AtElse([Asleep EXCEPT !.pc = p, !.todo = t])
        /\ AtElse([Asleep EXCEPT !.pc = p, !.todo = t, !.known = k, !.left = l])
  BY DEF AtElse, Asleep, ArchFields
<1> QED BY <1>1, AsleepElse DEF Promotion, Going

(* Every step of the office is, for the tree and the verification log, a   *)
(* test, a change of the tree, or none.                                    *)
LEMMA TestSteps == LoopInv /\ [Next]_vars => [TestNext]_loopSees
<1> SUFFICES ASSUME LoopInv, [Next]_vars PROVE TestNext \/ UNCHANGED loopSees
  OBVIOUS
<1>1. CASE UNCHANGED <<tree, loopVars>>
  BY <1>1 DEF loopVars, loopSees
<1>2. CASE LoopNext
  <2>1. ASSUME NEW w \in Workers, WorkerStep(w) \/ Kill(w) \/ StartWorker(w) PROVE tree' \in {tree, tree + 1}
    BY <2>1 DEF WorkerStep, Poll, DispatchQueued, StartRun, StartFails, Write, Changes, Finish, Report,
         ReportAccepted, ReportRefused, ReportUnheard, Kill, StartWorker
  <2>3. ASSUME NEW j \in Jobs, ClientDispatches(j) PROVE UNCHANGED tree
    BY <2>3 DEF ClientDispatches
  <2>4. CASE Settle
    BY <2>4 DEF Settle, quietDaemon, loopSees
  <2>5. CASE QuickStep
    BY <2>5 DEF QuickStep, QuickSeed, QuickOpen, QuickPromotes, QuickTries, QuickSends, QuickWaits,
         QuickLooksAgain, QuickIdles, quietQuick, loopSees
  <2>6. ASSUME tree' \in {tree, tree + 1}, ArchSees, Shared PROVE TestNext
    BY <2>6 DEF Shared, TestNext
  <2>7. CASE Develop /\ ArchSees /\ Shared
    <3>1. tree' \in {tree, tree + 1}
      BY <2>7 DEF Develop, Changes
    <3> QED BY <3>1, <2>6, <2>7
  <2>8. CASE \E w \in Workers : (WorkerStep(w) \/ Kill(w) \/ StartWorker(w)) /\ ArchSees /\ Shared
    BY <2>1, <2>6, <2>8
  <2>9. CASE \E j \in Jobs : ClientDispatches(j) /\ UNCHANGED loopVars
    BY <1>1, <2>3, <2>9
  <2> QED BY <1>2, <2>4, <2>5, <2>7, <2>8, <2>9 DEF LoopNext
<1>3. CASE QuickReadsBootstrap \/ QuickLeaves
  BY <1>3 DEF QuickReadsBootstrap, QuickLeaves, QuickExits, QuickIdles, quietQuick, workVars, loopVars, loopSees
<1>4. CASE \E w \in Workers : WorkerLeaves(w)
  BY <1>4 DEF WorkerLeaves, WorkerExits, Shared, TestNext
<1>5. CASE DaemonRestarts
  BY <1>5, AsleepElse DEF DaemonRestarts, Restart, SetArch, quietDaemon, TestNext
<1>6. CASE Desk \/ Entering \/ Saving \/ Serving
  BY <1>1, <1>6 DEF Desk, atDesk, quietWork, Entering, Saving, Serving, workVars
<1>7. CASE TickRecovers \/ \E c \in Collectors : Collecting(c)
  BY <1>1, <1>7 DEF TickRecovers, Collecting, workVars
<1>8. CASE TickGoesOn
  <2>1. UNCHANGED <<tree, vlog>>
    BY <1>8 DEF TickGoesOn, Tick, workVars
  <2>2. arch' = [Asleep EXCEPT !.pc = "test", !.stamp = tree, !.seen = {tree}] \/ arch' = Promotion
    BY <1>8 DEF TickGoesOn, Tick, SetArch, repoVerificationStamp
  <2> QED BY <2>1, <2>2, ElseFacts DEF TestNext
<1>9. CASE ArchitectStep
  <2>0. ASSUME arch.pc # "test" PROVE /\ \A l : AtElse([arch EXCEPT !.left = l, !.pc = "send"])
                                      /\ \A l, t : AtElse([arch EXCEPT !.left = l, !.todo = t])
                                      /\ \A t : AtElse([arch EXCEPT !.pc = "each", !.todo = t])
    BY <2>0 DEF AtElse, LoopInv, ArchFields
  <2>1. CASE VerificationEnds
    <3>1. AtElse(arch')
      BY <2>1, ElseFacts DEF VerificationEnds, SetArch, AfterVerdict
    <3>2. UNCHANGED tree
      BY <2>1 DEF VerificationEnds, workVars
    <3> QED BY <2>1, <3>1, <3>2 DEF TestNext
  <2>2. CASE VerificationLost
    BY <2>2, ElseFacts DEF VerificationLost, SetArch, quietDaemon, TestNext
  <2>3. CASE Repair \/ RepairFails
    <3>1. arch' = Asleep \/ arch' = [Asleep EXCEPT !.pc = "send", !.todo = <<RepairId>>]
      BY <2>3 DEF Repair, RepairFails, SetArch
    <3>2. UNCHANGED <<tree, vlog>>
      BY <2>3 DEF Repair, RepairFails, quietDaemon
    <3>3. "send" # "test" /\ AtElse([Asleep EXCEPT !.pc = "send", !.todo = <<RepairId>>])
      BY ElseFacts
    <3> QED BY <3>1, <3>2, <3>3, AsleepElse DEF TestNext
  <2>4. CASE Send
    BY <2>4, <2>0, AsleepElse DEF Send, Arch, SetArch, Going, quietDaemon, TestNext
  <2>5. CASE EnsureExisting
    BY <2>5, <2>0, AsleepElse DEF EnsureExisting, After, Arch, SetArch, Going, workVars, TestNext
  <2>6. CASE EnsureNew
    BY <2>6, <2>0, AsleepElse DEF EnsureNew, After, Arch, SetArch, Going, quietDaemon, TestNext
  <2>7. CASE EnsureFails
    BY <2>7, AsleepElse DEF EnsureFails, SetArch, quietDaemon, TestNext
  <2> QED BY <1>9, <2>1, <2>2, <2>3, <2>4, <2>5, <2>6, <2>7 DEF ArchitectStep
<1>10. CASE UNCHANGED vars
  BY <1>1, <1>10 DEF vars, workVars
<1>11. "tick" \in Collectors
  BY DEF Collectors, Rounds
<1> QED BY <1>2, <1>3, <1>4, <1>5, <1>6, <1>7, <1>8, <1>9, <1>10, <1>11 DEF Next, Architecting

(* The loop starts asleep and the log empty.                               *)
LEMMA LoopInitial == LoopInit => LoopInv
<1> SUFFICES ASSUME LoopInit PROVE LoopInv
  OBVIOUS
<1>1. tree = 1 /\ vlog = << >> /\ arch = Asleep
  BY DEF LoopInit, WorkInit
<1>2. Len(RepairIds) \in Nat
  BY OfficeAssumption
<1> QED BY <1>1, <1>2, AsleepElse DEF LoopInv, AtElse, Arch

(* Each of those steps keeps the log true to the trees that were tested.   *)
LEMMA LoopStep == EnvOk /\ LoopInv /\ [TestNext]_loopSees => LoopInv'
<1> SUFFICES ASSUME EnvOk, LoopInv, [TestNext]_loopSees PROVE LoopInv'
  OBVIOUS
<1>0. /\ tree \in Nat \ {0} /\ ArchFields \subseteq DOMAIN arch
      /\ vlog \in Seq(VerificationType) /\ Len(vlog) \in Nat /\ Len(vlog) <= Len(RepairIds)
      /\ Len(RepairIds) \in Nat
  BY OfficeAssumption DEF LoopInv
<1>1. CASE tree' \in {tree, tree + 1} /\ ArchSees /\ UNCHANGED vlog
  <2>1. \A stamp, seen : Tells(tree, stamp, seen) => Tells(tree', stamp, seen) /\ Tells(tree', stamp, seen \cup {tree'})
    BY <1>0, <1>1 DEF Tells
  <2>2. \A n \in 1 .. Len(vlog') : Tells(tree', vlog'[n].stamp, vlog'[n].seen)
    BY <1>1, <2>1 DEF LoopInv
  <2>3. ArchFields \subseteq DOMAIN arch' /\ (Arch("test")' => Tells(tree', arch'.stamp, arch'.seen))
    <3>1. CASE Arch("test")
      <4>1. arch' = [arch EXCEPT !.seen = arch.seen \cup {tree'}]
        BY <1>1, <3>1 DEF ArchSees
      <4>2. /\ ArchFields \subseteq DOMAIN arch' /\ arch'.stamp = arch.stamp /\ arch'.seen = arch.seen \cup {tree'}
        BY <1>0, <4>1 DEF ArchFields
      <4>3. Tells(tree', arch.stamp, arch.seen \cup {tree'})
        BY <2>1, <3>1 DEF LoopInv
      <4> QED BY <4>2, <4>3 DEF Tells
    <3>2. CASE ~ Arch("test")
      BY <1>0, <1>1, <3>2 DEF ArchSees, Arch
    <3> QED BY <3>1, <3>2
  <2>4. tree' \in Nat \ {0}
    BY <1>0, <1>1
  <2> QED BY <1>0, <1>1, <2>2, <2>3, <2>4 DEF LoopInv
<1>2. CASE AtElse(arch') /\ UNCHANGED <<tree, vlog>>
  BY <1>2 DEF AtElse, LoopInv, Tells, Arch
<1>3. CASE /\ arch' = [Asleep EXCEPT !.pc = "test", !.stamp = tree, !.seen = {tree}]
           /\ UNCHANGED <<tree, vlog>>
  <2>1. ArchFields \subseteq DOMAIN arch' /\ arch'.stamp = tree /\ arch'.seen = {tree}
    BY <1>3 DEF Asleep, ArchFields
  <2>2. Tells(tree', arch'.stamp, arch'.seen)
    BY <1>0, <1>3, <2>1 DEF Tells
  <2> QED BY <1>3, <2>1, <2>2 DEF LoopInv, Tells
<1>4. CASE VerificationEnds /\ AtElse(arch') /\ UNCHANGED tree
  <2>1. env.verdicts \subseteq {"passed", "failed"}
    BY EnvMeans DEF LoopEnvironment
  <2>2. PICK v \in {"passed", "failed"} :
          vlog' = Append(vlog, [stamp |-> arch.stamp, seen |-> arch.seen, status |-> v])
    BY <1>4, <2>1 DEF VerificationEnds, StampNoted
  <2> DEFINE e == [stamp |-> arch.stamp, seen |-> arch.seen, status |-> v]
  <2>3. Tells(tree, arch.stamp, arch.seen) /\ Len(vlog) < Len(RepairIds)
    BY <1>4 DEF VerificationEnds, LoopInv
  <2>4. e \in VerificationType /\ e.stamp = arch.stamp /\ e.seen = arch.seen
    BY <2>3 DEF Tells, VerificationType
  <2> HIDE DEF e
  <2>5. /\ vlog' \in Seq(VerificationType) /\ Len(vlog') = Len(vlog) + 1 /\ vlog'[Len(vlog) + 1] = e
        /\ \A n \in 1 .. Len(vlog) : vlog'[n] = vlog[n]
    BY <1>0, <2>2, <2>4 DEF e
  <2>6. ASSUME NEW n \in 1 .. Len(vlog') PROVE Tells(tree, vlog'[n].stamp, vlog'[n].seen)
    <3>1. n \in 1 .. Len(vlog) \/ n = Len(vlog) + 1
      BY <1>0, <2>5
    <3> QED BY <2>3, <2>4, <2>5, <3>1 DEF LoopInv
  <2>7. Len(vlog') <= Len(RepairIds)
    BY <1>0, <2>3, <2>5
  <2>8. \A n \in 1 .. Len(vlog') : Tells(tree', vlog'[n].stamp, vlog'[n].seen)
    BY <1>4, <2>6 DEF Tells
  <2> QED BY <1>0, <1>4, <2>5, <2>7, <2>8 DEF LoopInv, AtElse, Arch
<1>5. CASE UNCHANGED loopSees
  BY <1>5 DEF loopSees, LoopInv, Tells, Arch
<1> QED BY <1>1, <1>2, <1>3, <1>4, <1>5 DEF TestNext

(* A record in the log is of a tree the loop really tested.                *)
LEMMA LoopInvImplies == LoopInv => VerifiedIsTested
<1> SUFFICES ASSUME LoopInv, LastStamp = tree PROVE vlog[Len(vlog)].seen = {tree}
  BY DEF VerifiedIsTested
<1>1. vlog # << >> /\ vlog[Len(vlog)].stamp = tree
  BY DEF LastStamp, LoopInv
<1>2. Len(vlog) \in 1 .. Len(vlog)
  BY <1>1 DEF LoopInv
<1> QED BY <1>1, <1>2 DEF LoopInv, Tells
-----------------------------------------------------------------------------
(* The control plane: the office asks of it nothing but what it allows.    *)
LEMMA ControlSteps == EnvOk /\ LoopInv /\ [Next]_vars => [ControlNext]_controlVars
<1> SUFFICES ASSUME EnvOk, LoopInv, [Next]_vars PROVE ControlNext \/ UNCHANGED controlVars
  OBVIOUS
<1>0. /\ env.operators \subseteq Operators /\ env.adapter \in {"record", "api"} /\ env.asks \subseteq Asks
      /\ Sections = Room!Sections
  BY EnvMeans DEF DeskEnvironment, Sections, Room!Sections
<1>1. CASE (LoopNext /\ UNCHANGED deskVars) \/ UNCHANGED vars
  BY <1>1 DEF deskVars, vars
<1>2. CASE QuickReadsBootstrap \/ QuickLeaves \/ \E w \in Workers : WorkerLeaves(w)
  BY <1>2 DEF QuickReadsBootstrap, QuickLeaves, WorkerLeaves
<1>3. CASE DaemonRestarts
  BY <1>3 DEF DaemonRestarts, ControlNext
<1>4. CASE Desk
  <2>1. CASE UNCHANGED controlVars
    BY <2>1
  <2>2. CASE Controlling
    <3>1. CASE CreatePreflight
      BY <3>1 DEF ControlNext
    <3>2. CASE \E id \in DecisionIds, r, n \in LevelOf, s \in SizeOf, a \in BOOLEAN : EvaluatePolicy(id, r, n, s, a)
      BY <3>2 DEF ControlNext
    <3>3. ASSUME NEW c \in env.operators, NEW a \in env.asks,
                 \/ a.for = "execute" /\ handleExecuteRunRoute(c, a.id, a.of)
                 \/ a.for = "call" /\ handleGatewayCallsRoute(c, a.id, a.of, a.says)
                 \/ a.for = "test" /\ handleVerificationRunRoute(c, a.id, a.of)
          PROVE  ControlNext
      <4>1. a \in Asks /\ c \in Operators
        BY <1>0
      <4>2. /\ a.for = "test" => a.of \in Scopes
            /\ a.for \in {"execute", "call"} => a.of \in DecisionIds
            /\ a.for = "call" => a.says \in CallStates
        BY <4>1 DEF Asks
      <4>3. a.id \in RecordIds
        BY <4>1 DEF Asks
      <4>4. Control(c)
        BY <3>3, <4>2, <4>3 DEF Control
      <4> QED BY <4>1, <4>4 DEF ControlNext
    <3>4. ASSUME NEW c \in env.operators, WorkIsUnknown(c) \/ Fails(c) PROVE ControlNext
      <4>1. Control(c)
        BY <3>4 DEF Control
      <4> QED BY <1>0, <4>1 DEF ControlNext
    <3>5. CASE \E i \in Subjects, to \in Sections \cup {"none"} : ItemMoved(i, to)
      BY <1>0, <3>5 DEF ControlNext
    <3> QED BY <2>2, <3>1, <3>2, <3>3, <3>4, <3>5 DEF Controlling
  <2> QED BY <1>4, <2>1, <2>2 DEF Desk
<1>5. CASE Entering \/ Saving
  BY <1>5 DEF Entering, Saving
<1>6. CASE Serving
  BY <1>6, <1>0 DEF Serving, ControlNext
<1>7. CASE TickRecovers \/ TickGoesOn \/ \E c \in Collectors : Collecting(c)
  BY <1>7 DEF TickRecovers, TickGoesOn, Collecting
<1>8. CASE ArchitectStep /\ LoopIsHeard
  <2>1. CASE vlog' = vlog
    BY <1>8, <2>1 DEF LoopIsHeard
  <2>2. CASE vlog' # vlog
    <3>1. VerificationEnds
      BY <1>8, <2>2 DEF ArchitectStep, VerificationLost, Repair, RepairFails, Send, EnsureExisting, EnsureNew,
           EnsureFails
    <3>2. env.verdicts \subseteq {"passed", "failed"}
      BY EnvMeans DEF LoopEnvironment
    <3>3. PICK v \in {"passed", "failed"} :
            vlog' = Append(vlog, [stamp |-> StampNoted, seen |-> arch.seen, status |-> v])
      BY <3>1, <3>2 DEF VerificationEnds
    <3> DEFINE e == [stamp |-> StampNoted, seen |-> arch.seen, status |-> v]
    <3>4. Tells(tree, arch.stamp, arch.seen) /\ vlog \in Seq(VerificationType) /\ Len(vlog) < Len(RepairIds)
      BY <3>1 DEF VerificationEnds, LoopInv
    <3>5. e \in VerificationType /\ e.status = v
      BY <3>4 DEF Tells, VerificationType, StampNoted
    <3> HIDE DEF e
    <3>6. Len(vlog') = Len(vlog) + 1 /\ vlog'[Len(vlog) + 1] = e /\ Len(vlog) \in Nat
      BY <3>3, <3>4, <3>5 DEF e
    <3>7. Len(vlog') \in 1 .. Len(RepairIds)
      BY <3>4, <3>6, OfficeAssumption
    <3>8. RepairIds[Len(vlog')] \in RecordIds
      BY <3>7, OfficeAssumption
    <3>9. LoopVerification(RepairIds[Len(vlog')], v)
      BY <1>8, <2>2, <3>5, <3>6 DEF LoopIsHeard
    <3> QED BY <3>8, <3>9 DEF ControlNext
  <2> QED BY <2>1, <2>2
<1>9. "tick" \in Collectors
  BY DEF Collectors, Rounds
<1> QED BY <1>1, <1>2, <1>3, <1>4, <1>5, <1>6, <1>7, <1>8, <1>9 DEF Next, Architecting
-----------------------------------------------------------------------------
(* The sessions.  The records are in the order of their updates, so that   *)
(* the old ones come first, and the last note or checkpoint is the last of *)
(* them: what is resumed, active or stale, is that one.                    *)
(* A record is a line of one actor and one source, as a risk is written.   *)
ContinuityRecord == [id : Nat, actor : Actors, source : Sources, risks : SUBSET Risks, done : BOOLEAN, old : BOOLEAN]

(* What is left when a record is taken out.                                *)
LEMMA RemoveAtFacts ==
    ASSUME NEW S, NEW s \in Seq(S), NEW i \in 1 .. Len(s)
    PROVE  /\ RemoveAt(s, i) \in Seq(S) /\ Len(RemoveAt(s, i)) = Len(s) - 1
           /\ \A k \in 1 .. Len(s) - 1 : RemoveAt(s, i)[k] = IF k < i THEN s[k] ELSE s[k + 1]
<1> DEFINE u == SubSeq(s, 1, i - 1)
           v == SubSeq(s, i + 1, Len(s))
<1>0. Len(s) \in Nat
  OBVIOUS
<1>1. u \in Seq(S) /\ Len(u) = i - 1 /\ \A k \in 1 .. i - 1 : u[k] = s[k]
  OBVIOUS
<1>2. v \in Seq(S) /\ Len(v) = Len(s) - i /\ \A k \in 1 .. Len(s) - i : v[k] = s[i + k]
  OBVIOUS
<1>3. RemoveAt(s, i) = u \o v
  BY DEF RemoveAt
<1> HIDE DEF u, v
<1>4. /\ u \o v \in Seq(S) /\ Len(u \o v) = Len(u) + Len(v)
      /\ \A k \in 1 .. Len(u) + Len(v) : (u \o v)[k] = IF k <= Len(u) THEN u[k] ELSE v[k - Len(u)]
  <2> HIDE <1>3
  <2>1. u \in Seq(S) /\ v \in Seq(S)
    BY <1>1, <1>2
  <2> QED BY <2>1, ConcatProperties
<1>5. ASSUME NEW k \in 1 .. Len(s) - 1 PROVE (u \o v)[k] = IF k < i THEN s[k] ELSE s[k + 1]
  <2>1. CASE k < i
    BY <1>0, <1>1, <1>2, <1>4, <2>1
  <2>2. CASE ~ (k < i)
    <3> DEFINE m == k - Len(u)
    <3>1. m \in 1 .. Len(s) - i /\ i + m = k + 1 /\ ~ (k <= Len(u)) /\ k \in 1 .. Len(u) + Len(v)
      BY <1>0, <1>1, <1>2, <2>2
    <3>2. (u \o v)[k] = v[m]
      BY <1>4, <3>1
    <3> QED BY <1>2, <2>2, <3>1, <3>2
  <2> QED BY <2>1, <2>2
<1>6. RemoveAt(s, i) \in Seq(S)
  BY <1>3, <1>4
<1>7. Len(u \o v) = Len(s) - 1
  BY <1>0, <1>1, <1>2, <1>4
<1>8. Len(RemoveAt(s, i)) = Len(s) - 1
  BY <1>3, <1>7
<1>9. \A k \in 1 .. Len(s) - 1 : RemoveAt(s, i)[k] = IF k < i THEN s[k] ELSE s[k + 1]
  BY <1>3, <1>5
<1> QED BY <1>6, <1>8, <1>9

(* upsertContinuityRecord puts a record that is there at the end, and a    *)
(* new one behind all.                                                     *)
LEMMA UpsertMoves ==
    ASSUME NEW S, records \in Seq(S), NEW r \in S, NEW i \in 1 .. Len(records), records[i].id = r.id,
           \A k, m \in 1 .. Len(records) : records[k].id = records[m].id => k = m
    PROVE  /\ Upserted(r) \in Seq(S) /\ Len(Upserted(r)) = Len(records) /\ Upserted(r)[Len(records)] = r
           /\ \A k \in 1 .. Len(records) - 1 : Upserted(r)[k] = IF k < i THEN records[k] ELSE records[k + 1]
<1> DEFINE I == {k \in 1 .. Len(records) : records[k].id = r.id}
<1>1. I = {i}
  OBVIOUS
<1>2. Min(I) = i
  BY <1>1 DEF Min
<1>3. Upserted(r) = Append(RemoveAt(records, i), r)
  BY <1>1, <1>2 DEF Upserted, RemoveFirstMatch, SelectInSeq
<1> QED BY <1>3, RemoveAtFacts

(* A record with a new id comes last, and the others stay as they are.     *)
LEMMA UpsertAdds ==
    ASSUME NEW r, \A k \in 1 .. Len(records) : records[k].id # r.id
    PROVE  Upserted(r) = Append(records, r)
BY DEF Upserted, RemoveFirstMatch

IdsAreGiven == \A i \in 1 .. Len(records) : records[i].id \in 1 .. Len(records)
(* A day passes for the records that were updated first.                   *)
OldestFirst == \A i, k \in 1 .. Len(records) : i < k /\ records[k].old => records[i].old
RecordsInv ==
    /\ records \in Seq(ContinuityRecord)
    /\ IdsAreGiven /\ OneActiveRecord /\ OldestFirst

(* What the status of a continuity record says of its fields.              *)
LEMMA StatusMeans ==
    ASSUME NEW r \in ContinuityRecord
    PROVE  /\ Status(r) = "active" <=> ~ r.done /\ ~ r.old
           /\ Status(r) = "stale" <=> ~ r.done /\ r.old
           /\ Status(r) = "resolved" <=> r.done
BY DEF Status, ContinuityRecord

(* A record that is updated or new keeps the records in order, if it is    *)
(* closed or the only active one of its actor and source.                  *)
LEMMA UpsertKeeps ==
    ASSUME RecordsInv, NEW r \in ContinuityRecord, ~ r.old, records' = Upserted(r),
           r.id = Len(records) + 1 \/ \E i \in 1 .. Len(records) : records[i].id = r.id,
           r.done \/ \A k \in 1 .. Len(records) :
               records[k].id # r.id /\ records[k].actor = r.actor /\ records[k].source = r.source =>
                   Status(records[k]) # "active"
    PROVE  /\ RecordsInv' /\ Len(records') # 0 /\ records'[Len(records')] = r
           /\ \A k \in 1 .. Len(records) : records[k].id # r.id =>
                 \E m \in 1 .. Len(records') : records'[m] = records[k]
<1>0. records \in Seq(ContinuityRecord) /\ Len(records) \in Nat
  BY DEF RecordsInv
<1>1. \A k, m \in 1 .. Len(records) : records[k].id = records[m].id => k = m
  BY DEF RecordsInv, OneActiveRecord
<1>2. PICK i \in 1 .. Len(records) + 1 :
         /\ i <= Len(records) => records[i].id = r.id
         /\ i = Len(records) + 1 => r.id = i
         /\ records' \in Seq(ContinuityRecord)
         /\ Len(records') = (IF i = Len(records) + 1 THEN i ELSE Len(records)) /\ records'[Len(records')] = r
         /\ \A k \in 1 .. Len(records') - 1 : records'[k] = records[IF k < i THEN k ELSE k + 1]
  <2>1. CASE r.id = Len(records) + 1
    <3>1. \A k \in 1 .. Len(records) : records[k].id # r.id
      BY <1>0, <2>1 DEF RecordsInv, IdsAreGiven
    <3>2. records' = Append(records, r)
      BY <3>1, UpsertAdds
    <3>3. /\ records' \in Seq(ContinuityRecord) /\ Len(records') = Len(records) + 1 /\ records'[Len(records) + 1] = r
          /\ \A k \in 1 .. Len(records) : records'[k] = records[k]
      BY <3>2, <1>0
    <3>4. Len(records) + 1 \in 1 .. Len(records) + 1
      BY <1>0
    <3> QED BY <3>3, <3>4, <2>1, <1>0
  <2>2. ASSUME NEW i \in 1 .. Len(records), records[i].id = r.id
        PROVE  /\ records' \in Seq(ContinuityRecord)
               /\ Len(records') = Len(records) /\ records'[Len(records')] = r
               /\ \A k \in 1 .. Len(records') - 1 : records'[k] = records[IF k < i THEN k ELSE k + 1]
    BY <1>0, <1>1, <2>2, UpsertMoves
  <2>3. CASE \E i \in 1 .. Len(records) : records[i].id = r.id
    <3>1. PICK i \in 1 .. Len(records) : records[i].id = r.id
      BY <2>3
    <3>2. i \in 1 .. Len(records) + 1 /\ i # Len(records) + 1
      BY <1>0
    <3> QED BY <2>2, <3>1, <3>2
  <2> QED BY <2>1, <2>3
<1> DEFINE n == Len(records')
           f(k) == IF k < i THEN k ELSE k + 1
<1>3. /\ records' \in Seq(ContinuityRecord) /\ n \in Nat /\ n # 0 /\ n >= Len(records) /\ r.id \in 1 .. n
      /\ records'[n] = r /\ \A k \in 1 .. n : k = n \/ k \in 1 .. n - 1
  BY <1>0, <1>2 DEF RecordsInv, IdsAreGiven
<1>4. \A k \in 1 .. n - 1 : f(k) \in 1 .. Len(records) /\ records'[k] = records[f(k)] /\ records[f(k)].id # r.id
  <2> SUFFICES ASSUME NEW k \in 1 .. n - 1
               PROVE f(k) \in 1 .. Len(records) /\ records'[k] = records[f(k)] /\ records[f(k)].id # r.id
    OBVIOUS
  <2>1. f(k) \in 1 .. Len(records) /\ f(k) # i
    BY <1>0, <1>2
  <2>2. records'[k] = records[f(k)]
    BY <1>2
  <2>3. records[f(k)].id # r.id
    BY <1>0, <1>1, <1>2, <2>1 DEF RecordsInv, IdsAreGiven
  <2> QED BY <2>1, <2>2, <2>3
<1>5. \A k, m \in 1 .. n - 1 : k < m => f(k) < f(m)
  BY <1>0, <1>2
<1>6. \A k \in 1 .. Len(records) : records[k].id # r.id => \E m \in 1 .. n - 1 : f(m) = k
  <2> SUFFICES ASSUME NEW k \in 1 .. Len(records), records[k].id # r.id PROVE \E m \in 1 .. n - 1 : f(m) = k
    OBVIOUS
  <2>1. k # i
    BY <1>2
  <2>2. CASE k < i
    <3>1. k \in 1 .. n - 1 /\ f(k) = k
      BY <1>0, <1>2, <2>2
    <3> QED BY <3>1
  <2>3. CASE k > i
    <3>1. k - 1 \in 1 .. n - 1 /\ f(k - 1) = k
      BY <1>0, <1>2, <2>3
    <3> QED BY <3>1
  <2> QED BY <1>0, <2>1, <2>2, <2>3
<1> HIDE DEF n, f
<1>7. \A k \in 1 .. n - 1, m \in 1 .. n - 1 : k # m => f(k) # f(m)
  BY <1>3, <1>4, <1>5
<1>8. IdsAreGiven'
  <2>1. \A k \in 1 .. n : records'[k].id \in 1 .. n
    <3>1. ASSUME NEW k \in 1 .. n - 1 PROVE records'[k].id \in 1 .. n
      <4>1. records[f(k)].id \in 1 .. Len(records)
        BY <1>4 DEF RecordsInv, IdsAreGiven
      <4> QED BY <1>0, <1>3, <1>4, <4>1
    <3> QED BY <1>3, <3>1
  <2> QED BY <2>1 DEF IdsAreGiven, n
<1>9. OldestFirst'
  <2>1. ASSUME NEW k \in 1 .. n, NEW m \in 1 .. n, k < m, records'[m].old PROVE records'[k].old
    <3>1. m # n
      BY <1>3, <2>1
    <3>2. m \in 1 .. n - 1 /\ k \in 1 .. n - 1
      BY <1>3, <2>1, <3>1
    <3>3. f(k) < f(m) /\ records[f(m)].old
      BY <1>4, <1>5, <2>1, <3>2
    <3>4. records[f(k)].old
      BY <1>4, <3>2, <3>3 DEF RecordsInv, OldestFirst
    <3> QED BY <1>4, <3>2, <3>4
  <2> QED BY <2>1 DEF OldestFirst, n
<1>10. OneActiveRecord'
  <2> DEFINE Alone(p, q) == p.id # q.id /\ (p.actor = q.actor /\ p.source = q.source =>
                                ~ (Status(p) = "active" /\ Status(q) = "active"))
  <2>1. ASSUME NEW k \in 1 .. n - 1 PROVE Alone(records'[k], r) /\ Alone(r, records'[k])
    <3>1. r.done => Status(r) # "active"
      BY StatusMeans
    <3> QED BY <1>4, <3>1
  <2>2. ASSUME NEW k \in 1 .. n - 1, NEW m \in 1 .. n - 1, k # m PROVE Alone(records'[k], records'[m])
    <3>1. f(k) # f(m) /\ f(k) \in 1 .. Len(records) /\ f(m) \in 1 .. Len(records)
      BY <1>4, <1>7, <2>2
    <3>2. Alone(records[f(k)], records[f(m)])
      BY <3>1 DEF RecordsInv, OneActiveRecord
    <3> QED BY <1>4, <3>2
  <2>3. ASSUME NEW k \in 1 .. n, NEW m \in 1 .. n, k # m PROVE Alone(records'[k], records'[m])
    <3> HIDE DEF Alone
    <3> QED BY <1>3, <2>1, <2>2, <2>3
  <2> QED BY <2>3 DEF OneActiveRecord, n
<1>11. \A k \in 1 .. Len(records) : records[k].id # r.id => \E m \in 1 .. Len(records') : records'[m] = records[k]
  <2>1. \A m \in 1 .. n - 1 : m \in 1 .. n
    BY <1>3
  <2> QED BY <1>4, <1>6, <2>1 DEF n
<1> QED BY <1>3, <1>8, <1>9, <1>10, <1>11 DEF RecordsInv, n

(* A note or a checkpoint leaves its record, open, as the last one, and    *)
(* memory is its projection.                                               *)
Projects(r) == r.source = last.source /\ ~ r.done /\ r.risks = memory
MemoryIsLast ==
    last.op \in {"note", "checkpoint"} => Len(records) # 0 /\ Projects(records[Len(records)])
SessionInv ==
    /\ memory \subseteq Risks /\ packet \subseteq Risks
    /\ last = [op |-> last.op, actor |-> last.actor, source |-> last.source]
    /\ RecordsInv /\ MemoryIsLast

SessionNext ==
    \/ \E a \in Actors, s \in Sources, r \in SUBSET Risks : Checkpoint(a, s, r) \/ Note(a, s, r)
    \/ \E a, r : a # "*" /\ r \in SUBSET Risks /\ FinishSession(a, r)
    \/ \E r \in SUBSET Risks : ReplaceMemory(r)
    \/ \E n \in Nat : Age(n)
    \/ Bootstrap /\ UNCHANGED <<memory, records, last>>

(* The record a session is picked up from.                                 *)
LEMMA LatestFacts ==
    ASSUME RecordsInv, NEW a, NEW s, NEW st, NEW i, i = Latest(a, s, st)
    PROVE  /\ i = 0 => Those(a, s, st) = {}
           /\ i # 0 => i \in Those(a, s, st) /\ i \in 1 .. Len(records) /\ \A k \in Those(a, s, st) : k <= i
<1> DEFINE is == Those(a, s, st)
<1>1. is \in SUBSET Int /\ (\A k \in is : k \in 1 .. Len(records)) /\ Len(records) \in Nat
  BY DEF Those, RecordsInv
<1> HIDE DEF is
<1>2. ASSUME is # {} PROVE \E k \in is : \A m \in is : m <= k
  <2> DEFINE T == {Len(records) - k : k \in is}
  <2>0. \A k \in is : Len(records) - k \in Nat
    BY <1>1
  <2>1. T \subseteq Nat /\ T # {}
    BY <1>2, <2>0
  <2> HIDE DEF T
  <2>2. PICK d \in T : \A e \in T : ~ (<<e, d>> \in OpToRel(<, Nat))
    BY <2>1, NatLessThanWellFounded, WFMin
  <2>3. PICK k \in is : d = Len(records) - k
    BY DEF T
  <2>4. ASSUME NEW m \in is PROVE m <= k
    <3>1. Len(records) - m \in T
      BY DEF T
    <3>2. ~ (Len(records) - m < d) /\ d \in Nat /\ Len(records) - m \in Nat
      BY <2>1, <2>2, <3>1 DEF OpToRel
    <3> QED BY <1>1, <2>3, <3>2
  <2> QED BY <2>4
<1>3. Latest(a, s, st) = IF is = {} THEN 0 ELSE CHOOSE k \in is : \A m \in is : m <= k
  BY DEF Latest, is
<1> QED BY <1>1, <1>2, <1>3 DEF is

(* The record a note or a checkpoint writes over: an open one of its actor *)
(* and source, and no other of these is active.                            *)
LEMMA RecordAtFacts ==
    ASSUME RecordsInv, memory \subseteq Risks, NEW a \in Actors, NEW s \in Sources, NEW i,
           i \in {Latest(a, s, "active"), LatestOpen(a, s)}
    PROVE  /\ RecordAt(a, s, i) \in ContinuityRecord
           /\ ~ RecordAt(a, s, i).done /\ RecordAt(a, s, i).source = s
           /\ a # "*" => RecordAt(a, s, i).actor = a
           /\ IF i = 0 THEN RecordAt(a, s, i) = NewRecord(a, s) /\ NewRecord(a, s).id = Len(records) + 1
              ELSE i \in 1 .. Len(records) /\ RecordAt(a, s, i) = records[i]
           /\ \A k \in 1 .. Len(records) :
                 /\ records[k].id # RecordAt(a, s, i).id
                 /\ records[k].actor = RecordAt(a, s, i).actor /\ records[k].source = RecordAt(a, s, i).source
                 => Status(records[k]) # "active"
<1> DEFINE q == RecordAt(a, s, i)
           ia == Latest(a, s, "active")
           il == Latest(a, s, "stale")
<1>0. records \in Seq(ContinuityRecord) /\ Len(records) \in Nat
  BY DEF RecordsInv
<1>1. /\ ia = 0 => Those(a, s, "active") = {}
      /\ ia # 0 => ia \in Those(a, s, "active") /\ ia \in 1 .. Len(records)
  BY LatestFacts
<1>2. il # 0 => il \in Those(a, s, "stale") /\ il \in 1 .. Len(records)
  BY LatestFacts
<1>3. i = ia \/ (i = il /\ Those(a, s, "active") = {})
  BY DEF LatestOpen
<1> HIDE DEF ia, il
<1>4. CASE i = 0
  <2>1. Those(a, s, "active") = {}
    BY <1>1, <1>3, <1>4
  <2>2. q = NewRecord(a, s)
    BY <1>4 DEF RecordAt
  <2>3. /\ NewRecord(a, s) \in ContinuityRecord /\ ~ NewRecord(a, s).done /\ NewRecord(a, s).source = s
        /\ NewRecord(a, s).actor = a /\ NewRecord(a, s).id = Len(records) + 1
    BY <1>0 DEF NewRecord, ContinuityRecord
  <2>4. \A k \in 1 .. Len(records) : records[k].actor = a /\ records[k].source = s => Status(records[k]) # "active"
    BY <2>1 DEF Those
  <2> QED BY <1>4, <2>2, <2>3, <2>4
<1>5. CASE i # 0
  <2>1. q = records[i]
    BY <1>5 DEF RecordAt
  <2>2. i \in 1 .. Len(records) /\ (i \in Those(a, s, "active") \/ (i \in Those(a, s, "stale") /\ Those(a, s, "active") = {}))
    BY <1>1, <1>2, <1>3, <1>5
  <2>3. records[i] \in ContinuityRecord
    BY <1>0, <2>2
  <2>4. records[i].source = s /\ a \in {records[i].actor, "*"} /\ Status(records[i]) # "resolved"
    BY <2>2 DEF Those
  <2>5. ~ records[i].done
    BY <2>3, <2>4, StatusMeans
  <2>6. ASSUME NEW k \in 1 .. Len(records), records[k].id # records[i].id,
               records[k].actor = records[i].actor, records[k].source = records[i].source
        PROVE  Status(records[k]) # "active"
    <3>1. CASE i \in Those(a, s, "active")
      <4>1. Status(records[i]) = "active" /\ k # i
        BY <3>1, <2>6 DEF Those
      <4> QED BY <4>1, <2>2, <2>6 DEF RecordsInv, OneActiveRecord
    <3>2. CASE Those(a, s, "active") = {}
      BY <3>2, <2>4, <2>6 DEF Those
    <3> QED BY <2>2, <3>1, <3>2
  <2> QED BY <1>5, <2>1, <2>2, <2>3, <2>4, <2>5, <2>6
<1> QED BY <1>4, <1>5

(* What a note or a checkpoint does.                                       *)
LEMMA ProjectedKeeps ==
    ASSUME SessionInv, NEW a \in Actors, NEW s \in Sources, NEW i, NEW op, NEW R \in SUBSET Risks,
           i \in {Latest(a, s, "active"), LatestOpen(a, s)},
           Projected(op, CheckpointIn(RecordAt(a, s, i), R))
    PROVE  SessionInv'
<1> DEFINE q == RecordAt(a, s, i)
           r == CheckpointIn(q, R)
<1>0. RecordsInv /\ memory \subseteq Risks /\ packet \subseteq Risks
  BY DEF SessionInv
<1>1. /\ q \in ContinuityRecord /\ ~ q.done /\ q.source = s
      /\ q.id = Len(records) + 1 \/ \E k \in 1 .. Len(records) : records[k].id = q.id
      /\ \A k \in 1 .. Len(records) :
            records[k].id # q.id /\ records[k].actor = q.actor /\ records[k].source = q.source
            => Status(records[k]) # "active"
  BY <1>0, RecordAtFacts
<1> HIDE DEF q
<1>2. /\ r \in ContinuityRecord /\ r.id = q.id /\ r.actor = q.actor /\ r.source = q.source
      /\ r.done = q.done /\ ~ r.old /\ r.risks = R
  BY <1>1 DEF ContinuityRecord, CheckpointIn
<1>3. /\ records' = Upserted(r) /\ memory' = r.risks /\ last' = [op |-> op, actor |-> r.actor, source |-> r.source]
      /\ packet' = packet
  BY DEF Projected, q
<1> HIDE DEF r
<1>4. RecordsInv' /\ Len(records') # 0 /\ records'[Len(records')] = r
  BY <1>0, <1>1, <1>2, <1>3, UpsertKeeps
<1>5. MemoryIsLast'
  BY <1>1, <1>2, <1>3, <1>4 DEF MemoryIsLast, Projects
<1> QED BY <1>0, <1>2, <1>3, <1>4, <1>5 DEF SessionInv

(* A day passes: a prefix of the records is old.                           *)
LEMMA AgeKeeps ==
    ASSUME RecordsInv, NEW n \in Nat, Age(n)
    PROVE  /\ RecordsInv' /\ Len(records') = Len(records)
           /\ \A i \in 1 .. Len(records) :
                 /\ records'[i].id = records[i].id /\ records'[i].source = records[i].source
                 /\ records'[i].actor = records[i].actor
                 /\ records'[i].done = records[i].done /\ records'[i].risks = records[i].risks
<1> DEFINE f == [i \in 1 .. Len(records) |-> [records[i] EXCEPT !.old = @ \/ i <= n]]
<1>0. records \in Seq(ContinuityRecord) /\ Len(records) \in Nat /\ records' = f
  BY DEF RecordsInv, Age
<1>1. ASSUME NEW i \in 1 .. Len(records)
      PROVE  /\ f[i] \in ContinuityRecord /\ f[i].id = records[i].id /\ f[i].actor = records[i].actor
             /\ f[i].source = records[i].source /\ f[i].done = records[i].done /\ f[i].risks = records[i].risks
             /\ f[i].old <=> records[i].old \/ i <= n
  <2>1. records[i] \in ContinuityRecord
    BY <1>0
  <2> QED BY <2>1 DEF ContinuityRecord
<1>2. f \in [1 .. Len(records) -> ContinuityRecord]
  BY <1>1
<1> HIDE DEF f
<1>3. records' \in Seq(ContinuityRecord) /\ Len(records') = Len(records)
  BY <1>0, <1>2
<1>4. IdsAreGiven' /\ OldestFirst'
  BY <1>0, <1>1, <1>3 DEF RecordsInv, IdsAreGiven, OldestFirst
<1>5. OneActiveRecord'
  <2>1. ASSUME NEW i \in 1 .. Len(records) PROVE Status(records'[i]) = "active" => Status(records[i]) = "active"
    <3>1. records[i] \in ContinuityRecord /\ records'[i] \in ContinuityRecord
      BY <1>0, <1>1
    <3> QED BY <1>0, <1>1, <3>1, StatusMeans
  <2> QED BY <1>0, <1>1, <1>3, <2>1 DEF RecordsInv, OneActiveRecord
<1> QED BY <1>0, <1>1, <1>3, <1>4, <1>5 DEF RecordsInv

(* A finish closes a record, if its actor has one open.                    *)
LEMMA FinishKeeps ==
    ASSUME RecordsInv, NEW a, NEW R \in SUBSET Risks, FinishSession(a, R)
    PROVE  /\ RecordsInv'
           /\ \A k \in 1 .. Len(records) :
                 \/ \E m \in 1 .. Len(records') : records'[m] = records[k]
                 \/ a \in {records[k].actor, "*"} /\ records[k].source = "terminal"
<1> DEFINE i == ToResolve(a)
<1>0. records \in Seq(ContinuityRecord) /\ Len(records) \in Nat
  BY DEF RecordsInv
<1>1. i # 0 => i \in 1 .. Len(records) /\ a \in {records[i].actor, "*"} /\ records[i].source = "terminal"
  BY LatestFacts DEF ToResolve, LatestOpen, Those
<1>2. records' = IF i = 0 THEN records ELSE Upserted(FinishIn(records[i], R))
  BY DEF FinishSession
<1> HIDE DEF i
<1>3. CASE i = 0
  <2>1. records' = records
    BY <1>2, <1>3
  <2> QED BY <2>1 DEF RecordsInv, IdsAreGiven, OneActiveRecord, OldestFirst
<1>4. CASE i # 0
  <2> DEFINE r == FinishIn(records[i], R)
  <2>1. r \in ContinuityRecord /\ r.id = records[i].id /\ r.done /\ ~ r.old
    <3>1. records[i] \in ContinuityRecord
      BY <1>0, <1>1, <1>4
    <3> QED BY <3>1 DEF ContinuityRecord, FinishIn
  <2>2. records' = Upserted(r)
    BY <1>2, <1>4
  <2> HIDE DEF r
  <2>3. /\ RecordsInv'
        /\ \A k \in 1 .. Len(records) : records[k].id # r.id => \E m \in 1 .. Len(records') : records'[m] = records[k]
    BY <1>1, <1>4, <2>1, <2>2, UpsertKeeps
  <2>4. \A k \in 1 .. Len(records) : records[k].id = r.id => k = i
    BY <1>1, <1>4, <2>1 DEF RecordsInv, OneActiveRecord
  <2> QED BY <1>1, <1>4, <2>3, <2>4
<1> QED BY <1>3, <1>4

(* There are no records at the start.                                      *)
LEMMA SessionInitial == SessionInit => SessionInv
BY DEF SessionInit, SessionInv, RecordsInv, IdsAreGiven, OneActiveRecord, OldestFirst, MemoryIsLast

sessionSees == <<memory, records, packet, last>>
(* Each write of a session keeps the records in order.                     *)
LEMMA SessionStep == SessionInv /\ [SessionNext]_sessionSees => SessionInv'
<1> SUFFICES ASSUME SessionInv, [SessionNext]_sessionSees PROVE SessionInv'
  OBVIOUS
<1>0. /\ memory \subseteq Risks /\ packet \subseteq Risks /\ RecordsInv
      /\ last = [op |-> last.op, actor |-> last.actor, source |-> last.source]
  BY DEF SessionInv
<1>1. ASSUME NEW a \in Actors, NEW s \in Sources, NEW r \in SUBSET Risks, Checkpoint(a, s, r) PROVE SessionInv'
  BY <1>1, ProjectedKeeps DEF Checkpoint
<1>2. ASSUME NEW a \in Actors, NEW s \in Sources, NEW r \in SUBSET Risks, Note(a, s, r) PROVE SessionInv'
  <2> DEFINE q == RecordAt(a, s, LatestOpen(a, s))
             R == q.risks \cup r
  <2>1. q \in ContinuityRecord
    BY <1>0, RecordAtFacts
  <2>2. R \in SUBSET Risks
    BY <2>1 DEF ContinuityRecord
  <2>3. NoteIn(q, r) = CheckpointIn(q, R)
    BY <2>1 DEF ContinuityRecord, NoteIn, CheckpointIn
  <2>4. Projected("note", CheckpointIn(q, R))
    BY <1>2, <2>3 DEF Note
  <2> HIDE DEF R
  <2> QED BY <2>2, <2>4, ProjectedKeeps
<1>3. ASSUME NEW a, NEW r \in SUBSET Risks, FinishSession(a, r) PROVE SessionInv'
  <2>1. RecordsInv'
    BY <1>0, <1>3, FinishKeeps
  <2>2. memory' = r /\ packet' = packet /\ last' = [op |-> "finish", actor |-> a, source |-> "terminal"]
    BY <1>3 DEF FinishSession
  <2> QED BY <1>0, <2>1, <2>2 DEF SessionInv, MemoryIsLast
<1>4. ASSUME NEW r \in SUBSET Risks, ReplaceMemory(r) PROVE SessionInv'
  <2>1. memory' = r /\ packet' = packet /\ records' = records /\ last' = [last EXCEPT !.op = "replace"]
    BY <1>4 DEF ReplaceMemory
  <2>2. RecordsInv'
    BY <1>0, <2>1 DEF RecordsInv, IdsAreGiven, OneActiveRecord, OldestFirst
  <2> QED BY <1>0, <2>1, <2>2 DEF SessionInv, MemoryIsLast
<1>5. ASSUME NEW n \in Nat, Age(n) PROVE SessionInv'
  <2>1. memory' = memory /\ packet' = packet /\ last' = last
    BY <1>5 DEF Age
  <2>2. /\ RecordsInv' /\ Len(records') = Len(records) /\ Len(records) \in Nat
        /\ \A i \in 1 .. Len(records) : records'[i].source = records[i].source
              /\ records'[i].done = records[i].done /\ records'[i].risks = records[i].risks
    BY <1>0, <1>5, AgeKeeps DEF RecordsInv
  <2>3. MemoryIsLast'
    BY <2>1, <2>2 DEF SessionInv, MemoryIsLast, Projects
  <2> QED BY <1>0, <2>1, <2>2, <2>3 DEF SessionInv
<1>6. CASE UNCHANGED <<memory, records, last>> /\ packet' \in {packet, memory}
  BY <1>6 DEF SessionInv, RecordsInv, IdsAreGiven, OneActiveRecord, OldestFirst, MemoryIsLast, Projects
<1> QED BY <1>1, <1>2, <1>3, <1>4, <1>5, <1>6 DEF SessionNext, sessionSees, Bootstrap

(* One record is active, and what is resumed is what memory holds.         *)
LEMMA SessionInvImplies == SessionInv => OneActiveRecord /\ ResumeAgreesWithMemory
<1> SUFFICES ASSUME SessionInv, last.op \in {"note", "checkpoint"}, last.source = "terminal"
             PROVE  Resume # 0 /\ records[Resume].risks = memory
  BY DEF SessionInv, RecordsInv, ResumeAgreesWithMemory
<1> DEFINE n == Len(records)
<1>0. RecordsInv /\ records \in Seq(ContinuityRecord) /\ n \in Nat
  BY DEF SessionInv, RecordsInv
<1>1. /\ n \in 1 .. Len(records) /\ records[n] \in ContinuityRecord /\ records[n].source = "terminal"
      /\ ~ records[n].done /\ records[n].risks = memory
  BY <1>0 DEF SessionInv, MemoryIsLast, Projects
<1>2. \A st : Status(records[n]) = st => Latest("*", "terminal", st) = n /\ n \in Those("*", "terminal", st)
  <2> SUFFICES ASSUME NEW st, Status(records[n]) = st PROVE Latest("*", "terminal", st) = n /\ n \in Those("*", "terminal", st)
    OBVIOUS
  <2>1. n \in Those("*", "terminal", st)
    BY <1>1 DEF Those
  <2> DEFINE i == Latest("*", "terminal", st)
  <2>2. i # 0 /\ i \in 1 .. Len(records) /\ n <= i
    BY <1>0, <2>1, LatestFacts
  <2> HIDE DEF i
  <2>3. i = n
    BY <1>0, <2>2
  <2> QED BY <2>1, <2>3 DEF i
<1>3. CASE records[n].old
  <2>1. Status(records[n]) = "stale"
    BY <1>1, <1>3, StatusMeans
  <2>2. Those("*", "terminal", "active") = {}
    <3>1. ASSUME NEW i \in 1 .. Len(records) PROVE Status(records[i]) # "active"
      <4>1. records[i].old /\ records[i] \in ContinuityRecord
        BY <1>0, <1>1, <1>3 DEF RecordsInv, OldestFirst
      <4> QED BY <4>1, StatusMeans
    <3> QED BY <3>1 DEF Those
  <2> QED BY <1>0, <1>1, <1>2, <2>1, <2>2 DEF Resume, LatestOpen
<1>4. CASE ~ records[n].old
  <2>1. Status(records[n]) = "active"
    BY <1>1, <1>4, StatusMeans
  <2> QED BY <1>0, <1>1, <1>2, <2>1 DEF Resume, LatestOpen
<1> QED BY <1>3, <1>4

(* A risk stays with its actor and source as long as the record it is in,  *)
(* or one that carries it, stays open.                                     *)
Carried(r) == \E m \in 1 .. Len(records') :
    /\ records'[m].actor = r.actor /\ records'[m].source = r.source
    /\ ~ records'[m].done /\ r.risks \subseteq records'[m].risks
(* Risks of an actor and a source stay open where each of their records    *)
(* is carried over.                                                        *)
LEMMA CarriedStays ==
    ASSUME RecordsInv, RecordsInv', NEW a, NEW s,
           \A k \in 1 .. Len(records) :
               records[k].actor = a /\ records[k].source = s /\ ~ records[k].done => Carried(records[k])
    PROVE  OpenRisks(records, a, s) \subseteq OpenRisks(records', a, s)
<1>1. /\ \A k \in 1 .. Len(records) : records[k] \in ContinuityRecord
      /\ \A k \in 1 .. Len(records') : records'[k] \in ContinuityRecord
  BY DEF RecordsInv
<1>2. /\ \A k \in 1 .. Len(records) : IsOpen(records[k]) <=> ~ records[k].done
      /\ \A k \in 1 .. Len(records') : IsOpen(records'[k]) <=> ~ records'[k].done
  BY <1>1, StatusMeans DEF IsOpen
<1>3. ASSUME NEW x \in OpenRisks(records, a, s) PROVE x \in OpenRisks(records', a, s)
  <2>1. PICK k \in 1 .. Len(records) :
            records[k].actor = a /\ records[k].source = s /\ IsOpen(records[k]) /\ x \in records[k].risks
    BY <1>3 DEF OpenRisks
  <2>2. PICK m \in 1 .. Len(records') : /\ records'[m].actor = a /\ records'[m].source = s
                                        /\ ~ records'[m].done /\ records[k].risks \subseteq records'[m].risks
    BY <1>2, <2>1 DEF Carried
  <2> QED BY <1>2, <2>1, <2>2 DEF OpenRisks
<1> QED BY <1>3

(* A note or a checkpoint leaves the other records alone.                  *)
LEMMA ProjectedCarries ==
    ASSUME SessionInv, SessionInv', NEW a \in Actors, NEW s \in Sources, NEW i, NEW op, NEW R \in SUBSET Risks, a # "*",
           i \in {Latest(a, s, "active"), LatestOpen(a, s)},
           Projected(op, CheckpointIn(RecordAt(a, s, i), R)),
           NEW b, NEW t, <<a, s>> # <<b, t>> \/ RecordAt(a, s, i).risks \subseteq R
    PROVE  OpenRisks(records, b, t) \subseteq OpenRisks(records', b, t)
<1> DEFINE q == RecordAt(a, s, i)
           r == CheckpointIn(q, R)
<1>0. RecordsInv /\ RecordsInv' /\ memory \subseteq Risks
  BY DEF SessionInv
<1>1. /\ q \in ContinuityRecord /\ ~ q.done /\ q.source = s /\ q.actor = a
      /\ q.id = Len(records) + 1 \/ \E k \in 1 .. Len(records) : records[k].id = q.id
      /\ \A k \in 1 .. Len(records) :
            records[k].id # q.id /\ records[k].actor = q.actor /\ records[k].source = q.source
            => Status(records[k]) # "active"
      /\ \A k \in 1 .. Len(records) : records[k].id = q.id => records[k] = q
  <2>1. \A k \in 1 .. Len(records) : records[k].id = q.id => records[k] = q
    <3>1. IF i = 0 THEN q.id = Len(records) + 1 ELSE i \in 1 .. Len(records) /\ q = records[i]
      BY <1>0, RecordAtFacts
    <3>2. /\ Len(records) \in Nat /\ \A k \in 1 .. Len(records) : records[k].id \in 1 .. Len(records)
          /\ \A k, m \in 1 .. Len(records) : k # m => records[k].id # records[m].id
      BY <1>0 DEF RecordsInv, IdsAreGiven, OneActiveRecord
    <3> HIDE DEF q
    <3> QED BY <3>1, <3>2
  <2> QED BY <1>0, <2>1, RecordAtFacts
<1> HIDE DEF q
<1>2. /\ r \in ContinuityRecord /\ r.id = q.id /\ r.actor = q.actor /\ r.source = q.source
      /\ r.done = q.done /\ ~ r.old /\ r.risks = R
  BY <1>1 DEF ContinuityRecord, CheckpointIn
<1>3. records' = Upserted(r) /\ (<<a, s>> # <<b, t>> \/ q.risks \subseteq R)
  BY DEF Projected, q
<1> HIDE DEF r
<1>4. /\ Len(records') \in 1 .. Len(records') /\ records'[Len(records')] = r
      /\ \A k \in 1 .. Len(records) : records[k].id # r.id => \E m \in 1 .. Len(records') : records'[m] = records[k]
  <2>1. Len(records') \in Nat
    BY <1>0 DEF RecordsInv
  <2> QED BY <1>0, <1>1, <1>2, <1>3, <2>1, UpsertKeeps
<1>5. ASSUME NEW k \in 1 .. Len(records), records[k].actor = b, records[k].source = t, ~ records[k].done
      PROVE  Carried(records[k])
  <2>1. CASE records[k].id = r.id
    <3>1. records[k] = q /\ q.risks \subseteq R
      BY <1>1, <1>2, <1>3, <1>5, <2>1
    <3> QED BY <1>1, <1>2, <1>4, <3>1 DEF Carried
  <2>2. CASE records[k].id # r.id
    BY <1>4, <1>5, <2>2 DEF Carried
  <2> QED BY <2>1, <2>2
<1> QED BY <1>0, <1>5, CarriedStays

(* A risk leaves the list only by a write of its own actor and source.     *)
LEMMA OwnHand ==
    ASSUME "*" \notin Actors, SessionInv, [SessionNext]_sessionSees, NEW b \in Actors, NEW t \in Sources,
           ~ (OpenRisks(records, b, t) \subseteq OpenRisks(records', b, t))
    PROVE  last'.op \in {"checkpoint", "finish"} /\ last'.actor = b /\ last'.source = t
<1>0. SessionInv' /\ RecordsInv /\ RecordsInv' /\ memory \subseteq Risks
  BY SessionStep DEF SessionInv
<1>1. ASSUME NEW a \in Actors, NEW s \in Sources, NEW r \in SUBSET Risks, Checkpoint(a, s, r)
      PROVE  last'.op = "checkpoint" /\ last'.actor = b /\ last'.source = t
  <2> DEFINE i == Latest(a, s, "active")
             q == RecordAt(a, s, i)
  <2>1. Projected("checkpoint", CheckpointIn(q, r))
    BY <1>1 DEF Checkpoint
  <2>2. ASSUME <<a, s>> # <<b, t>> PROVE FALSE
    <3>1. a # "*" /\ i \in {Latest(a, s, "active"), LatestOpen(a, s)}
      OBVIOUS
    <3> HIDE DEF i
    <3> QED BY <1>0, <2>1, <2>2, <3>1, ProjectedCarries
  <2>3. q \in ContinuityRecord /\ q.actor = a /\ q.source = s
    BY <1>0, RecordAtFacts
  <2>4. last' = [op |-> "checkpoint", actor |-> q.actor, source |-> q.source]
    BY <2>1, <2>3 DEF Projected, ContinuityRecord, CheckpointIn
  <2> QED BY <2>2, <2>3, <2>4
<1>2. ASSUME NEW a \in Actors, NEW s \in Sources, NEW r \in SUBSET Risks, Note(a, s, r) PROVE FALSE
  <2> DEFINE q == RecordAt(a, s, LatestOpen(a, s))
             R == q.risks \cup r
  <2>1. q \in ContinuityRecord
    BY <1>0, RecordAtFacts
  <2>2. R \in SUBSET Risks /\ q.risks \subseteq R
    BY <2>1 DEF ContinuityRecord
  <2>3. NoteIn(q, r) = CheckpointIn(q, R)
    BY <2>1 DEF ContinuityRecord, NoteIn, CheckpointIn
  <2>4. Projected("note", CheckpointIn(q, R))
    BY <1>2, <2>3 DEF Note
  <2> DEFINE i == LatestOpen(a, s)
  <2>5. /\ a # "*" /\ i \in {Latest(a, s, "active"), LatestOpen(a, s)} /\ RecordAt(a, s, i).risks \subseteq R
        /\ Projected("note", CheckpointIn(RecordAt(a, s, i), R))
    BY <2>2, <2>4
  <2> HIDE DEF R, q, i
  <2> QED BY <1>0, <2>2, <2>5, ProjectedCarries
<1>3. ASSUME NEW a, a # "*", NEW r \in SUBSET Risks, FinishSession(a, r)
      PROVE  last'.op = "finish" /\ last'.actor = b /\ last'.source = t
  <2>1. last' = [op |-> "finish", actor |-> a, source |-> "terminal"]
    BY <1>3 DEF FinishSession
  <2>2. ASSUME <<a, "terminal">> # <<b, t>> PROVE FALSE
    <3>1. ASSUME NEW k \in 1 .. Len(records), records[k].actor = b, records[k].source = t, ~ records[k].done
          PROVE  Carried(records[k])
      <4>1. \E m \in 1 .. Len(records') : records'[m] = records[k]
        BY <1>0, <1>3, <2>2, <3>1, FinishKeeps
      <4> QED BY <3>1, <4>1 DEF Carried
    <3> QED BY <1>0, <3>1, CarriedStays
  <2> QED BY <2>1, <2>2
<1>4. ASSUME NEW n \in Nat, Age(n) PROVE FALSE
  <2>1. ASSUME NEW k \in 1 .. Len(records), ~ records[k].done PROVE Carried(records[k])
    BY <1>0, <1>4, <2>1, AgeKeeps DEF Carried
  <2> QED BY <1>0, <2>1, CarriedStays
<1>5. CASE UNCHANGED records
  BY <1>5
<1> QED BY <1>1, <1>2, <1>3, <1>4, <1>5 DEF SessionNext, sessionSees, ReplaceMemory, Bootstrap

(* Every step of the office is, for the records, a write of a session or   *)
(* none.                                                                   *)
LEMMA SessionSteps == EnvOk /\ SessionInv /\ [Next]_vars => [SessionNext]_sessionSees
<1> SUFFICES ASSUME EnvOk, SessionInv, [Next]_vars PROVE SessionNext \/ UNCHANGED sessionSees
  OBVIOUS
<1>0. /\ env.people \subseteq Actors /\ env.sources \subseteq Sources /\ env.risks \subseteq Risks
      /\ "*" \notin Actors /\ packet \in SUBSET Risks
  BY EnvMeans, OfficeAssumption DEF DeskEnvironment, SessionInv
<1>1. CASE UNCHANGED sessionVars
  BY <1>1 DEF sessionVars, sessionSees
<1>2. ASSUME NEW a, a # "*", NEW r \in SUBSET Risks, FinishSession(a, r) PROVE SessionNext
  BY <1>2 DEF SessionNext
<1>3. CASE (LoopNext /\ UNCHANGED deskVars) \/ UNCHANGED vars
  BY <1>1, <1>3 DEF deskVars, vars
<1>4. CASE QuickReadsBootstrap
  BY <1>4 DEF QuickReadsBootstrap, SessionNext
<1>5. CASE QuickLeaves \/ \E w \in Workers : WorkerLeaves(w)
  BY <1>0, <1>2, <1>5 DEF QuickLeaves, WorkerLeaves
<1>6. CASE DaemonRestarts \/ Entering
  BY <1>6 DEF DaemonRestarts, SessionRestart, Entering, EntryWritten, Entered, sessionSees
<1>7. CASE Sitting
  <2>1. ASSUME NEW a \in env.people, NEW s \in env.sources, NEW r \in SUBSET env.risks, Checkpoint(a, s, r)
        PROVE  SessionNext
    <3>1. a \in Actors /\ s \in Sources /\ r \in SUBSET Risks
      BY <1>0
    <3> QED BY <2>1, <3>1 DEF SessionNext
  <2>2. ASSUME NEW a \in env.people, NEW s \in env.sources, NEW r, Note(a, s, {r} \cap Risks) PROVE SessionNext
    <3>1. a \in Actors /\ s \in Sources /\ ({r} \cap Risks) \in SUBSET Risks
      BY <1>0
    <3> QED BY <2>2, <3>1 DEF SessionNext
  <2>3. ASSUME NEW a \in env.people, NEW r \in SUBSET env.risks, FinishSession(a, r) PROVE SessionNext
    <3>1. a # "*" /\ r \in SUBSET Risks
      BY <1>0
    <3> QED BY <1>2, <2>3, <3>1
  <2>4. ASSUME NEW r \in SUBSET env.risks, ReplaceMemory(r) PROVE SessionNext
    <3>1. r \in SUBSET Risks
      BY <1>0
    <3> QED BY <2>4, <3>1 DEF SessionNext
  <2>5. ASSUME NEW n \in 1 .. Len(records), Age(n) PROVE SessionNext
    <3>1. n \in Nat
      BY DEF SessionInv, RecordsInv
    <3> QED BY <2>5, <3>1 DEF SessionNext
  <2>6. ASSUME NEW w, EntryFails(w) PROVE UNCHANGED sessionSees
    BY <2>6 DEF EntryFails, Entered, sessionSees
  <2>7. ASSUME NEW i, NEW to, SessionItemMoved(i, to) PROVE UNCHANGED sessionSees
    BY <2>7 DEF SessionItemMoved, sessionSees
  <2> QED BY <1>7, <2>1, <2>2, <2>3, <2>4, <2>5, <2>6, <2>7 DEF Sitting
<1>8. CASE Desk
  BY <1>1, <1>7, <1>8 DEF Desk
<1>9. CASE Saving \/ Serving
  BY <1>1, <1>9 DEF Saving, Serving
<1>10. CASE Architecting \/ \E c \in Collectors \ {"tick"} : Collecting(c)
  BY <1>1, <1>10 DEF Architecting, TickRecovers, TickGoesOn, Collecting
<1> QED BY <1>3, <1>4, <1>5, <1>6, <1>8, <1>9, <1>10 DEF Next
-----------------------------------------------------------------------------
(* The workers.  A run is an execution of a packet; a job on record names  *)
(* the run that was reported last.                                         *)
JobType == [status : Statuses, dispatch : DispatchStates, run : Nat]
AnswerType == [exit : {"none", "ok", "error"}, proof : {"none", "good", "bad"},
               says : Terminal \cup {"unclear", "nothing", "none"}]
RunType == [job : Jobs, round : Nat, over : SUBSET Nat, base : SUBSET [path : Paths, clipped : BOOLEAN],
            wrote : SUBSET Paths, met : SUBSET Paths, cleaned : SUBSET Paths, clipped : BOOLEAN,
            answer : AnswerType, blamed : BOOLEAN, noted : Nat, trouble : BOOLEAN, ended : BOOLEAN]
EntryType == [at : Nat, id : Jobs, was : JobType, over : SUBSET Nat]
(* A worker, with its list of entries and the run it holds.                *)
WorkerType == [pc : {"off", "poll", "scan", "run", "report"}, list : SUBSET EntryType, claimed : Nat,
               run : Nat, rep : Terminal \cup {"none"}]
WorkTypes ==
    /\ job \in [Jobs -> JobType]
    /\ round \in [Jobs -> Nat] /\ takes \in [Jobs -> Nat] /\ unheard \in [Jobs -> Nat]
    /\ file \in [Paths -> {"clean", "edited", "new"}]
    /\ runs \in Seq(RunType) /\ wk \in [Workers -> WorkerType]

(* While a command runs, what it wrote is dirty unless somebody committed  *)
(* it, and what is dirty and was not before is its own or somebody else's. *)
UnderWay(r) == ~ r.ended /\ r.answer.exit = "none"
Traced(r, f) ==
    /\ \A p \in r.wrote : f[p] # "clean" \/ p \in r.cleaned
    /\ \A p \in Paths : f[p] # "clean" /\ [path |-> p, clipped |-> f[p] = "edited"] \notin r.base =>
          p \in r.wrote \cup r.met /\ (f[p] = "edited" => r.clipped)
InScope(r) == r.wrote \subseteq env.allowed[r.job] \cup r.cleaned \cup {e.path : e \in r.base}
Judged(r) ==
    /\ r.answer.exit # "none" /\ ~ r.blamed /\ ScansScope(r.job) => InScope(r)
    /\ r.blamed => ~ (r.wrote \subseteq env.allowed[r.job]) \/ r.met # {} \/ r.clipped
NotedOnce(r) == ~ r.trouble => r.noted = IF r.ended THEN 1 ELSE 0
(* The report of a run takes the packet from the job, until the next       *)
(* dispatch.                                                               *)
Outdated(r, jb, rd) ==
    /\ jb[r.job].status # "absent" /\ r.round <= rd[r.job]
    /\ r.noted > 0 /\ Ready(jb[r.job]) => r.round < rd[r.job]
RunOk(r, f, jb, rd) == (UnderWay(r) => Traced(r, f)) /\ Judged(r) /\ NotedOnce(r) /\ Outdated(r, jb, rd)

(* What a success on record rests on.                                      *)
Earned(r, j) ==
    /\ r.job = j /\ ~ r.blamed /\ r.answer.exit = "ok" /\ r.answer.says \in {"succeeded", "unclear"}
    /\ r.answer.proof = "good"
(* A job on record names a run that is over or in trouble, and a success   *)
(* its run earned.                                                         *)
RecordOk(x, j, rs) ==
    /\ x.run <= Len(rs)
    /\ x.run # NoRun => rs[x.run].ended \/ rs[x.run].trouble
    /\ x.run # NoRun /\ x.status = "succeeded" => Earned(rs[x.run], j)
CallsOk(x, j, rd, tk, un) ==
    /\ un[j] <= tk[j] /\ tk[j] <= rd[j] + un[j]
    /\ x.run = NoRun /\ x.status = "succeeded" => AutoCloses(j) /\ tk[j] > un[j]

(* A worker at a run is the only one at it, and has not lost it; its list  *)
(* is older than no report on a packet that still waits.                   *)
Holds(k) == k.pc \in {"run", "report"}
EntryOk(e, jb, rs, rd) ==
    /\ jb[e.id].status # "absent"
    /\ \A i \in e.over : i \in 1 .. Len(rs) /\ (Ready(e.was) /\ rs[i].job = e.id => rs[i].round < rd[e.id])
AtHand(k, r) ==
    /\ ~ r.ended
    /\ k.pc = "run" => r.answer.exit = "none"
    /\ k.pc = "report" =>
          /\ r.answer \in env.answers /\ k.rep \in Terminal
          /\ k.rep = "succeeded" =>
                ~ r.blamed /\ r.answer.exit = "ok" /\ r.answer.says \in {"succeeded", "unclear"}
WorkerOk(k, jb, rs, rd) ==
    /\ IF Holds(k) THEN k.run \in 1 .. Len(rs) /\ AtHand(k, rs[k.run]) ELSE k.run = NoRun
    /\ k.pc = "scan" => k.list # {}
    /\ \A e \in k.list : EntryOk(e, jb, rs, rd)
OneEach == \A w, v \in Workers : Holds(wk[w]) /\ Holds(wk[v]) /\ wk[w].run = wk[v].run => w = v

(* All of it together; RerunHasACause is what the lists are kept for.      *)
WorkInv ==
    /\ WorkTypes
    /\ \A i \in 1 .. Len(runs) : RunOk(runs[i], file, job, round)
    /\ \A j \in Jobs : RecordOk(job[j], j, runs) /\ CallsOk(job[j], j, round, takes, unheard)
    /\ \A w \in Workers : WorkerOk(wk[w], job, runs, round)
    /\ OneEach /\ RerunHasACause
-----------------------------------------------------------------------------
(* What every step does to the jobs and to the runs there are.             *)
JobsAdvance ==
    /\ job' \in [Jobs -> JobType]
    /\ round' \in [Jobs -> Nat] /\ takes' \in [Jobs -> Nat] /\ unheard' \in [Jobs -> Nat]
    /\ \A j \in Jobs : /\ round[j] <= round'[j]
                       /\ job[j].status # "absent" => job'[j].status # "absent"
                       /\ Ready(job'[j]) => Ready(job[j]) \/ round[j] < round'[j]
RunsAdvance ==
    /\ runs' \in Seq(RunType) /\ Len(runs) <= Len(runs')
    /\ \A i \in 1 .. Len(runs) :
          runs'[i].job = runs[i].job /\ runs'[i].round = runs[i].round /\ runs'[i].over = runs[i].over

(* What is known of a run and its job's rounds stays so while jobs only    *)
(* advance.                                                                *)
LEMMA OutdatedKept ==
    ASSUME WorkTypes, JobsAdvance, NEW r \in RunType, Outdated(r, job, round), NEW q \in RunType,
           q.job = r.job, q.round = r.round, q.noted = r.noted
    PROVE  Outdated(q, job', round')
<1> DEFINE j == r.job
<1>1. j \in Jobs /\ r.round \in Nat /\ round[j] \in Nat /\ round'[j] \in Nat
  BY DEF RunType, WorkTypes, JobsAdvance
<1>2. /\ job[j].status # "absent" /\ r.round <= round[j] /\ (r.noted > 0 /\ Ready(job[j]) => r.round < round[j])
      /\ round[j] <= round'[j] /\ job'[j].status # "absent"
      /\ Ready(job'[j]) => Ready(job[j]) \/ round[j] < round'[j]
  BY <1>1 DEF Outdated, JobsAdvance
<1> HIDE DEF j
<1>3. job'[j].status # "absent" /\ r.round <= round'[j] /\ (r.noted > 0 /\ Ready(job'[j]) => r.round < round'[j])
  BY <1>1, <1>2
<1> QED BY <1>3 DEF j, Outdated

(* And so does what is known of an entry of a worker's list.               *)
LEMMA EntryKept ==
    ASSUME WorkTypes, JobsAdvance, RunsAdvance, NEW e \in EntryType, EntryOk(e, job, runs, round)
    PROVE  EntryOk(e, job', runs', round')
<1>1. e.id \in Jobs /\ round[e.id] \in Nat /\ round'[e.id] \in Nat /\ round[e.id] <= round'[e.id]
  BY DEF EntryType, WorkTypes, JobsAdvance
<1>2. job'[e.id].status # "absent"
  BY <1>1 DEF JobsAdvance, EntryOk
<1>3. ASSUME NEW i \in e.over
      PROVE  i \in 1 .. Len(runs') /\ (Ready(e.was) /\ runs'[i].job = e.id => runs'[i].round < round'[e.id])
  <2>1. i \in 1 .. Len(runs) /\ (Ready(e.was) /\ runs[i].job = e.id => runs[i].round < round[e.id])
    BY DEF EntryOk
  <2>2. runs'[i].job = runs[i].job /\ runs'[i].round = runs[i].round /\ i \in 1 .. Len(runs') /\ runs[i].round \in Nat
    <3>1. runs[i] \in RunType
      BY <2>1 DEF WorkTypes
    <3>2. Len(runs) \in Nat /\ Len(runs') \in Nat /\ Len(runs) <= Len(runs')
      BY DEF RunsAdvance, WorkTypes
    <3> QED BY <2>1, <3>1, <3>2 DEF RunsAdvance, RunType
  <2> QED BY <1>1, <2>1, <2>2
<1> QED BY <1>2, <1>3 DEF EntryOk

(* A worker that does nothing, and whose run nobody touches.               *)
LEMMA WorkerKept ==
    ASSUME WorkTypes, JobsAdvance, RunsAdvance, NEW k \in WorkerType, WorkerOk(k, job, runs, round),
           Holds(k) => LET r == runs[k.run]
                           q == runs'[k.run] IN q.ended = r.ended /\ q.answer = r.answer /\ q.blamed = r.blamed
    PROVE  WorkerOk(k, job', runs', round')
<1>1. \A e \in k.list : EntryOk(e, job', runs', round')
  BY EntryKept DEF WorkerType, WorkerOk
<1>2. Holds(k) => k.run \in 1 .. Len(runs') /\ AtHand(k, runs'[k.run])
  BY DEF WorkerOk, AtHand, RunsAdvance, WorkTypes
<1> QED BY <1>1, <1>2 DEF WorkerOk
-----------------------------------------------------------------------------
(* The attempts of a call: all but the last are tried again, so that at    *)
(* most the last one was answered.                                         *)
LEMMA CallCounts ==
    ASSUME NEW p, NEW s \in adapterFor(p)
    PROVE  /\ HowOften(s, {"lost"}) \in Nat /\ HowOften(s, {"ok", "lost"}) \in Nat
           /\ HowOften(s, {"lost"}) <= HowOften(s, {"ok", "lost"})
           /\ HowOften(s, {"ok", "lost"}) <= HowOften(s, {"lost"}) + 1
           /\ CallStatus(s) = "sent" => HowOften(s, {"lost"}) < HowOften(s, {"ok", "lost"})
<1>1. s \in apiAttempts \/ s \in OneAttempt
  BY DEF adapterFor, claudeAttempts, openaiAttempts, geminiAttempts
<1>2. Len(s) \in Nat /\ \A i \in 1 .. Len(s) - 1 : s[i] # "ok"
  <2>1. CASE s = << >>
    BY <2>1
  <2>2. CASE s \in OneAttempt /\ s # << >>
    BY <2>2 DEF OneAttempt
  <2>3. CASE s \in apiAttempts /\ s # << >>
    <3>1. PICK n \in 1 .. Retries + 1 : s \in [1 .. n -> AttemptResults]
      BY <2>3 DEF apiAttempts
    <3>2. Len(s) = n /\ n \in Nat
      BY <3>1 DEF Retries
    <3>3. \A i \in 1 .. Len(s) - 1 : TryAgain(s[i])
      BY <2>3 DEF apiAttempts
    <3> QED BY <3>2, <3>3 DEF TryAgain
  <2> QED BY <1>1, <2>1, <2>2, <2>3
<1> DEFINE A == {i \in 1 .. Len(s) : s[i] \in {"lost"}}
           B == {i \in 1 .. Len(s) : s[i] \in {"ok", "lost"}}
<1>3. IsFiniteSet(1 .. Len(s)) /\ A \in SUBSET (1 .. Len(s)) /\ B \in SUBSET (1 .. Len(s)) /\ A \in SUBSET B
  <2>1. 1 \in Int /\ Len(s) \in Int
    BY <1>2
  <2>2. IsFiniteSet(1 .. Len(s))
    BY <2>1, FS_Interval
  <2> QED BY <2>2
<1>4. IsFiniteSet(A) /\ IsFiniteSet(B) /\ Cardinality(A) \in Nat /\ Cardinality(B) \in Nat
  BY <1>3, FS_Subset, FS_CardinalityType
<1>5. Cardinality(A) <= Cardinality(B) /\ (Cardinality(A) = Cardinality(B) => A = B)
  BY <1>3, <1>4, FS_Subset
<1>6. Cardinality(B) <= Cardinality(A) + 1
  <2>1. B \in SUBSET (A \cup {Len(s)})
    BY <1>2
  <2> HIDE DEF A, B
  <2>2. IsFiniteSet(A \cup {Len(s)}) /\ Cardinality(A \cup {Len(s)}) <= Cardinality(A) + 1
    <3>1. IsFiniteSet(A \cup {Len(s)}) /\ Cardinality(A \cup {Len(s)}) = IF Len(s) \in A THEN Cardinality(A) ELSE Cardinality(A) + 1
      BY <1>4, FS_AddElement
    <3> QED BY <1>4, <3>1
  <2>3. Cardinality(B) <= Cardinality(A \cup {Len(s)}) /\ Cardinality(A \cup {Len(s)}) \in Nat
    BY <2>1, <2>2, FS_Subset, FS_CardinalityType
  <2> QED BY <1>4, <2>2, <2>3
<1>7. CallStatus(s) = "sent" => A # B
  <2>1. ASSUME CallStatus(s) = "sent" PROVE Len(s) \in B \ A
    <3>1. s # << >> /\ s[Len(s)] = "ok"
      BY <2>1 DEF CallStatus
    <3>2. Len(s) \in 1 .. Len(s)
      <4>1. Len(s) # 0
        <5>1. CASE s \in OneAttempt
          BY <5>1, <3>1 DEF OneAttempt
        <5>2. CASE s \in apiAttempts
          <6>1. PICK n \in 1 .. Retries + 1 : s \in [1 .. n -> AttemptResults]
            BY <5>2, <3>1 DEF apiAttempts
          <6> QED BY <6>1 DEF Retries
        <5> QED BY <1>1, <5>1, <5>2
      <4> QED BY <1>2, <4>1
    <3> QED BY <3>1, <3>2
  <2> HIDE DEF A, B
  <2> QED BY <2>1
<1>8. HowOften(s, {"lost"}) = Cardinality(A) /\ HowOften(s, {"ok", "lost"}) = Cardinality(B)
  BY DEF HowOften
<1> HIDE DEF A, B
<1> QED BY <1>4, <1>5, <1>6, <1>7, <1>8

(* A dispatch.                                                             *)
LEMMA DispatchOk ==
    ASSUME WorkInv, NEW j, Dispatchable(j), NEW r \in DispatchResults, Dispatched(j, r)
    PROVE  /\ JobsAdvance /\ r \in JobType /\ r.run = NoRun /\ r.status # "absent"
           /\ \A x \in Jobs : job'[x] = IF x = j THEN r ELSE job[x]
           /\ \A x \in Jobs : round'[x] = IF x = j THEN round[x] + 1 ELSE round[x]
           /\ \A x \in Jobs : CallsOk(job'[x], x, round', takes', unheard')
<1>0. WorkTypes /\ \A x \in Jobs : CallsOk(job[x], x, round, takes, unheard)
  BY DEF WorkInv
<1>1. r \in JobType /\ r.run = NoRun /\ r.status # "absent"
  BY DEF DispatchResults, JobType, Statuses, DispatchStates, NoRun
<1>2. /\ round' = [round EXCEPT ![j] = @ + 1] /\ job' = [job EXCEPT ![j] = r]
      /\ job[j].status \in {"queued", "failed"}
  BY DEF Dispatched, Dispatchable
<1>3. \E a, b \in Nat :
         /\ takes' = [takes EXCEPT ![j] = @ + b] /\ unheard' = [unheard EXCEPT ![j] = @ + a]
         /\ a <= b /\ b <= a + 1
         /\ r.status = "succeeded" => AutoCloses(j) /\ a < b
  <2>1. CASE env.provider = "packet" /\ r = PacketReady /\ UNCHANGED <<takes, unheard>>
    <3>1. takes' = [takes EXCEPT ![j] = @ + 0] /\ unheard' = [unheard EXCEPT ![j] = @ + 0]
      BY <1>0, <2>1 DEF WorkTypes
    <3>2. r.status # "succeeded"
      BY <2>1 DEF PacketReady
    <3>3. 0 \in Nat /\ 0 <= 0 /\ 0 <= 0 + 1
      OBVIOUS
    <3> QED BY <3>1, <3>2, <3>3
  <2>2. ASSUME NEW s \in adapterFor(env.provider),
               r.status = (IF CallStatus(s) = "sent" THEN "running" ELSE "failed")
                   \/ (AutoCloses(j) /\ CallStatus(s) = "sent" /\ r.status = "succeeded"),
               takes' = [takes EXCEPT ![j] = @ + HowOften(s, {"ok", "lost"})],
               unheard' = [unheard EXCEPT ![j] = @ + HowOften(s, {"lost"})]
        PROVE  <1>3
    <3> DEFINE a == HowOften(s, {"lost"})
               b == HowOften(s, {"ok", "lost"})
    <3>1. a \in Nat /\ b \in Nat /\ a <= b /\ b <= a + 1 /\ (CallStatus(s) = "sent" => a < b)
      BY CallCounts
    <3>2. r.status = "succeeded" => AutoCloses(j) /\ CallStatus(s) = "sent"
      BY <2>2
    <3>3. takes' = [takes EXCEPT ![j] = @ + b] /\ unheard' = [unheard EXCEPT ![j] = @ + a]
      BY <2>2
    <3> HIDE DEF a, b
    <3> QED BY <3>1, <3>2, <3>3
  <2> QED BY <2>1, <2>2 DEF Dispatched
<1>4. PICK a \in Nat, b \in Nat :
         /\ takes' = [takes EXCEPT ![j] = @ + b] /\ unheard' = [unheard EXCEPT ![j] = @ + a]
         /\ a <= b /\ b <= a + 1
         /\ r.status = "succeeded" => AutoCloses(j) /\ a < b
  BY <1>3
<1>5. ASSUME NEW x \in Jobs
      PROVE  /\ job'[x] = IF x = j THEN r ELSE job[x]
             /\ round'[x] = IF x = j THEN round[x] + 1 ELSE round[x]
             /\ takes'[x] = IF x = j THEN takes[x] + b ELSE takes[x]
             /\ unheard'[x] = IF x = j THEN unheard[x] + a ELSE unheard[x]
             /\ round[x] \in Nat /\ takes[x] \in Nat /\ unheard[x] \in Nat
  BY <1>0, <1>2, <1>4 DEF WorkTypes
<1>6. /\ job' \in [Jobs -> JobType] /\ round' \in [Jobs -> Nat]
      /\ takes' \in [Jobs -> Nat] /\ unheard' \in [Jobs -> Nat]
  <2>1. job' \in [Jobs -> JobType]
    BY <1>0, <1>1, <1>2 DEF WorkTypes
  <2>2. ASSUME NEW f \in [Jobs -> Nat], NEW c \in Nat PROVE [f EXCEPT ![j] = @ + c] \in [Jobs -> Nat]
    <3>1. CASE j \in Jobs
      BY <3>1
    <3>2. CASE j \notin Jobs
      <4>1. [f EXCEPT ![j] = @ + c] = f
        BY <3>2
      <4> QED BY <4>1
    <3> QED BY <3>1, <3>2
  <2>3. round' \in [Jobs -> Nat] /\ takes' \in [Jobs -> Nat] /\ unheard' \in [Jobs -> Nat]
    BY <1>0, <1>2, <1>4, <2>2 DEF WorkTypes
  <2> QED BY <2>1, <2>3
<1>7. JobsAdvance
  BY <1>1, <1>5, <1>6 DEF JobsAdvance
<1>8. ASSUME NEW x \in Jobs PROVE CallsOk(job'[x], x, round', takes', unheard')
  <2>1. CallsOk(job[x], x, round, takes, unheard)
    BY <1>0
  <2>2. CASE x = j
    BY <1>4, <1>5, <2>1, <2>2 DEF CallsOk
  <2>3. CASE x # j
    BY <1>5, <2>1, <2>3 DEF CallsOk
  <2> QED BY <2>2, <2>3
<1> QED BY <1>1, <1>5, <1>7, <1>8
-----------------------------------------------------------------------------
(* A step keeps the invariant when it keeps its parts.                     *)
LEMMA WorkKept ==
    ASSUME WorkInv, JobsAdvance, RunsAdvance, env' = env,
           file' \in [Paths -> {"clean", "edited", "new"}], wk' \in [Workers -> WorkerType],
           \A i \in 1 .. Len(runs') : RunOk(runs'[i], file', job', round'),
           \A j \in Jobs : RecordOk(job'[j], j, runs'),
           \A j \in Jobs : CallsOk(job'[j], j, round', takes', unheard'),
           \A w \in Workers : WorkerOk(wk'[w], job', runs', round'),
           OneEach', RerunHasACause'
    PROVE  WorkInv'
<1>1. WorkTypes'
  BY DEF WorkTypes, JobsAdvance, RunsAdvance
<1>2. ASSUME NEW i \in 1 .. Len(runs') PROVE RunOk(runs[i], file, job, round)'
  <2>1. RunOk(runs'[i], file', job', round')
    OBVIOUS
  <2> QED BY <2>1 DEF RunOk, Judged, InScope, ScansScope, UnderWay, Traced, NotedOnce, Outdated, Ready
<1>3. ASSUME NEW j \in Jobs PROVE RecordOk(job[j], j, runs)' /\ CallsOk(job[j], j, round, takes, unheard)'
  <2>1. RecordOk(job'[j], j, runs') /\ CallsOk(job'[j], j, round', takes', unheard')
    OBVIOUS
  <2> QED BY <2>1 DEF RecordOk, Earned, CallsOk, AutoCloses
<1>4. ASSUME NEW w \in Workers PROVE WorkerOk(wk[w], job, runs, round)'
  <2>1. WorkerOk(wk'[w], job', runs', round')
    OBVIOUS
  <2> QED BY <2>1 DEF WorkerOk, Holds, AtHand, EntryOk, Ready
<1> QED BY <1>1, <1>2, <1>3, <1>4 DEF WorkInv

(* Steps that leave the runs alone, and at which no worker takes up one.   *)
LEMMA QuietKept ==
    ASSUME WorkInv, JobsAdvance, env' = env, UNCHANGED <<runs, file>>, wk' \in [Workers -> WorkerType],
           \A j \in Jobs : RecordOk(job'[j], j, runs),
           \A j \in Jobs : CallsOk(job'[j], j, round', takes', unheard'),
           \A w \in Workers : wk'[w] = wk[w] \/ (~ Holds(wk'[w]) /\ WorkerOk(wk'[w], job', runs, round'))
    PROVE  WorkInv'
<1>0. WorkTypes /\ \A i \in 1 .. Len(runs) : runs[i] \in RunType
  BY DEF WorkInv, WorkTypes
<1>1. RunsAdvance
  BY <1>0 DEF RunsAdvance, WorkTypes
<1>2. ASSUME NEW i \in 1 .. Len(runs') PROVE RunOk(runs'[i], file', job', round')
  <2>1. RunOk(runs[i], file, job, round) /\ runs[i] \in RunType
    BY <1>0 DEF WorkInv
  <2>2. Outdated(runs[i], job', round')
    BY <1>0, <2>1, OutdatedKept DEF RunOk
  <2> QED BY <2>1, <2>2 DEF RunOk
<1>3. ASSUME NEW w \in Workers PROVE WorkerOk(wk'[w], job', runs', round')
  <2>1. CASE wk'[w] = wk[w]
    <3>1. wk[w] \in WorkerType /\ WorkerOk(wk[w], job, runs, round)
      BY <1>0 DEF WorkInv, WorkTypes
    <3> QED BY <1>0, <1>1, <2>1, <3>1, WorkerKept
  <2> QED BY <2>1
<1>4. OneEach'
  BY DEF WorkInv, OneEach
<1>5. RerunHasACause' /\ file' \in [Paths -> {"clean", "edited", "new"}]
  BY DEF WorkInv, RerunHasACause, WorkTypes
<1> QED BY <1>0, <1>1, <1>2, <1>3, <1>4, <1>5, WorkKept

(* The jobs as they are.                                                   *)
LEMMA JobsStay ==
    ASSUME WorkInv, UNCHANGED <<job, round, takes, unheard>>
    PROVE  /\ JobsAdvance /\ \A j \in Jobs : RecordOk(job'[j], j, runs)
           /\ \A j \in Jobs : CallsOk(job'[j], j, round', takes', unheard')
BY DEF WorkInv, WorkTypes, JobsAdvance

(* The entry a worker is at, and those after it.                           *)
LEMMA EntryIs ==
    ASSUME WorkInv, NEW w \in Workers, wk[w].pc = "scan"
    PROVE  Entry(w) \in wk[w].list /\ Entry(w) \in EntryType
<1> DEFINE L == wk[w].list
           T == {e.at : e \in L}
<1>1. L \in SUBSET EntryType /\ L # {}
  <2>1. wk[w] \in WorkerType /\ WorkerOk(wk[w], job, runs, round)
    BY DEF WorkInv, WorkTypes
  <2> QED BY <2>1 DEF WorkerType, WorkerOk
<1>2. \A e \in L : e.at \in Nat
  BY <1>1 DEF EntryType
<1> HIDE DEF L
<1>3. T \in SUBSET Nat /\ T # {}
  BY <1>1, <1>2
<1> HIDE DEF T
<1>4. PICK x \in T : \A y \in T : ~ (<<y, x>> \in OpToRel(<, Nat))
  BY <1>3, NatLessThanWellFounded, WFMin
<1>5. PICK e \in L : e.at = x
  BY DEF T
<1>6. ASSUME NEW f \in L PROVE e.at <= f.at
  <2>1. f.at \in T /\ f.at \in Nat /\ x \in Nat
    BY <1>2, <1>3 DEF T
  <2>2. ~ (f.at < x)
    BY <1>4, <2>1 DEF OpToRel
  <2> QED BY <1>5, <2>1, <2>2
<1>7. \E g \in L : \A f \in L : g.at <= f.at
  BY <1>6
<1>8. Entry(w) = CHOOSE g \in L : \A f \in L : g.at <= f.at
  BY DEF Entry, L
<1>9. Entry(w) \in L
  BY <1>7, <1>8
<1> QED BY <1>1, <1>9 DEF L

(* A worker that is off or about to poll holds no run and owes nothing.    *)
LEMMA IdleIs ==
    ASSUME NEW pc \in {"off", "poll"}, NEW jb, NEW rs, NEW rd
    PROVE  /\ [IdleWorker EXCEPT !.pc = pc] \in WorkerType /\ ~ Holds([IdleWorker EXCEPT !.pc = pc])
           /\ WorkerOk([IdleWorker EXCEPT !.pc = pc], jb, rs, rd)
           /\ IdleWorker = [IdleWorker EXCEPT !.pc = "poll"]
BY DEF IdleWorker, WorkerType, Holds, WorkerOk, NoRun

(* ... and where the worker goes from there.                               *)
LEMMA NextEntryIs ==
    ASSUME WorkInv, NEW w \in Workers, NEW c \in Nat, NEW jb, NEW rs, NEW rd,
           \A e \in wk[w].list : EntryOk(e, jb, rs, rd),
           NEW k \in {NextEntry(w, c), OutOrOn(NextEntry(w, c))}
    PROVE  k \in WorkerType /\ ~ Holds(k) /\ WorkerOk(k, jb, rs, rd)
<1>0. wk[w] \in WorkerType
  BY DEF WorkInv, WorkTypes
<1>1. k \in {[IdleWorker EXCEPT !.pc = "off"], IdleWorker} \/
      (Rest(w) # {} /\ k = [IdleWorker EXCEPT !.pc = "scan", !.list = Rest(w), !.claimed = c])
  BY DEF NextEntry, OutOrOn
<1>2. CASE k \in {[IdleWorker EXCEPT !.pc = "off"], IdleWorker}
  BY <1>2, IdleIs
<1>3. CASE Rest(w) # {} /\ k = [IdleWorker EXCEPT !.pc = "scan", !.list = Rest(w), !.claimed = c]
  <2>1. Rest(w) \in SUBSET EntryType /\ \A e \in Rest(w) : EntryOk(e, jb, rs, rd)
    BY <1>0 DEF Rest, WorkerType
  <2> HIDE DEF Rest
  <2>2. k = [pc |-> "scan", list |-> Rest(w), claimed |-> c, run |-> NoRun, rep |-> "none"]
    BY <1>3 DEF IdleWorker
  <2>3. k \in WorkerType
    BY <2>1, <2>2 DEF WorkerType, NoRun
  <2>4. k.pc = "scan" /\ k.list = Rest(w) /\ k.run = NoRun
    BY <2>2
  <2> QED BY <1>3, <2>1, <2>3, <2>4 DEF Holds, WorkerOk
<1> QED BY <1>1, <1>2, <1>3

(* A worker that goes on, the others as they are.                          *)
LEMMA SetIs ==
    ASSUME WorkTypes, NEW w \in Workers, NEW k \in WorkerType, Set(w, k)
    PROVE  wk' \in [Workers -> WorkerType] /\ wk'[w] = k /\ \A v \in Workers : v # w => wk'[v] = wk[v]
BY DEF WorkTypes, Set

(* Steps of a worker between two runs.                                     *)
LEMMA MovesOn ==
    ASSUME WorkInv, NEW w \in Workers, NEW k \in WorkerType, Set(w, k), ~ Holds(k), env' = env,
           WorkerOk(k, job, runs, round), UNCHANGED <<job, round, takes, unheard, runs, file>>
    PROVE  WorkInv'
<1>0. WorkTypes
  BY DEF WorkInv
<1>1. wk' \in [Workers -> WorkerType] /\ wk'[w] = k /\ \A v \in Workers : v # w => wk'[v] = wk[v]
  BY <1>0, SetIs
<1>2. \A v \in Workers : wk'[v] = wk[v] \/ (~ Holds(wk'[v]) /\ WorkerOk(wk'[v], job', runs, round'))
  BY <1>1
<1>3. /\ JobsAdvance /\ \A j \in Jobs : RecordOk(job'[j], j, runs)
      /\ \A j \in Jobs : CallsOk(job'[j], j, round', takes', unheard')
  BY JobsStay
<1> QED BY <1>1, <1>2, <1>3, QuietKept

(* The entries of a worker's list, as WorkInv has them.                    *)
LEMMA EntriesOk ==
    ASSUME WorkInv, NEW w \in Workers
    PROVE  /\ wk[w] \in WorkerType /\ wk[w].claimed \in Nat /\ wk[w].list \in SUBSET EntryType
           /\ \A e \in wk[w].list : EntryOk(e, job, runs, round)
<1>1. wk[w] \in WorkerType /\ WorkerOk(wk[w], job, runs, round)
  BY DEF WorkInv, WorkTypes
<1> QED BY <1>1 DEF WorkerType, WorkerOk

(* What a worker reads is as old as it is.                                 *)
LEMMA ReportedIs ==
    ASSUME WorkInv, JobsAdvance, NEW e \in EntryType, e.over = Reported,
           job'[e.id].status # "absent",
           Ready(e.was) => Ready(job'[e.id])
    PROVE  EntryOk(e, job', runs, round')
<1>0. WorkTypes /\ \A i \in 1 .. Len(runs) : runs[i] \in RunType /\ RunOk(runs[i], file, job, round)
  BY DEF WorkInv, WorkTypes
<1>1. ASSUME NEW i \in e.over PROVE i \in 1 .. Len(runs) /\ (Ready(e.was) /\ runs[i].job = e.id => runs[i].round < round'[e.id])
  <2>1. i \in 1 .. Len(runs) /\ runs[i].noted > 0
    BY DEF Reported
  <2>2. runs[i] \in RunType /\ Outdated(runs[i], job, round)
    BY <1>0, <2>1 DEF RunOk
  <2>3. Outdated(runs[i], job', round')
    BY <1>0, <2>2, OutdatedKept
  <2> QED BY <2>1, <2>3 DEF Outdated
<1> QED BY <1>1 DEF EntryOk

(* Polling reads the jobs as they are at that moment.                      *)
LEMMA PollOk == ASSUME EnvOk, WorkInv, NEW w \in Workers, Poll(w) PROVE WorkInv'
<1>0. WorkTypes /\ env.serves \in [Workers -> SUBSET Jobs] /\ env' = env
      /\ UNCHANGED <<job, round, takes, unheard, runs, file>>
  BY EnvMeans DEF WorkInv, WorkEnvironment, Poll, daemonVars
<1>1. JobsAdvance
  BY <1>0, JobsStay
<1>2. ASSUME NEW e \in Listed(w) PROVE e \in EntryType /\ EntryOk(e, job, runs, round)
  <2>1. PICK i \in 1 .. Len(born) : e = [at |-> i, id |-> born[i], was |-> job[born[i]], over |-> Reported]
    BY DEF Listed, Snapshot
  <2>2. e.id \in Jobs /\ (e.was.status = "queued" \/ Ready(e.was))
    BY <1>0 DEF Listed, Takes
  <2>3. e.at \in Nat /\ e.was = job[e.id] /\ e.over = Reported /\ e.id = born[i]
    BY <2>1
  <2>4. job[e.id] \in JobType /\ Reported \in SUBSET Nat
    BY <1>0, <2>2 DEF WorkTypes, Reported
  <2>5. e \in EntryType
    <3>1. born[i] \in Jobs /\ job[born[i]] \in JobType
      BY <2>2, <2>3, <2>4
    <3>2. i \in Nat
      OBVIOUS
    <3> HIDE DEF Reported, JobType
    <3> QED BY <2>1, <2>4, <3>1, <3>2 DEF EntryType
  <2>6. job'[e.id].status # "absent" /\ (Ready(e.was) => Ready(job'[e.id]))
    BY <1>0, <2>2, <2>3 DEF Ready
  <2> QED BY <1>0, <1>1, <2>3, <2>5, <2>6, ReportedIs
<1> DEFINE L == Listed(w)
           k == [IdleWorker EXCEPT !.pc = "scan", !.list = L]
<1>4. L # {} /\ Set(w, k) /\ L \in SUBSET EntryType
  BY <1>2 DEF Poll
<1> HIDE DEF L
<1>5. k.pc = "scan" /\ k.list = L /\ k.run = NoRun
  BY DEF IdleWorker
<1>6. k \in WorkerType
  BY <1>4 DEF IdleWorker, WorkerType, NoRun
<1> HIDE DEF k
<1>7. ~ Holds(k) /\ WorkerOk(k, job, runs, round)
  BY <1>2, <1>4, <1>5 DEF Holds, WorkerOk, L
<1> QED BY <1>0, <1>4, <1>6, <1>7, MovesOn

(* A worker that goes on to its next entry, the next poll or out holds no  *)
(* run.                                                                    *)
LEMMA DroppedIs ==
    ASSUME WorkInv, NEW w \in Workers, NEW k \in {Dropped(w), OutOrOn(Dropped(w)), Done(w), OutOrOn(Done(w))},
           NEW jb, NEW rs, NEW rd, \A e \in wk[w].list : EntryOk(e, jb, rs, rd)
    PROVE  k \in WorkerType /\ ~ Holds(k) /\ WorkerOk(k, jb, rs, rd)
<1>1. wk[w].claimed \in Nat /\ wk[w].claimed + 1 \in Nat
  BY EntriesOk
<1>2. CASE k \in {Dropped(w), OutOrOn(Dropped(w))}
  BY <1>1, <1>2, NextEntryIs DEF Dropped
<1>3. CASE k \in {Done(w), OutOrOn(Done(w))}
  BY <1>1, <1>3, NextEntryIs DEF Done
<1> QED BY <1>2, <1>3

(* A packet that could not be had starts no run.                           *)
LEMMA StartFailsOk == ASSUME WorkInv, NEW w \in Workers, StartFails(w) PROVE WorkInv'
<1>1. /\ Set(w, OutOrOn(Done(w))) /\ env' = env /\ UNCHANGED <<job, round, takes, unheard, runs, file>>
  BY DEF StartFails, daemonVars
<1>2. /\ OutOrOn(Done(w)) \in WorkerType /\ ~ Holds(OutOrOn(Done(w)))
      /\ WorkerOk(OutOrOn(Done(w)), job, runs, round)
  BY EntriesOk, DroppedIs
<1> QED BY <1>1, <1>2, MovesOn

(* Starting and stopping a worker touch no job and no run.                 *)
LEMMA RestsOk ==
    ASSUME WorkInv, NEW w \in Workers, StartWorker(w) \/ WorkerExits(w)
    PROVE  WorkInv'
<1>1. PICK pc \in {"off", "poll"} : Set(w, [IdleWorker EXCEPT !.pc = pc])
  BY IdleIs DEF StartWorker, WorkerExits
<1>2. env' = env /\ UNCHANGED <<job, round, takes, unheard, runs, file>>
  BY DEF StartWorker, WorkerExits, daemonVars
<1> QED BY <1>1, <1>2, IdleIs, MovesOn

(* A worker that dispatches a queued job opens a round, which no report    *)
(* is older than.                                                          *)
LEMMA DispatchQueuedOk == ASSUME WorkInv, NEW w \in Workers, DispatchQueued(w) PROVE WorkInv'
<1>0. /\ WorkTypes /\ env' = env /\ UNCHANGED <<runs, file>>
  BY DEF WorkInv, DispatchQueued
<1>1. wk[w].pc = "scan"
  BY DEF DispatchQueued, At
<1> DEFINE e == Entry(w)
           j == e.id
<1>2. /\ e \in wk[w].list /\ e \in EntryType /\ wk[w] \in WorkerType /\ wk[w].list \in SUBSET EntryType
      /\ \A f \in wk[w].list : EntryOk(f, job, runs, round)
  BY <1>1, EntryIs, EntriesOk
<1>3. CASE ~ Dispatchable(j) /\ Set(w, OutOrOn(Dropped(w))) /\ UNCHANGED <<job, round, takes, unheard>>
  <2>1. /\ OutOrOn(Dropped(w)) \in WorkerType /\ ~ Holds(OutOrOn(Dropped(w)))
        /\ WorkerOk(OutOrOn(Dropped(w)), job, runs, round)
    BY <1>2, DroppedIs
  <2> QED BY <1>0, <1>3, <2>1, MovesOn
<1>4. ASSUME Dispatchable(j), NEW r \in DispatchResults, Dispatched(j, r),
             NEW k, Set(w, k),
             k \in {Dropped(w), OutOrOn(Dropped(w))} \/
             (Takes(r) /\ k = [wk[w] EXCEPT !.list = Rest(w) \cup {[e EXCEPT !.was = r, !.over = Reported]}])
      PROVE  WorkInv'
  <2>1. /\ JobsAdvance /\ r \in JobType /\ r.run = NoRun /\ r.status # "absent"
        /\ \A x \in Jobs : job'[x] = IF x = j THEN r ELSE job[x]
        /\ \A x \in Jobs : CallsOk(job'[x], x, round', takes', unheard')
    BY <1>4, DispatchOk
  <2>2. RunsAdvance
    BY <1>0 DEF RunsAdvance, WorkTypes
  <2>3. \A f \in wk[w].list : EntryOk(f, job', runs, round')
    BY <1>0, <1>2, <2>1, <2>2, EntryKept
  <2>4. k \in WorkerType /\ ~ Holds(k) /\ WorkerOk(k, job', runs, round')
    <3>1. CASE k \in {Dropped(w), OutOrOn(Dropped(w))}
      BY <2>3, <3>1, DroppedIs
    <3>2. CASE Takes(r) /\ k = [wk[w] EXCEPT !.list = Rest(w) \cup {[e EXCEPT !.was = r, !.over = Reported]}]
      <4> DEFINE f == [e EXCEPT !.was = r, !.over = Reported]
      <4>1. Reported \in SUBSET Nat
        BY DEF Reported
      <4>2. f \in EntryType /\ f.id = j /\ f.was = r /\ f.over = Reported
        <5> HIDE DEF e, Reported, JobType
        <5> QED BY <1>2, <2>1, <4>1 DEF EntryType
      <4> HIDE DEF f
      <4>3. j \in Jobs /\ job'[j] = r
        BY <1>2, <2>1 DEF EntryType
      <4>4. EntryOk(f, job', runs, round')
        BY <2>1, <4>2, <4>3, ReportedIs
      <4> DEFINE L == Rest(w) \cup {f}
      <4>5. L \in SUBSET EntryType /\ L # {} /\ \A g \in L : EntryOk(g, job', runs, round')
        BY <1>2, <2>3, <4>2, <4>4 DEF Rest
      <4>6. k = [wk[w] EXCEPT !.list = L]
        BY <3>2 DEF f
      <4> HIDE DEF L
      <4>7. k \in WorkerType /\ k.pc = "scan" /\ k.run = wk[w].run /\ k.list = L
        BY <1>1, <1>2, <4>5, <4>6 DEF WorkerType
      <4>8. wk[w].run = NoRun
        BY <1>1 DEF WorkInv, WorkerOk, Holds
      <4> QED BY <4>5, <4>7, <4>8 DEF Holds, WorkerOk
    <3> QED BY <1>4, <3>1, <3>2
  <2>5. wk' \in [Workers -> WorkerType] /\ wk'[w] = k /\ \A v \in Workers : v # w => wk'[v] = wk[v]
    BY <1>0, <1>4, <2>4, SetIs
  <2>6. \A v \in Workers : wk'[v] = wk[v] \/ (~ Holds(wk'[v]) /\ WorkerOk(wk'[v], job', runs, round'))
    BY <2>4, <2>5
  <2>7. \A x \in Jobs : RecordOk(job'[x], x, runs)
    <3>1. Len(runs) \in Nat
      BY <1>0 DEF WorkTypes
    <3>2. \A x \in Jobs : RecordOk(job[x], x, runs)
      BY DEF WorkInv
    <3>3. \A x \in Jobs : RecordOk(r, x, runs)
      BY <2>1, <3>1 DEF RecordOk, NoRun
    <3> QED BY <2>1, <3>2, <3>3
  <2> QED BY <1>0, <2>1, <2>5, <2>6, <2>7, QuietKept
<1>5. CASE \E r \in DispatchResults : \E k :
              /\ Dispatchable(j) /\ Dispatched(j, r) /\ Set(w, k)
              /\ \/ k \in {Dropped(w), OutOrOn(Dropped(w))}
                 \/ Takes(r) /\ k = [wk[w] EXCEPT !.list = Rest(w) \cup {[e EXCEPT !.was = r, !.over = Reported]}]
  BY <1>4, <1>5
<1> QED BY <1>3, <1>5 DEF DispatchQueued

(* A dispatch by somebody else, a job that is new, and those a restart of  *)
(* the daemon takes for lost.                                              *)
LEMMA DispatchedOk ==
    ASSUME WorkInv, NEW j, Dispatchable(j), NEW r \in DispatchResults, Dispatched(j, r),
           env' = env, UNCHANGED <<file, runs, wk>>
    PROVE  WorkInv'
<1>1. /\ JobsAdvance /\ r.run = NoRun
      /\ \A x \in Jobs : job'[x] = IF x = j THEN r ELSE job[x]
      /\ \A x \in Jobs : CallsOk(job'[x], x, round', takes', unheard')
  BY DispatchOk
<1>2. \A x \in Jobs : RecordOk(job'[x], x, runs)
  <2>1. Len(runs) \in Nat
    BY DEF WorkInv, WorkTypes
  <2>2. \A x \in Jobs : RecordOk(job[x], x, runs)
    BY DEF WorkInv
  <2>3. \A x \in Jobs : RecordOk(r, x, runs)
    BY <1>1, <2>1 DEF RecordOk, NoRun
  <2> QED BY <1>1, <2>2, <2>3
<1>3. wk' \in [Workers -> WorkerType]
  BY DEF WorkInv, WorkTypes
<1> QED BY <1>1, <1>2, <1>3, QuietKept

(* Jobs that become queued or failed break nothing that is known of the    *)
(* runs.                                                                   *)
LEMMA StatusOk ==
    ASSUME WorkInv, env' = env, UNCHANGED <<round, takes, unheard, file, runs, wk>>,
           job' \in [Jobs -> JobType],
           \A j \in Jobs : /\ job'[j].run = job[j].run
                           /\ job'[j] = job[j] \/ job'[j].status \in {"queued", "failed"}
    PROVE  WorkInv'
<1>1. JobsAdvance
  <2>1. /\ round' = round /\ round \in [Jobs -> Nat] /\ takes' \in [Jobs -> Nat] /\ unheard' \in [Jobs -> Nat]
    BY DEF WorkInv, WorkTypes
  <2>2. ASSUME NEW j \in Jobs
        PROVE  round[j] <= round'[j] /\ (job[j].status # "absent" => job'[j].status # "absent")
               /\ (Ready(job'[j]) => Ready(job[j]))
    <3>1. round[j] \in Nat
      BY <2>1
    <3> QED BY <2>1, <3>1 DEF Ready
  <2> QED BY <2>1, <2>2 DEF JobsAdvance
<1>2. ASSUME NEW j \in Jobs PROVE RecordOk(job'[j], j, runs) /\ CallsOk(job'[j], j, round', takes', unheard')
  <2>1. RecordOk(job[j], j, runs) /\ CallsOk(job[j], j, round, takes, unheard)
    BY DEF WorkInv
  <2> QED BY <2>1 DEF RecordOk, CallsOk
<1>3. wk' \in [Workers -> WorkerType]
  BY DEF WorkInv, WorkTypes
<1> QED BY <1>1, <1>2, <1>3, QuietKept

(* A job that is created is queued.                                        *)
LEMMA CreatedOk ==
    ASSUME WorkInv, NEW j, CreatedJob(j), env' = env, UNCHANGED <<round, takes, unheard, file, runs, wk>>
    PROVE  WorkInv'
<1>1. job \in [Jobs -> JobType] /\ job' = [job EXCEPT ![j].status = "queued"]
  BY DEF WorkInv, WorkTypes, CreatedJob
<1>2. ASSUME NEW x \in JobType
      PROVE  /\ [x EXCEPT !.status = "queued"] \in JobType /\ [x EXCEPT !.status = "queued"].run = x.run
             /\ [x EXCEPT !.status = "queued"].status = "queued"
  BY DEF JobType, Statuses
<1>3. ASSUME NEW x \in Jobs
      PROVE  job'[x] \in JobType /\ job'[x].run = job[x].run /\ (job'[x] = job[x] \/ job'[x].status \in {"queued", "failed"})
  <2>1. job[x] \in JobType /\ job'[x] = IF x = j THEN [job[x] EXCEPT !.status = "queued"] ELSE job[x]
    BY <1>1
  <2> QED BY <1>2, <2>1
<1>4. job' \in [Jobs -> JobType]
  <2>1. job' = [x \in Jobs |-> job'[x]]
    BY <1>1
  <2> QED BY <1>3, <2>1
<1> QED BY <1>3, <1>4, StatusOk

(* A running job that a restart reclaims is failed.                        *)
LEMMA ReclaimedOk ==
    ASSUME WorkInv, job' = Reclaimed, env' = env, UNCHANGED <<round, takes, unheard, file, runs, wk>>
    PROVE  WorkInv'
<1>1. ASSUME NEW x \in JobType
      PROVE  /\ [x EXCEPT !.status = "failed"] \in JobType /\ [x EXCEPT !.status = "failed"].run = x.run
             /\ [x EXCEPT !.status = "failed"].status = "failed"
  BY DEF JobType, Statuses
<1>2. ASSUME NEW x \in Jobs
      PROVE  job'[x] \in JobType /\ job'[x].run = job[x].run /\ (job'[x] = job[x] \/ job'[x].status \in {"queued", "failed"})
  <2>1. job[x] \in JobType /\ job'[x] \in {[job[x] EXCEPT !.status = "failed"], job[x]}
    BY DEF WorkInv, WorkTypes, Reclaimed
  <2> QED BY <1>1, <2>1
<1>3. job' \in [Jobs -> JobType]
  BY <1>2 DEF Reclaimed
<1> QED BY <1>2, <1>3, StatusOk
-----------------------------------------------------------------------------
(* A scan lists paths, with or without their first letter.                 *)
LEMMA LinesAre == repoDirtyPathSet \in SUBSET [path : Paths, clipped : BOOLEAN]
<1>1. ASSUME NEW p \in Paths PROVE StatusLine(p) \in [path : Paths, clipped : BOOLEAN]
  <2>1. CASE file[p] = "edited"
    <3>1. StatusLine(p) = [path |-> p, clipped |-> TRUE]
      BY <2>1 DEF StatusLine
    <3> QED BY <3>1
  <2>2. CASE file[p] # "edited"
    <3>1. StatusLine(p) = [path |-> p, clipped |-> FALSE]
      BY <2>2 DEF StatusLine
    <3> QED BY <3>1
  <2> QED BY <2>1, <2>2
<1> QED BY <1>1 DEF repoDirtyPathSet

(* A run begins: nothing it will be blamed for is there yet.               *)
LEMMA StartRunOk == ASSUME WorkInv, NEW w \in Workers, StartRun(w) PROVE WorkInv'
<1> DEFINE e == Entry(w)
           n == Len(runs) + 1
           none == [exit |-> "none", says |-> "none", proof |-> "none"]
           new == [job |-> e.id, round |-> round[e.id], over |-> e.over, base |-> repoDirtyPathSet,
                   wrote |-> {}, met |-> {}, cleaned |-> {}, clipped |-> FALSE, answer |-> none,
                   blamed |-> FALSE, noted |-> 0, trouble |-> FALSE, ended |-> FALSE]
<1>0. /\ WorkTypes /\ env' = env /\ UNCHANGED <<job, round, takes, unheard, file>> /\ wk[w].pc = "scan"
      /\ runs \in Seq(RunType) /\ Len(runs) \in Nat /\ Ready(e.was)
      /\ runs' = Append(runs, new)
      /\ Set(w, [wk[w] EXCEPT !.pc = "run", !.run = n])
  BY DEF WorkInv, WorkTypes, StartRun, daemonVars, At, Takes
<1>1. /\ e \in wk[w].list /\ e \in EntryType /\ wk[w] \in WorkerType
      /\ \A f \in wk[w].list : EntryOk(f, job, runs, round)
  BY <1>0, EntryIs, EntriesOk
<1>2. e.id \in Jobs /\ round[e.id] \in Nat /\ e.over \in SUBSET Nat /\ EntryOk(e, job, runs, round)
  BY <1>0, <1>1 DEF EntryType, WorkTypes
<1> HIDE DEF e
<1>3. new \in RunType
  <2>1. none \in AnswerType
    BY DEF AnswerType
  <2>2. repoDirtyPathSet \in SUBSET [path : Paths, clipped : BOOLEAN]
    BY LinesAre
  <2> HIDE DEF none, repoDirtyPathSet
  <2> QED BY <1>2, <2>1, <2>2 DEF RunType
<1>4. /\ new.job = e.id /\ new.round = round[e.id] /\ new.over = e.over /\ new.base = repoDirtyPathSet
      /\ new.wrote = {} /\ new.answer.exit = "none" /\ ~ new.blamed /\ new.noted = 0 /\ ~ new.trouble /\ ~ new.ended
  OBVIOUS
<1> HIDE DEF new
<1>5. /\ runs' \in Seq(RunType) /\ Len(runs') = n /\ runs'[n] = new
      /\ \A i \in 1 .. Len(runs) : runs'[i] = runs[i]
  BY <1>0, <1>3
<1>6. RunsAdvance /\ JobsAdvance
  BY <1>0, <1>5, JobsStay DEF RunsAdvance
<1>7. RunOk(new, file, job, round)
  <2>1. Traced(new, file)
    <3>1. ASSUME NEW p \in Paths, file[p] # "clean" PROVE [path |-> p, clipped |-> file[p] = "edited"] \in new.base
      BY <1>4, <3>1 DEF repoDirtyPathSet, StatusLine
    <3> QED BY <1>4, <3>1 DEF Traced
  <2>2. Outdated(new, job, round)
    BY <1>2, <1>4 DEF Outdated, EntryOk
  <2> QED BY <1>4, <2>1, <2>2 DEF RunOk, Judged, NotedOnce
<1>8. ASSUME NEW i \in 1 .. Len(runs') PROVE RunOk(runs'[i], file', job', round')
  <2>1. i = n \/ i \in 1 .. Len(runs)
    BY <1>0, <1>5
  <2> QED BY <1>0, <1>5, <1>7, <2>1 DEF WorkInv
<1>9. ASSUME NEW j \in Jobs PROVE RecordOk(job'[j], j, runs') /\ CallsOk(job'[j], j, round', takes', unheard')
  <2>1. RecordOk(job[j], j, runs) /\ CallsOk(job[j], j, round, takes, unheard) /\ job[j].run \in Nat
    BY <1>0 DEF WorkInv, WorkTypes, JobType
  <2> QED BY <1>0, <1>5, <2>1 DEF RecordOk, NoRun
<1> DEFINE k == [wk[w] EXCEPT !.pc = "run", !.run = n]
<1>10. k \in WorkerType /\ k.pc = "run" /\ k.run = n /\ k.list = wk[w].list
  <2>1. n \in Nat /\ "run" \in {"off", "poll", "scan", "run", "report"}
    BY <1>0
  <2> HIDE DEF n
  <2> QED BY <1>1, <2>1 DEF WorkerType
<1> HIDE DEF k
<1>11. wk' \in [Workers -> WorkerType] /\ wk'[w] = k /\ \A v \in Workers : v # w => wk'[v] = wk[v]
  BY <1>0, <1>10, SetIs DEF k
<1>12. WorkerOk(k, job', runs', round')
  <2>1. \A f \in k.list : EntryOk(f, job', runs', round')
    BY <1>0, <1>1, <1>6, <1>10, EntryKept DEF WorkerType
  <2>2. n \in 1 .. Len(runs')
    BY <1>0, <1>5
  <2> QED BY <1>4, <1>5, <1>10, <2>1, <2>2 DEF WorkerOk, Holds, AtHand
<1>13. ASSUME NEW v \in Workers, v # w
       PROVE  WorkerOk(wk'[v], job', runs', round') /\ (Holds(wk'[v]) => wk'[v].run # n)
  <2>1. wk[v] \in WorkerType /\ WorkerOk(wk[v], job, runs, round)
    BY <1>0 DEF WorkInv, WorkTypes
  <2>2. Holds(wk[v]) => wk[v].run \in 1 .. Len(runs)
    BY <2>1 DEF WorkerOk
  <2>3. WorkerOk(wk[v], job', runs', round')
    BY <1>0, <1>5, <1>6, <2>1, <2>2, WorkerKept
  <2>4. wk'[v] = wk[v]
    BY <1>11, <1>13
  <2> QED BY <1>0, <2>2, <2>3, <2>4
<1>14. OneEach'
  BY <1>10, <1>11, <1>13 DEF WorkInv, OneEach
<1>15. RerunHasACause'
  <2>1. ASSUME NEW i \in 1 .. n, NEW m \in 1 .. n, i < m, runs'[i].job = runs'[m].job, runs'[i].round = runs'[m].round,
               i \in runs'[m].over
        PROVE  FALSE
    <3>1. i \in 1 .. Len(runs) /\ runs'[i] = runs[i]
      BY <1>0, <1>5, <2>1
    <3>2. CASE m = n
      <4>1. i \in e.over /\ runs[i].job = e.id /\ runs[i].round = round[e.id]
        BY <1>4, <1>5, <2>1, <3>1, <3>2
      <4>2. runs[i].round < round[e.id]
        BY <1>0, <1>2, <4>1 DEF EntryOk
      <4> QED BY <1>2, <4>1, <4>2
    <3>3. CASE m # n
      <4>1. m \in 1 .. Len(runs) /\ runs'[m] = runs[m]
        BY <1>0, <1>5, <3>3
      <4> QED BY <2>1, <3>1, <4>1 DEF WorkInv, RerunHasACause
    <3> QED BY <3>2, <3>3
  <2> QED BY <1>5, <2>1 DEF RerunHasACause
<1>16. \A v \in Workers : WorkerOk(wk'[v], job', runs', round')
  BY <1>11, <1>12, <1>13
<1> QED BY <1>0, <1>6, <1>8, <1>9, <1>11, <1>14, <1>15, <1>16, WorkKept DEF WorkTypes

(* A path changes: the runs under way keep track of it.                    *)
LEMMA SameRuns ==
    ASSUME WorkInv, runs' \in Seq(RunType), Len(runs') = Len(runs),
           \A i \in 1 .. Len(runs) : /\ runs'[i].job = runs[i].job /\ runs'[i].round = runs[i].round
                                     /\ runs'[i].over = runs[i].over
    PROVE  RunsAdvance /\ RerunHasACause' /\ Len(runs) \in Nat
<1>1. Len(runs) \in Nat /\ RerunHasACause
  BY DEF WorkInv, WorkTypes
<1>2. RerunHasACause'
  BY <1>1 DEF RerunHasACause
<1> QED BY <1>1, <1>2 DEF RunsAdvance

Tracked(r, i, me, p, to) ==
    [r EXCEPT !.wrote = IF i = me THEN @ \cup {p} ELSE @,
              !.met = IF i # me /\ to # "clean" THEN @ \cup {p} ELSE @,
              !.cleaned = IF to = "clean" THEN @ \cup {p} ELSE @,
              !.clipped = @ \/ to = "edited"]

Tracks(q, r, i, me, p, to) ==
    /\ q \in RunType
    /\ q.job = r.job /\ q.round = r.round /\ q.over = r.over /\ q.base = r.base /\ q.answer = r.answer
    /\ q.blamed = r.blamed /\ q.noted = r.noted /\ q.trouble = r.trouble /\ q.ended = r.ended
    /\ (i = me => q.wrote = r.wrote \cup {p}) /\ (i # me => q.wrote = r.wrote)
    /\ r.met \subseteq q.met /\ (i # me /\ to # "clean" => p \in q.met)
    /\ r.cleaned \subseteq q.cleaned /\ (to = "clean" => p \in q.cleaned)
    /\ (r.clipped \/ to = "edited" => q.clipped)
(* A change of one path adds that path to a run's account and leaves the   *)
(* rest of it.                                                             *)
LEMMA TrackedIs ==
    ASSUME NEW r \in RunType, NEW i, NEW me, NEW p \in Paths, NEW to
    PROVE  Tracks(Tracked(r, i, me, p, to), r, i, me, p, to)
<1> DEFINE q == Tracked(r, i, me, p, to)
<1> DEFINE W == IF i = me THEN r.wrote \cup {p} ELSE r.wrote
           M == IF i # me /\ to # "clean" THEN r.met \cup {p} ELSE r.met
           C == IF to = "clean" THEN r.cleaned \cup {p} ELSE r.cleaned
           L == r.clipped \/ to = "edited"
<1>1. W \in SUBSET Paths /\ M \in SUBSET Paths /\ C \in SUBSET Paths
  BY DEF RunType
<1>2. L \in BOOLEAN
  OBVIOUS
<1>3. q = [r EXCEPT !.wrote = W, !.met = M, !.cleaned = C, !.clipped = L]
  BY DEF Tracked
<1> HIDE DEF W, M, C, L, AnswerType
<1>4. /\ q \in RunType
      /\ q.job = r.job /\ q.round = r.round /\ q.over = r.over /\ q.base = r.base /\ q.answer = r.answer
      /\ q.blamed = r.blamed /\ q.noted = r.noted /\ q.trouble = r.trouble /\ q.ended = r.ended
      /\ q.wrote = W /\ q.met = M /\ q.cleaned = C /\ q.clipped = L
  BY <1>1, <1>2, <1>3 DEF RunType
<1> HIDE DEF q
<1>5. Tracks(q, r, i, me, p, to)
  BY <1>4 DEF Tracks, W, M, C, L
<1> QED BY <1>5 DEF q

(* And the account of a run under way stays true of the tree.              *)
LEMMA TrackedOk ==
    ASSUME WorkTypes, NEW r \in RunType, NEW i, NEW me, NEW p \in Paths, NEW to \in {"clean", "edited", "new"},
           i = me => to # "clean", UnderWay(r), file' = [file EXCEPT ![p] = to], RunOk(r, file, job, round),
           UNCHANGED <<job, round>>
    PROVE  RunOk(Tracked(r, i, me, p, to), file', job', round')
<1> DEFINE q == Tracked(r, i, me, p, to)
<1>0. Tracks(q, r, i, me, p, to)
  BY TrackedIs
<1> HIDE DEF q
<1>1. /\ q.job = r.job /\ q.round = r.round /\ q.base = r.base /\ q.answer = r.answer
      /\ q.blamed = r.blamed /\ q.noted = r.noted /\ q.trouble = r.trouble /\ q.ended = r.ended
      /\ (i = me => q.wrote = r.wrote \cup {p}) /\ (i # me => q.wrote = r.wrote)
      /\ r.met \subseteq q.met /\ (i # me /\ to # "clean" => p \in q.met)
      /\ r.cleaned \subseteq q.cleaned /\ (to = "clean" => p \in q.cleaned)
      /\ (r.clipped \/ to = "edited" => q.clipped)
  BY <1>0 DEF Tracks
<1>2. file' \in [Paths -> {"clean", "edited", "new"}] /\ file'[p] = to /\ \A x \in Paths : x # p => file'[x] = file[x]
  BY DEF WorkTypes
<1>3. Traced(r, file) /\ Judged(r) /\ NotedOnce(r) /\ Outdated(r, job, round) /\ r.wrote \in SUBSET Paths
  BY DEF RunOk, RunType
<1>4. Traced(q, file')
  <2>1. ASSUME NEW x \in q.wrote PROVE file'[x] # "clean" \/ x \in q.cleaned
    <3>1. CASE x = p
      BY <1>1, <1>2, <3>1
    <3>2. CASE x # p
      <4>1. x \in r.wrote /\ x \in Paths
        BY <1>1, <1>3, <3>2
      <4> QED BY <1>1, <1>2, <1>3, <3>2, <4>1 DEF Traced
    <3> QED BY <3>1, <3>2
  <2>2. ASSUME NEW x \in Paths, file'[x] # "clean", [path |-> x, clipped |-> file'[x] = "edited"] \notin q.base
        PROVE  x \in q.wrote \cup q.met /\ (file'[x] = "edited" => q.clipped)
    <3>1. CASE x = p
      BY <1>1, <1>2, <2>2, <3>1
    <3>2. CASE x # p
      <4>1. file[x] = file'[x]
        BY <1>2, <3>2
      <4>2. x \in r.wrote \cup r.met /\ (file[x] = "edited" => r.clipped)
        BY <1>1, <1>3, <2>2, <4>1 DEF Traced
      <4> QED BY <1>1, <4>1, <4>2
    <3> QED BY <3>1, <3>2
  <2> QED BY <2>1, <2>2 DEF Traced
<1>5. Judged(q)
  <2>1. r.blamed => ~ (r.wrote \subseteq env.allowed[r.job]) \/ r.met # {} \/ r.clipped
    BY <1>3 DEF Judged
  <2>2. r.answer.exit = "none"
    BY DEF UnderWay
  <2> QED BY <1>1, <2>1, <2>2 DEF Judged
<1>6. NotedOnce(q) /\ Outdated(q, job', round')
  BY <1>1, <1>3 DEF NotedOnce, Outdated
<1> QED BY <1>4, <1>5, <1>6 DEF RunOk, q

(* Whoever changes a path, every run under way keeps a true account.       *)
LEMMA ChangesOk ==
    ASSUME WorkInv, NEW me, NEW p \in Paths, NEW to \in {"clean", "edited", "new"}, Changes(me, p, to),
           me # NoRun => to # "clean", env' = env, UNCHANGED <<job, round, takes, unheard, wk>>
    PROVE  WorkInv'
<1>0. /\ WorkTypes /\ runs \in Seq(RunType) /\ Len(runs) \in Nat
      /\ \A i \in 1 .. Len(runs) : runs[i] \in RunType /\ RunOk(runs[i], file, job, round)
  BY DEF WorkInv, WorkTypes
<1>1. ASSUME NEW i \in 1 .. Len(runs)
      PROVE  runs'[i] = IF ~ UnderWay(runs[i]) THEN runs[i] ELSE Tracked(runs[i], i, me, p, to)
  BY DEF Changes, UnderWay, Tracked
<1>2. ASSUME NEW i \in 1 .. Len(runs)
      PROVE  LET r == runs[i]
                 q == runs'[i] IN
             /\ q \in RunType
             /\ q.job = r.job /\ q.round = r.round /\ q.over = r.over /\ q.answer = r.answer
             /\ q.blamed = r.blamed /\ q.trouble = r.trouble /\ q.ended = r.ended
  <2>2. CASE ~ UnderWay(runs[i])
    BY <1>0, <1>1, <2>2
  <2>3. CASE UnderWay(runs[i])
    <3>1. runs'[i] = Tracked(runs[i], i, me, p, to)
      BY <1>1, <2>3
    <3> DEFINE q == runs'[i]
    <3>2. Tracks(q, runs[i], i, me, p, to)
      BY <1>0, <3>1, TrackedIs
    <3> HIDE DEF q
    <3>3. LET r == runs[i] IN
          /\ q \in RunType
          /\ q.job = r.job /\ q.round = r.round /\ q.over = r.over /\ q.answer = r.answer
          /\ q.blamed = r.blamed /\ q.trouble = r.trouble /\ q.ended = r.ended
      BY <3>2 DEF Tracks
    <3> QED BY <3>3 DEF q
  <2> QED BY <2>2, <2>3
<1>3. runs' \in Seq(RunType) /\ Len(runs') = Len(runs)
  <2>1. runs' = [i \in 1 .. Len(runs) |-> runs'[i]]
    BY DEF Changes
  <2> QED BY <1>0, <1>2, <2>1
<1>4. RunsAdvance /\ RerunHasACause'
  BY <1>2, <1>3, SameRuns
<1>5. ASSUME NEW i \in 1 .. Len(runs') PROVE RunOk(runs'[i], file', job', round')
  <2>0. i \in 1 .. Len(runs) /\ runs[i] \in RunType /\ RunOk(runs[i], file, job, round)
    BY <1>0, <1>3
  <2>1. CASE ~ UnderWay(runs[i])
    <3>1. runs'[i] = runs[i]
      BY <1>1, <2>0, <2>1
    <3> QED BY <2>0, <2>1, <3>1 DEF RunOk
  <2>2. CASE UnderWay(runs[i])
    <3>1. runs'[i] = Tracked(runs[i], i, me, p, to)
      BY <1>1, <2>0, <2>2
    <3>2. (i = me) => to # "clean"
      BY <2>0, <1>0 DEF NoRun
    <3>3. file' = [file EXCEPT ![p] = to]
      BY DEF Changes
    <3> QED BY <1>0, <2>0, <2>2, <3>1, <3>2, <3>3, TrackedOk
  <2> QED BY <2>1, <2>2
<1>6. JobsAdvance /\ \A j \in Jobs : CallsOk(job'[j], j, round', takes', unheard')
  BY JobsStay
<1>7. ASSUME NEW j \in Jobs PROVE RecordOk(job'[j], j, runs')
  <2>1. RecordOk(job[j], j, runs) /\ job[j].run \in Nat
    BY <1>0 DEF WorkInv, WorkTypes, JobType
  <2> QED BY <1>0, <1>2, <1>3, <2>1 DEF RecordOk, NoRun, Earned
<1>8. ASSUME NEW w \in Workers PROVE WorkerOk(wk'[w], job', runs', round')
  <2>1. wk[w] \in WorkerType /\ WorkerOk(wk[w], job, runs, round)
    BY <1>0 DEF WorkInv, WorkTypes
  <2>2. Holds(wk[w]) => wk[w].run \in 1 .. Len(runs)
    BY <2>1 DEF WorkerOk
  <2> QED BY <1>0, <1>2, <1>4, <1>6, <2>1, <2>2, WorkerKept
<1>9. OneEach' /\ wk' \in [Workers -> WorkerType] /\ file' \in [Paths -> {"clean", "edited", "new"}]
  <2>1. file' = [file EXCEPT ![p] = to]
    BY DEF Changes
  <2> QED BY <1>0, <2>1 DEF WorkInv, OneEach, WorkTypes
<1> QED BY <1>4, <1>5, <1>6, <1>7, <1>8, <1>9, WorkKept

(* A command's write is accounted to its own run.                          *)
LEMMA WriteOk == ASSUME EnvOk, WorkInv, NEW w \in Workers, Write(w) PROVE WorkInv'
<1>1. env.touches \subseteq Paths
  BY EnvMeans DEF WorkEnvironment
<1>2. PICK p \in Paths : \E to \in IF file[p] = "clean" THEN {"edited", "new"} ELSE {file[p]} :
            Changes(wk[w].run, p, to)
  BY <1>1 DEF Write
<1>3. PICK to \in IF file[p] = "clean" THEN {"edited", "new"} ELSE {file[p]} : Changes(wk[w].run, p, to)
  BY <1>2
<1>4. to \in {"clean", "edited", "new"} /\ to # "clean"
  BY <1>3 DEF WorkInv, WorkTypes
<1>5. env' = env /\ UNCHANGED <<job, round, takes, unheard, wk>>
  BY DEF Write, daemonVars
<1> QED BY <1>3, <1>4, <1>5, ChangesOk

(* A developer's change is accounted to none, and met by all.              *)
LEMMA DevelopOk == ASSUME EnvOk, WorkInv, Develop PROVE WorkInv'
<1>1. env.edits \subseteq Paths
  BY EnvMeans DEF WorkEnvironment
<1>2. PICK p \in Paths, to \in {"clean", "edited", "new"} : Changes(NoRun, p, to)
  BY <1>1 DEF Develop
<1>3. env' = env /\ UNCHANGED <<job, round, takes, unheard, wk>>
  BY DEF Develop, daemonVars
<1> QED BY <1>2, <1>3, ChangesOk

(* A worker does something to the run it is at, and nobody else is at it.  *)
LEMMA HandledOk ==
    ASSUME WorkInv, NEW w \in Workers, Holds(wk[w]), env' = env, file' = file, JobsAdvance,
           NEW q \in RunType, SetRun(w, q),
           q.job = Current(w).job, q.round = Current(w).round, q.over = Current(w).over,
           RunOk(q, file, job', round'),
           \A j \in Jobs : RecordOk(job'[j], j, runs'),
           \A j \in Jobs : CallsOk(job'[j], j, round', takes', unheard'),
           NEW k \in WorkerType, Set(w, k), Holds(k) => k.run = wk[w].run,
           (\A e \in wk[w].list : EntryOk(e, job', runs', round')) => WorkerOk(k, job', runs', round')
    PROVE  WorkInv'
<1> DEFINE c == wk[w].run
<1>0. /\ WorkTypes /\ runs \in Seq(RunType) /\ Len(runs) \in Nat
      /\ \A i \in 1 .. Len(runs) : runs[i] \in RunType /\ RunOk(runs[i], file, job, round)
  <2>1. WorkTypes /\ \A i \in 1 .. Len(runs) : RunOk(runs[i], file, job, round)
    BY DEF WorkInv
  <2>2. runs \in Seq(RunType)
    BY <2>1 DEF WorkTypes
  <2> QED BY <2>1, <2>2
<1>1. c \in 1 .. Len(runs) /\ Current(w) = runs[c]
  BY DEF WorkInv, WorkerOk, Current
<1>2. /\ runs' \in Seq(RunType) /\ Len(runs') = Len(runs) /\ runs'[c] = q
      /\ \A i \in 1 .. Len(runs) : i # c => runs'[i] = runs[i]
  BY <1>0, <1>1 DEF SetRun
<1>3. RunsAdvance /\ RerunHasACause'
  BY <1>1, <1>2, SameRuns
<1>4. ASSUME NEW i \in 1 .. Len(runs') PROVE RunOk(runs'[i], file', job', round')
  <2>1. CASE i = c
    BY <1>2, <2>1
  <2>2. CASE i # c
    <3>1. runs'[i] = runs[i] /\ runs[i] \in RunType /\ RunOk(runs[i], file, job, round)
      BY <1>0, <1>2, <2>2
    <3>2. Outdated(runs[i], job', round')
      BY <1>0, <3>1, OutdatedKept DEF RunOk
    <3> QED BY <3>1, <3>2 DEF RunOk
  <2> QED BY <2>1, <2>2
<1>5. wk' \in [Workers -> WorkerType] /\ wk'[w] = k /\ \A v \in Workers : v # w => wk'[v] = wk[v]
  BY <1>0, SetIs
<1>6. ASSUME NEW v \in Workers PROVE WorkerOk(wk'[v], job', runs', round')
  <2>1. CASE v = w
    <3>1. \A e \in wk[w].list : EntryOk(e, job', runs', round')
      BY <1>0, <1>3, EntriesOk, EntryKept
    <3> QED BY <1>5, <2>1, <3>1
  <2>2. CASE v # w
    <3>1. wk[v] \in WorkerType /\ WorkerOk(wk[v], job, runs, round) /\ wk'[v] = wk[v]
      BY <1>0, <1>5, <2>2 DEF WorkInv, WorkTypes
    <3>2. Holds(wk[v]) => wk[v].run # c /\ wk[v].run \in 1 .. Len(runs)
      BY <2>2, <3>1 DEF WorkInv, OneEach, WorkerOk
    <3> QED BY <1>0, <1>2, <1>3, <3>1, <3>2, WorkerKept
  <2> QED BY <2>1, <2>2
<1>7. OneEach'
  BY <1>5 DEF WorkInv, OneEach
<1>8. file' \in [Paths -> {"clean", "edited", "new"}]
  BY <1>0 DEF WorkTypes
<1> QED BY <1>3, <1>4, <1>5, <1>6, <1>7, <1>8, WorkKept

(* The command ends, and the scan after it is set against the one before.  *)
LEMMA ScanIsRight ==
    ASSUME WorkTypes, NEW r \in RunType, Traced(r, file)
    PROVE  /\ workerScopeViolations(r) = {} /\ ScansScope(r.job) => InScope(r)
           /\ workerScopeViolations(r) # {} => ~ (r.wrote \subseteq env.allowed[r.job]) \/ r.met # {} \/ r.clipped
<1>1. ASSUME workerScopeViolations(r) = {}, ScansScope(r.job), NEW p \in r.wrote,
             p \notin r.cleaned, p \notin env.allowed[r.job]
      PROVE  p \in {e.path : e \in r.base}
  <2>1. p \in Paths /\ file[p] # "clean"
    BY <1>1 DEF Traced, RunType
  <2>2. StatusLine(p) \in repoDirtyPathSet /\ StatusLine(p).path = p
    BY <2>1 DEF repoDirtyPathSet, StatusLine
  <2>3. ~ Within(StatusLine(p), env.allowed[r.job])
    BY <1>1, <2>2 DEF Within
  <2>4. StatusLine(p) \in r.base
    BY <1>1, <2>2, <2>3 DEF workerScopeViolations
  <2> QED BY <2>2, <2>4
<1>2. ASSUME workerScopeViolations(r) # {}
      PROVE  ~ (r.wrote \subseteq env.allowed[r.job]) \/ r.met # {} \/ r.clipped
  <2>1. PICK e \in repoDirtyPathSet : e \notin r.base /\ ~ Within(e, env.allowed[r.job])
    BY <1>2 DEF workerScopeViolations
  <2>2. PICK p \in Paths : file[p] # "clean" /\ e = StatusLine(p)
    BY DEF repoDirtyPathSet
  <2>3. p \in r.wrote \cup r.met /\ (file[p] = "edited" => r.clipped)
    BY <2>1, <2>2 DEF Traced, StatusLine
  <2>4. CASE file[p] = "edited"
    BY <2>3, <2>4
  <2>5. CASE file[p] # "edited"
    <3>1. e = [path |-> p, clipped |-> FALSE]
      BY <2>2, <2>5 DEF StatusLine
    <3>2. p \notin env.allowed[r.job]
      BY <2>1, <3>1 DEF Within
    <3> QED BY <2>3, <3>2
  <2> QED BY <2>4, <2>5
<1> QED BY <1>1, <1>2 DEF InScope

(* The scan after the command finds what it wrote out of its scope, and    *)
(* blames it for nothing without a cause.                                  *)
LEMMA FinishOk == ASSUME EnvOk, WorkInv, NEW w \in Workers, Finish(w) PROVE WorkInv'
<1> DEFINE r == Current(w)
           b == workerScopeViolations(r) # {}
<1>0. /\ WorkTypes /\ env' = env /\ UNCHANGED <<job, round, takes, unheard, file>> /\ wk[w].pc = "run"
      /\ wk[w] \in WorkerType /\ WorkerOk(wk[w], job, runs, round) /\ wk[w].run \in Nat
  BY DEF WorkInv, WorkTypes, Finish, daemonVars, At, WorkerType
<1>1. /\ Holds(wk[w]) /\ wk[w].run \in 1 .. Len(runs) /\ r = runs[wk[w].run] /\ r \in RunType
      /\ RunOk(r, file, job, round) /\ ~ r.ended /\ r.answer.exit = "none"
  <2>1. Holds(wk[w]) /\ wk[w].run \in 1 .. Len(runs) /\ AtHand(wk[w], runs[wk[w].run])
    BY <1>0 DEF Holds, WorkerOk
  <2>2. r = runs[wk[w].run]
    BY DEF Current
  <2> QED BY <1>0, <2>1, <2>2 DEF AtHand, WorkInv, WorkTypes
<1>2. PICK a \in env.answers :
        /\ SetRun(w, [r EXCEPT !.answer = a, !.blamed = b])
        /\ Set(w, [wk[w] EXCEPT !.pc = "report", !.rep = IF b \/ a.says = "nothing" THEN "failed" ELSE Outcome(a)])
  BY DEF Finish
<1>3. a \in [exit : {"ok", "error"}, proof : {"good", "bad"}, says : Terminal \cup {"unclear", "nothing"}]
  BY EnvMeans DEF WorkEnvironment
<1>4. a \in AnswerType /\ a.exit # "none"
  BY <1>3 DEF AnswerType
<1> DEFINE rep == IF b \/ a.says = "nothing" THEN "failed" ELSE Outcome(a)
           q == [r EXCEPT !.answer = a, !.blamed = b]
           k == [wk[w] EXCEPT !.pc = "report", !.rep = rep]
<1>5. /\ rep \in Terminal
      /\ rep = "succeeded" => ~ b /\ a.exit = "ok" /\ a.says \in {"succeeded", "unclear"}
  BY <1>3 DEF Outcome, Terminal
<1>6. b \in BOOLEAN
  OBVIOUS
<1>7. /\ (~ b /\ ScansScope(r.job) => InScope(r))
      /\ (b => ~ (r.wrote \subseteq env.allowed[r.job]) \/ r.met # {} \/ r.clipped)
  <2>1. Traced(r, file)
    BY <1>1 DEF RunOk, UnderWay
  <2> QED BY <1>0, <1>1, <2>1, ScanIsRight
<1> HIDE DEF r, b, rep
<1>8. /\ q \in RunType /\ q.job = r.job /\ q.round = r.round /\ q.over = r.over /\ q.base = r.base
      /\ q.wrote = r.wrote /\ q.met = r.met /\ q.cleaned = r.cleaned /\ q.clipped = r.clipped
      /\ q.answer = a /\ q.blamed = b /\ q.noted = r.noted /\ q.trouble = r.trouble /\ q.ended = r.ended
  <2> HIDE DEF AnswerType
  <2> QED BY <1>1, <1>4, <1>6 DEF RunType
<1>9. k \in WorkerType /\ k.pc = "report" /\ k.rep = rep /\ k.run = wk[w].run /\ k.list = wk[w].list
  <2>1. rep \in Terminal \cup {"none"} /\ "report" \in {"off", "poll", "scan", "run", "report"}
    BY <1>5
  <2> HIDE DEF Terminal
  <2> QED BY <1>0, <2>1 DEF WorkerType
<1>10. SetRun(w, q) /\ Set(w, k) /\ Current(w) = r
  BY <1>2 DEF r, b, rep
<1> HIDE DEF q, k
<1>11. RunOk(q, file, job', round')
  <2>1. ~ UnderWay(q)
    BY <1>4, <1>8 DEF UnderWay
  <2>2. Judged(q)
    BY <1>7, <1>8 DEF Judged, InScope
  <2>3. NotedOnce(q) /\ Outdated(q, job', round')
    BY <1>0, <1>1, <1>8 DEF RunOk, NotedOnce, Outdated
  <2> QED BY <2>1, <2>2, <2>3 DEF RunOk
<1>12. JobsAdvance /\ \A j \in Jobs : CallsOk(job'[j], j, round', takes', unheard')
  BY <1>0, JobsStay
<1>13. /\ Len(runs') = Len(runs) /\ runs'[wk[w].run] = q /\ Len(runs) \in Nat
       /\ \A i \in 1 .. Len(runs) : i # wk[w].run => runs'[i] = runs[i]
  BY <1>0, <1>1, <1>10 DEF SetRun, WorkTypes
<1>14. ASSUME NEW j \in Jobs PROVE RecordOk(job'[j], j, runs')
  <2>1. RecordOk(job[j], j, runs) /\ job[j].run \in Nat /\ job'[j] = job[j]
    BY <1>0 DEF WorkInv, WorkTypes, JobType
  <2>2. CASE job[j].run = wk[w].run
    <3>1. runs'[job[j].run] = q /\ runs[job[j].run] = r
      BY <1>1, <1>13, <2>2
    <3>2. job[j].run # NoRun /\ job[j].run <= Len(runs')
      BY <1>1, <1>13, <2>1, <2>2 DEF NoRun
    <3>3. r.ended \/ r.trouble
      BY <2>1, <3>1, <3>2 DEF RecordOk
    <3>4. job[j].status # "succeeded"
      BY <1>1, <2>1, <3>1, <3>2 DEF RecordOk, Earned
    <3> QED BY <1>8, <2>1, <3>1, <3>2, <3>3, <3>4 DEF RecordOk
  <2>3. CASE job[j].run # wk[w].run
    BY <1>13, <2>1, <2>3 DEF RecordOk, NoRun
  <2> QED BY <2>2, <2>3
<1>15. ASSUME \A e \in wk[w].list : EntryOk(e, job', runs', round') PROVE WorkerOk(k, job', runs', round')
  <2>1. AtHand(k, q)
    BY <1>1, <1>5, <1>8, <1>9 DEF AtHand
  <2> QED BY <1>1, <1>9, <1>13, <1>15, <2>1 DEF WorkerOk, Holds
<1> QED BY <1>0, <1>1, <1>8, <1>9, <1>10, <1>11, <1>12, <1>14, <1>15, HandledOk

(* The reports of a run.                                                   *)
SameWork(q, r) ==
    /\ q.job = r.job /\ q.round = r.round /\ q.over = r.over /\ q.base = r.base /\ q.wrote = r.wrote
    /\ q.met = r.met /\ q.cleaned = r.cleaned /\ q.clipped = r.clipped /\ q.answer = r.answer /\ q.blamed = r.blamed

(* A worker at its report holds a run of its own that has its answer.      *)
LEMMA AtReport ==
    ASSUME EnvOk, WorkInv, NEW w \in Workers, wk[w].pc = "report"
    PROVE  /\ Holds(wk[w]) /\ wk[w] \in WorkerType /\ wk[w].run \in 1 .. Len(runs) /\ Len(runs) \in Nat
           /\ Current(w) = runs[wk[w].run] /\ Current(w) \in RunType /\ RunOk(Current(w), file, job, round)
           /\ AtHand(wk[w], Current(w)) /\ Current(w).answer.exit # "none" /\ wk[w].rep \in Terminal
<1>1. WorkTypes /\ wk[w] \in WorkerType /\ WorkerOk(wk[w], job, runs, round) /\ runs \in Seq(RunType)
  BY DEF WorkInv, WorkTypes
<1>2. Holds(wk[w]) /\ wk[w].run \in 1 .. Len(runs) /\ AtHand(wk[w], runs[wk[w].run])
  BY <1>1 DEF Holds, WorkerOk
<1>3. Current(w) = runs[wk[w].run]
  BY DEF Current
<1>4. Current(w).answer \in env.answers /\ wk[w].rep \in Terminal
  BY <1>2, <1>3 DEF AtHand
<1>5. Current(w).answer.exit # "none"
  BY <1>4, EnvMeans DEF WorkEnvironment
<1>6. RunOk(Current(w), file, job, round)
  BY <1>2, <1>3 DEF WorkInv
<1> QED BY <1>1, <1>2, <1>3, <1>4, <1>5, <1>6

(* What the report does to the jobs.                                       *)
LEMMA RecordedOk ==
    ASSUME EnvOk, WorkInv, NEW w \in Workers, wk[w].pc = "report", Recorded(w), UNCHANGED <<round, takes, unheard>>
    PROVE  LET j == Current(w).job IN
           /\ JobsAdvance /\ \A x \in Jobs : CallsOk(job'[x], x, round', takes', unheard')
           /\ j \in Jobs /\ job'[j].status = wk[w].rep /\ job'[j].run = wk[w].run
           /\ \A x \in Jobs : x # j => job'[x] = job[x]
<1> DEFINE j == Current(w).job
           rep == wk[w].rep
           c == wk[w].run
<1>0. /\ WorkTypes /\ job \in [Jobs -> JobType] /\ round \in [Jobs -> Nat] /\ \A x \in Jobs : round[x] \in Nat
      /\ takes \in [Jobs -> Nat] /\ unheard \in [Jobs -> Nat]
      /\ \A x \in Jobs : CallsOk(job[x], x, round, takes, unheard)
  BY DEF WorkInv, WorkTypes
<1>1. j \in Jobs /\ rep \in Terminal /\ c \in Nat /\ c # NoRun
  BY AtReport DEF RunType, NoRun
<1>2. job' = [job EXCEPT ![j].status = rep, ![j].run = c]
  BY DEF Recorded
<1> HIDE DEF j, rep, c
<1>3. /\ job'[j] = [status |-> rep, dispatch |-> job[j].dispatch, run |-> c]
      /\ \A x \in Jobs : x # j => job'[x] = job[x]
  BY <1>0, <1>1, <1>2 DEF JobType
<1>4. job' \in [Jobs -> JobType]
  <2>1. job'[j] \in JobType
    BY <1>0, <1>1, <1>3 DEF JobType, Terminal, Statuses
  <2>2. job' = [x \in Jobs |-> job'[x]]
    BY <1>0, <1>2
  <2> QED BY <1>0, <1>3, <2>1, <2>2
<1>5. JobsAdvance
  <2>1. ASSUME NEW x \in Jobs
        PROVE  /\ round[x] <= round'[x] /\ (job[x].status # "absent" => job'[x].status # "absent")
               /\ (Ready(job'[x]) => Ready(job[x]))
    BY <1>0, <1>1, <1>3 DEF Ready, Terminal
  <2> QED BY <1>0, <1>4, <2>1 DEF JobsAdvance
<1>6. ASSUME NEW x \in Jobs PROVE CallsOk(job'[x], x, round', takes', unheard')
  BY <1>0, <1>1, <1>3 DEF CallsOk
<1> QED BY <1>1, <1>3, <1>5, <1>6 DEF j, rep, c

(* A report changes its own run and its own job, and the rest keep their   *)
(* promises.                                                               *)
LEMMA ReportKeeps ==
    ASSUME EnvOk, WorkInv, NEW w \in Workers, wk[w].pc = "report", env' = env, UNCHANGED <<file, round, takes, unheard>>,
           NEW q \in RunType, SetRun(w, q), SameWork(q, Current(w)), NotedOnce(q),
           Current(w).trouble => q.trouble,
           \/ job' = job /\ q.noted = Current(w).noted
           \/ Recorded(w) /\ Accepts(w) /\ (q.ended \/ q.trouble),
           NEW k, Set(w, k),
           \/ k \in {Done(w), OutOrOn(Done(w))}
           \/ k = [wk[w] EXCEPT !.rep = "failed"] /\ ~ q.ended
    PROVE  WorkInv'
<1> DEFINE r == Current(w)
           c == wk[w].run
           j == r.job
<1>0. WorkTypes /\ job \in [Jobs -> JobType]
  BY DEF WorkInv, WorkTypes
<1>1. /\ Holds(wk[w]) /\ wk[w] \in WorkerType /\ c \in 1 .. Len(runs) /\ Len(runs) \in Nat
      /\ r = runs[c] /\ r \in RunType /\ RunOk(r, file, job, round)
      /\ AtHand(wk[w], r) /\ r.answer.exit # "none" /\ wk[w].rep \in Terminal
  BY AtReport
<1>2. SameWork(q, r) /\ (r.trouble => q.trouble)
  OBVIOUS
<1>3. /\ JobsAdvance /\ \A x \in Jobs : CallsOk(job'[x], x, round', takes', unheard')
      /\ j \in Jobs /\ \A x \in Jobs : x # j => job'[x] = job[x]
      /\ \/ job' = job /\ q.noted = r.noted
         \/ /\ job'[j].status = wk[w].rep /\ job'[j].run = c /\ (q.ended \/ q.trouble)
            /\ wk[w].rep = "succeeded" => r.answer.proof = "good"
  <2>1. j \in Jobs
    BY <1>1 DEF RunType
  <2>2. CASE job' = job /\ q.noted = r.noted
    <3>1. JobsAdvance /\ \A x \in Jobs : CallsOk(job'[x], x, round', takes', unheard')
      BY <2>2, JobsStay
    <3> QED BY <2>1, <2>2, <3>1
  <2>3. CASE Recorded(w) /\ Accepts(w) /\ (q.ended \/ q.trouble)
    <3>1. /\ JobsAdvance /\ \A x \in Jobs : CallsOk(job'[x], x, round', takes', unheard')
          /\ job'[j].status = wk[w].rep /\ job'[j].run = c
          /\ \A x \in Jobs : x # j => job'[x] = job[x]
      BY <2>3, RecordedOk
    <3>2. wk[w].rep = "succeeded" => r.answer.proof = "good"
      BY <2>3 DEF Accepts
    <3> QED BY <2>1, <2>3, <3>1, <3>2
  <2> QED BY <2>2, <2>3
<1> HIDE DEF r, c, j
<1>4. RunOk(q, file, job', round')
  <2>1. ~ UnderWay(q)
    BY <1>1, <1>2 DEF UnderWay, SameWork
  <2>2. Judged(q)
    BY <1>1, <1>2 DEF RunOk, Judged, InScope, SameWork
  <2>3. Outdated(q, job', round')
    <3>1. CASE job' = job /\ q.noted = r.noted
      BY <1>0, <1>1, <1>2, <1>3, <3>1, OutdatedKept DEF RunOk, SameWork
    <3>2. CASE job'[j].status = wk[w].rep
      <4>1. job'[j].status # "absent" /\ ~ Ready(job'[j])
        BY <1>1, <3>2 DEF Terminal, Ready
      <4>2. r.round <= round[j] /\ round' = round /\ q.job = j /\ q.round = r.round
        BY <1>1, <1>2 DEF RunOk, Outdated, SameWork, j
      <4> QED BY <4>1, <4>2 DEF Outdated
    <3> QED BY <1>3, <3>1, <3>2
  <2> QED BY <2>1, <2>2, <2>3 DEF RunOk
<1>5. /\ Len(runs') = Len(runs) /\ runs'[c] = q
      /\ \A i \in 1 .. Len(runs) : i # c => runs'[i] = runs[i]
  BY <1>0, <1>1 DEF SetRun, WorkTypes, c
<1>6. ASSUME NEW x \in Jobs PROVE RecordOk(job'[x], x, runs')
  <2>1. RecordOk(job[x], x, runs) /\ job[x].run \in Nat
    BY <1>0 DEF WorkInv, JobType
  <2>2. CASE job'[x] = job[x]
    <3>1. CASE job[x].run = c
      <4>1. c # NoRun /\ c <= Len(runs')
        BY <1>1, <1>5 DEF NoRun
      <4>2. r.ended \/ r.trouble
        BY <1>1, <2>1, <3>1, <4>1 DEF RecordOk
      <4>3. ~ r.ended
        BY <1>1 DEF AtHand
      <4>4. job[x].status = "succeeded" => Earned(q, x)
        BY <1>1, <1>2, <2>1, <3>1, <4>1 DEF RecordOk, Earned, SameWork
      <4> QED BY <1>2, <1>5, <2>2, <3>1, <4>1, <4>2, <4>3, <4>4 DEF RecordOk
    <3>2. CASE job[x].run # c
      BY <1>1, <1>5, <2>1, <2>2, <3>2 DEF RecordOk, NoRun
    <3> QED BY <3>1, <3>2
  <2>3. CASE job'[x] # job[x]
    <3>1. /\ x = j /\ job'[x].status = wk[w].rep /\ job'[x].run = c /\ (q.ended \/ q.trouble)
          /\ wk[w].rep = "succeeded" => r.answer.proof = "good"
      BY <1>3, <2>3
    <3>2. wk[w].rep = "succeeded" => Earned(q, x)
      BY <1>1, <1>2, <3>1 DEF AtHand, Earned, SameWork, j
    <3> QED BY <1>1, <1>5, <3>1, <3>2 DEF RecordOk
  <2> QED BY <2>2, <2>3
<1>7. /\ k \in WorkerType /\ (Holds(k) => k.run = c)
      /\ (\A e \in wk[w].list : EntryOk(e, job', runs', round')) => WorkerOk(k, job', runs', round')
  <2>1. CASE k \in {Done(w), OutOrOn(Done(w))}
    <3>1. ASSUME NEW jb, NEW rs, NEW rd, \A e \in wk[w].list : EntryOk(e, jb, rs, rd)
          PROVE  k \in WorkerType /\ ~ Holds(k) /\ WorkerOk(k, jb, rs, rd)
      BY <2>1, <3>1, DroppedIs
    <3>2. k \in WorkerType /\ ~ Holds(k)
      BY <3>1, EntriesOk
    <3> QED BY <3>1, <3>2
  <2>2. CASE k = [wk[w] EXCEPT !.rep = "failed"] /\ ~ q.ended
    <3>1. /\ k \in WorkerType /\ k.pc = "report" /\ k.rep = "failed" /\ k.run = c /\ k.list = wk[w].list
      <4>1. "failed" \in Terminal \cup {"none"}
        BY DEF Terminal
      <4> QED BY <1>1, <2>2, <4>1 DEF WorkerType, c
    <3>2. AtHand(k, q)
      BY <1>1, <1>2, <2>2, <3>1 DEF AtHand, SameWork, Terminal
    <3> QED BY <1>1, <1>5, <3>1, <3>2 DEF WorkerOk, Holds
  <2> QED BY <2>1, <2>2
<1>8. q.job = Current(w).job /\ q.round = Current(w).round /\ q.over = Current(w).over
  BY DEF SameWork
<1> QED BY <1>1, <1>3, <1>4, <1>6, <1>7, <1>8, HandledOk DEF c

(* After a report that failed a success is reported as a failure, and      *)
(* anything else is over.                                                  *)
LEMMA AfterErrorIs ==
    ASSUME EnvOk, WorkInv, NEW w \in Workers, wk[w].pc = "report"
    PROVE  \/ /\ wk[w].rep = "succeeded" /\ ReportOver(w) = FALSE
              /\ AfterError(w) = [wk[w] EXCEPT !.rep = "failed"]
           \/ wk[w].rep # "succeeded" /\ ReportOver(w) = TRUE /\ AfterError(w) = OutOrOn(Done(w))
<1>1. CASE wk[w].rep = "succeeded"
  <2>1. AfterError(w) = [wk[w] EXCEPT !.rep = "failed"] /\ wk[w] \in WorkerType
    BY <1>1, AtReport DEF AfterError
  <2>2. AfterError(w).pc = "report"
    BY <2>1 DEF WorkerType
  <2> QED BY <1>1, <2>1, <2>2 DEF ReportOver
<1>2. CASE wk[w].rep # "succeeded"
  <2>1. AfterError(w) = OutOrOn(Done(w))
    BY <1>2 DEF AfterError
  <2>2. ~ Holds(OutOrOn(Done(w)))
    BY EntriesOk, DroppedIs
  <2> QED BY <1>2, <2>1, <2>2 DEF ReportOver, Holds
<1> QED BY <1>1, <1>2

Noted(r, n, t, d) == [r EXCEPT !.noted = n, !.trouble = t, !.ended = d]
NotedSo(q, r, n, t, d) == q \in RunType /\ SameWork(q, r) /\ q.noted = n /\ q.trouble = t /\ q.ended = d
(* Noting the outcome in a run leaves it a run.                            *)
LEMMA NotedIs ==
    ASSUME NEW r \in RunType, NEW n \in Nat, NEW t \in BOOLEAN, NEW d \in BOOLEAN
    PROVE  NotedSo(Noted(r, n, t, d), r, n, t, d)
<1> HIDE DEF AnswerType
<1> QED BY DEF Noted, NotedSo, RunType, SameWork

(* A report that is accepted takes the packet from the job and ends the    *)
(* run.                                                                    *)
LEMMA ReportAcceptedOk == ASSUME EnvOk, WorkInv, NEW w \in Workers, ReportAccepted(w) PROVE WorkInv'
<1> DEFINE r == Current(w)
           q == [r EXCEPT !.noted = @ + 1, !.ended = TRUE]
           k == IF TellsOfError(w) THEN OutOrOn(Done(w)) ELSE Done(w)
<1>0. /\ wk[w].pc = "report" /\ env' = env /\ UNCHANGED <<file, round, takes, unheard>>
      /\ Accepts(w) /\ Recorded(w) /\ SetRun(w, q) /\ Set(w, k)
  BY DEF ReportAccepted, At
<1>1. r \in RunType /\ NotedOnce(r) /\ ~ r.ended
  BY <1>0, AtReport DEF RunOk, AtHand
<1>2. k \in {Done(w), OutOrOn(Done(w))}
  OBVIOUS
<1> HIDE DEF k, r
<1>3. r.noted + 1 \in Nat /\ r.trouble \in BOOLEAN /\ TRUE \in BOOLEAN
  BY <1>1 DEF RunType
<1>4. q = Noted(r, r.noted + 1, r.trouble, TRUE)
  <2> HIDE DEF AnswerType
  <2> QED BY <1>1 DEF RunType, Noted
<1> HIDE DEF q
<1>5. q \in RunType /\ SameWork(q, r) /\ q.noted = r.noted + 1 /\ q.trouble = r.trouble /\ q.ended = TRUE
  BY <1>1, <1>3, <1>4, NotedIs DEF NotedSo
<1>6. NotedOnce(q)
  BY <1>1, <1>5 DEF NotedOnce
<1> QED BY <1>0, <1>2, <1>5, <1>6, ReportKeeps DEF r

(* A report that is refused leaves the job alone.                          *)
LEMMA ReportRefusedOk == ASSUME EnvOk, WorkInv, NEW w \in Workers, ReportRefused(w) PROVE WorkInv'
<1> DEFINE r == Current(w)
           d == ReportOver(w)
           q == [r EXCEPT !.ended = d]
           k == AfterError(w)
<1>0. /\ wk[w].pc = "report" /\ env' = env /\ UNCHANGED <<file, round, takes, unheard>>
      /\ ~ Accepts(w) /\ job' = job /\ SetRun(w, q) /\ Set(w, k)
  BY DEF ReportRefused, At, daemonVars
<1>1. r \in RunType /\ NotedOnce(r) /\ ~ r.ended
  BY <1>0, AtReport DEF RunOk, AtHand
<1>2. k = [wk[w] EXCEPT !.rep = "failed"] /\ d = FALSE
  BY <1>0, AfterErrorIs DEF Accepts
<1> HIDE DEF k, r, d
<1>3. r.noted \in Nat /\ r.trouble \in BOOLEAN /\ d \in BOOLEAN
  BY <1>1, <1>2 DEF RunType
<1>4. q = Noted(r, r.noted, r.trouble, d)
  <2> HIDE DEF AnswerType
  <2> QED BY <1>1, <1>3 DEF RunType, Noted
<1> HIDE DEF q
<1>5. q \in RunType /\ SameWork(q, r) /\ q.noted = r.noted /\ q.trouble = r.trouble /\ ~ q.ended
  BY <1>1, <1>2, <1>3, <1>4, NotedIs DEF NotedSo
<1>6. NotedOnce(q)
  BY <1>1, <1>5 DEF NotedOnce
<1> QED BY <1>0, <1>2, <1>5, <1>6, ReportKeeps DEF r

(* A report whose answer is lost was carried out or not: the run is in     *)
(* trouble.                                                                *)
LEMMA ReportUnheardOk == ASSUME EnvOk, WorkInv, NEW w \in Workers, ReportUnheard(w) PROVE WorkInv'
<1> DEFINE r == Current(w)
           d == ReportOver(w)
           n == IF job' # job THEN r.noted + 1 ELSE r.noted
           q == [r EXCEPT !.noted = IF job' # job THEN @ + 1 ELSE @, !.trouble = TRUE, !.ended = d]
           k == AfterError(w)
<1>0. /\ wk[w].pc = "report" /\ env' = env /\ UNCHANGED <<file, round, takes, unheard>>
      /\ (Accepts(w) /\ Recorded(w)) \/ job' = job
      /\ SetRun(w, q) /\ Set(w, k)
  BY DEF ReportUnheard, At
<1>1. r \in RunType
  BY <1>0, AtReport
<1>2. \/ k = [wk[w] EXCEPT !.rep = "failed"] /\ d = FALSE
      \/ k = OutOrOn(Done(w)) /\ d = TRUE
  BY <1>0, AfterErrorIs
<1>3. q = Noted(r, n, TRUE, d)
  BY DEF Noted
<1>4. n \in Nat /\ (job' = job => n = r.noted)
  BY <1>1 DEF RunType
<1>5. d \in BOOLEAN
  BY <1>2
<1> HIDE DEF k, r, d, n, q
<1>6. q \in RunType /\ SameWork(q, r) /\ q.noted = n /\ q.trouble = TRUE /\ q.ended = d
  BY <1>1, <1>3, <1>4, <1>5, NotedIs DEF NotedSo
<1>7. NotedOnce(q) /\ q.trouble /\ (r.trouble => q.trouble)
  BY <1>6 DEF NotedOnce
<1>8. \/ job' = job /\ q.noted = r.noted
      \/ Recorded(w) /\ Accepts(w) /\ (q.ended \/ q.trouble)
  BY <1>0, <1>4, <1>6, <1>7
<1>9. k \in {Done(w), OutOrOn(Done(w))} \/ (k = [wk[w] EXCEPT !.rep = "failed"] /\ ~ q.ended)
  BY <1>2, <1>6
<1> QED BY <1>0, <1>6, <1>7, <1>8, <1>9, ReportKeeps DEF r

(* A worker is killed.                                                     *)
Killed(r) == [r EXCEPT !.trouble = TRUE, !.ended = TRUE]
(* A worker that is killed leaves its job as it is; its run has ended in   *)
(* trouble.                                                                *)
LEMMA KillOk == ASSUME WorkInv, NEW w \in Workers, Kill(w) PROVE WorkInv'
<1> DEFINE k == [IdleWorker EXCEPT !.pc = "off"]
           c == wk[w].run
           r == runs[c]
           q == Killed(r)
<1>0. /\ WorkTypes /\ env' = env /\ UNCHANGED <<job, round, takes, unheard, file>> /\ Set(w, k)
      /\ runs' = [i \in 1 .. Len(runs) |-> IF i = c THEN Killed(runs[i]) ELSE runs[i]]
      /\ runs \in Seq(RunType) /\ Len(runs) \in Nat /\ WorkerOk(wk[w], job, runs, round)
  <2>1. WorkTypes /\ WorkerOk(wk[w], job, runs, round)
    BY DEF WorkInv
  <2>2. runs \in Seq(RunType)
    BY <2>1 DEF WorkTypes
  <2>3. runs' = [i \in 1 .. Len(runs) |-> IF i = c THEN Killed(runs[i]) ELSE runs[i]]
    BY Zenon DEF Kill, Killed
  <2>4. env' = env /\ UNCHANGED <<job, round, takes, unheard, file>> /\ Set(w, k)
    BY DEF Kill, daemonVars
  <2>5. Len(runs) \in Nat
    BY <2>2
  <2> HIDE DEF c, k
  <2> QED BY <2>1, <2>2, <2>3, <2>4, <2>5
<1>1. k \in WorkerType /\ ~ Holds(k) /\ \A jb, rs, rd : WorkerOk(k, jb, rs, rd)
  BY IdleIs
<1> HIDE DEF k, c
<1>2. CASE ~ Holds(wk[w])
  <2>1. c = 0
    BY <1>0, <1>2 DEF WorkerOk, NoRun, c
  <2>2. runs' = runs
    <3>1. \A i \in 1 .. Len(runs) : runs'[i] = runs[i]
      BY <1>0, <2>1
    <3>2. DOMAIN runs' = 1 .. Len(runs) /\ DOMAIN runs = 1 .. Len(runs) /\ runs = [i \in 1 .. Len(runs) |-> runs[i]]
      BY <1>0
    <3>3. runs' = [i \in 1 .. Len(runs) |-> runs'[i]]
      BY <1>0
    <3> QED BY <3>1, <3>2, <3>3
  <2> QED BY <1>0, <1>1, <2>2, MovesOn
<1>3. CASE Holds(wk[w])
  <2>1. c \in 1 .. Len(runs) /\ r \in RunType /\ RunOk(r, file, job, round) /\ Current(w) = r
    BY <1>0, <1>3 DEF WorkerOk, WorkInv, Current, c
  <2>2. SetRun(w, q)
    <3>1. runs' = [runs EXCEPT ![c] = q]
      <4> HIDE DEF RunType
      <4> QED BY <1>0, <2>1
    <3> QED BY <3>1 DEF SetRun, c
  <2>3. q \in RunType /\ SameWork(q, r) /\ q.noted = r.noted /\ q.trouble /\ q.ended
    <3> HIDE DEF r
    <3>1. r.noted \in Nat /\ TRUE \in BOOLEAN
      BY <2>1 DEF RunType
    <3>2. q = Noted(r, r.noted, TRUE, TRUE)
      <4> HIDE DEF AnswerType
      <4> QED BY <2>1 DEF RunType, Noted, Killed
    <3> HIDE DEF q
    <3> QED BY <2>1, <3>1, <3>2, NotedIs DEF NotedSo
  <2> HIDE DEF q, r
  <2>4. /\ JobsAdvance /\ (\A j \in Jobs : RecordOk(job'[j], j, runs))
        /\ \A j \in Jobs : CallsOk(job'[j], j, round', takes', unheard')
    BY <1>0, JobsStay
  <2>5. RunOk(q, file, job', round')
    <3>1. Judged(q) /\ ~ UnderWay(q) /\ NotedOnce(q)
      BY <2>1, <2>3 DEF RunOk, Judged, InScope, UnderWay, NotedOnce, SameWork
    <3>2. Outdated(q, job', round')
      BY <1>0, <2>1, <2>3, <2>4, OutdatedKept DEF RunOk, SameWork
    <3> QED BY <3>1, <3>2 DEF RunOk
  <2>6. /\ Len(runs') = Len(runs) /\ runs'[c] = q /\ runs[c] = r
        /\ \A i \in 1 .. Len(runs) : i # c => runs'[i] = runs[i]
    BY <1>0, <2>1, <2>2 DEF SetRun, c, r
  <2>7. ASSUME NEW j \in Jobs PROVE RecordOk(job'[j], j, runs')
    <3>1. RecordOk(job[j], j, runs) /\ job[j].run \in Nat /\ job'[j] = job[j]
      BY <1>0 DEF WorkInv, WorkTypes, JobType
    <3>2. CASE job[j].run = c
      BY <2>3, <2>6, <3>1, <3>2 DEF RecordOk, Earned, SameWork
    <3>3. CASE job[j].run # c
      BY <1>0, <2>6, <3>1, <3>3 DEF RecordOk, NoRun
    <3> QED BY <3>2, <3>3
  <2>8. q.job = Current(w).job /\ q.round = Current(w).round /\ q.over = Current(w).over
    BY <2>1, <2>3 DEF SameWork
  <2> QED BY <1>0, <1>1, <1>3, <2>2, <2>3, <2>4, <2>5, <2>7, <2>8, HandledOk
<1> QED BY <1>2, <1>3

(* Before the first poll there are no runs.                                *)
LEMMA WorkInitial == EnvOk /\ WorkInit => WorkInv
<1> SUFFICES ASSUME EnvOk, WorkInit PROVE WorkInv
  OBVIOUS
<1>1. WorkTypes
  <2>1. job \in [Jobs -> JobType]
    <3>1. ASSUME NEW j \in Jobs
          PROVE  [status |-> IF j \in env.queued THEN "queued" ELSE "absent", dispatch |-> "none", run |-> NoRun] \in JobType
      BY DEF JobType, Statuses, DispatchStates, NoRun
    <3> QED BY <3>1 DEF WorkInit
  <2>2. wk \in [Workers -> WorkerType]
    <3>1. ASSUME NEW w \in Workers PROVE [IdleWorker EXCEPT !.pc = IF env.serves[w] = {} THEN "off" ELSE "poll"] \in WorkerType
      BY IdleIs
    <3> QED BY <3>1 DEF WorkInit
  <2>3. runs \in Seq(RunType)
    BY DEF WorkInit
  <2>4. /\ round \in [Jobs -> Nat] /\ takes \in [Jobs -> Nat] /\ unheard \in [Jobs -> Nat]
        /\ file \in [Paths -> {"clean", "edited", "new"}]
    BY DEF WorkInit
  <2> QED BY <2>1, <2>2, <2>3, <2>4 DEF WorkTypes
<1>2. Len(runs) = 0
  BY DEF WorkInit
<1>3. ASSUME NEW j \in Jobs PROVE RecordOk(job[j], j, runs) /\ CallsOk(job[j], j, round, takes, unheard)
  <2>1. job[j].run = 0 /\ job[j].status # "succeeded" /\ round[j] = 0 /\ takes[j] = 0 /\ unheard[j] = 0
    BY DEF WorkInit, NoRun
  <2> QED BY <1>2, <2>1 DEF RecordOk, CallsOk, NoRun
<1>4. ASSUME NEW w \in Workers PROVE ~ Holds(wk[w]) /\ WorkerOk(wk[w], job, runs, round)
  <2>1. wk[w] \in {[IdleWorker EXCEPT !.pc = "off"], [IdleWorker EXCEPT !.pc = "poll"]}
    BY DEF WorkInit
  <2> QED BY <2>1, IdleIs
<1>5. OneEach /\ RerunHasACause
  BY <1>2, <1>4 DEF OneEach, RerunHasACause
<1> QED BY <1>1, <1>2, <1>3, <1>4, <1>5 DEF WorkInv

(* What RunsAreTrue and SecondRunsHaveACause say is in WorkInv.            *)
LEMMA WorkInvImplies == EnvOk /\ WorkInv => RunsAreTrue /\ SecondRunsHaveACause
<1> SUFFICES ASSUME EnvOk, WorkInv PROVE RunsAreTrue /\ SecondRunsHaveACause
  OBVIOUS
<1>0. WorkTypes /\ runs \in Seq(RunType) /\ Len(runs) \in Nat
  BY DEF WorkInv, WorkTypes
<1>1. ASSUME NEW j \in Jobs, job[j].status = "succeeded"
      PROVE  IF job[j].run = NoRun THEN AutoCloses(j) /\ takes[j] > unheard[j]
             ELSE LET r == runs[job[j].run] IN
                  /\ r.job = j /\ r.answer.exit = "ok" /\ r.answer.says \in {"succeeded", "unclear"}
                  /\ r.answer.proof = "good"
                  /\ ScansScope(j) => r.wrote \subseteq env.allowed[j] \cup r.cleaned \cup {e.path : e \in r.base}
  <2>1. RecordOk(job[j], j, runs) /\ CallsOk(job[j], j, round, takes, unheard) /\ job[j].run \in Nat
    BY <1>0 DEF WorkInv, WorkTypes, JobType
  <2>2. CASE job[j].run = NoRun
    BY <1>1, <2>1, <2>2 DEF CallsOk
  <2>3. CASE job[j].run # NoRun
    <3> DEFINE r == runs[job[j].run]
    <3>1. Earned(r, j) /\ job[j].run \in 1 .. Len(runs)
      BY <1>0, <1>1, <2>1, <2>3 DEF RecordOk, NoRun
    <3>2. Judged(r)
      BY <3>1 DEF WorkInv, RunOk
    <3> HIDE DEF r
    <3>3. /\ r.job = j /\ r.answer.exit = "ok" /\ r.answer.says \in {"succeeded", "unclear"}
          /\ r.answer.proof = "good"
          /\ ScansScope(j) => r.wrote \subseteq env.allowed[j] \cup r.cleaned \cup {e.path : e \in r.base}
      BY <3>1, <3>2 DEF Earned, Judged, InScope
    <3> QED BY <2>3, <3>3 DEF r
  <2> QED BY <2>2, <2>3
<1>2. SuccessIsEarned
  BY <1>1 DEF SuccessIsEarned
<1>3. ASSUME NEW i \in 1 .. Len(runs)
      PROVE  /\ runs[i].blamed => ~ (runs[i].wrote \subseteq env.allowed[runs[i].job]) \/ runs[i].met # {} \/ runs[i].clipped
             /\ runs[i].ended /\ ~ runs[i].trouble => runs[i].noted = 1
  <2>1. Judged(runs[i]) /\ NotedOnce(runs[i])
    BY DEF WorkInv, RunOk
  <2> QED BY <2>1 DEF Judged, NotedOnce
<1>4. ASSUME NEW j \in Jobs PROVE takes[j] <= round[j] + unheard[j]
  BY DEF WorkInv, CallsOk
<1>5. BlameHasACause /\ RunsAreAccountedFor /\ RerunHasACause /\ TakenOncePerDispatch
  BY <1>3, <1>4 DEF BlameHasACause, RunsAreAccountedFor, TakenOncePerDispatch, WorkInv
<1> QED BY <1>2, <1>5 DEF RunsAreTrue, SecondRunsHaveACause

-----------------------------------------------------------------------------
(* What the whole office does to the jobs, the workers and the loops.      *)
loopFrame == <<env, job, born, round, takes, unheard, file, tree, wk, runs, loopVars>>
LoopMoves ==
    \/ LoopNext \/ ArchitectStep \/ Tick \/ Restart \/ QuickExits
    \/ \E w \in Workers : WorkerExits(w) /\ ArchSees /\ Shared
(* Every step of the office is, for the jobs, the workers and the loops,   *)
(* one of LoopMoves or none.                                               *)
LEMMA MovesAre == [Next]_vars => [LoopMoves]_loopFrame
<1> SUFFICES ASSUME [Next]_vars PROVE LoopMoves \/ UNCHANGED loopFrame
  OBVIOUS
<1>1. CASE UNCHANGED <<workVars, loopVars>>
  BY <1>1 DEF workVars, loopFrame
<1>2. CASE LoopNext
  BY <1>2 DEF LoopMoves
<1>3. CASE QuickReadsBootstrap \/ QuickLeaves
  BY <1>1, <1>3 DEF QuickReadsBootstrap, QuickLeaves, LoopMoves
<1>4. CASE \E w \in Workers : WorkerLeaves(w)
  BY <1>4 DEF WorkerLeaves, LoopMoves
<1>5. CASE DaemonRestarts
  BY <1>5 DEF DaemonRestarts, LoopMoves
<1>6. CASE Desk
  BY <1>6 DEF Desk, atDesk, quietWork, loopFrame
<1>7. CASE Entering \/ Saving \/ Serving \/ TickRecovers \/ \E c \in Collectors : Collecting(c)
  BY <1>1, <1>7 DEF Entering, Saving, Serving, TickRecovers, Collecting
<1>8. CASE TickGoesOn \/ ArchitectStep
  BY <1>8 DEF TickGoesOn, LoopMoves
<1>9. CASE UNCHANGED vars
  BY <1>1, <1>9 DEF vars
<1>10. "tick" \in Collectors
  BY DEF Collectors, Rounds
<1>11. CASE Architecting
  BY <1>7, <1>8, <1>10, <1>11 DEF Architecting
<1> QED BY <1>2, <1>3, <1>4, <1>5, <1>6, <1>7, <1>9, <1>11 DEF Next

(* A dispatch by the loops, or none.                                       *)
LEMMA SentOk ==
    ASSUME WorkInv, NEW j, Sent(j), env' = env, UNCHANGED <<file, runs, wk>>
    PROVE  WorkInv'
<1>1. CASE Dispatchable(j) /\ \E r \in DispatchResults : Dispatched(j, r)
  BY <1>1, DispatchedOk
<1>2. CASE UNCHANGED <<job, round, takes, unheard>>
  <2>1. job \in [Jobs -> JobType]
    BY DEF WorkInv, WorkTypes
  <2> QED BY <1>2, <2>1, StatusOk
<1> QED BY <1>1, <1>2 DEF Sent

(* And each of LoopMoves keeps WorkInv.                                    *)
LEMMA WorkStep == EnvOk /\ WorkInv /\ [LoopMoves]_loopFrame => WorkInv'
<1> SUFFICES ASSUME EnvOk, WorkInv, LoopMoves \/ UNCHANGED loopFrame PROVE WorkInv'
  BY DEF loopFrame
<1> DEFINE rest == env' = env /\ UNCHANGED <<round, takes, unheard, file, runs, wk>>
<1>1. ASSUME env' = env, UNCHANGED <<job, round, takes, unheard, file, runs, wk>> PROVE WorkInv'
  <2>1. job \in [Jobs -> JobType]
    BY DEF WorkInv, WorkTypes
  <2> QED BY <1>1, <2>1, StatusOk
<1>2. ASSUME NEW w \in Workers, WorkerStep(w) PROVE WorkInv'
  BY <1>2, PollOk, DispatchQueuedOk, StartRunOk, StartFailsOk, WriteOk, FinishOk, ReportAcceptedOk,
     ReportRefusedOk, ReportUnheardOk DEF WorkerStep, Report
<1>3. ASSUME NEW w \in Workers, Kill(w) \/ StartWorker(w) \/ WorkerExits(w) PROVE WorkInv'
  BY <1>3, KillOk, RestsOk
<1>4. ASSUME NEW j \in Jobs, ClientDispatches(j) PROVE WorkInv'
  BY <1>4, DispatchedOk DEF ClientDispatches
<1>5. CASE Develop
  BY <1>5, DevelopOk
<1>6. CASE Settle
  BY <1>1, <1>6 DEF Settle, quietDaemon, daemonVars
<1>7. CASE QuickStep \/ QuickExits
  <2>1. CASE QuickSeed
    BY <2>1, CreatedOk DEF QuickSeed, quietQuick
  <2>2. CASE QuickOpen \/ QuickWaits \/ QuickLooksAgain \/ QuickExits
    BY <1>1, <2>2 DEF QuickOpen, QuickWaits, QuickLooksAgain, QuickExits, QuickIdles, quietQuick, daemonVars
  <2>3. CASE QuickPromotes
    <3>1. rest /\ (UNCHANGED job \/ \E c : CreatedJob(c))
      BY <2>3 DEF QuickPromotes, quietQuick
    <3> QED BY <1>1, <3>1, CreatedOk
  <2>4. CASE QuickTries \/ QuickSends
    BY <2>4, SentOk DEF QuickTries, QuickSends, quietQuick
  <2> QED BY <1>7, <2>1, <2>2, <2>3, <2>4 DEF QuickStep
<1>8. CASE Tick
  BY <1>1, <1>8 DEF Tick, workVars
<1>9. CASE Restart
  BY <1>9, ReclaimedOk DEF Restart, quietDaemon
<1>10. CASE ArchitectStep
  <2>1. CASE VerificationEnds \/ EnsureExisting
    BY <1>1, <2>1 DEF VerificationEnds, EnsureExisting, workVars
  <2>2. CASE VerificationLost \/ RepairFails \/ EnsureFails
    BY <1>1, <2>2 DEF VerificationLost, RepairFails, EnsureFails, quietDaemon, daemonVars
  <2>3. CASE Repair \/ EnsureNew
    <3>1. rest /\ \E c : CreatedJob(c)
      BY <2>3 DEF Repair, EnsureNew, quietDaemon
    <3> QED BY <3>1, CreatedOk
  <2>4. CASE Send
    BY <2>4, SentOk DEF Send, quietDaemon
  <2> QED BY <1>10, <2>1, <2>2, <2>3, <2>4 DEF ArchitectStep
<1>11. CASE UNCHANGED loopFrame
  BY <1>1, <1>11 DEF loopFrame
<1>12. CASE LoopNext
  BY <1>2, <1>3, <1>4, <1>5, <1>6, <1>7, <1>12 DEF LoopNext
<1> QED BY <1>3, <1>7, <1>8, <1>9, <1>10, <1>11, <1>12 DEF LoopMoves

-----------------------------------------------------------------------------
(* The loops.  Candidates are in line when they come in the order of the   *)
(* packet; the loop goes through them in that order.                       *)
Precedes(b, c) == \E i, k \in 1 .. Len(env.context) : i < k /\ env.context[i] = b /\ env.context[k] = c
InLine(s) ==
    /\ s \in Seq(Jobs)
    /\ \A i \in 1 .. Len(s) : s[i] \in ToSet(env.context)
    /\ \A i, k \in 1 .. Len(s) : i < k => Precedes(s[i], s[k])
FirstOf(cx, c) == {b \in ToSet(cx) : Precedes(b, c)}
KnownType == [Jobs -> JobType] \cup {<< >>}
ArchType == [pc : {"off", "sleep", "test", "repair", "send", "each"}, stamp : Nat, seen : SUBSET Nat,
             todo : Seq(Jobs), known : KnownType, left : Nat]
StandingType == Nat \X Statuses
QuickType == [pc : {"off", "look", "send", "try", "wait", "idle", "fatal"}, job : Jobs \cup {"none"},
              was : StandingType, seen : SUBSET Jobs]
(* The loop has n candidates left: those it has passed are all there is    *)
(* ahead of the next one, have their jobs, and count.                      *)
AtCandidate(r, n, cx, jb) ==
    /\ r.todo # << >> /\ InLine(r.todo) /\ r.known \in [Jobs -> JobType]
    /\ \A j \in Jobs : r.known[j].status # "absent" => jb[j].status # "absent"
    /\ \A b \in ToSet(cx) : b \in ToSet(r.todo) \/ Precedes(b, Head(r.todo))
    /\ \A b \in FirstOf(cx, Head(r.todo)) : jb[b].status # "absent"
    /\ Cardinality(FirstOf(cx, Head(r.todo))) + n <= env.promote
PlanOk(r, cx, jb, vl) ==
    /\ r.pc = "repair" => vl # << >>
    /\ r.pc = "each" => r.left > 0 /\ AtCandidate(r, r.left, cx, jb)
    /\ r.pc = "send" => \/ r.left = 0
                        \/ AtCandidate(r, r.left + 1, cx, jb) /\ jb[Head(r.todo)].status # "absent"
(* Jobs the loops have yet to make are not there.                          *)
NewIds(r, q, jb, vl) ==
    /\ \A i \in 1 .. Len(RepairIds) :
          i > Len(vl) \/ (i = Len(vl) /\ r.pc = "repair") => jb[RepairIds[i]].status = "absent"
    /\ env.seed # "none" /\ env.seed \notin q.seen => jb[env.seed].status = "absent"
SendOk(q) == q.pc = "send" => q.job \in Jobs /\ q.was[2] \in {"queued", "failed"}
(* All of it together.                                                     *)
PlanInv ==
    /\ arch \in ArchType /\ quick \in QuickType
    /\ born \in Seq(Jobs) /\ IsInjective(born) /\ \A i \in 1 .. Len(born) : Exists(born[i])
    /\ \A j \in Jobs : round[j] <= MaxRounds
    /\ InLine(context) /\ PlanOk(arch, context, job, vlog) /\ NewIds(arch, quick, job, vlog) /\ SendOk(quick)
    /\ FailureGetsRepair /\ PromotedInOrder

(* A candidate has one place in the packet, so that it does not precede    *)
(* one that precedes it.                                                   *)
LEMMA PrecedesOnce ==
    ASSUME EnvOk, NEW b, NEW c, Precedes(b, c)
    PROVE  ~ Precedes(c, b) /\ b # c
<1>1. env.context \in Seq(Jobs) /\ IsInjective(env.context) /\ Len(env.context) \in Nat
  BY EnvMeans DEF LoopEnvironment
<1>2. \A i, k \in 1 .. Len(env.context) : env.context[i] = env.context[k] => i = k
  BY <1>1 DEF IsInjective
<1>3. PICK i \in 1 .. Len(env.context), k \in 1 .. Len(env.context) :
        i < k /\ env.context[i] = b /\ env.context[k] = c
  BY DEF Precedes
<1>4. b # c
  BY <1>2, <1>3
<1>5. ASSUME NEW m \in 1 .. Len(env.context), NEW n \in 1 .. Len(env.context),
             m < n, env.context[m] = c, env.context[n] = b
      PROVE  FALSE
  <2>1. m = k /\ n = i
    BY <1>2, <1>3, <1>5
  <2> QED BY <1>3, <1>5, <2>1
<1> QED BY <1>4, <1>5 DEF Precedes

(* Precedence is transitive.                                               *)
LEMMA PrecedesChain ==
    ASSUME EnvOk, NEW a, NEW b, NEW c, Precedes(a, b), Precedes(b, c)
    PROVE  Precedes(a, c)
<1> DEFINE C == env.context
<1>1. C \in Seq(Jobs) /\ IsInjective(C) /\ Len(C) \in Nat
  BY EnvMeans DEF LoopEnvironment
<1>2. \A i, k \in 1 .. Len(C) : C[i] = C[k] => i = k
  BY <1>1 DEF IsInjective
<1>3. PICK i \in 1 .. Len(C), k \in 1 .. Len(C) : i < k /\ C[i] = a /\ C[k] = b
  BY DEF Precedes
<1>4. PICK m \in 1 .. Len(C), n \in 1 .. Len(C) : m < n /\ C[m] = b /\ C[n] = c
  BY DEF Precedes
<1>5. k = m /\ i < n
  BY <1>1, <1>2, <1>3, <1>4
<1> QED BY <1>3, <1>4, <1>5 DEF Precedes

(* A sequence has finitely many elements, those at its places.             *)
LEMMA ElementsFinite ==
    ASSUME NEW S, NEW s \in Seq(S)
    PROVE  IsFiniteSet(ToSet(s)) /\ ToSet(s) = {s[i] : i \in 1 .. Len(s)}
<1>1. Len(s) \in Nat /\ DOMAIN s = 1 .. Len(s) /\ s \in [1 .. Len(s) -> S]
  OBVIOUS
<1>2. IsFiniteSet(1 .. Len(s))
  <2>1. 1 \in Int /\ Len(s) \in Int
    BY <1>1
  <2> QED BY <2>1, FS_Interval
<1>3. ToSet(s) = {s[i] : i \in 1 .. Len(s)}
  BY <1>1 DEF ToSet
<1>4. s \in [1 .. Len(s) -> ToSet(s)]
  BY <1>1, <1>3
<1>5. \A t \in ToSet(s) : \E i \in 1 .. Len(s) : s[i] = t
  BY <1>3
<1>6. s \in Surjection(1 .. Len(s), ToSet(s))
  BY <1>4, <1>5 DEF Surjection
<1> QED BY <1>2, <1>3, <1>6, FS_Surjection

(* Finitely many candidates are ahead of one.                              *)
LEMMA FirstOfFinite ==
    ASSUME NEW cx \in Seq(Jobs), NEW c
    PROVE  IsFiniteSet(FirstOf(cx, c)) /\ Cardinality(FirstOf(cx, c)) \in Nat
<1>1. IsFiniteSet(ToSet(cx))
  BY ElementsFinite
<1>2. FirstOf(cx, c) \in SUBSET ToSet(cx)
  BY DEF FirstOf
<1>3. IsFiniteSet(FirstOf(cx, c))
  BY <1>1, <1>2, FS_Subset
<1> QED BY <1>3, FS_CardinalityType

(* At the head of the line nobody is ahead.                                *)
LEMMA HeadIsFirst ==
    ASSUME EnvOk, NEW cx, InLine(cx), cx # << >>
    PROVE  Head(cx) \in Jobs /\ Head(cx) \in ToSet(env.context) /\ Head(cx) \in ToSet(cx)
           /\ FirstOf(cx, Head(cx)) = {}
<1>1. cx \in Seq(Jobs) /\ Len(cx) \in Nat /\ Len(cx) > 0 /\ Head(cx) = cx[1] /\ cx[1] \in Jobs
  BY DEF InLine
<1>2. ToSet(cx) = {cx[i] : i \in 1 .. Len(cx)}
  BY <1>1, ElementsFinite
<1>3. 1 \in 1 .. Len(cx)
  BY <1>1
<1>4. ASSUME NEW b \in ToSet(cx), Precedes(b, cx[1]) PROVE FALSE
  <2>1. PICK i \in 1 .. Len(cx) : b = cx[i]
    BY <1>2
  <2>2. b # cx[1] /\ ~ Precedes(cx[1], b)
    BY <1>4, PrecedesOnce
  <2>3. i # 1 /\ 1 < i
    BY <1>1, <2>1, <2>2
  <2>4. Precedes(cx[1], cx[i])
    BY <1>3, <2>3 DEF InLine
  <2> QED BY <2>1, <2>2, <2>4
<1>5. cx[1] \in ToSet(cx) /\ cx[1] \in ToSet(env.context)
  BY <1>2, <1>3 DEF InLine
<1> QED BY <1>1, <1>4, <1>5 DEF FirstOf

(* What is left of a line in order is in order.                            *)
LEMMA TailInLine ==
    ASSUME NEW s, InLine(s), s # << >>
    PROVE  /\ InLine(Tail(s)) /\ Len(Tail(s)) = Len(s) - 1 /\ Len(s) \in Nat \ {0} /\ Tail(s) \in Seq(Jobs)
           /\ \A i \in 1 .. Len(s) - 1 : Tail(s)[i] = s[i + 1]
<1>1. s \in Seq(Jobs) /\ Len(s) \in Nat \ {0}
  BY DEF InLine
<1>2. Tail(s) \in Seq(Jobs) /\ Len(Tail(s)) = Len(s) - 1 /\ \A i \in 1 .. Len(s) - 1 : Tail(s)[i] = s[i + 1]
  BY <1>1
<1>3. \A i \in 1 .. Len(s) - 1 : i + 1 \in 1 .. Len(s)
  BY <1>1
<1>4. \A i \in 1 .. Len(Tail(s)) : Tail(s)[i] \in ToSet(env.context)
  BY <1>2, <1>3 DEF InLine
<1>5. ASSUME NEW i \in 1 .. Len(Tail(s)), NEW k \in 1 .. Len(Tail(s)), i < k PROVE Precedes(Tail(s)[i], Tail(s)[k])
  <2>1. i + 1 \in 1 .. Len(s) /\ k + 1 \in 1 .. Len(s) /\ i + 1 < k + 1
    BY <1>1, <1>2, <1>5
  <2>2. Precedes(s[i + 1], s[k + 1])
    BY <2>1 DEF InLine
  <2> QED BY <1>2, <2>2
<1> QED BY <1>1, <1>2, <1>4, <1>5 DEF InLine

(* The loop goes on to the next candidate.                                 *)
LEMMA NextCandidate ==
    ASSUME EnvOk, NEW r, NEW q, NEW n \in Nat, NEW cx \in Seq(Jobs), NEW jb,
           AtCandidate(r, n + 1, cx, jb), jb[Head(r.todo)].status # "absent",
           q.todo = Tail(r.todo), q.known = r.known, Tail(r.todo) # << >>
    PROVE  AtCandidate(q, n, cx, jb)
<1> DEFINE s == r.todo
           h == Head(s)
           t == Tail(s)
           g == Head(t)
<1>1. /\ s # << >> /\ InLine(s) /\ r.known \in [Jobs -> JobType]
      /\ \A j \in Jobs : r.known[j].status # "absent" => jb[j].status # "absent"
      /\ \A b \in ToSet(cx) : b \in ToSet(s) \/ Precedes(b, h)
      /\ \A b \in FirstOf(cx, h) : jb[b].status # "absent"
      /\ Cardinality(FirstOf(cx, h)) + (n + 1) <= env.promote
  BY DEF AtCandidate
<1>2. s \in Seq(Jobs) /\ h = s[1]
  BY <1>1 DEF InLine
<1>3. /\ InLine(t) /\ t # << >> /\ Len(t) = Len(s) - 1 /\ Len(s) \in Nat \ {0} /\ t \in Seq(Jobs)
      /\ \A i \in 1 .. Len(s) - 1 : t[i] = s[i + 1]
  BY <1>1, TailInLine
<1>4. g = t[1] /\ Len(t) > 0
  BY <1>3
<1>5. g = s[2] /\ 2 \in 1 .. Len(s)
  <2>1. 1 \in 1 .. Len(s) - 1
    BY <1>3, <1>4
  <2> QED BY <1>3, <1>4, <2>1
<1>6. ToSet(s) = {s[i] : i \in 1 .. Len(s)} /\ ToSet(t) = {t[i] : i \in 1 .. Len(t)}
  BY <1>2, <1>3, ElementsFinite
<1> HIDE DEF s, h, t, g
<1>7. Precedes(h, g)
  BY <1>1, <1>2, <1>5 DEF InLine
<1>8. ASSUME NEW b \in ToSet(s), b # h PROVE b \in ToSet(t)
  <2>1. PICK i \in 1 .. Len(s) : b = s[i]
    BY <1>6
  <2>2. i # 1 /\ i - 1 \in 1 .. Len(t) /\ i - 1 \in 1 .. Len(s) - 1 /\ (i - 1) + 1 = i
    BY <1>2, <1>3, <1>8, <2>1
  <2>3. t[i - 1] = s[i]
    BY <1>3, <2>2
  <2> QED BY <1>6, <2>1, <2>2, <2>3
<1>9. ASSUME NEW b \in FirstOf(cx, g) PROVE b = h \/ b \in FirstOf(cx, h)
  <2>1. b \in ToSet(cx) /\ Precedes(b, g)
    BY DEF FirstOf
  <2>2. CASE Precedes(b, h)
    BY <2>1, <2>2 DEF FirstOf
  <2>3. CASE b \in ToSet(s) /\ b # h
    <3>1. FirstOf(t, g) = {}
      BY <1>3, HeadIsFirst DEF g
    <3>2. b \in FirstOf(t, g)
      BY <1>8, <2>1, <2>3 DEF FirstOf
    <3> QED BY <3>1, <3>2
  <2> QED BY <1>1, <2>1, <2>2, <2>3
<1>10. Cardinality(FirstOf(cx, g)) + n <= env.promote
  <2> DEFINE A == FirstOf(cx, h)
             B == FirstOf(cx, g)
  <2>1. IsFiniteSet(A) /\ Cardinality(A) \in Nat /\ IsFiniteSet(B) /\ Cardinality(B) \in Nat /\ B \in SUBSET (A \cup {h})
    BY <1>9, FirstOfFinite
  <2>2. env.promote \in Nat /\ Cardinality(A) + (n + 1) <= env.promote
    BY <1>1, EnvMeans DEF LoopEnvironment
  <2> HIDE DEF A, B
  <2>3. IsFiniteSet(A \cup {h}) /\ Cardinality(A \cup {h}) \in Nat /\ Cardinality(A \cup {h}) <= Cardinality(A) + 1
    <3>1. IsFiniteSet(A \cup {h}) /\ Cardinality(A \cup {h}) = IF h \in A THEN Cardinality(A) ELSE Cardinality(A) + 1
      BY <2>1, FS_AddElement
    <3> QED BY <2>1, <3>1
  <2>4. Cardinality(B) <= Cardinality(A \cup {h})
    BY <2>1, <2>3, FS_Subset
  <2>5. Cardinality(B) + n <= env.promote
    BY <2>1, <2>2, <2>3, <2>4
  <2> QED BY <2>5 DEF B
<1>11. ASSUME NEW b \in ToSet(cx) PROVE b \in ToSet(t) \/ Precedes(b, g)
  <2>1. CASE b \in ToSet(s)
    BY <1>7, <1>8, <2>1
  <2>2. CASE b \notin ToSet(s)
    <3>1. Precedes(b, h)
      BY <1>1, <2>2
    <3> QED BY <3>1, <1>7, PrecedesChain
  <2> QED BY <2>1, <2>2
<1>12. ASSUME NEW b \in FirstOf(cx, g) PROVE jb[b].status # "absent"
  BY <1>1, <1>9 DEF h, s
<1>13. q.todo = t /\ q.known = r.known
  BY DEF t, s
<1> QED BY <1>1, <1>3, <1>10, <1>11, <1>12, <1>13 DEF AtCandidate, g

(* Where the loop may go.                                                  *)
PlanAt(r, cx, jb, vl) == r \in ArchType /\ PlanOk(r, cx, jb, vl) /\ r.pc # "repair"

(* An architect that sleeps is at no candidate and at no repair.           *)
LEMMA AsleepIs ==
    ASSUME NEW cx, NEW jb, NEW vl
    PROVE  /\ Asleep \in ArchType /\ Asleep.pc \in {"sleep", "off"} /\ PlanAt(Asleep, cx, jb, vl)
           /\ DOMAIN Asleep = {"pc", "stamp", "seen", "todo", "known", "left"}
           /\ Asleep.stamp = 0 /\ Asleep.seen = {} /\ Asleep.todo = << >> /\ Asleep.known = << >> /\ Asleep.left = 0
<1> DEFINE pc == IF env.arch THEN "sleep" ELSE "off"
<1>1. pc \in {"sleep", "off"}
  OBVIOUS
<1>2. Asleep = [pc |-> pc, stamp |-> 0, seen |-> {}, todo |-> << >>, known |-> << >>, left |-> 0]
  BY DEF Asleep
<1> HIDE DEF pc
<1>3. << >> \in Seq(Jobs) /\ << >> \in KnownType
  BY DEF KnownType
<1>4. Asleep \in ArchType /\ Asleep.pc = pc
  <2> HIDE DEF KnownType
  <2> QED BY <1>1, <1>2, <1>3 DEF ArchType
<1>5. PlanAt(Asleep, cx, jb, vl)
  BY <1>1, <1>4 DEF PlanAt, PlanOk
<1> QED BY <1>1, <1>2, <1>4, <1>5

(* ... to the next candidate, or to sleep.                                 *)
LEMMA GoingIs ==
    ASSUME NEW r \in ArchType, r.pc = "each", NEW cx, NEW jb, NEW vl,
           r.todo # << >> /\ r.left # 0 => AtCandidate(r, r.left, cx, jb)
    PROVE  PlanAt(Going(r), cx, jb, vl)
<1>1. CASE r.todo = << >> \/ r.left = 0
  BY <1>1, AsleepIs DEF Going
<1>2. CASE ~ (r.todo = << >> \/ r.left = 0)
  <2>1. Going(r) = r /\ r.left \in Nat /\ r.left > 0
    BY <1>2 DEF Going, ArchType
  <2>2. r.pc # "repair" /\ r.pc # "send"
    OBVIOUS
  <2> QED BY <1>2, <2>1, <2>2 DEF PlanAt, PlanOk
<1> QED BY <1>1, <1>2

(* A promotion that begins is at the first candidate, with all of its      *)
(* limit left.                                                             *)
LEMMA PromotionIs ==
    ASSUME EnvOk, InLine(context), job \in [Jobs -> JobType], NEW vl
    PROVE  PlanAt(Promotion, context, job, vl)
<1> DEFINE q == [Asleep EXCEPT !.pc = "each", !.todo = context, !.known = job, !.left = env.promote]
<1>1. Asleep \in ArchType /\ "each" \in {"off", "sleep", "test", "repair", "send", "each"}
  BY AsleepIs
<1>2. context \in Seq(Jobs) /\ job \in KnownType /\ env.promote \in Nat
  BY EnvMeans DEF InLine, KnownType, LoopEnvironment
<1>3. q \in ArchType /\ q.pc = "each" /\ q.todo = context /\ q.known = job /\ q.left = env.promote
  <2> HIDE DEF KnownType
  <2> QED BY <1>1, <1>2 DEF ArchType
<1> HIDE DEF q
<1>5. ASSUME context # << >> PROVE AtCandidate(q, q.left, context, job)
  <2>1. FirstOf(context, Head(context)) = {}
    BY <1>5, HeadIsFirst
  <2>2. Cardinality(FirstOf(context, Head(context))) = 0
    BY <2>1, FS_EmptySet, Zenon
  <2>3. Cardinality(FirstOf(context, Head(context))) + env.promote <= env.promote
    BY <1>2, <2>2
  <2>4. \A b \in FirstOf(context, Head(context)) : job[b].status # "absent"
    BY <2>1
  <2> QED BY <1>3, <1>5, <2>3, <2>4 DEF AtCandidate
<1>6. PlanAt(Going(q), context, job, vl)
  BY <1>3, <1>5, GoingIs
<1> QED BY <1>6 DEF Promotion, q

(* Fields of the loop.                                                     *)
SamePlan(q, r) == q \in ArchType /\ q.pc = r.pc /\ q.todo = r.todo /\ q.known = r.known /\ q.left = r.left
(* An architect that sees the tree change under its tests keeps its plan.  *)
LEMMA SeesIs ==
    ASSUME arch \in ArchType, tree' \in Nat, ArchSees
    PROVE  SamePlan(arch', arch)
<1> DEFINE S == arch.seen \cup {tree'}
<1>1. S \in SUBSET Nat
  BY DEF ArchType
<1> HIDE DEF S
<1>2. [arch EXCEPT !.seen = S] \in ArchType /\ SamePlan([arch EXCEPT !.seen = S], arch)
  <2> HIDE DEF KnownType
  <2> QED BY <1>1 DEF ArchType, SamePlan
<1> QED BY <1>2 DEF ArchSees, SamePlan, S

(* The plan stands while jobs come and candidates go.                      *)
LEMMA PlanStands ==
    ASSUME EnvOk, NEW r \in ArchType, NEW q, SamePlan(q, r), NEW cx \in Seq(Jobs), NEW dx \in Seq(Jobs),
           NEW jb, NEW kb, NEW vl, PlanOk(r, cx, jb, vl), ToSet(dx) \subseteq ToSet(cx), ToSet(cx) \subseteq Jobs,
           \A j \in Jobs : jb[j].status # "absent" => kb[j].status # "absent"
    PROVE  PlanOk(q, dx, kb, vl)
<1>1. ASSUME NEW n \in Nat, AtCandidate(r, n, cx, jb) PROVE AtCandidate(q, n, dx, kb)
  <2> DEFINE h == Head(r.todo)
             A == FirstOf(cx, h)
             B == FirstOf(dx, h)
  <2>1. B \in SUBSET A /\ A \in SUBSET Jobs
    BY DEF FirstOf
  <2>2. IsFiniteSet(A) /\ Cardinality(A) \in Nat /\ Cardinality(B) \in Nat
    BY FirstOfFinite
  <2>3. Cardinality(B) <= Cardinality(A)
    BY <2>1, <2>2, FS_Subset
  <2>4. Cardinality(A) + n <= env.promote /\ env.promote \in Nat
    BY <1>1, EnvMeans DEF AtCandidate, LoopEnvironment
  <2>5. Cardinality(B) + n <= env.promote
    <3> HIDE DEF A, B
    <3> QED BY <2>2, <2>3, <2>4
  <2>6. \A b \in B : kb[b].status # "absent"
    BY <1>1, <2>1 DEF AtCandidate
  <2> QED BY <1>1, <2>5, <2>6 DEF AtCandidate, SamePlan
<1>2. r.left \in Nat /\ r.left + 1 \in Nat
  BY DEF ArchType
<1>3. ASSUME AtCandidate(r, r.left + 1, cx, jb), jb[Head(r.todo)].status # "absent"
      PROVE  kb[Head(r.todo)].status # "absent"
  <2>1. Head(r.todo) \in Jobs
    BY <1>3, HeadIsFirst DEF AtCandidate
  <2> QED BY <1>3, <2>1
<1> QED BY <1>1, <1>2, <1>3 DEF PlanOk, SamePlan

(* From "send" to the next candidate.                                      *)
LEMMA SendIs ==
    ASSUME EnvOk, PlanInv, Arch("send"), NEW jb,
           \A j \in Jobs : job[j].status # "absent" => jb[j].status # "absent"
    PROVE  PlanAt(Going([arch EXCEPT !.pc = "each", !.todo = Tail(@)]), context, jb, vlog)
<1> DEFINE q == [arch EXCEPT !.pc = "each", !.todo = Tail(@)]
<1>1. arch \in ArchType /\ PlanOk(arch, context, job, vlog) /\ InLine(context) /\ context \in Seq(Jobs)
  BY DEF PlanInv, InLine
<1>2. CASE arch.left = 0 \/ arch.todo = << >>
  <2>1. arch.left = 0
    BY <1>1, <1>2 DEF PlanOk, Arch, AtCandidate
  <2>2. q.left = 0
    BY <1>1, <2>1 DEF ArchType
  <2>3. Going(q) = Asleep
    BY <2>2 DEF Going
  <2> QED BY <2>3, AsleepIs
<1>3. CASE arch.left # 0 /\ arch.todo # << >>
  <2>1. AtCandidate(arch, arch.left + 1, context, job) /\ job[Head(arch.todo)].status # "absent"
    BY <1>1, <1>3 DEF PlanOk, Arch
  <2>2. Tail(arch.todo) \in Seq(Jobs) /\ "each" \in {"off", "sleep", "test", "repair", "send", "each"}
    BY <2>1, TailInLine DEF AtCandidate
  <2> DEFINE T == Tail(arch.todo)
  <2>3. q = [arch EXCEPT !.pc = "each", !.todo = T]
    OBVIOUS
  <2> HIDE DEF T, q
  <2>4. q \in ArchType /\ q.pc = "each" /\ q.todo = T /\ q.known = arch.known /\ q.left = arch.left /\ arch.left \in Nat
    <3> HIDE DEF KnownType
    <3> QED BY <1>1, <2>2, <2>3 DEF ArchType, T
  <2>5. SamePlan(arch, arch)
    BY <1>1 DEF SamePlan
  <2>6. ToSet(context) \subseteq Jobs
    <3>1. ToSet(context) = {context[i] : i \in 1 .. Len(context)}
      BY <1>1, ElementsFinite
    <3> QED BY <1>1, <3>1
  <2>7. PlanOk(arch, context, jb, vlog)
    BY <1>1, <2>5, <2>6, PlanStands
  <2>8. AtCandidate(arch, arch.left + 1, context, jb) /\ jb[Head(arch.todo)].status # "absent"
    BY <1>3, <2>7 DEF PlanOk, Arch
  <2>9. q.todo # << >> => AtCandidate(q, q.left, context, jb)
    BY <1>1, <2>4, <2>8, NextCandidate DEF T
  <2>10. PlanAt(Going(q), context, jb, vlog)
    BY <2>4, <2>9, GoingIs
  <2> QED BY <2>10 DEF q
<1> QED BY <1>2, <1>3

(* A candidate has its job.                                                *)
LEMMA AfterIs ==
    ASSUME EnvOk, PlanInv, Arch("each"), NEW jb, NEW sends,
           \A j \in Jobs : job[j].status # "absent" => jb[j].status # "absent",
           jb[Head(arch.todo)].status # "absent"
    PROVE  PlanAt(After(Head(arch.todo), sends), context, jb, vlog)
<1> DEFINE c == Head(arch.todo)
           n == arch.left - 1
           T == Tail(arch.todo)
           s == [arch EXCEPT !.left = n, !.pc = "send"]
           q == [arch EXCEPT !.left = n, !.todo = T]
<1>1. arch \in ArchType /\ PlanOk(arch, context, job, vlog) /\ InLine(context) /\ context \in Seq(Jobs)
  BY DEF PlanInv, InLine
<1>2. arch.left \in Nat /\ n \in Nat /\ n + 1 = arch.left /\ arch.pc = "each"
  BY <1>1 DEF ArchType, PlanOk, Arch
<1>3. ToSet(context) \subseteq Jobs
  <2>1. ToSet(context) = {context[i] : i \in 1 .. Len(context)}
    BY <1>1, ElementsFinite
  <2> QED BY <1>1, <2>1
<1>4. PlanOk(arch, context, jb, vlog)
  BY <1>1, <1>3, PlanStands DEF SamePlan
<1>5. AtCandidate(arch, n + 1, context, jb)
  BY <1>2, <1>4 DEF PlanOk
<1>6. T \in Seq(Jobs) /\ "send" \in {"off", "sleep", "test", "repair", "send", "each"}
  BY <1>5, TailInLine DEF AtCandidate
<1>7. After(c, sends) = IF sends THEN s ELSE Going(q)
  BY DEF After, Counted
<1> HIDE DEF n, T
<1>8. s \in ArchType /\ s.pc = "send" /\ s.todo = arch.todo /\ s.known = arch.known /\ s.left = n
  <2> HIDE DEF KnownType
  <2> QED BY <1>1, <1>2, <1>6 DEF ArchType
<1>9. q \in ArchType /\ q.pc = "each" /\ q.todo = T /\ q.known = arch.known /\ q.left = n
  <2> HIDE DEF KnownType
  <2> QED BY <1>1, <1>2, <1>6 DEF ArchType
<1> HIDE DEF s, q
<1>10. PlanAt(s, context, jb, vlog)
  <2>1. AtCandidate(s, n + 1, context, jb)
    BY <1>5, <1>8 DEF AtCandidate
  <2> QED BY <1>8, <2>1 DEF PlanAt, PlanOk
<1>11. PlanAt(Going(q), context, jb, vlog)
  <2>1. T # << >> => AtCandidate(q, n, context, jb)
    BY <1>1, <1>2, <1>5, <1>9, NextCandidate DEF T
  <2> QED BY <1>9, <2>1, GoingIs
<1> QED BY <1>7, <1>10, <1>11

(* PlanInv after a step, from what the step did to each of its parts.      *)
LEMMA PlanKept ==
    ASSUME env' = env, arch' \in ArchType, quick' \in QuickType, born' \in Seq(Jobs), IsInjective(born'),
           \A i \in 1 .. Len(born') : job'[born'[i]].status # "absent",
           \A j \in Jobs : round'[j] <= MaxRounds,
           InLine(context'), PlanOk(arch', context', job', vlog'), NewIds(arch', quick', job', vlog'),
           SendOk(quick'), FailureGetsRepair', PromotedInOrder'
    PROVE  PlanInv'
<1>1. InLine(context)'
  BY DEF InLine, Precedes
<1>2. ASSUME NEW n PROVE AtCandidate(arch', n, context', job') <=> AtCandidate(arch, n, context, job)'
  BY DEF AtCandidate, InLine, Precedes, FirstOf
<1>3. PlanOk(arch, context, job, vlog)'
  <2>1. AtCandidate(arch', arch'.left, context', job') <=> AtCandidate(arch, arch.left, context, job)'
    BY DEF AtCandidate, InLine, Precedes, FirstOf
  <2>2. AtCandidate(arch', arch'.left + 1, context', job') <=> AtCandidate(arch, arch.left + 1, context, job)'
    BY DEF AtCandidate, InLine, Precedes, FirstOf
  <2> QED BY <2>1, <2>2 DEF PlanOk
<1>4. NewIds(arch, quick, job, vlog)' /\ SendOk(quick)'
  BY DEF NewIds, SendOk
<1>5. (\A i \in 1 .. Len(born) : Exists(born[i]))' /\ (IsInjective(born))'
  BY DEF Exists, IsInjective
<1> QED BY <1>1, <1>3, <1>4, <1>5 DEF PlanInv

SameJobs == \A x \in Jobs : job[x].status = "absent" <=> job'[x].status = "absent"
(* The ids of repairs are jobs, one for each verification, and neither     *)
(* candidates nor the seed.                                                *)
LEMMA Repairing ==
    ASSUME EnvOk
    PROVE  /\ RepairIds \in Seq(Jobs) /\ Len(RepairIds) \in Nat /\ \A i \in 1 .. Len(RepairIds) : RepairIds[i] \in Jobs
           /\ \A i, k \in 1 .. Len(RepairIds) : RepairIds[i] = RepairIds[k] => i = k
           /\ \A i \in 1 .. Len(RepairIds) : RepairIds[i] \notin ToSet(env.context) /\ RepairIds[i] # env.seed
           /\ env.seed \notin ToSet(env.context)
<1>1. RepairIds \in Seq(Jobs \cap RecordIds)
  BY OfficeAssumption
<1>2. RepairIds \in Seq(Jobs) /\ Len(RepairIds) \in Nat /\ DOMAIN RepairIds = 1 .. Len(RepairIds)
  BY <1>1
<1>3. \A i, k \in 1 .. Len(RepairIds) : RepairIds[i] = RepairIds[k] => i = k
  BY <1>2, EnvMeans DEF LoopEnvironment, IsInjective
<1>4. ToSet(RepairIds) = {RepairIds[i] : i \in 1 .. Len(RepairIds)}
  BY <1>2, ElementsFinite
<1>5. ToSet(RepairIds) \cap (env.queued \cup ToSet(env.context) \cup {env.seed}) = {}
  BY EnvMeans DEF LoopEnvironment
<1>6. env.seed \notin ToSet(env.context)
  BY EnvMeans DEF LoopEnvironment
<1> QED BY <1>2, <1>3, <1>4, <1>5, <1>6

(* Steps at which no job is made.                                          *)
LEMMA PlanQuiet ==
    ASSUME EnvOk, LoopInv, PlanInv, env' = env, SameJobs, \A j \in Jobs : round'[j] <= MaxRounds,
           UNCHANGED <<born, vlog, order>>, InLine(context'), arch' \in ArchType, PlanOk(arch', context', job', vlog),
           arch'.pc = "repair" => arch.pc = "repair", dropped \subseteq dropped',
           arch.pc = "repair" => arch'.pc = "repair" \/ Len(vlog) \in dropped',
           quick' \in QuickType, quick'.seen = quick.seen, SendOk(quick')
    PROVE  PlanInv'
<1>1. NewIds(arch', quick', job', vlog')
  <2>1. NewIds(arch, quick, job, vlog)
    BY DEF PlanInv
  <2>2. env.seed \in Jobs \cup {"none"}
    BY EnvMeans DEF LoopEnvironment
  <2> QED BY <2>1, <2>2, Repairing DEF NewIds, SameJobs
<1>2. FailureGetsRepair'
  <2>1. Len(vlog) <= Len(RepairIds) /\ Len(vlog) \in Nat /\ Len(RepairIds) \in Nat
    BY Repairing DEF LoopInv
  <2>2. ASSUME NEW i \in 1 .. Len(vlog), vlog[i].status = "failed"
        PROVE  job'[RepairIds[i]].status # "absent" \/ i \in dropped' \/ (arch'.pc = "repair" /\ i = Len(vlog))
    <3>1. job[RepairIds[i]].status # "absent" \/ i \in dropped \/ (arch.pc = "repair" /\ i = Len(vlog))
      BY <2>2 DEF PlanInv, FailureGetsRepair, Exists, Arch
    <3>2. RepairIds[i] \in Jobs
      BY <2>1, Repairing
    <3> QED BY <3>1, <3>2 DEF SameJobs
  <2> QED BY <2>2 DEF FailureGetsRepair, Exists, Arch
<1>3. PromotedInOrder'
  BY DEF PlanInv, PromotedInOrder
<1>4. /\ born' \in Seq(Jobs) /\ IsInjective(born')
      /\ \A i \in 1 .. Len(born') : job'[born'[i]].status # "absent"
  BY DEF PlanInv, Exists, SameJobs
<1>5. PlanOk(arch', context', job', vlog')
  BY DEF PlanOk
<1> QED BY <1>1, <1>2, <1>3, <1>4, <1>5, PlanKept

(* What is left of the candidates is a part of the set-up's list.          *)
LEMMA Candidates == ASSUME PlanInv PROVE context \in Seq(Jobs) /\ ToSet(context) \subseteq Jobs /\ ToSet(context) \subseteq ToSet(env.context)
<1>1. context \in Seq(Jobs)
  BY DEF PlanInv, InLine
<1>2. ToSet(context) = {context[i] : i \in 1 .. Len(context)}
  BY <1>1, ElementsFinite
<1> QED BY <1>1, <1>2 DEF PlanInv, InLine

(* ... and the loops do nothing.                                           *)
LEMMA PlanRests ==
    ASSUME EnvOk, LoopInv, PlanInv, env' = env, SameJobs, \A j \in Jobs : round'[j] <= MaxRounds,
           UNCHANGED <<born, vlog, order, context, dropped, quick>>, SamePlan(arch', arch)
    PROVE  PlanInv'
<1>1. InLine(context') /\ quick' \in QuickType /\ SendOk(quick') /\ quick'.seen = quick.seen
  BY DEF PlanInv
<1>2. PlanOk(arch', context', job', vlog)
  BY Candidates, PlanStands DEF PlanInv, SameJobs
<1> QED BY <1>1, <1>2, PlanQuiet DEF SamePlan

(* A job is made.                                                          *)
LEMMA PlanCreates ==
    ASSUME EnvOk, LoopInv, WorkInv, PlanInv, env' = env, NEW c \in Jobs, ~ Exists(c), CreatedJob(c),
           UNCHANGED <<round, vlog, context, dropped>>, arch' \in ArchType, PlanOk(arch', context, job', vlog),
           NewIds(arch', quick', job', vlog),
           arch.pc = "repair" => arch'.pc = "repair" \/ c = RepairIds[Len(vlog)],
           quick' \in QuickType, SendOk(quick'), PromotedInOrder'
    PROVE  PlanInv'
<1>0. job \in [Jobs -> JobType] /\ job' = [job EXCEPT ![c].status = "queued"] /\ born' = Append(born, c)
  BY DEF WorkInv, WorkTypes, CreatedJob
<1>1. \A x \in Jobs : job'[x].status = IF x = c THEN "queued" ELSE job[x].status
  BY <1>0 DEF JobType
<1>2. /\ born' \in Seq(Jobs) /\ IsInjective(born')
      /\ \A i \in 1 .. Len(born') : job'[born'[i]].status # "absent"
  <2>1. born \in Seq(Jobs) /\ Len(born) \in Nat /\ \A i \in 1 .. Len(born) : Exists(born[i]) /\ born[i] \in Jobs
    BY DEF PlanInv
  <2>2. \A i, k \in 1 .. Len(born) : born[i] = born[k] => i = k
    BY <2>1 DEF PlanInv, IsInjective
  <2>3. /\ born' \in Seq(Jobs) /\ Len(born') = Len(born) + 1 /\ born'[Len(born) + 1] = c
        /\ \A i \in 1 .. Len(born) : born'[i] = born[i]
    BY <1>0, <2>1
  <2>4. ASSUME NEW i \in 1 .. Len(born'), i # Len(born) + 1 PROVE i \in 1 .. Len(born) /\ born'[i] # c
    BY <2>1, <2>3, <2>4
  <2>5. \A i, k \in 1 .. Len(born') : born'[i] = born'[k] => i = k
    BY <2>2, <2>3, <2>4
  <2>6. DOMAIN born' = 1 .. Len(born')
    BY <2>3
  <2>7. IsInjective(born')
    BY <2>5, <2>6 DEF IsInjective
  <2>8. \A i \in 1 .. Len(born') : job'[born'[i]].status # "absent"
    BY <1>1, <2>1, <2>3, <2>4 DEF Exists
  <2> QED BY <2>3, <2>7, <2>8
<1>3. FailureGetsRepair'
  <2>1. Len(vlog) <= Len(RepairIds) /\ Len(vlog) \in Nat /\ Len(RepairIds) \in Nat
    BY Repairing DEF LoopInv
  <2>2. ASSUME NEW i \in 1 .. Len(vlog), vlog[i].status = "failed"
        PROVE  job'[RepairIds[i]].status # "absent" \/ i \in dropped' \/ (arch'.pc = "repair" /\ i = Len(vlog))
    <3>1. job[RepairIds[i]].status # "absent" \/ i \in dropped \/ (arch.pc = "repair" /\ i = Len(vlog))
      BY <2>2 DEF PlanInv, FailureGetsRepair, Exists, Arch
    <3>2. RepairIds[i] \in Jobs
      BY <2>1, Repairing
    <3> QED BY <1>1, <3>1, <3>2
  <2> QED BY <2>2 DEF FailureGetsRepair, Exists, Arch
<1>4. InLine(context') /\ \A j \in Jobs : round'[j] <= MaxRounds
  BY DEF PlanInv
<1> QED BY <1>2, <1>3, <1>4, PlanKept

RoundsOk == \A x \in Jobs : round'[x] <= MaxRounds
(* A step that leaves the jobs alone makes none.                           *)
LEMMA NothingMade ==
    ASSUME PlanInv, UNCHANGED <<job, round>>
    PROVE  SameJobs /\ RoundsOk
BY DEF SameJobs, RoundsOk, PlanInv

(* A dispatch finds its job there, and there is room for another round.    *)
LEMMA DispatchKeeps ==
    ASSUME WorkInv, PlanInv, NEW j, Dispatchable(j), NEW r \in DispatchResults, Dispatched(j, r)
    PROVE  SameJobs /\ RoundsOk
<1>1. job \in [Jobs -> JobType] /\ round \in [Jobs -> Nat]
  BY DEF WorkInv, WorkTypes
<1>2. job' = [job EXCEPT ![j] = r] /\ round' = [round EXCEPT ![j] = @ + 1]
  BY DEF Dispatched
<1>3. job[j].status # "absent" /\ r.status # "absent" /\ round[j] < MaxRounds
  BY DEF Dispatchable, DispatchResults
<1>4. \A x \in Jobs : round[x] <= MaxRounds
  BY DEF PlanInv
<1>5. SameJobs
  BY <1>1, <1>2, <1>3 DEF SameJobs
<1>6. \A x \in Jobs : round'[x] <= MaxRounds
  <2>1. MaxRounds \in Nat
    BY OfficeAssumption
  <2> QED BY <1>1, <1>2, <1>3, <1>4, <2>1
<1> QED BY <1>5, <1>6 DEF RoundsOk

(* Sending a job makes none.                                               *)
LEMMA SentKeeps == ASSUME WorkInv, PlanInv, NEW j, Sent(j) PROVE SameJobs /\ RoundsOk
BY DispatchKeeps, NothingMade DEF Sent

(* A report is about a job that is there.                                  *)
LEMMA ReportMakesNone ==
    ASSUME EnvOk, WorkInv, PlanInv, NEW w \in Workers, Report(w)
    PROVE  SameJobs /\ RoundsOk
<1>1. wk[w].pc = "report" /\ UNCHANGED <<round, takes, unheard>> /\ (job' = job \/ Recorded(w))
  BY DEF Report, ReportAccepted, ReportRefused, ReportUnheard, At, daemonVars
<1>2. CASE job' = job
  BY <1>1, <1>2, NothingMade
<1>3. CASE Recorded(w)
  <2> DEFINE j == Current(w).job
  <2>1. j \in Jobs /\ job'[j].status = wk[w].rep /\ \A x \in Jobs : x # j => job'[x] = job[x]
    BY <1>1, <1>3, RecordedOk
  <2>2. wk[w].rep \in Terminal /\ RunOk(Current(w), file, job, round)
    BY <1>1, AtReport
  <2>3. job[j].status # "absent" /\ wk[w].rep # "absent"
    BY <2>2 DEF RunOk, Outdated, Terminal
  <2> HIDE DEF j
  <2>4. SameJobs
    BY <2>1, <2>3 DEF SameJobs
  <2>5. RoundsOk
    BY <1>1 DEF RoundsOk, PlanInv
  <2> QED BY <2>4, <2>5
<1> QED BY <1>1, <1>2, <1>3

(* Workers make no jobs; they run those there are.                         *)
LEMMA WorkerMakesNone ==
    ASSUME EnvOk, WorkInv, PlanInv, NEW w \in Workers, WorkerStep(w) \/ Kill(w) \/ StartWorker(w) \/ WorkerExits(w)
    PROVE  SameJobs /\ RoundsOk /\ env' = env /\ UNCHANGED born /\ (tree' = tree \/ tree' = tree + 1)
<1>1. CASE Poll(w) \/ StartRun(w) \/ StartFails(w) \/ Kill(w) \/ StartWorker(w) \/ WorkerExits(w) \/ Finish(w)
  <2>1. UNCHANGED <<job, round, born, env, tree>>
    BY <1>1 DEF Poll, StartRun, StartFails, Kill, StartWorker, WorkerExits, Finish, daemonVars
  <2> QED BY <2>1, NothingMade
<1>2. CASE Write(w)
  <2>1. UNCHANGED <<job, round, born, env>> /\ tree' = tree + 1
    BY <1>2 DEF Write, daemonVars, Changes
  <2> QED BY <2>1, NothingMade
<1>3. CASE DispatchQueued(w)
  <2>1. UNCHANGED <<born, env, tree>>
    BY <1>3 DEF DispatchQueued
  <2>2. CASE ~ Dispatchable(Entry(w).id)
    BY <1>3, <2>1, <2>2, NothingMade DEF DispatchQueued
  <2>3. CASE Dispatchable(Entry(w).id)
    <3>1. PICK r \in DispatchResults : Dispatched(Entry(w).id, r)
      BY <1>3, <2>3 DEF DispatchQueued
    <3> QED BY <2>1, <2>3, <3>1, DispatchKeeps
  <2> QED BY <2>2, <2>3
<1>4. CASE Report(w)
  <2>1. UNCHANGED <<born, env, tree>>
    BY <1>4 DEF Report, ReportAccepted, ReportRefused, ReportUnheard, daemonVars
  <2> QED BY <1>4, <2>1, ReportMakesNone
<1> QED BY <1>1, <1>2, <1>3, <1>4 DEF WorkerStep

(* Nor does reclaiming on restart.                                         *)
LEMMA ReclaimMakesNone ==
    ASSUME WorkInv, PlanInv, job' = Reclaimed, round' = round
    PROVE  SameJobs /\ RoundsOk
<1>1. job \in [Jobs -> JobType]
  BY DEF WorkInv, WorkTypes
<1>2. ASSUME NEW x \in JobType PROVE [x EXCEPT !.status = "failed"].status = "failed"
  BY DEF JobType
<1>3. \A j \in Jobs : job'[j].status = IF job[j].status = "running" THEN "failed" ELSE job[j].status
  BY <1>1, <1>2 DEF Reclaimed
<1> QED BY <1>3 DEF SameJobs, RoundsOk, PlanInv
-----------------------------------------------------------------------------
(* A loop that does not move keeps its plan.                               *)
LEMMA PlanSelf == ASSUME PlanInv, UNCHANGED arch PROVE SamePlan(arch', arch)
BY DEF PlanInv, SamePlan

(* The workers leave the loops' plan alone.                                *)
LEMMA PlanWork ==
    ASSUME EnvOk, LoopInv, WorkInv, PlanInv, NEW w \in Workers,
           WorkerStep(w) \/ Kill(w) \/ StartWorker(w) \/ WorkerExits(w), ArchSees, Shared
    PROVE  PlanInv'
<1>1. SameJobs /\ RoundsOk /\ env' = env /\ UNCHANGED born /\ (tree' = tree \/ tree' = tree + 1)
  BY WorkerMakesNone
<1>2. tree' \in Nat /\ arch \in ArchType
  BY <1>1 DEF LoopInv, PlanInv
<1>3. SamePlan(arch', arch)
  BY <1>2, SeesIs
<1> QED BY <1>1, <1>3, PlanRests DEF Shared, RoundsOk

(* So does a client that dispatches a job.                                 *)
LEMMA PlanClient ==
    ASSUME EnvOk, LoopInv, WorkInv, PlanInv, NEW j \in Jobs, ClientDispatches(j), UNCHANGED loopVars
    PROVE  PlanInv'
<1>1. env' = env /\ UNCHANGED <<born, vlog, order, context, dropped, quick, arch>>
  BY DEF ClientDispatches, loopVars
<1>2. SameJobs /\ RoundsOk
  BY DispatchKeeps DEF ClientDispatches
<1> QED BY <1>1, <1>2, PlanSelf, PlanRests DEF RoundsOk

(* A developer who changes the tree under the loop spoils no plan.         *)
LEMMA PlanDevelop ==
    ASSUME EnvOk, LoopInv, PlanInv, Develop, ArchSees, Shared
    PROVE  PlanInv'
<1>1. env' = env /\ UNCHANGED <<born, job, round>> /\ tree' = tree + 1
  BY DEF Develop, daemonVars, Changes
<1>2. tree' \in Nat /\ arch \in ArchType
  BY <1>1 DEF LoopInv, PlanInv
<1>3. SamePlan(arch', arch)
  BY <1>2, SeesIs
<1> QED BY <1>1, <1>3, NothingMade, PlanRests DEF Shared, RoundsOk

(* A line with one of its elements taken out is a line.                    *)
LEMMA RemovedInLine ==
    ASSUME NEW s, InLine(s), NEW i \in 1 .. Len(s)
    PROVE  InLine(RemoveAt(s, i)) /\ ToSet(RemoveAt(s, i)) \subseteq ToSet(s) /\ RemoveAt(s, i) \in Seq(Jobs)
<1> DEFINE t == RemoveAt(s, i)
           at(k) == IF k < i THEN k ELSE k + 1
<1>1. s \in Seq(Jobs) /\ Len(s) \in Nat
  BY DEF InLine
<1>2. t \in Seq(Jobs) /\ Len(t) = Len(s) - 1 /\ \A k \in 1 .. Len(s) - 1 : t[k] = s[at(k)]
  BY <1>1, RemoveAtFacts
<1>3. \A k \in 1 .. Len(t) : at(k) \in 1 .. Len(s) /\ t[k] = s[at(k)]
  BY <1>1, <1>2
<1>4. \A k, m \in 1 .. Len(t) : k < m => at(k) < at(m)
  BY <1>1, <1>2
<1> HIDE DEF at, t
<1>5. InLine(t)
  BY <1>2, <1>3, <1>4 DEF InLine
<1>6. ToSet(t) = {t[k] : k \in 1 .. Len(t)} /\ ToSet(s) = {s[k] : k \in 1 .. Len(s)}
  BY <1>1, <1>2, ElementsFinite
<1>7. ToSet(t) \subseteq ToSet(s)
  BY <1>3, <1>6
<1> QED BY <1>2, <1>5, <1>7 DEF t

(* Settling a candidate takes it out of the line; the promotion under way  *)
(* goes on with its own copy.                                              *)
LEMMA PlanSettle == ASSUME EnvOk, LoopInv, PlanInv, Settle PROVE PlanInv'
<1>1. env' = env /\ UNCHANGED <<born, vlog, order, dropped, quick, arch, job, round>>
  BY DEF Settle, quietDaemon, daemonVars
<1>2. PICK i \in 1 .. Len(context) : context' = RemoveAt(context, i)
  BY DEF Settle
<1>3. InLine(context') /\ ToSet(context') \subseteq ToSet(context) /\ context' \in Seq(Jobs)
  BY <1>2, RemovedInLine DEF PlanInv
<1>4. SameJobs /\ RoundsOk
  BY <1>1, NothingMade
<1>5. arch \in ArchType /\ PlanOk(arch, context, job, vlog) /\ SamePlan(arch, arch)
  BY DEF PlanInv, SamePlan
<1>6. PlanOk(arch, context', job, vlog)
  BY <1>3, <1>5, Candidates, PlanStands
<1>7. quick' \in QuickType /\ SendOk(quick') /\ quick'.seen = quick.seen
  BY <1>1 DEF PlanInv
<1> QED BY <1>1, <1>3, <1>4, <1>5, <1>6, <1>7, PlanQuiet DEF RoundsOk

(* The loop gives up what it was at.                                       *)
LEMMA PlanRestart == ASSUME EnvOk, LoopInv, WorkInv, PlanInv, Restart PROVE PlanInv'
<1>1. env' = env /\ UNCHANGED <<born, vlog, order, quick, context, round>> /\ arch' = Asleep /\ job' = Reclaimed
  BY DEF Restart, quietDaemon, SetArch
<1>2. SameJobs /\ RoundsOk
  BY <1>1, ReclaimMakesNone
<1>3. dropped \subseteq dropped' /\ (arch.pc = "repair" => Len(vlog) \in dropped')
  BY DEF Restart, Arch
<1>4. InLine(context') /\ quick' \in QuickType /\ SendOk(quick') /\ quick'.seen = quick.seen
  BY <1>1 DEF PlanInv
<1>5. arch' \in ArchType /\ PlanOk(arch', context', job', vlog) /\ arch'.pc # "repair"
  BY <1>1, AsleepIs DEF PlanAt
<1> QED BY <1>1, <1>2, <1>3, <1>4, <1>5, PlanQuiet DEF RoundsOk

(* Steps of the loop that make no job.                                     *)
LEMMA PlanMoves ==
    ASSUME EnvOk, LoopInv, WorkInv, PlanInv, env' = env, SameJobs, RoundsOk,
           UNCHANGED <<born, vlog, order, context, quick, dropped>>, arch.pc # "repair",
           PlanAt(arch', context, job', vlog)
    PROVE  PlanInv'
<1>1. InLine(context') /\ quick' \in QuickType /\ SendOk(quick') /\ quick'.seen = quick.seen
  BY DEF PlanInv
<1>2. arch' \in ArchType /\ PlanOk(arch', context', job', vlog) /\ arch'.pc # "repair"
  BY DEF PlanAt
<1> QED BY <1>1, <1>2, PlanQuiet DEF RoundsOk

(* A tick begins the tests or the promotion.                               *)
LEMMA PlanTick == ASSUME EnvOk, LoopInv, WorkInv, PlanInv, Tick PROVE PlanInv'
<1>1. env' = env /\ UNCHANGED <<born, vlog, order, context, quick, dropped, job, round>> /\ arch.pc # "repair"
  BY DEF Tick, workVars, Arch
<1>2. SameJobs /\ RoundsOk
  BY <1>1, NothingMade
<1>3. CASE Stale
  <2> DEFINE q == [Asleep EXCEPT !.pc = "test", !.stamp = repoVerificationStamp, !.seen = {tree}]
  <2>1. arch' = q
    BY <1>3 DEF Tick, SetArch
  <2>2. repoVerificationStamp \in Nat /\ {tree} \in SUBSET Nat /\ Asleep \in ArchType
        /\ "test" \in {"off", "sleep", "test", "repair", "send", "each"}
    BY AsleepIs DEF LoopInv, repoVerificationStamp
  <2> DEFINE N == {tree}
  <2>3. q = [Asleep EXCEPT !.pc = "test", !.stamp = repoVerificationStamp, !.seen = N]
    OBVIOUS
  <2> HIDE DEF N, q
  <2>4. q \in ArchType /\ q.pc = "test"
    <3> HIDE DEF KnownType
    <3> QED BY <2>2, <2>3 DEF ArchType, N
  <2>5. PlanAt(arch', context, job', vlog)
    BY <2>1, <2>4 DEF PlanAt, PlanOk
  <2> QED BY <1>1, <1>2, <2>5, PlanMoves
<1>4. CASE ~ Stale
  <2>1. arch' = Promotion /\ job' = job
    BY <1>1, <1>4 DEF Tick, SetArch
  <2>2. PlanAt(arch', context, job', vlog)
    BY <2>1, PromotionIs DEF PlanInv, WorkInv, WorkTypes
  <2> QED BY <1>1, <1>2, <2>2, PlanMoves
<1> QED BY <1>3, <1>4

(* A verification whose record is lost is followed by the promotion.       *)
LEMMA PlanLost == ASSUME EnvOk, LoopInv, WorkInv, PlanInv, VerificationLost PROVE PlanInv'
<1>1. env' = env /\ UNCHANGED <<born, vlog, order, context, quick, dropped, job, round>> /\ arch.pc # "repair"
      /\ arch' = Promotion
  BY DEF VerificationLost, daemonVars, quietDaemon, Arch, SetArch
<1>2. SameJobs /\ RoundsOk
  BY <1>1, NothingMade
<1>3. PlanAt(arch', context, job', vlog)
  BY <1>1, PromotionIs DEF PlanInv, WorkInv, WorkTypes
<1> QED BY <1>1, <1>2, <1>3, PlanMoves

(* A create that fails ends the promotion.                                 *)
LEMMA PlanFails == ASSUME EnvOk, LoopInv, WorkInv, PlanInv, EnsureFails PROVE PlanInv'
<1>1. env' = env /\ UNCHANGED <<born, vlog, order, context, quick, dropped, job, round>> /\ arch.pc # "repair"
      /\ arch' = Asleep
  BY DEF EnsureFails, daemonVars, quietDaemon, Arch, SetArch
<1>2. SameJobs /\ RoundsOk
  BY <1>1, NothingMade
<1>3. PlanAt(arch', context, job', vlog)
  BY <1>1, AsleepIs
<1> QED BY <1>1, <1>2, <1>3, PlanMoves

(* Sending the job of the head goes on to the next candidate.              *)
LEMMA PlanSend == ASSUME EnvOk, LoopInv, WorkInv, PlanInv, Send PROVE PlanInv'
<1>1. env' = env /\ UNCHANGED <<born, vlog, order, context, quick, dropped>> /\ arch.pc # "repair"
      /\ arch' = Going([arch EXCEPT !.pc = "each", !.todo = Tail(@)]) /\ Arch("send")
  BY DEF Send, quietDaemon, Arch, SetArch
<1>2. SameJobs /\ RoundsOk
  BY SentKeeps DEF Send
<1>3. PlanAt(arch', context, job', vlog)
  BY <1>1, <1>2, SendIs DEF SameJobs
<1> QED BY <1>1, <1>2, <1>3, PlanMoves

(* A repair that cannot be made is dropped, and known to be.               *)
LEMMA PlanRepairFails == ASSUME EnvOk, LoopInv, WorkInv, PlanInv, RepairFails PROVE PlanInv'
<1>1. env' = env /\ UNCHANGED <<born, vlog, order, quick, context, round, job>> /\ arch' = Asleep
      /\ dropped' = dropped \cup {Len(vlog)}
  BY DEF RepairFails, quietDaemon, daemonVars, SetArch
<1>2. SameJobs /\ RoundsOk
  BY <1>1, NothingMade
<1>4. InLine(context') /\ quick' \in QuickType /\ SendOk(quick') /\ quick'.seen = quick.seen
  BY <1>1 DEF PlanInv
<1>5. arch' \in ArchType /\ PlanOk(arch', context', job', vlog) /\ arch'.pc # "repair"
  BY <1>1, AsleepIs DEF PlanAt
<1> QED BY <1>1, <1>2, <1>4, <1>5, PlanQuiet DEF RoundsOk

(* A candidate whose job is on record is not made a second time.           *)
LEMMA PlanExisting == ASSUME EnvOk, LoopInv, WorkInv, PlanInv, EnsureExisting PROVE PlanInv'
<1> DEFINE c == Head(arch.todo)
           s == IF arch.known[c].status # "absent" THEN arch.known[c].status ELSE job[c].status
<1>1. env' = env /\ UNCHANGED <<born, vlog, order, context, quick, dropped, job, round>> /\ arch.pc = "each"
      /\ arch' = After(c, Retried(s)) /\ s # "absent" /\ Arch("each")
  BY DEF EnsureExisting, workVars, Arch, SetArch
<1>2. SameJobs /\ RoundsOk
  BY <1>1, NothingMade
<1>3. AtCandidate(arch, arch.left, context, job) /\ InLine(arch.todo) /\ arch.todo # << >>
  BY <1>1 DEF PlanInv, PlanOk, AtCandidate
<1>4. c \in Jobs
  BY <1>3, HeadIsFirst
<1>5. job[c].status # "absent"
  BY <1>1, <1>3, <1>4 DEF AtCandidate
<1> DEFINE R == Retried(s)
<1> HIDE DEF R
<1>6. PlanAt(After(c, R), context, job, vlog)
  BY <1>1, <1>5, AfterIs
<1>7. PlanAt(arch', context, job', vlog)
  BY <1>1, <1>6 DEF R
<1> QED BY <1>1, <1>2, <1>7, PlanMoves

(* A verification that ends is on record; where it failed, its repair is   *)
(* what comes next.                                                        *)
LEMMA PlanVerified == ASSUME EnvOk, LoopInv, WorkInv, PlanInv, VerificationEnds PROVE PlanInv'
<1>1. env' = env /\ UNCHANGED <<born, order, context, quick, dropped, job, round>> /\ arch.pc = "test"
      /\ Len(vlog) < Len(RepairIds)
  BY DEF VerificationEnds, workVars, Arch
<1>2. PICK v \in env.verdicts : /\ vlog' = Append(vlog, [stamp |-> StampNoted, seen |-> arch.seen, status |-> v])
                                /\ arch' = AfterVerdict(v)
  BY DEF VerificationEnds, SetArch
<1> DEFINE n == Len(vlog) + 1
<1>3. /\ Len(vlog) \in Nat /\ Len(vlog') = n /\ vlog'[n].status = v
      /\ \A i \in 1 .. Len(vlog) : vlog'[i] = vlog[i]
  BY <1>2 DEF LoopInv
<1>4. /\ arch' \in ArchType /\ PlanOk(arch', context, job, vlog')
      /\ arch'.pc = "repair" <=> v = "failed"
  <2>1. CASE v = "failed"
    <3>1. Asleep \in ArchType /\ "repair" \in {"off", "sleep", "test", "repair", "send", "each"}
      BY AsleepIs
    <3>2. arch' = [Asleep EXCEPT !.pc = "repair"]
      BY <1>2, <2>1 DEF AfterVerdict
    <3>3. arch' \in ArchType /\ arch'.pc = "repair"
      <4> HIDE DEF KnownType
      <4> QED BY <3>1, <3>2 DEF ArchType
    <3> QED BY <1>3, <2>1, <3>3 DEF PlanOk
  <2>2. CASE v # "failed"
    <3>1. arch' = Promotion
      BY <1>2, <2>2 DEF AfterVerdict
    <3>2. PlanAt(Promotion, context, job, vlog')
      BY PromotionIs DEF PlanInv, WorkInv, WorkTypes
    <3> QED BY <2>2, <3>1, <3>2 DEF PlanAt
  <2> QED BY <2>1, <2>2
<1>5. NewIds(arch', quick', job', vlog')
  <2>1. NewIds(arch, quick, job, vlog) /\ Len(RepairIds) \in Nat
    BY Repairing DEF PlanInv
  <2>2. ASSUME NEW i \in 1 .. Len(RepairIds), i > Len(vlog') \/ (i = Len(vlog') /\ arch'.pc = "repair")
        PROVE  job'[RepairIds[i]].status = "absent"
    <3>1. i > Len(vlog)
      BY <1>3, <2>1, <2>2
    <3> QED BY <1>1, <2>1, <3>1 DEF NewIds
  <2> QED BY <1>1, <2>1, <2>2 DEF NewIds
<1>6. FailureGetsRepair'
  <2>1. ASSUME NEW i \in 1 .. Len(vlog'), vlog'[i].status = "failed"
        PROVE  job'[RepairIds[i]].status # "absent" \/ i \in dropped' \/ (arch'.pc = "repair" /\ i = Len(vlog'))
    <3>1. CASE i = n
      BY <1>3, <1>4, <2>1, <3>1
    <3>2. CASE i # n
      <4>1. i \in 1 .. Len(vlog) /\ vlog[i].status = "failed"
        BY <1>3, <2>1, <3>2
      <4> QED BY <1>1, <4>1 DEF PlanInv, FailureGetsRepair, Exists, Arch
    <3> QED BY <3>1, <3>2
  <2> QED BY <2>1 DEF FailureGetsRepair, Exists, Arch
<1>7. PromotedInOrder' /\ InLine(context') /\ quick' \in QuickType /\ SendOk(quick') /\ born' \in Seq(Jobs)
      /\ IsInjective(born') /\ \A j \in Jobs : round'[j] <= MaxRounds
  BY <1>1 DEF PlanInv, PromotedInOrder
<1>8. \A i \in 1 .. Len(born') : job'[born'[i]].status # "absent"
  BY <1>1 DEF PlanInv, Exists
<1>9. PlanOk(arch', context', job', vlog')
  BY <1>1, <1>4
<1> QED BY <1>1, <1>4, <1>5, <1>6, <1>7, <1>8, <1>9, PlanKept

(* A job that is made is there, like all the others.                       *)
LEMMA CreatedIs ==
    ASSUME WorkInv, NEW c \in Jobs, CreatedJob(c)
    PROVE  /\ \A x \in Jobs : job'[x].status = IF x = c THEN "queued" ELSE job[x].status
           /\ \A x \in Jobs : job[x].status # "absent" => job'[x].status # "absent"
<1>1. job \in [Jobs -> JobType] /\ job' = [job EXCEPT ![c].status = "queued"]
  BY DEF WorkInv, WorkTypes, CreatedJob
<1>2. \A x \in Jobs : job'[x].status = IF x = c THEN "queued" ELSE job[x].status
  BY <1>1 DEF JobType
<1> QED BY <1>2

(* A repair is a job of its own.                                           *)
LEMMA RepairIsNew ==
    ASSUME EnvOk, LoopInv, PlanInv, arch.pc = "repair"
    PROVE  Len(vlog) \in 1 .. Len(RepairIds) /\ RepairId \in Jobs /\ ~ Exists(RepairId)
<1> DEFINE n == Len(vlog)
<1>1. n \in 1 .. Len(RepairIds)
  <2>1. vlog # << >> /\ Len(vlog) <= Len(RepairIds) /\ vlog \in Seq(VerificationType)
    BY DEF PlanInv, PlanOk, LoopInv
  <2>2. n \in Nat /\ n # 0
    BY <2>1
  <2> HIDE DEF n
  <2> QED BY <2>1, <2>2, Repairing DEF n
<1>2. RepairId \in Jobs
  BY <1>1, Repairing DEF RepairId
<1> QED BY <1>1, <1>2 DEF PlanInv, NewIds, Exists, RepairId

(* The repair that is made is that of the last verification, and is new.   *)
LEMMA PlanRepair == ASSUME EnvOk, LoopInv, WorkInv, PlanInv, Repair PROVE PlanInv'
<1> DEFINE n == Len(vlog)
           c == RepairIds[n]
<1>1. env' = env /\ UNCHANGED <<round, order, context, quick, dropped, vlog>> /\ arch.pc = "repair" /\ CreatedJob(c)
  BY DEF Repair, quietDaemon, Arch, RepairId
<1>2. n \in 1 .. Len(RepairIds) /\ c \in Jobs
  BY <1>1, RepairIsNew DEF RepairId
<1>3. ~ Exists(c)
  BY <1>1, RepairIsNew DEF RepairId
<1>4. arch' \in ArchType /\ PlanOk(arch', context, job', vlog) /\ arch'.pc # "repair"
  <2>1. CASE arch' = Asleep
    BY <2>1, AsleepIs DEF PlanAt
  <2>2. CASE arch' = [Asleep EXCEPT !.pc = "send", !.todo = <<RepairId>>]
    <3> DEFINE T == <<RepairId>>
    <3>1. T \in Seq(Jobs) /\ Asleep \in ArchType /\ Asleep.left = 0 /\ "send" \in {"off", "sleep", "test", "repair", "send", "each"}
      BY <1>2, AsleepIs DEF RepairId
    <3>2. arch' = [Asleep EXCEPT !.pc = "send", !.todo = T]
      BY <2>2
    <3> HIDE DEF T
    <3>3. arch' \in ArchType /\ arch'.pc = "send" /\ arch'.left = 0
      <4> HIDE DEF KnownType
      <4> QED BY <3>1, <3>2 DEF ArchType
    <3> QED BY <3>3 DEF PlanOk
  <2>3. arch' = Asleep \/ arch' = [Asleep EXCEPT !.pc = "send", !.todo = <<RepairId>>]
    BY DEF Repair, SetArch
  <2> QED BY <2>1, <2>2, <2>3
<1>5. \A x \in Jobs : job'[x].status = IF x = c THEN "queued" ELSE job[x].status
  BY <1>1, <1>2, CreatedIs
<1> HIDE DEF c
<1>6. NewIds(arch', quick', job', vlog)
  <2>1. NewIds(arch, quick, job, vlog) /\ n \in Nat
    BY <1>2, Repairing DEF PlanInv
  <2>2. ASSUME NEW i \in 1 .. Len(RepairIds), i > n
        PROVE  job'[RepairIds[i]].status = "absent"
    <3>1. RepairIds[i] \in Jobs /\ RepairIds[i] # c
      BY <1>2, <2>1, <2>2, Repairing DEF c
    <3> QED BY <1>5, <2>1, <2>2, <3>1 DEF NewIds
  <2>3. ASSUME env.seed # "none", env.seed \notin quick'.seen PROVE job'[env.seed].status = "absent"
    <3>1. env.seed \in Jobs /\ env.seed # c
      BY <1>2, <2>3, EnvMeans, Repairing DEF LoopEnvironment, c
    <3> QED BY <1>1, <1>5, <2>1, <2>3, <3>1 DEF NewIds
  <2> QED BY <1>4, <2>2, <2>3 DEF NewIds
<1>7. quick' \in QuickType /\ SendOk(quick') /\ PromotedInOrder'
  BY <1>1 DEF PlanInv, PromotedInOrder
<1> QED BY <1>1, <1>2, <1>3, <1>4, <1>6, <1>7, PlanCreates DEF c

(* A candidate is a job of its own.                                        *)
LEMMA CandidateIsNew ==
    ASSUME EnvOk, WorkInv, PlanInv, NEW c \in Jobs, c \in ToSet(env.context), CreatedJob(c),
           UNCHANGED quick \/ quick'.seen = quick.seen, arch'.pc = "repair" => arch.pc = "repair"
    PROVE  NewIds(arch', quick', job', vlog)
<1>1. \A x \in Jobs : job'[x].status = IF x = c THEN "queued" ELSE job[x].status
  BY CreatedIs
<1>2. NewIds(arch, quick, job, vlog)
  BY DEF PlanInv
<1>3. ASSUME NEW i \in 1 .. Len(RepairIds), i > Len(vlog) \/ (i = Len(vlog) /\ arch.pc = "repair")
      PROVE  job'[RepairIds[i]].status = "absent"
  <2>1. RepairIds[i] \in Jobs /\ RepairIds[i] # c
    BY Repairing
  <2> QED BY <1>1, <1>2, <1>3, <2>1 DEF NewIds
<1>4. ASSUME env.seed # "none", env.seed \notin quick.seen PROVE job'[env.seed].status = "absent"
  <2>1. env.seed \in Jobs /\ env.seed # c
    BY <1>4, EnvMeans, Repairing DEF LoopEnvironment
  <2> QED BY <1>1, <1>2, <1>4, <2>1 DEF NewIds
<1> QED BY <1>3, <1>4 DEF NewIds

(* ... and has those ahead of it there.                                    *)
LEMMA OrderGrows ==
    ASSUME PlanInv, NEW c, NEW n \in Nat, Cardinality(FirstOf(context, c)) < n,
           \A b \in FirstOf(context, c) : Exists(b),
           order' = order \cup {[job |-> c, ahead |-> Ahead(c), made |-> {b \in Jobs : Exists(b)}, limit |-> n]}
    PROVE  PromotedInOrder'
<1> DEFINE o == [job |-> c, ahead |-> Ahead(c), made |-> {b \in Jobs : Exists(b)}, limit |-> n]
           A == Ahead(c)
           M == {b \in Jobs : Exists(b)}
<1>1. A = FirstOf(context, c)
  BY DEF Ahead, FirstOf, Precedes
<1>2. A \subseteq M
  <2>1. FirstOf(context, c) \subseteq Jobs
    BY Candidates DEF FirstOf
  <2> QED BY <1>1, <2>1
<1>3. Cardinality(A) < n
  BY <1>1
<1> HIDE DEF A, M
<1>4. o.ahead = A /\ o.made = M /\ o.limit = n
  BY DEF A, M
<1> HIDE DEF o
<1>5. \A x \in order' : x \in order \/ x = o
  BY DEF o
<1> QED BY <1>2, <1>3, <1>4, <1>5 DEF PlanInv, PromotedInOrder

(* The job that is made is new, and all ahead of it have theirs.           *)
LEMMA PlanNew == ASSUME EnvOk, LoopInv, WorkInv, PlanInv, EnsureNew PROVE PlanInv'
<1> DEFINE c == Head(arch.todo)
<1>1. env' = env /\ UNCHANGED <<round, context, quick, dropped, vlog>> /\ arch.pc = "each" /\ CreatedJob(c) /\ ~ Exists(c)
      /\ Arch("each")
  BY DEF EnsureNew, quietDaemon, Arch, Missing
<1>2. AtCandidate(arch, arch.left, context, job) /\ arch.left > 0 /\ arch.left \in Nat /\ InLine(arch.todo) /\ arch.todo # << >>
  BY <1>1 DEF PlanInv, PlanOk, AtCandidate, ArchType
<1>3. c \in Jobs /\ c \in ToSet(env.context)
  BY <1>2, HeadIsFirst
<1>4. job'[c].status # "absent" /\ \A x \in Jobs : job[x].status # "absent" => job'[x].status # "absent"
  BY <1>1, <1>3, CreatedIs
<1> DEFINE R == env.dispatches
<1>5. arch' = After(c, R)
  BY DEF EnsureNew, SetArch
<1> HIDE DEF R
<1>6. PlanAt(arch', context, job', vlog)
  BY <1>1, <1>4, <1>5, AfterIs
<1>7. NewIds(arch', quick', job', vlog)
  BY <1>1, <1>3, <1>6, CandidateIsNew DEF PlanAt
<1>8. PromotedInOrder'
  <2>1. context \in Seq(Jobs) /\ env.promote \in Nat
    BY Candidates, EnvMeans DEF LoopEnvironment
  <2>2. Cardinality(FirstOf(context, c)) \in Nat
    BY <2>1, FirstOfFinite
  <2>3. Cardinality(FirstOf(context, c)) + arch.left <= env.promote /\ \A b \in FirstOf(context, c) : Exists(b)
    BY <1>2 DEF AtCandidate, Exists
  <2>4. Cardinality(FirstOf(context, c)) < env.promote
    BY <1>2, <2>1, <2>2, <2>3
  <2>5. order' = order \cup {[job |-> c, ahead |-> Ahead(c), made |-> {b \in Jobs : Exists(b)}, limit |-> env.promote]}
    BY DEF EnsureNew
  <2> QED BY <2>1, <2>3, <2>4, <2>5, OrderGrows
<1>9. quick' \in QuickType /\ SendOk(quick')
  BY <1>1 DEF PlanInv
<1> QED BY <1>1, <1>3, <1>6, <1>7, <1>8, <1>9, PlanCreates DEF PlanAt

QuickPcs == {"off", "look", "send", "try", "wait", "idle", "fatal"}
(* A step of the quick loop that makes no job keeps the plan.              *)
LEMMA QuickMoves ==
    ASSUME EnvOk, LoopInv, PlanInv, env' = env, SameJobs, RoundsOk,
           UNCHANGED <<born, vlog, order, context, dropped, arch>>,
           quick' \in QuickType, quick'.seen = quick.seen, SendOk(quick')
    PROVE  PlanInv'
<1>1. arch \in ArchType /\ PlanOk(arch, context, job, vlog) /\ SamePlan(arch, arch) /\ InLine(context')
  BY DEF PlanInv, SamePlan
<1>2. PlanOk(arch, context, job', vlog)
  BY <1>1, Candidates, PlanStands DEF SameJobs
<1> QED BY <1>1, <1>2, PlanQuiet DEF RoundsOk

(* One that makes a new job keeps it when the job is no repair to come     *)
(* and is in order.                                                        *)
LEMMA QuickMakes ==
    ASSUME EnvOk, LoopInv, WorkInv, PlanInv, env' = env, NEW c \in Jobs, ~ Exists(c), CreatedJob(c),
           UNCHANGED <<round, vlog, context, dropped, arch>>, quick' \in QuickType, SendOk(quick'),
           NewIds(arch', quick', job', vlog), PromotedInOrder'
    PROVE  PlanInv'
<1>1. arch \in ArchType /\ PlanOk(arch, context, job, vlog) /\ SamePlan(arch, arch)
  BY DEF PlanInv, SamePlan
<1>2. \A x \in Jobs : job[x].status # "absent" => job'[x].status # "absent"
  BY CreatedIs
<1>3. PlanOk(arch, context, job', vlog)
  BY <1>1, <1>2, Candidates, PlanStands
<1> QED BY <1>1, <1>3, PlanCreates

(* So is the seed, while it was not submitted.                             *)
LEMMA SeedIsNew ==
    ASSUME EnvOk, PlanInv, QuickSeed
    PROVE  env.seed # "none" /\ Seed = {env.seed} /\ env.seed \in Jobs /\ env.seed \notin quick.seen /\ ~ Exists(env.seed)
<1>1. env.seed # "none" /\ Seed = {env.seed} /\ env.seed \in Jobs /\ env.seed \notin quick.seen
  BY EnvMeans DEF QuickSeed, Seed, LoopEnvironment
<1> QED BY <1>1 DEF PlanInv, NewIds, Exists

(* The seed is a new job, neither a candidate nor a repair.                *)
LEMMA PlanSeed == ASSUME EnvOk, LoopInv, WorkInv, PlanInv, QuickSeed PROVE PlanInv'
<1> DEFINE c == env.seed
           S == quick.seen \cup Seed
<1>1. env' = env /\ UNCHANGED <<round, vlog, context, dropped, arch, order>> /\ CreatedJob(c)
      /\ Seed # {} /\ Seed \cap quick.seen = {}
      /\ quick' = [quick EXCEPT !.pc = "send", !.job = c, !.was = <<0, "queued">>, !.seen = S]
  BY DEF QuickSeed, quietQuick, SetQuick
<1>2. c # "none" /\ Seed = {c} /\ c \in Jobs /\ c \notin quick.seen /\ ~ Exists(c)
  BY SeedIsNew
<1>3. quick \in QuickType /\ NewIds(arch, quick, job, vlog)
  BY DEF PlanInv
<1>5. S \in SUBSET Jobs /\ <<0, "queued">> \in StandingType /\ "send" \in QuickPcs
  BY <1>2, <1>3 DEF QuickType, Statuses, StandingType, QuickPcs
<1> HIDE DEF S, c
<1>6. quick' \in QuickType /\ quick'.seen = S /\ quick'.job = c /\ quick'.was = <<0, "queued">>
  BY <1>1, <1>2, <1>3, <1>5 DEF QuickType
<1>7. SendOk(quick')
  BY <1>2, <1>6 DEF SendOk
<1>8. NewIds(arch', quick', job', vlog)
  <2>1. \A x \in Jobs : job'[x].status = IF x = c THEN "queued" ELSE job[x].status
    BY <1>1, <1>2, CreatedIs
  <2>2. ASSUME NEW i \in 1 .. Len(RepairIds), i > Len(vlog) \/ (i = Len(vlog) /\ arch.pc = "repair")
        PROVE  job'[RepairIds[i]].status = "absent"
    <3>1. RepairIds[i] \in Jobs /\ RepairIds[i] # c
      BY Repairing DEF c
    <3> QED BY <1>3, <2>1, <2>2, <3>1 DEF NewIds
  <2>3. env.seed \in quick'.seen
    BY <1>2, <1>6 DEF S, c
  <2> QED BY <1>1, <2>2, <2>3 DEF NewIds
<1>9. PromotedInOrder'
  BY <1>1 DEF PlanInv, PromotedInOrder
<1> QED BY <1>1, <1>2, <1>6, <1>7, <1>8, <1>9, QuickMakes

(* The first of the open jobs.                                             *)
LEMMA OpenIs ==
    ASSUME PlanInv, Open # {}
    PROVE  LET j == born[Min(Open)] IN j \in Jobs /\ job[j].status \in {"queued", "running", "failed"}
<1>1. born \in Seq(Jobs) /\ Len(born) \in Nat
  BY DEF PlanInv
<1>2. Open \in SUBSET Nat /\ \A i \in Open : born[i] \in Jobs /\ job[born[i]].status \in {"queued", "running", "failed"}
  BY <1>1 DEF Open
<1>3. PICK x \in Open : \A y \in Open : ~ (<<y, x>> \in OpToRel(<, Nat))
  BY <1>2, NatLessThanWellFounded, WFMin
<1>4. \A y \in Open : x <= y
  <2>1. ASSUME NEW y \in Open PROVE x <= y
    <3>1. x \in Nat /\ y \in Nat /\ ~ (y < x)
      BY <1>2, <1>3 DEF OpToRel
    <3> QED BY <3>1
  <2> QED BY <2>1
<1>5. Min(Open) \in Open
  BY <1>3, <1>4 DEF Min
<1> QED BY <1>2, <1>5

(* An open job that quickwork is about to dispatch was queued or failed    *)
(* when it was chosen.                                                     *)
LEMMA PlanOpen == ASSUME EnvOk, LoopInv, WorkInv, PlanInv, QuickOpen PROVE PlanInv'
<1> DEFINE j == born[Min(Open)]
           pc == QuickOpenNext(job[j].status)
           was == Standing(j)
<1>1. env' = env /\ UNCHANGED <<job, round, born, vlog, order, context, dropped, arch>> /\ Open # {}
      /\ quick' = [quick EXCEPT !.pc = pc, !.job = j, !.was = was]
  BY DEF QuickOpen, quietQuick, daemonVars, SetQuick
<1>2. j \in Jobs /\ job[j].status \in {"queued", "running", "failed"}
  BY <1>1, OpenIs
<1> HIDE DEF j
<1>3. was \in StandingType /\ was[2] = job[j].status /\ pc \in QuickPcs
      /\ (pc = "send" => job[j].status \in {"queued", "failed"})
  BY <1>2 DEF WorkInv, WorkTypes, JobType, Standing, StandingType, QuickOpenNext, QuickPcs
<1>4. quick \in QuickType
  BY DEF PlanInv
<1> HIDE DEF pc, was
<1>5. quick' \in QuickType /\ quick'.seen = quick.seen /\ quick'.pc = pc /\ quick'.job = j /\ quick'.was = was
  <2>1. j \in Jobs \cup {"none"} /\ quick.seen \in SUBSET Jobs
    BY <1>2, <1>4 DEF QuickType
  <2> QED BY <1>1, <1>3, <1>4, <2>1 DEF QuickType, QuickPcs
<1>6. SendOk(quick')
  BY <1>2, <1>3, <1>5 DEF SendOk
<1>7. SameJobs /\ RoundsOk
  BY <1>1, NothingMade
<1> QED BY <1>1, <1>5, <1>6, <1>7, QuickMoves

(* Steps after which it does not send.                                     *)
LEMMA PlanQuickRests ==
    ASSUME EnvOk, LoopInv, PlanInv, env' = env, SameJobs, RoundsOk,
           UNCHANGED <<born, vlog, order, context, dropped, arch>>,
           NEW pc \in QuickPcs \ {"send"}, NEW j \in Jobs \cup {"none"},
           \/ quick' = [quick EXCEPT !.pc = pc] \/ quick' = [quick EXCEPT !.pc = pc, !.job = j]
           \/ quick' = [quick EXCEPT !.pc = pc, !.job = j, !.was = NoStanding]
    PROVE  PlanInv'
<1>1. quick \in QuickType /\ NoStanding \in StandingType /\ quick.seen \in SUBSET Jobs
  BY DEF PlanInv, NoStanding, StandingType, Statuses, QuickType
<1>2. quick' \in QuickType /\ quick'.seen = quick.seen /\ quick'.pc # "send"
  BY <1>1 DEF QuickType, QuickPcs
<1>3. SendOk(quick')
  BY <1>2 DEF SendOk
<1> QED BY <1>2, <1>3, QuickMoves

(* Sending what it turned to makes nothing.                                *)
LEMMA PlanQuickSends == ASSUME EnvOk, LoopInv, WorkInv, PlanInv, QuickTries \/ QuickSends PROVE PlanInv'
<1>1. env' = env /\ UNCHANGED <<born, vlog, order, context, dropped, arch>> /\ Sent(quick.job)
  BY DEF QuickTries, QuickSends, quietQuick
<1>2. SameJobs /\ RoundsOk
  BY <1>1, SentKeeps
<1>3. PICK pc \in QuickPcs \ {"send"} : quick' = [quick EXCEPT !.pc = pc]
  BY DEF QuickTries, QuickSends, SetQuick, QuickPcs
<1>4. "none" \in Jobs \cup {"none"}
  OBVIOUS
<1> QED BY <1>1, <1>2, <1>3, <1>4, PlanQuickRests

(* Nor does waiting, looking again or leaving.                             *)
LEMMA PlanQuickIdles ==
    ASSUME EnvOk, LoopInv, PlanInv, QuickWaits \/ QuickLooksAgain \/ QuickExits
    PROVE  PlanInv'
<1>1. env' = env /\ UNCHANGED <<job, round, born, vlog, order, context, dropped, arch>>
  BY DEF QuickWaits, QuickLooksAgain, QuickExits, QuickIdles, quietQuick, daemonVars
<1>2. SameJobs /\ RoundsOk
  BY <1>1, NothingMade
<1>3. PICK pc \in QuickPcs \ {"send"} : quick' = [quick EXCEPT !.pc = pc, !.job = "none", !.was = NoStanding]
  <2>1. "look" \in QuickPcs \ {"send"} /\ "off" \in QuickPcs \ {"send"}
    BY DEF QuickPcs
  <2> QED BY <2>1 DEF QuickWaits, QuickLooksAgain, QuickExits, QuickIdles, SetQuick
<1>4. "none" \in Jobs \cup {"none"}
  OBVIOUS
<1> QED BY <1>1, <1>2, <1>3, <1>4, PlanQuickRests

(* The candidate that quickwork promotes is the first of the line.         *)
LEMMA PlanPromotes == ASSUME EnvOk, LoopInv, WorkInv, PlanInv, QuickPromotes PROVE PlanInv'
<1> DEFINE c == Head(context)
<1>1. env' = env /\ UNCHANGED <<round, vlog, context, dropped, arch>> /\ context # << >>
  BY DEF QuickPromotes, quietQuick
<1>2. c \in Jobs /\ c \in ToSet(env.context) /\ FirstOf(context, c) = {}
  BY <1>1, HeadIsFirst DEF PlanInv
<1>3. PICK pc \in QuickPcs \ {"send"} : quick' = [quick EXCEPT !.pc = pc] \/ quick' = [quick EXCEPT !.pc = pc, !.job = c]
  <2>1. "try" \in QuickPcs \ {"send"} /\ "wait" \in QuickPcs \ {"send"} /\ "idle" \in QuickPcs \ {"send"}
    BY DEF QuickPcs
  <2> DEFINE s == job[c].status
  <2>2. quick' = CASE s \in {"absent", "queued", "failed"} -> [quick EXCEPT !.pc = "try", !.job = c]
                   [] s = "running" -> [quick EXCEPT !.pc = "wait", !.job = c]
                   [] OTHER -> [quick EXCEPT !.pc = "idle"]
    BY DEF QuickPromotes, SetQuick
  <2> HIDE DEF s, c
  <2>3. CASE s \in {"absent", "queued", "failed"}
    BY <2>1, <2>2, <2>3
  <2>4. CASE s = "running"
    BY <2>1, <2>2, <2>4
  <2>5. CASE s \notin {"absent", "queued", "failed"} /\ s # "running"
    BY <2>1, <2>2, <2>5
  <2> QED BY <2>3, <2>4, <2>5
<1>4. c \in Jobs \cup {"none"}
  BY <1>2
<1>5. CASE Exists(c)
  <2>1. UNCHANGED <<job, born, order>>
    BY <1>5 DEF QuickPromotes
  <2>2. SameJobs /\ RoundsOk
    BY <1>1, <2>1, NothingMade
  <2> QED BY <1>1, <1>3, <1>4, <2>1, <2>2, PlanQuickRests
<1>6. CASE ~ Exists(c)
  <2>1. CreatedJob(c)
        /\ order' = order \cup {[job |-> c, ahead |-> Ahead(c), made |-> {b \in Jobs : Exists(b)}, limit |-> 1]}
    BY <1>6 DEF QuickPromotes
  <2>2. quick \in QuickType /\ NoStanding \in StandingType /\ quick.seen \in SUBSET Jobs
    BY DEF PlanInv, NoStanding, StandingType, Statuses, QuickType
  <2>3. quick' \in QuickType /\ quick'.seen = quick.seen /\ quick'.pc # "send"
    BY <1>3, <1>4, <2>2 DEF QuickType, QuickPcs
  <2>4. SendOk(quick')
    BY <2>3 DEF SendOk
  <2>5. NewIds(arch', quick', job', vlog)
    BY <1>1, <1>2, <2>1, <2>3, CandidateIsNew
  <2>6. Cardinality(FirstOf(context, c)) = 0
    BY <1>2, FS_EmptySet, Zenon
  <2>7. Cardinality(FirstOf(context, c)) < 1 /\ \A b \in FirstOf(context, c) : Exists(b)
    BY <1>2, <2>6
  <2>8. PromotedInOrder'
    BY <2>1, <2>7, OrderGrows
  <2> QED BY <1>1, <1>2, <1>6, <2>1, <2>3, <2>4, <2>5, <2>8, QuickMakes
<1> QED BY <1>5, <1>6
-----------------------------------------------------------------------------
(* So every step of the loops keeps PlanInv.                               *)
LEMMA PlanStep == EnvOk /\ LoopInv /\ WorkInv /\ PlanInv /\ [LoopMoves]_loopFrame => PlanInv'
<1> SUFFICES ASSUME EnvOk, LoopInv, WorkInv, PlanInv, LoopMoves \/ UNCHANGED loopFrame PROVE PlanInv'
  BY DEF loopFrame
<1>1. ASSUME NEW w \in Workers, WorkerStep(w) \/ Kill(w) \/ StartWorker(w) \/ WorkerExits(w), ArchSees, Shared
      PROVE  PlanInv'
  BY <1>1, PlanWork
<1>2. ASSUME NEW j \in Jobs, ClientDispatches(j), UNCHANGED loopVars PROVE PlanInv'
  BY <1>2, PlanClient
<1>3. CASE (Develop /\ ArchSees /\ Shared) \/ Settle \/ Tick \/ Restart
  BY <1>3, PlanDevelop, PlanSettle, PlanTick, PlanRestart
<1>4. CASE QuickStep \/ QuickExits
  BY <1>4, PlanSeed, PlanOpen, PlanPromotes, PlanQuickSends, PlanQuickIdles DEF QuickStep
<1>5. CASE ArchitectStep
  BY <1>5, PlanVerified, PlanLost, PlanRepair, PlanRepairFails, PlanSend, PlanExisting, PlanNew, PlanFails
  DEF ArchitectStep
<1>6. CASE UNCHANGED loopFrame
  <2>1. env' = env /\ UNCHANGED <<job, round, born, vlog, order, context, dropped, quick, arch>>
    BY <1>6 DEF loopFrame, loopVars
  <2> QED BY <2>1, NothingMade, PlanSelf, PlanRests DEF RoundsOk
<1>7. CASE LoopNext
  BY <1>1, <1>2, <1>3, <1>4, <1>7 DEF LoopNext
<1> QED BY <1>1, <1>3, <1>4, <1>5, <1>6, <1>7 DEF LoopMoves

(* The architect is asleep, nothing is verified, and repairs and the seed  *)
(* are yet to be made.                                                     *)
LEMMA PlanInitial == EnvOk /\ LoopInit => PlanInv
<1> SUFFICES ASSUME EnvOk, LoopInit PROVE PlanInv
  OBVIOUS
<1>1. /\ job = [j \in Jobs |-> [status |-> IF j \in env.queued THEN "queued" ELSE "absent", dispatch |-> "none", run |-> NoRun]]
      /\ born = SetToSeq(env.queued) /\ round = [j \in Jobs |-> 0] /\ context = env.context /\ arch = Asleep
      /\ vlog = << >> /\ order = {} /\ dropped = {}
  BY DEF LoopInit, WorkInit
<1>2. \A j \in Jobs : job[j].status = IF j \in env.queued THEN "queued" ELSE "absent"
  BY <1>1
<1>3. /\ env.queued \in SUBSET Jobs /\ IsFiniteSet(env.queued) /\ env.context \in Seq(Jobs)
      /\ env.seed \in Jobs \cup {"none"} /\ env.seed \notin env.queued
      /\ ToSet(RepairIds) \cap env.queued = {}
  BY EnvMeans DEF WorkEnvironment, LoopEnvironment
<1>4. born \in Seq(Jobs) /\ IsInjective(born) /\ \A i \in 1 .. Len(born) : Exists(born[i])
  <2>1. born \in Seq(env.queued) /\ IsInjective(born)
    BY <1>1, <1>3, SetToSeqFacts
  <2>2. \A i \in 1 .. Len(born) : born[i] \in env.queued
    BY <2>1
  <2>3. born \in Seq(Jobs)
    <3> DEFINE Q == env.queued
    <3>1. Q \in SUBSET Jobs /\ born \in Seq(Q)
      BY <1>3, <2>1
    <3> HIDE DEF Q
    <3> QED BY <3>1
  <2> QED BY <1>2, <1>3, <2>1, <2>2, <2>3 DEF Exists
<1>5. arch \in ArchType /\ PlanOk(arch, context, job, vlog) /\ arch.pc # "repair"
  BY <1>1, AsleepIs DEF PlanAt
<1>6. quick \in QuickType /\ quick.pc # "send" /\ quick.seen = {}
  <2> DEFINE pc == IF env.quick THEN "look" ELSE "off"
  <2>1. quick = [pc |-> pc, job |-> "none", was |-> NoStanding, seen |-> {}] /\ pc \in {"look", "off"}
    BY DEF LoopInit
  <2>2. NoStanding \in StandingType
    BY DEF NoStanding, StandingType, Statuses
  <2> HIDE DEF pc
  <2> QED BY <2>1, <2>2 DEF QuickType
<1>7. InLine(context)
  <2>1. ToSet(env.context) = {env.context[i] : i \in 1 .. Len(env.context)}
    BY <1>3, ElementsFinite
  <2> QED BY <1>1, <1>3, <2>1 DEF InLine, Precedes
<1>8. NewIds(arch, quick, job, vlog)
  <2>1. ASSUME NEW i \in 1 .. Len(RepairIds) PROVE job[RepairIds[i]].status = "absent"
    <3>1. RepairIds \in Seq(Jobs) /\ RepairIds[i] \in Jobs
      BY Repairing
    <3>2. RepairIds[i] \in ToSet(RepairIds)
      BY <3>1, ElementsFinite
    <3> QED BY <1>2, <1>3, <3>1, <3>2
  <2> QED BY <1>2, <1>3, <2>1 DEF NewIds
<1>9. SendOk(quick) /\ FailureGetsRepair /\ PromotedInOrder /\ \A j \in Jobs : round[j] <= MaxRounds
  BY <1>1, <1>6, OfficeAssumption DEF SendOk, FailureGetsRepair, PromotedInOrder
<1> QED BY <1>4, <1>5, <1>6, <1>7, <1>8, <1>9 DEF PlanInv

(* Failures get repairs, promotions are in order, and quickwork ends by    *)
(* log.Fatal only when it was raced.                                       *)
LEMMA PlanInvImplies == WorkInv /\ PlanInv => FailureGetsRepair /\ PromotedInOrder /\ FatalMeansRaced
<1> SUFFICES ASSUME WorkInv, PlanInv PROVE FatalMeansRaced
  BY DEF PlanInv
<1> SUFFICES ASSUME quick.pc = "send", ~ Dispatchable(quick.job), Standing(quick.job) = quick.was
             PROVE  round[quick.job] = MaxRounds
  BY DEF FatalMeansRaced, Quick
<1> DEFINE j == quick.job
<1>1. j \in Jobs /\ quick.was[2] \in {"queued", "failed"}
  BY DEF PlanInv, SendOk
<1>2. job[j].status \in {"queued", "failed"}
  BY <1>1 DEF Standing
<1>3. round[j] \in Nat /\ MaxRounds \in Nat /\ round[j] <= MaxRounds
  BY <1>1, OfficeAssumption DEF WorkInv, WorkTypes, PlanInv
<1>4. ~ (round[j] < MaxRounds)
  BY <1>2 DEF Dispatchable
<1> QED BY <1>3, <1>4

(* The types of the jobs, the workers and the loops.                       *)
LEMMA LoopTyped == EnvOk /\ WorkInv /\ PlanInv /\ events \in 0 .. env.events => LoopTypes
<1> SUFFICES ASSUME EnvOk, WorkInv, PlanInv, events \in 0 .. env.events PROVE LoopTypes
  OBVIOUS
<1>1. job \in [Jobs -> [status : Statuses, dispatch : DispatchStates, run : 0 .. Len(runs)]]
  <2>1. job \in [Jobs -> JobType] /\ Len(runs) \in Nat
    BY DEF WorkInv, WorkTypes
  <2>2. ASSUME NEW j \in Jobs PROVE job[j] \in [status : Statuses, dispatch : DispatchStates, run : 0 .. Len(runs)]
    <3>1. job[j] \in JobType /\ job[j].run <= Len(runs)
      BY <2>1 DEF WorkInv, RecordOk
    <3> QED BY <2>1, <3>1 DEF JobType
  <2> QED BY <2>1, <2>2
<1>2. file \in [Paths -> {"clean", "edited", "new"}] /\ \A w \in Workers : wk[w].pc \in {"off", "poll", "scan", "run", "report"}
  BY DEF WorkInv, WorkTypes, WorkerType
<1>3. /\ arch.pc \in {"off", "sleep", "test", "repair", "send", "each"}
      /\ quick.pc \in {"off", "look", "send", "try", "wait", "idle", "fatal"}
      /\ born \in Seq(Jobs) /\ IsInjective(born)
  BY DEF PlanInv, ArchType, QuickType
<1> QED BY <1>1, <1>2, <1>3, EnvMeans DEF LoopTypes
-----------------------------------------------------------------------------
(* What may happen to a success.                                           *)
ByReport(j) ==
    job[j].status = "succeeded" /\ job'[j] # job[j] =>
        /\ job'[j].status \in Terminal
        /\ job'[j].run # job[j].run \/ (job[j].run # NoRun /\ runs[job[j].run].trouble)

(* Dispatching undoes no success.                                          *)
LEMMA DispatchUndoesNone ==
    ASSUME WorkInv, NEW c, Dispatchable(c), NEW r, Dispatched(c, r), NEW j \in Jobs PROVE ByReport(j)
<1>1. job \in [Jobs -> JobType] /\ job' = [job EXCEPT ![c] = r] /\ job[c].status # "succeeded"
  BY DEF WorkInv, WorkTypes, Dispatched, Dispatchable
<1> QED BY <1>1 DEF ByReport

(* Nor does sending.                                                       *)
LEMMA SentUndoesNone == ASSUME WorkInv, NEW c, Sent(c), NEW j \in Jobs PROVE ByReport(j)
BY DispatchUndoesNone DEF Sent, ByReport

(* Nor does creating a job.                                                *)
LEMMA CreateUndoesNone ==
    ASSUME WorkInv, NEW c, ~ Exists(c), CreatedJob(c), NEW j \in Jobs PROVE ByReport(j)
<1>1. job \in [Jobs -> JobType] /\ job' = [job EXCEPT ![c].status = "queued"] /\ job[c].status = "absent"
  BY DEF WorkInv, WorkTypes, CreatedJob, Exists
<1> QED BY <1>1 DEF ByReport

(* A run that is reported again had trouble with the report before.        *)
LEMMA ReportUndoes ==
    ASSUME EnvOk, WorkInv, NEW w \in Workers, Report(w), NEW j \in Jobs PROVE ByReport(j)
<1>1. wk[w].pc = "report" /\ UNCHANGED <<round, takes, unheard>> /\ (job' = job \/ Recorded(w))
  BY DEF Report, ReportAccepted, ReportRefused, ReportUnheard, At, daemonVars
<1>2. CASE job' = job
  BY <1>2 DEF ByReport
<1>3. CASE Recorded(w)
  <2> DEFINE c == Current(w).job
  <2>1. c \in Jobs /\ job'[c].status = wk[w].rep /\ job'[c].run = wk[w].run /\ \A x \in Jobs : x # c => job'[x] = job[x]
    BY <1>1, <1>3, RecordedOk
  <2>2. /\ wk[w].rep \in Terminal /\ wk[w].run \in 1 .. Len(runs) /\ Current(w) = runs[wk[w].run]
        /\ AtHand(wk[w], Current(w))
    BY <1>1, AtReport
  <2>3. ~ runs[wk[w].run].ended /\ wk[w].run # NoRun
    BY <2>2 DEF AtHand, NoRun
  <2>4. job[c].run # NoRun => runs[job[c].run].ended \/ runs[job[c].run].trouble
    BY <2>1 DEF WorkInv, RecordOk
  <2> HIDE DEF c
  <2>5. CASE j = c
    BY <2>1, <2>2, <2>3, <2>4, <2>5 DEF ByReport
  <2>6. CASE j # c
    BY <2>1, <2>6 DEF ByReport
  <2> QED BY <2>5, <2>6
<1> QED BY <1>1, <1>2, <1>3

(* A success on record falls only to a report: of another run, or of the   *)
(* same one after trouble.                                                 *)
LEMMA SuccessFalls ==
    ASSUME EnvOk, LoopInv, WorkInv, PlanInv, [LoopMoves]_loopFrame, NEW j \in Jobs
    PROVE  ByReport(j)
<1>1. ASSUME job' = job PROVE ByReport(j)
  BY <1>1 DEF ByReport
<1>2. ASSUME NEW w \in Workers, WorkerStep(w) \/ Kill(w) \/ StartWorker(w) \/ WorkerExits(w) PROVE ByReport(j)
  <2>1. CASE Report(w)
    BY <2>1, ReportUndoes
  <2>2. CASE DispatchQueued(w)
    BY <1>1, <2>2, DispatchUndoesNone DEF DispatchQueued
  <2>3. CASE ~ Report(w) /\ ~ DispatchQueued(w)
    BY <1>1, <1>2, <2>3 DEF WorkerStep, Poll, StartRun, StartFails, Write, Finish, Kill, StartWorker, WorkerExits, daemonVars
  <2> QED BY <2>1, <2>2, <2>3
<1>3. ASSUME NEW c \in Jobs, ClientDispatches(c) PROVE ByReport(j)
  BY <1>3, DispatchUndoesNone DEF ClientDispatches
<1>4. CASE Develop \/ Settle \/ Tick
  BY <1>1, <1>4 DEF Develop, Settle, Tick, daemonVars, workVars
<1>5. CASE Restart
  <2>1. job' = Reclaimed
    BY <1>5 DEF Restart
  <2>2. job[j].status = "succeeded" => job'[j] = job[j]
    BY <2>1 DEF Reclaimed
  <2> QED BY <2>2 DEF ByReport
<1>6. CASE QuickStep \/ QuickExits
  <2>1. CASE QuickSeed
    <3>1. CreatedJob(env.seed)
      BY <2>1 DEF QuickSeed
    <3> QED BY <2>1, <3>1, SeedIsNew, CreateUndoesNone
  <2>2. CASE QuickPromotes
    BY <1>1, <2>2, CreateUndoesNone DEF QuickPromotes
  <2>3. CASE QuickTries \/ QuickSends
    BY <2>3, SentUndoesNone DEF QuickTries, QuickSends
  <2>4. CASE QuickOpen \/ QuickWaits \/ QuickLooksAgain \/ QuickExits
    BY <1>1, <2>4 DEF QuickOpen, QuickWaits, QuickLooksAgain, QuickExits, QuickIdles, daemonVars
  <2> QED BY <1>6, <2>1, <2>2, <2>3, <2>4 DEF QuickStep
<1>7. CASE ArchitectStep
  <2>1. CASE Repair
    <3>1. CreatedJob(RepairId) /\ arch.pc = "repair"
      BY <2>1 DEF Repair, Arch
    <3> QED BY <3>1, RepairIsNew, CreateUndoesNone
  <2>2. CASE EnsureNew
    BY <2>2, CreateUndoesNone DEF EnsureNew, Missing
  <2>3. CASE Send
    BY <2>3, SentUndoesNone DEF Send
  <2>4. CASE VerificationEnds \/ VerificationLost \/ RepairFails \/ EnsureExisting \/ EnsureFails
    BY <1>1, <2>4 DEF VerificationEnds, VerificationLost, RepairFails, EnsureExisting, EnsureFails, daemonVars, workVars
  <2> QED BY <1>7, <2>1, <2>2, <2>3, <2>4 DEF ArchitectStep
<1>8. CASE UNCHANGED loopFrame
  BY <1>1, <1>8 DEF loopFrame
<1>9. CASE LoopNext
  BY <1>2, <1>3, <1>4, <1>6, <1>9 DEF LoopNext
<1> QED BY <1>2, <1>4, <1>5, <1>6, <1>7, <1>8, <1>9 DEF LoopMoves

-----------------------------------------------------------------------------
(* The rest of the office's shape.                                         *)
Dealt == events' = events \/ Event
(* A step uses up one event or none.                                       *)
LEMMA EventSteps == [Next]_vars => Dealt
<1> SUFFICES ASSUME [Next]_vars PROVE Dealt
  OBVIOUS
<1>1. CASE LoopNext
  <2>1. ASSUME NEW w \in Workers, WorkerStep(w) PROVE Dealt
    BY <2>1 DEF WorkerStep, Poll, DispatchQueued, StartRun, StartFails, Write, Finish, Report,
         ReportAccepted, ReportRefused, ReportUnheard, Dealt
  <2>2. ASSUME NEW w \in Workers, Kill(w) \/ StartWorker(w) PROVE Dealt
    BY <2>2 DEF Kill, StartWorker, Dealt
  <2>3. ASSUME NEW j \in Jobs, ClientDispatches(j) PROVE Dealt
    BY <2>3 DEF ClientDispatches, Dealt
  <2>4. CASE Develop \/ Settle
    BY <2>4 DEF Develop, Settle, Dealt
  <2>5. CASE QuickStep
    BY <2>5 DEF QuickStep, QuickSeed, QuickOpen, QuickPromotes, QuickTries, QuickSends, QuickWaits,
         QuickLooksAgain, QuickIdles, Dealt
  <2> QED BY <1>1, <2>1, <2>2, <2>3, <2>4, <2>5 DEF LoopNext
<1>2. CASE QuickReadsBootstrap \/ QuickLeaves
  BY <1>2 DEF QuickReadsBootstrap, QuickLeaves, QuickExits, QuickIdles, workVars, Dealt
<1>3. CASE \E w \in Workers : WorkerLeaves(w)
  BY <1>3 DEF WorkerLeaves, WorkerExits, Dealt
<1>4. CASE DaemonRestarts
  BY <1>4 DEF DaemonRestarts, Restart, Dealt
<1>5. CASE Desk \/ Entering \/ Saving \/ Serving
  BY <1>5 DEF Desk, atDesk, Entering, Saving, Serving, workVars, Dealt
<1>6. CASE Architecting
  <2>1. CASE ArchitectStep
    BY <2>1 DEF ArchitectStep, VerificationEnds, VerificationLost, Repair, RepairFails, Send,
         EnsureExisting, EnsureNew, EnsureFails, workVars, Dealt
  <2>2. CASE TickRecovers \/ Collecting("tick") \/ TickGoesOn
    BY <2>2 DEF TickRecovers, Collecting, TickGoesOn, Tick, workVars, Dealt
  <2> QED BY <1>6, <2>1, <2>2 DEF Architecting
<1>7. CASE \E c \in Collectors \ {"tick"} : Collecting(c)
  BY <1>7 DEF Collecting, workVars, Dealt
<1>8. CASE UNCHANGED vars
  BY <1>8 DEF vars, workVars, Dealt
<1> QED BY <1>1, <1>2, <1>3, <1>4, <1>5, <1>6, <1>7, <1>8 DEF Next

(* What the file of open threads holds, as a status.                       *)
FileState == {"none", "open"} \cup Settlements
BranchType == [status : {"absent", "active", "merged"}, into : Branches \cup {NoBranch}, root : Branches \cup {NoBranch}]
(* The parts of OfficeTypes that no other invariant holds: events count    *)
(* down, the finish being entered is the last, a merged branch has one it  *)
(* went into, texts are numbered as they are written, and the file holds   *)
(* plain statuses.                                                         *)
EventsLeft == events \in 0 .. env.events
LatestFinish == pend \in {0, Len(finishes)}
MergedInto == branch \in [Branches -> BranchType] /\ \A b \in Branches : branch[b].status = "merged" <=> branch[b].into \in Branches
TextsAreOld == \A s \in Stems, f \in Copies : scratch[s][f] <= texts
FileIsPlain ==
    /\ threads \in [Ids -> FileState]
    /\ \A c \in Savers : /\ saver[c].file \in [Ids -> FileState]
                         /\ saver[c].pc \notin {"idle", "ensure"} => saver[c].want \in FileState
ShapeInv == EventsLeft /\ LatestFinish /\ MergedInto /\ TextsAreOld /\ FileIsPlain

(* So there are never fewer than none and never more than the set-up has.  *)
LEMMA EventsStep == EnvOk /\ EventsLeft /\ [Next]_vars => EventsLeft'
<1> SUFFICES ASSUME EnvOk, EventsLeft, [Next]_vars PROVE EventsLeft'
  OBVIOUS
<1>1. env' = env /\ env.events \in Nat
  BY EnvKept, EnvMeans DEF WorkEnvironment
<1>2. events' = events \/ (events > 0 /\ events' = events - 1)
  BY EventSteps DEF Dealt, Event
<1> QED BY <1>1, <1>2 DEF EventsLeft

(* A finish that is still to be entered in the corpus is the latest one.   *)
LEMMA FinishStep == RoomInv /\ LatestFinish /\ [RoomNext]_roomVars => LatestFinish'
<1> SUFFICES ASSUME RoomInv, LatestFinish, [RoomNext]_roomVars PROVE LatestFinish'
  OBVIOUS
<1>1. finishes \in Seq(EntryRecord) /\ Len(finishes) \in Nat
  BY DEF RoomInv, RoomTypes
<1>2. CASE FinishBegins
  BY <1>1, <1>2 DEF FinishBegins, LatestFinish
<1>3. CASE UNCHANGED <<finishes, pend>>
  BY <1>3 DEF LatestFinish
<1>4. ASSUME NEW w \in Entries, NEW how \in {"written", "failed"}, Entered(w, how) PROVE LatestFinish'
  <2>1. Len(finishes') = Len(finishes)
    BY <1>4, EnteredKeeps DEF RoomInv, EntryState
  <2> QED BY <1>4, <2>1 DEF Entered, LatestFinish
<1>5. ASSUME NEW i, NEW to, SessionItemMoved(i, to) PROVE LatestFinish'
  <2>1. Len(DealtWith(i)) = Len(finishes)
    BY <1>1 DEF DealtWith
  <2> QED BY <1>5, <2>1 DEF SessionItemMoved, LatestFinish
<1>6. CASE SessionRestart
  BY <1>6 DEF SessionRestart, LatestFinish
<1>7. CASE RoomNext
  BY <1>2, <1>3, <1>4, <1>5, <1>6, <1>7 DEF RoomNext, EntryWritten, EntryFails, FoundersItem
<1>8. CASE UNCHANGED roomVars
  BY <1>3, <1>8 DEF roomVars
<1> QED BY <1>7, <1>8

(* No file has a text that is yet to be written.                           *)
LEMMA TextsStep == ScratchInv /\ TextsAreOld /\ [ScratchNext]_recoveryVars => TextsAreOld'
<1> SUFFICES ASSUME ScratchInv, TextsAreOld, [ScratchNext]_recoveryVars PROVE TextsAreOld'
  OBVIOUS
<1>1. scratch \in [Stems -> [Copies -> Nat]] /\ texts \in Nat
  BY DEF ScratchInv, ScratchTypes
<1>2. CASE UNCHANGED <<scratch, texts>>
  BY <1>2 DEF TextsAreOld
<1>3. ASSUME NEW c \in Collectors, GatherRemoves(c) PROVE TextsAreOld'
  <2>1. PICK x \in gather[c].clean : scratch' = [scratch EXCEPT ![x.stem][x.copy] = 0]
    BY <1>3 DEF GatherRemoves
  <2>2. texts' = texts
    BY <1>3 DEF GatherRemoves
  <2>3. \A s \in Stems, f \in Copies : scratch'[s][f] \in {scratch[s][f], 0}
    BY <1>1, <2>1
  <2> QED BY <1>1, <2>2, <2>3 DEF TextsAreOld
<1>4. ASSUME NEW s \in Stems, NEW f \in Copies, AgentWrites(s, f) PROVE TextsAreOld'
  <2>1. scratch' = [scratch EXCEPT ![s][f] = texts + 1] /\ texts' = texts + 1
    BY <1>4 DEF AgentWrites
  <2>2. \A q \in Stems, g \in Copies : scratch'[q][g] \in {scratch[q][g], texts + 1} /\ scratch[q][g] \in Nat
    BY <1>1, <2>1
  <2> QED BY <1>1, <2>1, <2>2 DEF TextsAreOld
<1>5. CASE ScratchNext
  <2>1. ASSUME NEW c \in Collectors, GatherStep(c) \/ GatherFails(c) \/ GatherCannotRemove(c) PROVE TextsAreOld'
    BY <1>2, <1>3, <2>1 DEF GatherStep, GatherScans, GatherLooks, GatherMakes, GatherEnds, GatherFails, GatherCannotRemove
  <2>2. ASSUME NEW c \in Collectors, NEW cleans \in BOOLEAN, GatherStarts(c, cleans) PROVE TextsAreOld'
    BY <1>2, <2>2 DEF GatherStarts
  <2> QED BY <1>2, <1>4, <1>5, <2>1, <2>2 DEF ScratchNext, quietScratch
<1>6. CASE UNCHANGED recoveryVars
  BY <1>2, <1>6 DEF recoveryVars
<1> QED BY <1>5, <1>6

(* What the office does to the branches.                                   *)
Forks ==
    \/ \E b, into \in Branches : merge(b, into)
    \/ \E b \in Branches, p \in Branches \cup {NoBranch} : create(b, IF p = NoBranch THEN b ELSE branch[p].root)
(* Every step of the office is, for the branches, a start, a merge or      *)
(* none.                                                                   *)
LEMMA ForkSteps == EnvOk /\ [Next]_vars => [Forks]_branch
<1> SUFFICES ASSUME EnvOk, [Next]_vars PROVE Forks \/ UNCHANGED branch
  OBVIOUS
<1>1. CASE UNCHANGED branchVars
  BY <1>1 DEF branchVars
<1>2. CASE Branching
  <2>1. env.branches \subseteq Branches
    BY EnvMeans DEF DeskEnvironment
  <2>2. ASSUME NEW b \in env.branches, NEW p \in env.branches \cup {NoBranch}, CreateBranch(b, p) PROVE Forks
    BY <2>1, <2>2 DEF CreateBranch, Forks
  <2>3. ASSUME NEW b \in env.branches, NEW into \in env.branches, MergeBranch(b, into) PROVE Forks
    BY <2>1, <2>3 DEF MergeBranch, Forks
  <2>4. ASSUME NEW b, NEW p, NEW to, CreateWorkItem(b) \/ CreateProposal(p, b) \/ PromoteProposal(p) \/ BranchItemMoved(b, to)
        PROVE  UNCHANGED branch
    BY <2>4 DEF CreateWorkItem, CreateProposal, PromoteProposal, BranchItemMoved
  <2> QED BY <1>2, <2>2, <2>3, <2>4 DEF Branching
<1>3. CASE (LoopNext /\ UNCHANGED deskVars) \/ UNCHANGED vars
  BY <1>1, <1>3 DEF deskVars, vars
<1>4. CASE QuickReadsBootstrap \/ QuickLeaves \/ (\E w \in Workers : WorkerLeaves(w)) \/ DaemonRestarts
  BY <1>1, <1>4 DEF QuickReadsBootstrap, QuickLeaves, WorkerLeaves, DaemonRestarts
<1>5. CASE Desk
  BY <1>1, <1>2, <1>5 DEF Desk
<1>6. CASE Entering \/ Saving \/ Serving
  BY <1>1, <1>6 DEF Entering, Saving, Serving
<1>7. CASE Architecting \/ \E c \in Collectors \ {"tick"} : Collecting(c)
  BY <1>1, <1>7 DEF Architecting, TickRecovers, TickGoesOn, Collecting
<1> QED BY <1>3, <1>4, <1>5, <1>6, <1>7 DEF Next

(* A branch is merged just when it was merged into another.                *)
LEMMA MergedStep == MergedInto /\ [Forks]_branch => MergedInto'
<1> SUFFICES ASSUME MergedInto, [Forks]_branch PROVE MergedInto'
  OBVIOUS
<1>0. NoBranch \notin Branches
  BY OfficeAssumption
<1>1. ASSUME NEW b \in Branches, NEW into \in Branches, merge(b, into) PROVE MergedInto'
  <2>1. branch' = [branch EXCEPT ![b].status = "merged", ![b].into = into]
    BY <1>1 DEF merge
  <2>2. branch' = [branch EXCEPT ![b] = [branch[b] EXCEPT !.status = "merged", !.into = into]]
    BY <2>1 DEF MergedInto, BranchType
  <2>3. branch[b] \in BranchType
    BY DEF MergedInto
  <2> DEFINE r == [branch[b] EXCEPT !.status = "merged", !.into = into]
  <2>4. r \in BranchType /\ r.status = "merged" /\ r.into = into
    BY <2>3 DEF BranchType
  <2> HIDE DEF r
  <2> QED BY <2>2, <2>4 DEF MergedInto, r
<1>2. ASSUME NEW b \in Branches, NEW p \in Branches \cup {NoBranch}, create(b, IF p = NoBranch THEN b ELSE branch[p].root)
      PROVE  MergedInto'
  <2> DEFINE root == IF p = NoBranch THEN b ELSE branch[p].root
  <2>1. branch' = [branch EXCEPT ![b] = [status |-> "active", into |-> NoBranch, root |-> root]]
    BY <1>2 DEF create
  <2>2. root \in Branches \cup {NoBranch}
    BY DEF MergedInto, BranchType
  <2> HIDE DEF root
  <2> QED BY <1>0, <2>1, <2>2 DEF MergedInto, BranchType
<1>3. CASE UNCHANGED branch
  BY <1>3 DEF MergedInto
<1> QED BY <1>1, <1>2, <1>3 DEF Forks

(* No request stores the demand to ensure a thread as its status.          *)
LEMMA FileStep == ThreadInv /\ FileIsPlain /\ [ThreadNext]_threadVars => FileIsPlain'
<1> SUFFICES ASSUME ThreadInv, FileIsPlain, [ThreadNext]_threadVars PROVE FileIsPlain'
  OBVIOUS
<1> DEFINE Plain(r) == r.file \in [Ids -> FileState] /\ (r.pc \notin {"idle", "ensure"} => r.want \in FileState)
<1>0. saver \in [Savers -> SaverType] /\ threads \in [Ids -> FileState] /\ \A c \in Savers : Plain(saver[c])
  BY DEF ThreadInv, ThreadTypes, FileIsPlain
<1>1. Plain(NoSave)
  BY DEF NoSave, FileState
<1>2. ASSUME NEW c \in Savers, NEW r, Plain(r), SetSaver(c, r), UNCHANGED threads PROVE FileIsPlain'
  <2> HIDE DEF Plain
  <2>1. \A d \in Savers : Plain(saver'[d])
    BY <1>0, <1>2 DEF SetSaver
  <2> QED BY <1>0, <1>2, <2>1 DEF FileIsPlain, Plain
<1>3. ASSUME NEW c \in Savers, NEW t \in Ids, NEW want \in ThreadState, SaveBegins(c, t, want) PROVE FileIsPlain'
  <2> DEFINE r == [NoSave EXCEPT !.pc = IF want = "ensure" THEN "ensure" ELSE "read", !.id = t, !.want = want]
  <2>1. Plain(r)
    <3>1. want # "ensure" => want \in FileState
      BY DEF ThreadState, FileState
    <3> QED BY <1>1, <3>1, NoSaveTyped DEF SaverType
  <2> QED BY <1>2, <1>3, <2>1 DEF SaveBegins
<1>4. ASSUME NEW c \in Savers, SaveMisreads(c) \/ SaveEnsures(c) \/ SaveReads(c) \/ SaveFinds(c) PROVE FileIsPlain'
  <2>1. saver[c] \in SaverType /\ Plain(saver[c]) /\ "open" \in FileState
    BY <1>0 DEF FileState
  <2>2. Plain([saver[c] EXCEPT !.pc = "find", !.behind = Ids]) \/ saver[c].pc # "read"
    BY <2>1 DEF SaverType
  <2>3. Plain([saver[c] EXCEPT !.pc = "read", !.want = "open"])
    BY <2>1 DEF SaverType
  <2>4. Plain([saver[c] EXCEPT !.pc = "find", !.file = threads]) \/ saver[c].pc # "read"
    BY <1>0, <2>1 DEF SaverType
  <2>5. Plain([saver[c] EXCEPT !.pc = "write"]) \/ saver[c].pc # "find"
    BY <2>1 DEF SaverType
  <2> HIDE DEF Plain
  <2> QED BY <1>1, <1>2, <1>4, <2>2, <2>3, <2>4, <2>5 DEF SaveMisreads, SaveEnsures, SaveReads, SaveFinds
<1>5. ASSUME NEW c \in Savers, SaveWrites(c) PROVE FileIsPlain'
  <2>1. threads' = [saver[c].file EXCEPT ![saver[c].id] = saver[c].want] /\ saver[c].pc = "write"
    BY <1>5 DEF SaveWrites, upsertStoredOpenThread
  <2>2. threads' \in [Ids -> FileState]
    BY <1>0, <2>1
  <2>3. ASSUME NEW d \in Savers PROVE Plain(saver'[d])
    <3> DEFINE B == saver[d].behind \cup {saver[c].id} \cup saver[c].behind
    <3>1. saver'[d] \in {NoSave, saver[d], [saver[d] EXCEPT !.behind = B]}
      BY <1>5 DEF SaveWrites
    <3>2. Plain(saver[d]) /\ saver[d] \in SaverType
      BY <1>0
    <3> HIDE DEF B
    <3>3. Plain([saver[d] EXCEPT !.behind = B])
      BY <3>2 DEF SaverType
    <3> HIDE DEF Plain
    <3> QED BY <1>1, <3>1, <3>2, <3>3
  <2> QED BY <2>2, <2>3 DEF FileIsPlain
<1>6. CASE saver' = [c \in Savers |-> NoSave] /\ UNCHANGED <<threads, said, blurred>>
  BY <1>0, <1>1, <1>6 DEF FileIsPlain
<1>7. CASE UNCHANGED threadVars
  BY <1>7 DEF threadVars, FileIsPlain
<1> QED BY <1>3, <1>4, <1>5, <1>6, <1>7 DEF ThreadNext, SaveStep

(* These hold at the start.                                                *)
LEMMA ShapeInitial == EnvOk /\ Init => ShapeInv
<1> SUFFICES ASSUME EnvOk, Init PROVE ShapeInv
  OBVIOUS
<1>1. EventsLeft
  <2>1. env.events \in Nat /\ events = env.events
    BY EnvMeans DEF WorkEnvironment, Init, LoopInit, WorkInit
  <2> QED BY <2>1 DEF EventsLeft
<1>2. LatestFinish /\ TextsAreOld
  BY DEF Init, SessionInit, RecoveryInit, LatestFinish, TextsAreOld
<1>3. MergedInto
  <2>1. NoBranch \notin Branches
    BY OfficeAssumption
  <2> QED BY <2>1 DEF Init, BranchInit, MergedInto, BranchType
<1>4. FileIsPlain
  BY DEF Init, ThreadInit, FileIsPlain, FileState, NoSave
<1> QED BY <1>1, <1>2, <1>3, <1>4 DEF ShapeInv

(* And every step keeps them.                                              *)
LEMMA ShapeStep == EnvOk /\ ThreadInv /\ RoomInv /\ ScratchInv /\ ShapeInv /\ [Next]_vars => ShapeInv'
<1> SUFFICES ASSUME EnvOk, ThreadInv, RoomInv, ScratchInv, ShapeInv, [Next]_vars PROVE ShapeInv'
  OBVIOUS
<1>1. EventsLeft' /\ LatestFinish'
  BY EventsStep, RoomSteps, FinishStep DEF ShapeInv
<1>2. MergedInto' /\ TextsAreOld'
  BY ForkSteps, MergedStep, ScratchSteps, TextsStep DEF ShapeInv
<1>3. FileIsPlain'
  BY ThreadSteps, FileStep DEF ShapeInv
<1> QED BY <1>1, <1>2, <1>3 DEF ShapeInv

(* Together the parts give every field its type.                           *)
LEMMA OfficeTyped ==
    ASSUME EnvOk, ThreadInv, RoomInv, ScratchInv, SessionInv, ShapeInv, LoopTypes, ControlTypes
    PROVE  OfficeTypes
<1>1. DeskEnvironment(env)
  BY EnvMeans
<1>2. agenda \in [Items -> Sections \cup {"none"}] /\ unsaved \subseteq Items /\ pend \in {0, Len(finishes)}
  <2>1. Entries \subseteq Items
    BY OfficeAssumption DEF Entries
  <2> QED BY <2>1 DEF RoomInv, RoomTypes, ShapeInv, LatestFinish
<1>3. memory \subseteq Risks /\ packet \subseteq Risks
  BY DEF SessionInv
<1>4. \A i \in 1 .. Len(records) : records[i].id \in 1 .. Len(records) /\ records[i].actor \in Actors
  <2>1. records \in Seq(ContinuityRecord) /\ IdsAreGiven
    BY DEF SessionInv, RecordsInv
  <2>2. \A i \in 1 .. Len(records) : records[i] \in ContinuityRecord
    BY <2>1
  <2> QED BY <2>1, <2>2 DEF IdsAreGiven, ContinuityRecord
<1>5. \A b \in Branches : branch[b].status = "merged" <=> branch[b].into \in Branches
  BY DEF ShapeInv, MergedInto
<1>6. \A c \in Collectors : gather[c].pc \in {"rest", "scan", "look", "make", "clean", "done"}
  BY DEF ScratchInv, GatherOk, GatherType
<1>7. \A s \in Stems : scratch[s] \in [Copies -> 0 .. texts]
  <2>1. scratch \in [Stems -> [Copies -> Nat]] /\ texts \in Nat /\ TextsAreOld
    BY DEF ScratchInv, ScratchTypes, ShapeInv
  <2> QED BY <2>1 DEF TextsAreOld
<1>8. threads \in [Ids -> {"none", "open"} \cup Settlements] /\ blurred \subseteq Ids
  BY DEF ThreadInv, ThreadTypes, ShapeInv, FileIsPlain, FileState
<1> QED BY <1>1, <1>2, <1>3, <1>4, <1>5, <1>6, <1>7, <1>8 DEF OfficeTypes
-----------------------------------------------------------------------------
(* What the parts rely on, of themselves and of each other: LoopInv and    *)
(* WorkInv are used in the steps of PlanInv; ThreadInv, RoomInv and        *)
(* ScratchInv in those of ShapeInv.                                        *)
OfficeInv ==
    /\ EnvOk /\ LoopInv /\ ThreadInv /\ BranchInv /\ RoomInv /\ ScratchInv /\ SessionInv
    /\ WorkInv /\ PlanInv /\ ShapeInv

(* What the parts of the office rely on holds of the whole at all times,   *)
(* whoever is at work, whatever fails, and however often the daemon        *)
(* restarts.                                                               *)
THEOREM OfficeInvariant == Spec => []OfficeInv
<1>1. Init => OfficeInv
  <2> SUFFICES ASSUME Init PROVE OfficeInv
    OBVIOUS
  <2>1. EnvOk
    BY EnvInit DEF EnvOk
  <2>2. LoopInit /\ WorkInit /\ ThreadInit /\ BranchInit /\ RecoveryInit /\ SessionInit
    BY DEF Init, LoopInit
  <2>3. LoopInv /\ ThreadInv /\ BranchInv /\ RoomInv /\ ScratchInv /\ SessionInv
    BY <2>1, <2>2, LoopInitial, ThreadInitial, BranchInitial, RoomInitial, ScratchInitial, SessionInitial
  <2>4. WorkInv /\ PlanInv /\ ShapeInv
    BY <2>1, <2>2, WorkInitial, PlanInitial, ShapeInitial
  <2> QED BY <2>1, <2>3, <2>4 DEF OfficeInv
<1>2. OfficeInv /\ [Next]_vars => OfficeInv'
  <2> SUFFICES ASSUME OfficeInv, [Next]_vars PROVE OfficeInv'
    OBVIOUS
  <2>1. EnvOk'
    BY EnvKept DEF OfficeInv, EnvOk
  <2>2. LoopInv'
    BY TestSteps, LoopStep DEF OfficeInv
  <2>3. ThreadInv' /\ BranchInv'
    BY ThreadSteps, ThreadStep, BranchSteps, BranchStep DEF OfficeInv
  <2>4. RoomInv' /\ ScratchInv'
    BY RoomSteps, RoomStep, ScratchSteps, ScratchStep DEF OfficeInv
  <2>5. SessionInv'
    BY SessionSteps, SessionStep DEF OfficeInv
  <2>6. WorkInv' /\ PlanInv'
    BY MovesAre, WorkStep, PlanStep DEF OfficeInv
  <2>7. ShapeInv'
    BY ShapeStep DEF OfficeInv
  <2> QED BY <2>1, <2>2, <2>3, <2>4, <2>5, <2>6, <2>7 DEF OfficeInv
<1> QED BY <1>1, <1>2, PTL DEF Spec

(* The registry tells the truth about the workers' runs, for any number of *)
(* workers, jobs and paths: successes are earned, a failure for scope has  *)
(* its cause, and a run that nothing happened to is on record once         *)
(* (executeWorkerCommand, runSingleWorkerJob).                             *)
THEOREM RunsStayTrue == Spec => []RunsAreTrue
<1>1. OfficeInv => RunsAreTrue
  BY WorkInvImplies DEF OfficeInv
<1> QED BY <1>1, OfficeInvariant, PTL

(* No worker runs a packet again from a list it read after the report, and *)
(* no provider takes a call twice for a dispatch unless an answer was lost *)
(* (runJobWorkerScan, DispatchAgentJob).                                   *)
THEOREM SecondRunsKeepTheirCause == Spec => []SecondRunsHaveACause
<1>1. OfficeInv => SecondRunsHaveACause
  BY WorkInvImplies DEF OfficeInv
<1> QED BY <1>1, OfficeInvariant, PTL

(* Answers to open threads are kept and respected, but for those a save    *)
(* that did not know of them was written over (SaveOpenThread).            *)
THEOREM AnswersAreKept == Spec => []ThreadsAreKept
<1>1. OfficeInv => ThreadsAreKept
  BY ThreadInvImplies DEF OfficeInv
<1> QED BY <1>1, OfficeInvariant, PTL

(* Work that comes of a proposal comes of it once, and what hangs on a     *)
(* merged branch is on the agenda until the founder resolves the item      *)
(* (PromoteProposal, MergeBranch).                                         *)
THEOREM BranchWorkStaysKnown == Spec => []BranchWorkIsKnown
<1>1. OfficeInv => BranchWorkIsKnown
  BY BranchInvImplies DEF OfficeInv
<1> QED BY <1>1, OfficeInvariant, PTL

(* No scratch file that a collector read is removed before it is taken in, *)
(* and none is taken in twice but by two collectors at a time              *)
(* (AbsorbGeminiArtifacts, AbsorbCorpusMarkdown, runAntigravityIngest).    *)
THEOREM ScratchStaysKept == Spec => []ScratchIsKept
<1>1. OfficeInv => ScratchIsKept
  BY DEF OfficeInv, ScratchInv
<1> QED BY <1>1, OfficeInvariant, PTL

(* A session is picked up where it was left, in one place: an actor has    *)
(* one active record for a source, and what is resumed after a note or a   *)
(* checkpoint is what memory says; a finish that is not in the corpus is   *)
(* noticed (CheckpointSession, SessionNote, FinishSession).                *)
THEOREM SessionsStayResumable == Spec => []SessionsResume
<1>1. OfficeInv => SessionsResume
  BY SessionInvImplies DEF OfficeInv, RoomInv, SessionsResume
<1> QED BY <1>1, OfficeInvariant, PTL

(* A risk leaves an actor's open records only by a checkpoint or a finish  *)
(* of that actor, for that source, whatever the others write over memory   *)
(* (applySessionCheckpointToContinuityRecord, FinishSession).              *)
THEOREM RisksAreTheirOwners == Spec => RisksLeaveByOwnHand
<1> DEFINE Leaves == \A a \in Actors, s \in Sources :
        ~ (OpenRisks(records, a, s) \subseteq OpenRisks(records', a, s)) =>
            last'.op \in {"checkpoint", "finish"} /\ last'.actor = a /\ last'.source = s
<1>1. OfficeInv /\ [Next]_vars => Leaves
  BY OfficeAssumption, SessionSteps, OwnHand DEF OfficeInv
<1> QED BY <1>1, OfficeInvariant, PTL DEF Spec, RisksLeaveByOwnHand

(* When the stamp on record is the tree's, the tests of that verification  *)
(* saw that tree and no other (maybeRunArchitectVerification).             *)
THEOREM TreeOnRecordWasTested == Spec => []VerifiedIsTested
<1>1. OfficeInv => VerifiedIsTested
  BY LoopInvImplies DEF OfficeInv
<1> QED BY <1>1, OfficeInvariant, PTL

(* The office implements the control plane's own specification: loops,     *)
(* desk and restarts do to its state only what that allows.                *)
THEOREM OfficeImplementsControlPlane == Spec => ControlSpec
<1>1. Init => \E legacy \in Seq(Legacy) : ControlInit(legacy)
  <2> SUFFICES ASSUME Init PROVE ControlInit(env.legacy) /\ env.legacy \in Seq(Legacy)
    OBVIOUS
  <2>1. EnvOk
    BY EnvInit DEF EnvOk
  <2> QED BY <2>1, EnvMeans DEF Init, DeskEnvironment
<1>2. OfficeInv /\ [Next]_vars => [ControlNext]_controlVars
  BY ControlSteps DEF OfficeInv
<1> QED BY <1>1, <1>2, OfficeInvariant, PTL DEF Spec, ControlSpec

(* In the whole office, too, every failed execute, call and verification   *)
(* is heard of, those of the architect loop included (CreateVerification). *)
THEOREM OfficeHearsFailures == Spec => []FailureIsHeard
BY OfficeImplementsControlPlane, FailuresAreHeard, PTL

(* ... and executes and calls keep to the first decision of their id       *)
(* (RunExecute, createGatewayCallWithPayload).                             *)
THEOREM OfficeKeepsDecisions == Spec => []DecisionIsFinal
BY OfficeImplementsControlPlane, DecisionsAreFinal, PTL

(* The loops keep to what they found, whatever happens between two of      *)
(* their steps: a failed verification has its repair unless the daemon     *)
(* could not go on from it, context is promoted best first and within the  *)
(* limit, and quickwork dies of a refused dispatch only when somebody was  *)
(* faster; and the state of the whole keeps its shape, so that no job is   *)
(* made twice (runArchitectTick, PromoteContextJobs, runQuickWorkLoop).    *)
THEOREM LoopsStayTrue == Spec => []LoopsAreTrue
<1>1. OfficeInv /\ ControlTypes => LoopsAreTrue
  <2> SUFFICES ASSUME OfficeInv, ControlTypes PROVE LoopsAreTrue
    OBVIOUS
  <2>1. OfficeTypes
    BY LoopTyped, OfficeTyped DEF OfficeInv, ShapeInv, EventsLeft
  <2>2. VerifiedIsTested /\ FailureGetsRepair /\ PromotedInOrder /\ FatalMeansRaced
    BY LoopInvImplies, PlanInvImplies DEF OfficeInv
  <2> QED BY <2>1, <2>2 DEF LoopsAreTrue
<1>2. ControlInv => ControlTypes
  BY DEF ControlInv
<1> QED BY <1>1, <1>2, OfficeInvariant, OfficeImplementsControlPlane, ControlInvariant, PTL

(* Nobody undoes another one's work: a success falls to no dispatch, no    *)
(* creation and no restart, only to a report of another run or to the      *)
(* fallback of a run whose report was not answered; and a risk leaves by   *)
(* the hand of its actor (ReportAgentJob, DispatchAgentJob,                *)
(* reclaimStaleJobsOnStartup, FinishSession).                              *)
THEOREM WorkIsUndoneByOwnHand == Spec => UndoneByOwnHand
<1> DEFINE Falls == \A j \in Jobs : job[j].status = "succeeded" /\ job'[j] # job[j] =>
        /\ job'[j].status \in Terminal
        /\ job'[j].run # job[j].run \/ (job[j].run # NoRun /\ runs[job[j].run].trouble)
<1>1. OfficeInv /\ [Next]_vars => Falls
  BY MovesAre, SuccessFalls DEF OfficeInv, ByReport
<1>2. Spec => SuccessIsUndoneByReports
  BY <1>1, OfficeInvariant, PTL DEF Spec, SuccessIsUndoneByReports
<1> QED BY <1>2, RisksAreTheirOwners, PTL DEF UndoneByOwnHand
=============================================================================
