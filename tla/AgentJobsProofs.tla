-------------------------- MODULE AgentJobsProofs --------------------------
(***************************************************************************)
(* Proofs about AgentJobs, for every set of jobs and workers, every chain, *)
(* every number of council members and without a bound on requests and     *)
(* restarts (MaxRequests and MaxRestarts are any naturals).                *)
(***************************************************************************)
EXTENDS AgentJobs, TLAPS

(* The lane in hand is one of the job's council members.                   *)
LaneOK == \A w \in Workers, j \in Jobs : frame[w][j].lane \in 1 .. Lanes[j]

(* A worker is at work in at most one frame; the others wait for it.       *)
OneActive ==
    \A w \in Workers, j, k \in Jobs :
        j # k /\ frame[w][j].pc \notin {"idle", "await"}
            => frame[w][k].pc \in {"idle", "await"}

(* A record that says "sent" is about a call the provider took, and so is  *)
(* an answer that is still to be recorded.                                 *)
SendsAccounted ==
    /\ \A x \in Calls : \A i \in 1 .. Len(calls[x]) :
            calls[x][i] = "sent" => x \in delivered
    /\ \A w \in Workers, j \in Jobs :
            frame[w][j].pc = "record" /\ frame[w][j].out = "sent"
                => <<j, frame[w][j].lane>> \in delivered

(* When the verdict is taken every council member has a record, so that    *)
(* FirstRecord reads one; an answer in hand is a gateway status.           *)
LanesRecorded ==
    \A w \in Workers, j \in Jobs :
        /\ frame[w][j].pc \in {"send", "record"} =>
             \A l \in 1 .. Lanes[j] : l < frame[w][j].lane => calls[<<j, l>>] # << >>
        /\ frame[w][j].pc = "record" => frame[w][j].out \in GatewayStatuses
        /\ frame[w][j].pc = "finalize" =>
             \A l \in 1 .. Lanes[j] : calls[<<j, l>>] # << >>
        /\ frame[w][j].pc = "report" => frame[w][j].rep \in Terminal

(* The inductive invariant behind the typing of the specification.         *)
Typed == TypeOK /\ LaneOK /\ LanesRecorded
-----------------------------------------------------------------------------
(* A call id is a job and one of its lanes.                                *)
LEMMA CallsLanes ==
    ASSUME NEW j \in Jobs, NEW l \in 1 .. Lanes[j]
    PROVE  <<j, l>> \in Calls
BY DEF Calls

(* A verdict over recorded lanes is a gateway status, and a "sent" verdict *)
(* comes from the first record of some lane.                               *)
LEMMA VerdictTyped ==
    ASSUME TypeOK, NEW j \in Jobs,
           \A l \in 1 .. Lanes[j] : calls[<<j, l>>] # << >>
    PROVE  /\ Verdict(j) \in GatewayStatuses
           /\ Verdict(j) = "sent" =>
                \E l \in 1 .. Lanes[j] : /\ Len(calls[<<j, l>>]) >= 1
                                         /\ calls[<<j, l>>][1] = "sent"
<1>1. ASSUME NEW l \in 1 .. Lanes[j]
      PROVE  Len(calls[<<j, l>>]) >= 1 /\ calls[<<j, l>>][1] \in GatewayStatuses
  <2>1. calls[<<j, l>>] \in Seq(GatewayStatuses)
    BY CallsLanes DEF TypeOK
  <2> QED BY <2>1, <1>1
<1>2. Primary[j] \in 1 .. Lanes[j]
  BY JobsAssumption
<1> QED BY <1>1, <1>2 DEF Verdict, FirstRecord, GatewayStatuses

(* The frames a step writes are frames.                                    *)
LEMMA FrameTyped ==
    ASSUME NEW f \in Frame
    PROVE  /\ \A q \in ProgramPoints : [f EXCEPT !.pc = q] \in Frame
           /\ \A q \in ProgramPoints : [f EXCEPT !.pc = q].lane = f.lane
           /\ \A q \in ProgramPoints : [f EXCEPT !.pc = q].pc = q
           /\ \A q \in ProgramPoints : [f EXCEPT !.pc = q].rule = f.rule
           /\ [f EXCEPT !.rule = f.rule + 1] \in Frame
           /\ [f EXCEPT !.rule = f.rule + 1].lane = f.lane
           /\ [f EXCEPT !.rule = f.rule + 1].pc = f.pc
<1>1. f.rule + 1 \in Nat \ {0}
  BY DEF Frame
<1> QED BY <1>1 DEF Frame

LEMMA IdleTyped ==
    IdleFrame \in Frame /\ IdleFrame.pc = "idle" /\ IdleFrame.lane = 1 /\ IdleFrame.rule = 1
<1>1. "none" \in GatewayStatuses \cup {"none"} /\ "none" \in Terminal \cup {"none"}
  OBVIOUS
<1>2. "keep" \in Evidence \cup {"keep"} /\ FALSE \in BOOLEAN /\ 1 \in Nat \ {0}
  OBVIOUS
<1> QED BY <1>1, <1>2 DEF IdleFrame, Frame, ProgramPoints

(* Replacing one frame by a well-formed one keeps the call stacks typed.   *)
LEMMA GotoTyped ==
    ASSUME TypeOK, LaneOK, NEW w \in Workers, NEW j \in Jobs, NEW f \in Frame,
           f.lane \in 1 .. Lanes[j], Goto(w, j, f)
    PROVE  frame' \in [Workers -> [Jobs -> Frame]] /\ LaneOK'
BY DEF TypeOK, Goto, LaneOK

(* So does a return to the caller.                                         *)
LEMMA ReturnTyped ==
    ASSUME TypeOK, LaneOK, NEW w \in Workers, NEW j \in Jobs, NEW ok, Return(w, j, ok)
    PROVE  frame' \in [Workers -> [Jobs -> Frame]] /\ LaneOK'
<1>1. ASSUME NEW k \in Jobs
      PROVE  /\ frame'[w][k] \in Frame
             /\ frame'[w][k].lane \in 1 .. Lanes[k]
  <2>1. frame[w][k] \in Frame /\ frame[w][k].lane \in 1 .. Lanes[k]
    BY DEF TypeOK, LaneOK
  <2>2. IdleFrame \in Frame /\ IdleFrame.lane \in 1 .. Lanes[k]
    BY JobsAssumption DEF IdleFrame, Frame, ProgramPoints, Evidence
  <2>3. frame'[w][k] \in {IdleFrame, frame[w][k],
                          [frame[w][k] EXCEPT !.pc = "chain", !.rule = frame[w][k].rule + 1],
                          [frame[w][k] EXCEPT !.pc = "warn"]}
    BY DEF Return, TypeOK
  <2>4. CASE frame'[w][k] = IdleFrame
    BY <2>2, <2>4
  <2>5. CASE frame'[w][k] = frame[w][k]
    BY <2>1, <2>5
  <2>6. CASE frame'[w][k] = [frame[w][k] EXCEPT !.pc = "chain", !.rule = frame[w][k].rule + 1]
    <3>1. frame[w][k].rule + 1 \in Nat \ {0}
      BY <2>1 DEF Frame
    <3>2. [frame[w][k] EXCEPT !.pc = "chain", !.rule = frame[w][k].rule + 1] \in Frame
      BY <2>1, <3>1 DEF Frame, ProgramPoints
    <3> QED BY <2>1, <2>6, <3>2 DEF Frame
  <2>7. CASE frame'[w][k] = [frame[w][k] EXCEPT !.pc = "warn"]
    BY <2>1, <2>7 DEF Frame, ProgramPoints
  <2> QED BY <2>3, <2>4, <2>5, <2>6, <2>7
<1>2. \A v \in Workers : v # w => frame'[v] = frame[v]
  BY DEF Return, TypeOK
<1>3. frame'[w] = [k \in Jobs |-> frame'[w][k]] /\ frame' = [v \in Workers |-> frame'[v]]
  BY DEF Return, TypeOK
<1>4. frame'[w] \in [Jobs -> Frame]
  BY <1>1, <1>3
<1> QED BY <1>1, <1>2, <1>3, <1>4 DEF TypeOK, LaneOK

(* Where Goto and Return leave the other frames.                           *)
LEMMA GotoElsewhere ==
    ASSUME TypeOK, NEW w \in Workers, NEW j \in Jobs, NEW f, Goto(w, j, f)
    PROVE  /\ frame'[w][j] = f
           /\ \A v \in Workers, k \in Jobs : v # w \/ k # j => frame'[v][k] = frame[v][k]
BY DEF TypeOK, Goto

LEMMA ReturnElsewhere ==
    ASSUME TypeOK, NEW w \in Workers, NEW j \in Jobs, NEW ok, Return(w, j, ok)
    PROVE  /\ frame'[w][j] = IdleFrame
           /\ \A v \in Workers : v # w => frame'[v] = frame[v]
           /\ \A k \in Jobs : k # j =>
                \/ frame'[w][k] = frame[w][k]
                \/ /\ frame[w][k].pc = "await"
                   /\ ChildOf(w, k) = j
                   /\ frame'[w][k].pc \in {"chain", "warn"}
<1>1. /\ frame'[w][j] = IdleFrame
      /\ \A v \in Workers : v # w => frame'[v] = frame[v]
  BY DEF TypeOK, Return
<1>2. ASSUME NEW k \in Jobs, k # j
      PROVE  \/ frame'[w][k] = frame[w][k]
             \/ /\ frame[w][k].pc = "await"
                /\ ChildOf(w, k) = j
                /\ frame'[w][k].pc \in {"chain", "warn"}
  <2>1. frame[w][k] \in Frame
    BY DEF TypeOK
  <2>2. \/ frame'[w][k] = frame[w][k]
        \/ /\ frame[w][k].pc = "await"
           /\ ChildOf(w, k) = j
           /\ \/ frame'[w][k] = [frame[w][k] EXCEPT !.pc = "chain", !.rule = frame[w][k].rule + 1]
              \/ frame'[w][k] = [frame[w][k] EXCEPT !.pc = "warn"]
    BY <1>2 DEF TypeOK, Return
  <2> QED BY <2>1, <2>2 DEF Frame
<1> QED BY <1>1, <1>2

(* Frames that do not come to a lane or a report keep LanesRecorded.       *)
LEMMA LanesKept ==
    ASSUME LanesRecorded, calls' = calls,
           \A v \in Workers, k \in Jobs :
               \/ frame'[v][k] = frame[v][k]
               \/ frame'[v][k].pc \notin {"send", "record", "finalize", "report"}
    PROVE  LanesRecorded'
BY DEF LanesRecorded

LEMMA ReturnKeepsLanes ==
    ASSUME TypeOK, LanesRecorded, calls' = calls,
           NEW w \in Workers, NEW j \in Jobs, NEW ok, Return(w, j, ok)
    PROVE  LanesRecorded'
<1>1. IdleFrame.pc = "idle"
  BY DEF IdleFrame
<1>2. \A v \in Workers, k \in Jobs :
               \/ frame'[v][k] = frame[v][k]
               \/ frame'[v][k].pc \notin {"send", "record", "finalize", "report"}
  BY <1>1, ReturnElsewhere
<1> QED BY <1>2, LanesKept

LEMMA GotoKeepsLanes ==
    ASSUME TypeOK, LanesRecorded, calls' = calls,
           NEW w \in Workers, NEW j \in Jobs, NEW f, Goto(w, j, f),
           f.pc \notin {"send", "record", "finalize", "report"}
    PROVE  LanesRecorded'
BY GotoElsewhere, LanesKept

(* updateAgentJobLocked keeps the registry and its items typed.            *)
LEMMA SetJobTyped ==
    ASSUME TypeOK, NEW j \in Jobs, NEW rec \in JobRecord, SetJob(j, rec)
    PROVE  job' \in [Jobs -> JobRecord] /\ failedItem' \in [Jobs -> Sections]
<1>1. UpdatedRoom(failedItem[j], rec.status) \in Sections
  BY DEF TypeOK, UpdatedRoom, EnsureItem, AutoResolve, Sections
<1> QED BY <1>1 DEF TypeOK, SetJob

(* The rule in hand, and the child it names.                               *)
LEMMA RuleTyped ==
    ASSUME TypeOK, NEW w \in Workers, NEW j \in Jobs, RuleFires(w, j)
    PROVE  ChildOf(w, j) \in Jobs
<1>1. frame[w][j].rule \in Nat \ {0}
  BY DEF TypeOK, Frame
<1>2. ChainRules[j] \in Seq(Rule) /\ frame[w][j].rule <= Len(ChainRules[j])
  BY JobsAssumption DEF RuleFires, AtRule
<1>3. ChainRules[j][frame[w][j].rule] \in Rule
  BY <1>1, <1>2
<1> QED BY <1>3 DEF ChildOf, RuleInHand, Rule
-----------------------------------------------------------------------------
(* Every step of a frame that leaves the registry and the wire alone, and  *)
(* goes to a frame outside the lanes or returns.                           *)
LEMMA QuietTyped ==
    ASSUME Typed, UNCHANGED storeVars, UNCHANGED <<requests, restarts>>,
           NEW w \in Workers, NEW j \in Jobs,
           \/ \E ok \in BOOLEAN : Return(w, j, ok)
           \/ \E f \in Frame : /\ Goto(w, j, f)
                               /\ f.lane \in 1 .. Lanes[j]
                               /\ f.pc \notin {"send", "record", "finalize", "report"}
    PROVE  Typed'
<1> USE DEF Typed
<1>1. frame' \in [Workers -> [Jobs -> Frame]] /\ LaneOK'
  BY ReturnTyped, GotoTyped
<1>2. calls' = calls
  BY DEF storeVars
<1>3. LanesRecorded'
  BY <1>2, ReturnKeepsLanes, GotoKeepsLanes
<1> QED BY <1>1, <1>3 DEF TypeOK, storeVars

LEMMA MoveTyped ==
    ASSUME TypeOK, LaneOK, NEW w \in Workers, NEW j \in Jobs, NEW q \in ProgramPoints,
           Move(w, j, q)
    PROVE  \E f \in Frame : Goto(w, j, f) /\ f.lane \in 1 .. Lanes[j] /\ f.pc = q
<1> DEFINE f == [frame[w][j] EXCEPT !.pc = q]
<1>1. frame[w][j] \in Frame /\ frame[w][j].lane \in 1 .. Lanes[j]
  BY DEF TypeOK, LaneOK
<1>2. f \in Frame /\ f.lane \in 1 .. Lanes[j] /\ f.pc = q
  BY <1>1, FrameTyped
<1>3. Goto(w, j, f)
  BY DEF Move
<1> QED BY <1>2, <1>3

LEMMA DispatchTyped ==
    ASSUME Typed, NEW w \in Workers, NEW j \in Jobs, DispatchStep(w, j)
    PROVE  Typed'
<1> USE DEF Typed
<1>0. /\ frame[w][j] \in Frame
      /\ frame[w][j].lane \in 1 .. Lanes[j]
      /\ Lanes[j] \in Nat \ {0}
      /\ 1 \in 1 .. Lanes[j]
  BY JobsAssumption DEF TypeOK, LaneOK
<1>1. CASE EnterRefused(w, j)
  BY <1>1, QuietTyped DEF EnterRefused
<1>2. CASE EnterAccepted(w, j)
  <2>1. \E f \in Frame : Goto(w, j, f) /\ f.lane \in 1 .. Lanes[j] /\ f.pc = "start"
    BY <1>2, MoveTyped DEF EnterAccepted, ProgramPoints
  <2> QED BY <1>2, <2>1, QuietTyped DEF EnterAccepted
<1>3. CASE MarkRunning(w, j)
  <2>1. Started \in JobRecord
    BY DEF Started, JobRecord, Statuses, DispatchStates, Evidence
  <2>2. job' \in [Jobs -> JobRecord] /\ failedItem' \in [Jobs -> Sections]
    BY <1>3, <2>1, SetJobTyped DEF MarkRunning
  <2>3. PICK f \in Frame : Goto(w, j, f) /\ f.lane \in 1 .. Lanes[j] /\ f.pc = "policy"
    BY <1>3, MoveTyped DEF MarkRunning, ProgramPoints
  <2>4. frame' \in [Workers -> [Jobs -> Frame]] /\ LaneOK'
    BY <2>3, GotoTyped
  <2>5. LanesRecorded'
    BY <1>3, <2>3, GotoKeepsLanes DEF MarkRunning, wireVars
  <2> QED BY <1>3, <2>2, <2>4, <2>5 DEF MarkRunning, TypeOK, wireVars
<1>4. CASE Policy(w, j)
  <2> DEFINE f == [frame[w][j] EXCEPT !.pc = "send", !.lane = 1]
  <2>1. f \in Frame /\ f.pc = "send" /\ f.lane = 1 /\ f.lane \in 1 .. Lanes[j]
    BY <1>0 DEF Frame, ProgramPoints
  <2>2. Goto(w, j, f)
    BY <1>4 DEF Policy
  <2> HIDE DEF f
  <2>3. frame' \in [Workers -> [Jobs -> Frame]] /\ LaneOK'
    BY <2>1, <2>2, GotoTyped
  <2>4. LanesRecorded'
    BY <1>4, <2>1, <2>2, GotoElsewhere DEF Policy, LanesRecorded
  <2> QED BY <1>4, <2>3, <2>4 DEF Policy, TypeOK, roomVars
<1>5. CASE Send(w, j)
  <2>1. PICK out \in Outcomes :
          /\ Goto(w, j, [frame[w][j] EXCEPT !.pc = "record", !.out = out])
          /\ \/ delivered' = delivered \cup {<<j, frame[w][j].lane>>}
             \/ UNCHANGED delivered
    BY <1>5 DEF Send
  <2> DEFINE f == [frame[w][j] EXCEPT !.pc = "record", !.out = out]
  <2>2. out \in GatewayStatuses
    BY JobsAssumption
  <2>3. f \in Frame /\ f.pc = "record" /\ f.lane = frame[w][j].lane /\ f.out = out
    BY <1>0, <2>2 DEF Frame, ProgramPoints
  <2>4. Goto(w, j, f) /\ f.lane \in 1 .. Lanes[j]
    BY <1>0, <2>1, <2>3
  <2> HIDE DEF f
  <2>5. frame' \in [Workers -> [Jobs -> Frame]] /\ LaneOK'
    BY <2>3, <2>4, GotoTyped
  <2>6. LanesRecorded'
    BY <1>5, <2>2, <2>3, <2>4, GotoElsewhere DEF Send, At, LanesRecorded
  <2>7. delivered' \subseteq Calls
    BY <1>0, <2>1, CallsLanes DEF TypeOK
  <2> QED BY <1>5, <2>5, <2>6, <2>7 DEF Send, TypeOK, roomVars
<1>6. CASE Record(w, j)
  <2> DEFINE x == <<j, frame[w][j].lane>>
             f == IF frame[w][j].lane < Lanes[j]
                  THEN [frame[w][j] EXCEPT !.pc = "send", !.lane = frame[w][j].lane + 1]
                  ELSE [frame[w][j] EXCEPT !.pc = "finalize"]
  <2>1. x \in Calls /\ frame[w][j].out \in GatewayStatuses /\ frame[w][j].pc = "record"
    BY <1>0, <1>6, CallsLanes DEF Record, At, LanesRecorded
  <2>2. /\ f \in Frame
        /\ f.lane \in 1 .. Lanes[j]
        /\ \/ f.pc = "send" /\ f.lane = frame[w][j].lane + 1
           \/ f.pc = "finalize" /\ frame[w][j].lane = Lanes[j]
    <3>1. CASE frame[w][j].lane < Lanes[j]
      <4>1. frame[w][j].lane + 1 \in 1 .. Lanes[j] /\ frame[w][j].lane + 1 \in Nat
        BY <1>0, <3>1
      <4> QED BY <1>0, <3>1, <4>1 DEF Frame, ProgramPoints
    <3>2. CASE ~(frame[w][j].lane < Lanes[j])
      <4>1. frame[w][j].lane = Lanes[j]
        BY <1>0, <3>2
      <4> QED BY <1>0, <3>2, <4>1 DEF Frame, ProgramPoints
    <3> QED BY <3>1, <3>2
  <2>3. Goto(w, j, f)
    BY <1>6 DEF Record
  <2>4. calls' = [calls EXCEPT ![x] = Append(calls[x], frame[w][j].out)]
    BY <1>6 DEF Record
  <2> HIDE DEF f
  <2>5. frame' \in [Workers -> [Jobs -> Frame]] /\ LaneOK'
    BY <2>2, <2>3, GotoTyped
  <2>6. /\ calls' \in [Calls -> Seq(GatewayStatuses)]
        /\ calls'[x] # << >>
        /\ \A y \in Calls : calls[y] # << >> => calls'[y] # << >>
    <3>0. calls[x] \in Seq(GatewayStatuses)
      BY <2>1 DEF TypeOK
    <3> HIDE DEF x
    <3>1. /\ Append(calls[x], frame[w][j].out) \in Seq(GatewayStatuses)
          /\ Append(calls[x], frame[w][j].out) # << >>
      BY <2>1, <3>0
    <3> QED BY <2>1, <2>4, <3>1 DEF TypeOK
  <2>7. gatewayItem' \in [Calls -> Sections]
    BY <1>6, <2>1 DEF Record, TypeOK, EnsureItem, Sections
  <2>8. \A v \in Workers, k \in Jobs : v # w \/ k # j => frame'[v][k] = frame[v][k]
    BY <2>3, GotoElsewhere
  <2>9. frame'[w][j] = f
    BY <2>3, GotoElsewhere
  <2>10. \A l \in 1 .. Lanes[j] : l <= frame[w][j].lane => calls'[<<j, l>>] # << >>
    <3> SUFFICES ASSUME NEW l \in 1 .. Lanes[j], l <= frame[w][j].lane
                 PROVE  calls'[<<j, l>>] # << >>
      OBVIOUS
    <3>1. CASE l = frame[w][j].lane
      BY <2>6, <3>1
    <3>2. CASE l < frame[w][j].lane
      BY <2>1, <2>6, <3>2, CallsLanes DEF LanesRecorded
    <3> QED BY <1>0, <3>1, <3>2
  <2>11. ASSUME NEW v \in Workers, NEW k \in Jobs
         PROVE  /\ frame'[v][k].pc \in {"send", "record"} =>
                     \A l \in 1 .. Lanes[k] : l < frame'[v][k].lane => calls'[<<k, l>>] # << >>
                /\ frame'[v][k].pc = "record" => frame'[v][k].out \in GatewayStatuses
                /\ frame'[v][k].pc = "finalize" =>
                     \A l \in 1 .. Lanes[k] : calls'[<<k, l>>] # << >>
                /\ frame'[v][k].pc = "report" => frame'[v][k].rep \in Terminal
    <3>1. CASE v # w \/ k # j
      BY <2>6, <2>8, <3>1, CallsLanes DEF LanesRecorded
    <3>2. CASE v = w /\ k = j
      BY <1>0, <2>2, <2>9, <2>10, <3>2
    <3> QED BY <3>1, <3>2
  <2>12. LanesRecorded'
    BY <2>11 DEF LanesRecorded
  <2> QED BY <1>6, <2>5, <2>6, <2>7, <2>12 DEF Record, TypeOK
<1>7. CASE Finalize(w, j)
  <2>1. Finalized(Verdict(j)) \in JobRecord
    BY <1>7, VerdictTyped DEF Finalize, At, LanesRecorded, Finalized, JobRecord, Statuses,
       DispatchStates, GatewayStatuses, Evidence
  <2>2. job' \in [Jobs -> JobRecord] /\ failedItem' \in [Jobs -> Sections]
    BY <1>7, <2>1, SetJobTyped DEF Finalize
  <2>3. calls' = calls
    BY <1>7 DEF Finalize, wireVars
  <2> DEFINE f == [frame[w][j] EXCEPT !.pc = "report", !.rep = "succeeded",
                                      !.ev = "good", !.auto = TRUE]
  <2>4. CASE Goto(w, j, f)
    <3>1. f \in Frame /\ f.pc = "report" /\ f.rep \in Terminal /\ f.lane \in 1 .. Lanes[j]
      BY <1>0 DEF Frame, ProgramPoints, Terminal, Evidence
    <3> HIDE DEF f
    <3>2. frame' \in [Workers -> [Jobs -> Frame]] /\ LaneOK'
      BY <2>4, <3>1, GotoTyped
    <3>3. LanesRecorded'
      BY <2>3, <2>4, <3>1, GotoElsewhere DEF LanesRecorded
    <3> QED BY <1>7, <2>2, <3>2, <3>3 DEF Finalize, TypeOK, wireVars
  <2>5. CASE Return(w, j, TRUE)
    BY <1>7, <2>2, <2>3, <2>5, ReturnTyped, ReturnKeepsLanes DEF Finalize, TypeOK, wireVars
  <2> QED BY <1>7, <2>4, <2>5 DEF Finalize
<1>8. CASE DispatchFault(w, j)
  BY <1>8, QuietTyped DEF DispatchFault
<1> QED BY <1>1, <1>2, <1>3, <1>4, <1>5, <1>6, <1>7, <1>8 DEF DispatchStep

(* DispatchChild: the parent waits, the child's call begins.               *)
LEMMA DispatchChildElsewhere ==
    ASSUME TypeOK, NEW w \in Workers, NEW j \in Jobs, RuleFires(w, j), DispatchChild(w, j)
    PROVE  /\ frame'[w][j].pc = "await"
           /\ frame'[w][ChildOf(w, j)].pc \in {"await", "enter"}
           /\ \A v \in Workers, k \in Jobs :
                v # w \/ k \notin {j, ChildOf(w, j)} => frame'[v][k] = frame[v][k]
           /\ frame' \in [Workers -> [Jobs -> Frame]]
           /\ LaneOK => LaneOK'
<1> DEFINE e == [IdleFrame EXCEPT !.pc = "enter"]
<1>1. e \in Frame /\ e.lane = 1 /\ e.rule = 1 /\ e.pc = "enter"
  BY IdleTyped, FrameTyped DEF ProgramPoints
<1>2. frame[w][j] \in Frame /\ ChildOf(w, j) \in Jobs /\ frame[w] \in [Jobs -> Frame]
  BY RuleTyped DEF TypeOK
<1>3. /\ [frame[w][j] EXCEPT !.pc = "await"] \in Frame
      /\ [frame[w][j] EXCEPT !.pc = "await"].lane = frame[w][j].lane
      /\ [frame[w][j] EXCEPT !.pc = "await"].rule = frame[w][j].rule
      /\ [frame[w][j] EXCEPT !.pc = "await"].pc = "await"
  BY <1>2 DEF Frame, ProgramPoints
<1>4. /\ [e EXCEPT !.pc = "await"] \in Frame
      /\ [e EXCEPT !.pc = "await"].lane = 1
      /\ [e EXCEPT !.pc = "await"].rule = 1
      /\ [e EXCEPT !.pc = "await"].pc = "await"
  BY <1>1 DEF Frame, ProgramPoints
<1>5. frame' = [frame EXCEPT ![w][ChildOf(w, j)] = e, ![w][j].pc = "await"]
  BY DEF DispatchChild
<1> HIDE DEF e
<1>6. /\ frame' \in [Workers -> [Jobs -> Frame]]
      /\ \A v \in Workers, k \in Jobs :
                v # w \/ k \notin {j, ChildOf(w, j)} => frame'[v][k] = frame[v][k]
      /\ ChildOf(w, j) # j => /\ frame'[w][j] = [frame[w][j] EXCEPT !.pc = "await"]
                             /\ frame'[w][ChildOf(w, j)] = e
      /\ ChildOf(w, j) = j => frame'[w][j] = [e EXCEPT !.pc = "await"]
  BY <1>1, <1>2, <1>3, <1>4, <1>5 DEF TypeOK
<1>7. ASSUME LaneOK PROVE LaneOK'
  <2>1. \A k \in Jobs : 1 \in 1 .. Lanes[k]
    BY JobsAssumption
  <2> SUFFICES ASSUME NEW v \in Workers, NEW k \in Jobs
               PROVE  frame'[v][k].lane \in 1 .. Lanes[k]
    BY DEF LaneOK
  <2>2. CASE v # w \/ k \notin {j, ChildOf(w, j)}
    BY <1>6, <1>7, <2>2 DEF LaneOK
  <2>3. CASE v = w /\ k = j
    BY <1>3, <1>4, <1>6, <1>7, <2>1, <2>3 DEF LaneOK
  <2>4. CASE v = w /\ k = ChildOf(w, j) /\ k # j
    BY <1>1, <1>6, <2>1, <2>4
  <2> QED BY <2>2, <2>3, <2>4
<1> QED BY <1>1, <1>3, <1>4, <1>6, <1>7 DEF e

LEMMA DispatchChildRule ==
    ASSUME TypeOK, NEW w \in Workers, NEW j \in Jobs, RuleFires(w, j), DispatchChild(w, j)
    PROVE  /\ frame'[w][j].rule \in {1, frame[w][j].rule}
           /\ ChildOf(w, j) # j => frame'[w][ChildOf(w, j)].pc = "enter"
<1> DEFINE e == [IdleFrame EXCEPT !.pc = "enter"]
<1>1. e \in Frame /\ e.rule = 1 /\ e.pc = "enter"
  BY IdleTyped, FrameTyped DEF ProgramPoints
<1>2. frame[w][j] \in Frame /\ ChildOf(w, j) \in Jobs /\ frame[w] \in [Jobs -> Frame]
  BY RuleTyped DEF TypeOK
<1>3. frame' = [frame EXCEPT ![w][ChildOf(w, j)] = e, ![w][j].pc = "await"]
  BY DEF DispatchChild
<1> HIDE DEF e
<1>4. CASE ChildOf(w, j) = j
  <2>1. frame'[w][j] = [e EXCEPT !.pc = "await"]
    BY <1>2, <1>3, <1>4 DEF TypeOK
  <2> QED BY <1>1, <1>4, <2>1 DEF Frame
<1>5. CASE ChildOf(w, j) # j
  <2>1. /\ frame'[w][j] = [frame[w][j] EXCEPT !.pc = "await"]
        /\ frame'[w][ChildOf(w, j)] = e
    BY <1>2, <1>3, <1>5 DEF TypeOK
  <2> QED BY <1>1, <1>2, <1>5, <2>1 DEF Frame
<1> QED BY <1>4, <1>5

LEMMA ReportTyped ==
    ASSUME Typed, NEW w \in Workers, NEW j \in Jobs, ReportStep(w, j)
    PROVE  Typed'
<1> USE DEF Typed
<1>0. frame[w][j] \in Frame /\ frame[w][j].lane \in 1 .. Lanes[j] /\ job[j] \in JobRecord
  BY DEF TypeOK, LaneOK
<1>1. CASE ReportRefused(w, j)
  BY <1>0, <1>1, QuietTyped DEF ReportRefused, Frame
<1>2. CASE Report(w, j)
  <2> DEFINE f == [frame[w][j] EXCEPT !.pc = "chain", !.rule = 1]
             rec == [status |-> frame[w][j].rep, dispatch |-> job[j].dispatch,
                     report |-> frame[w][j].rep, art |-> MergedEvidence(w, j)]
  <2>1. frame[w][j].rep \in Terminal
    BY <1>2 DEF Report, At, LanesRecorded
  <2>2. MergedEvidence(w, j) \in Evidence
    BY <1>0 DEF MergedEvidence, Frame, JobRecord
  <2>3. rec \in JobRecord
    BY <1>0, <2>1, <2>2 DEF JobRecord, Terminal, Statuses
  <2>4. SetJob(j, rec) /\ Goto(w, j, f)
    BY <1>2 DEF Report
  <2>5. f \in Frame /\ f.lane \in 1 .. Lanes[j] /\ f.pc = "chain"
    <3>1. 1 \in Nat \ {0}
      OBVIOUS
    <3> QED BY <1>0, <3>1 DEF Frame, ProgramPoints
  <2> HIDE DEF f, rec
  <2>6. job' \in [Jobs -> JobRecord] /\ failedItem' \in [Jobs -> Sections]
    BY <2>3, <2>4, SetJobTyped
  <2>7. frame' \in [Workers -> [Jobs -> Frame]] /\ LaneOK'
    BY <2>4, <2>5, GotoTyped
  <2>8. LanesRecorded'
    BY <1>2, <2>4, <2>5, GotoKeepsLanes DEF Report, wireVars
  <2> QED BY <1>2, <2>6, <2>7, <2>8 DEF Report, TypeOK, wireVars
<1>a. ASSUME Goto(w, j, [frame[w][j] EXCEPT !.rule = @ + 1]), calls' = calls, At(w, j, "chain")
      PROVE  frame' \in [Workers -> [Jobs -> Frame]] /\ LaneOK' /\ LanesRecorded'
  <2> DEFINE f == [frame[w][j] EXCEPT !.rule = frame[w][j].rule + 1]
  <2>1. f \in Frame /\ f.lane \in 1 .. Lanes[j] /\ f.pc = "chain"
    BY <1>0, <1>a, FrameTyped DEF At
  <2>2. Goto(w, j, f)
    BY <1>a
  <2> HIDE DEF f
  <2> QED BY <1>a, <2>1, <2>2, GotoTyped, GotoKeepsLanes
<1>b. ASSUME DispatchChild(w, j), RuleFires(w, j), calls' = calls
      PROVE  frame' \in [Workers -> [Jobs -> Frame]] /\ LaneOK' /\ LanesRecorded'
  <2>1. /\ frame'[w][j].pc = "await"
        /\ frame'[w][ChildOf(w, j)].pc \in {"await", "enter"}
        /\ \A v \in Workers, k \in Jobs :
             v # w \/ k \notin {j, ChildOf(w, j)} => frame'[v][k] = frame[v][k]
    BY <1>b, DispatchChildElsewhere
  <2>2. \A v \in Workers, k \in Jobs :
               \/ frame'[v][k] = frame[v][k]
               \/ frame'[v][k].pc \notin {"send", "record", "finalize", "report"}
    BY <2>1
  <2>3. LanesRecorded'
    BY <1>b, <2>2, LanesKept
  <2> QED BY <1>b, <2>3, DispatchChildElsewhere
<1>3. CASE ChainSkip(w, j)
  BY <1>3, <1>a DEF ChainSkip, AtRule, storeVars, TypeOK
<1>4. CASE ChainCreate(w, j)
  <2>1. ChildOf(w, j) \in Jobs /\ NewJob("queued") \in JobRecord
    BY <1>4, RuleTyped DEF ChainCreate, NewJob, JobRecord, Statuses, DispatchStates, Evidence
  <2>2. job' \in [Jobs -> JobRecord]
    BY <1>4, <2>1 DEF ChainCreate, TypeOK
  <2>3. calls' = calls
    BY <1>4 DEF ChainCreate, wireVars
  <2>4. frame' \in [Workers -> [Jobs -> Frame]] /\ LaneOK' /\ LanesRecorded'
    BY <1>4, <1>a, <1>b, <2>3 DEF ChainCreate, RuleFires, AtRule
  <2> QED BY <1>4, <2>2, <2>4 DEF ChainCreate, wireVars, TypeOK
<1>5. CASE ChainExisting(w, j)
  <2>1. frame' \in [Workers -> [Jobs -> Frame]] /\ LaneOK' /\ LanesRecorded'
    BY <1>5, <1>a, <1>b DEF ChainExisting, RuleFires, AtRule, storeVars
  <2> QED BY <1>5, <2>1 DEF ChainExisting, storeVars, TypeOK
<1>6. CASE ChainFault(w, j)
  <2>1. \E f \in Frame : Goto(w, j, f) /\ f.lane \in 1 .. Lanes[j] /\ f.pc = "warn"
    BY <1>6, MoveTyped DEF ChainFault, ProgramPoints
  <2> QED BY <1>6, <2>1, QuietTyped DEF ChainFault
<1>7. CASE Warn(w, j)
  <2> DEFINE f == [frame[w][j] EXCEPT !.pc = "chain", !.rule = Len(ChainRules[j]) + 1]
  <2>1. Len(ChainRules[j]) + 1 \in Nat \ {0}
    <3>1. ChainRules[j] \in Seq(Rule)
      BY JobsAssumption
    <3> QED BY <3>1
  <2>2. f \in Frame /\ f.lane \in 1 .. Lanes[j] /\ f.pc = "chain"
    BY <1>0, <2>1 DEF Frame, ProgramPoints
  <2>3. Goto(w, j, f)
    BY <1>7 DEF Warn
  <2> HIDE DEF f
  <2>4. frame' \in [Workers -> [Jobs -> Frame]] /\ LaneOK' /\ LanesRecorded'
    BY <1>7, <2>2, <2>3, GotoTyped, GotoKeepsLanes DEF Warn, wireVars
  <2>5. chainItem' \in [Jobs -> Sections]
    BY <1>7 DEF Warn, TypeOK, EnsureItem, Sections
  <2> QED BY <1>7, <2>4, <2>5 DEF Warn, wireVars, TypeOK
<1>8. CASE ChainDone(w, j)
  BY <1>8, QuietTyped DEF ChainDone
<1> QED BY <1>1, <1>2, <1>3, <1>4, <1>5, <1>6, <1>7, <1>8 DEF ReportStep

LEMMA ClientTyped ==
    ASSUME Typed, Client
    PROVE  Typed'
<1> USE DEF Typed
<1>1. ASSUME NEW j \in ClientJobs, NEW s \in CreateStatuses, Create(j, s)
      PROVE  Typed'
  <2>1. j \in Jobs /\ NewJob(s) \in JobRecord
    BY JobsAssumption DEF ClientJobs, NewJob, JobRecord, DispatchStates, Evidence
  <2>2. job' \in [Jobs -> JobRecord]
    BY <1>1, <2>1 DEF Create, TypeOK
  <2>3. UNCHANGED <<frame, calls>>
    BY <1>1 DEF Create, wireVars
  <2>4. LaneOK' /\ LanesRecorded'
    BY <2>3, LanesKept DEF LaneOK
  <2>5. requests' \in Nat
    BY <1>1 DEF Create, TypeOK
  <2> QED BY <1>1, <2>2, <2>4, <2>5 DEF Create, TypeOK, wireVars
<1>2. ASSUME NEW act \in FounderActs, Founder(act)
      PROVE  Typed'
  <2>1. \A x \in Sections : Moved(x, act) \in Sections
    <3>1. act \in {"accept", "defer", "resolve"}
      BY JobsAssumption
    <3> QED BY <3>1 DEF Moved, Sections
  <2>2. /\ failedItem' \in [Jobs -> Sections]
        /\ chainItem' \in [Jobs -> Sections]
        /\ gatewayItem' \in [Calls -> Sections]
    <3>1. CASE \E j \in Jobs : /\ failedItem' = [failedItem EXCEPT ![j] = Moved(@, act)]
                               /\ UNCHANGED <<chainItem, gatewayItem>>
      BY <2>1, <3>1 DEF TypeOK
    <3>2. CASE \E j \in Jobs : /\ chainItem' = [chainItem EXCEPT ![j] = Moved(@, act)]
                               /\ UNCHANGED <<failedItem, gatewayItem>>
      BY <2>1, <3>2 DEF TypeOK
    <3>3. CASE \E x \in Calls : /\ gatewayItem' = [gatewayItem EXCEPT ![x] = Moved(@, act)]
                                /\ UNCHANGED <<failedItem, chainItem>>
      BY <2>1, <3>3 DEF TypeOK
    <3> QED BY <1>2, <3>1, <3>2, <3>3 DEF Founder
  <2>3. UNCHANGED <<frame, calls>>
    BY <1>2 DEF Founder
  <2>4. LaneOK' /\ LanesRecorded'
    BY <2>3, LanesKept DEF LaneOK
  <2>5. requests' \in Nat
    BY <1>2 DEF Founder, TypeOK
  <2> QED BY <1>2, <2>2, <2>4, <2>5 DEF Founder, TypeOK
<1>3. ASSUME NEW j \in Jobs, NEW s \in Statuses, NEW keep \in BOOLEAN, ManualUpdate(j, s, keep)
      PROVE  Typed'
  <2> DEFINE rec == IF keep THEN [job[j] EXCEPT !.status = s] ELSE NewJob(s)
  <2>1. rec \in JobRecord
    BY DEF TypeOK, NewJob, JobRecord, DispatchStates, Evidence
  <2>2. SetJob(j, rec)
    BY <1>3 DEF ManualUpdate
  <2> HIDE DEF rec
  <2>3. job' \in [Jobs -> JobRecord] /\ failedItem' \in [Jobs -> Sections]
    BY <2>1, <2>2, SetJobTyped
  <2>4. UNCHANGED <<frame, calls>>
    BY <1>3 DEF ManualUpdate, wireVars
  <2>5. LaneOK' /\ LanesRecorded'
    BY <2>4, LanesKept DEF LaneOK
  <2>6. requests' \in Nat
    BY <1>3 DEF ManualUpdate, TypeOK
  <2> QED BY <1>3, <2>3, <2>5, <2>6 DEF ManualUpdate, TypeOK, wireVars
<1>4. ASSUME NEW j \in Jobs, NEW w \in Workers, CallDispatch(w, j)
      PROVE  Typed'
  <2> DEFINE f == [IdleFrame EXCEPT !.pc = "enter"]
  <2>1. f \in Frame /\ f.pc = "enter" /\ f.lane \in 1 .. Lanes[j]
    <3>1. f \in Frame /\ f.pc = "enter" /\ f.lane = 1
      BY IdleTyped, FrameTyped DEF ProgramPoints
    <3>2. 1 \in 1 .. Lanes[j]
      BY JobsAssumption
    <3> QED BY <3>1, <3>2
  <2>2. Goto(w, j, f)
    BY <1>4 DEF CallDispatch
  <2> HIDE DEF f
  <2>3. frame' \in [Workers -> [Jobs -> Frame]] /\ LaneOK' /\ LanesRecorded'
    BY <1>4, <2>1, <2>2, GotoTyped, GotoKeepsLanes DEF CallDispatch, storeVars
  <2>4. requests' \in Nat
    BY <1>4 DEF CallDispatch, TypeOK
  <2> QED BY <1>4, <2>3, <2>4 DEF CallDispatch, TypeOK, storeVars
<1>5. ASSUME NEW j \in Jobs, NEW w \in Workers, NEW s \in Terminal,
             NEW ev \in Evidence \cup {"keep"}, CallReport(w, j, s, ev)
      PROVE  Typed'
  <2> DEFINE f == [IdleFrame EXCEPT !.pc = "report", !.rep = s, !.ev = ev]
  <2>1. f \in Frame /\ f.pc = "report" /\ f.lane = 1 /\ f.rep = s
    BY IdleTyped DEF Frame, ProgramPoints
  <2>2. f.lane \in 1 .. Lanes[j]
    BY <2>1, JobsAssumption
  <2>3. Goto(w, j, f) /\ calls' = calls
    BY <1>5 DEF CallReport, storeVars
  <2> HIDE DEF f
  <2>4. frame' \in [Workers -> [Jobs -> Frame]] /\ LaneOK'
    BY <2>1, <2>2, <2>3, GotoTyped
  <2>5. LanesRecorded'
    BY <2>1, <2>3, GotoElsewhere DEF LanesRecorded
  <2>6. requests' \in Nat
    BY <1>5 DEF CallReport, TypeOK
  <2> QED BY <1>5, <2>4, <2>5, <2>6 DEF CallReport, TypeOK, storeVars
<1> QED BY <1>1, <1>2, <1>3, <1>4, <1>5 DEF Client

LEMMA RestartTyped ==
    ASSUME Typed, Restart
    PROVE  Typed'
<1> USE DEF Typed
<1>1. PICK R \in SUBSET Jobs :
        /\ job' = Reclaimed(R)
        /\ failedItem' = [j \in Jobs |-> IF j \in R THEN UpdatedRoom(failedItem[j], job'[j].status)
                                                     ELSE failedItem[j]]
  BY DEF Restart
<1>2. job' \in [Jobs -> JobRecord]
  BY <1>1 DEF Reclaimed, TypeOK, JobRecord, Statuses
<1>3. failedItem' \in [Jobs -> Sections]
  BY <1>1 DEF TypeOK, UpdatedRoom, EnsureItem, AutoResolve, Sections
<1>4. /\ frame' = [w \in Workers |-> [j \in Jobs |-> IdleFrame]]
      /\ calls' = calls
  BY DEF Restart, wireVars
<1>5. frame' \in [Workers -> [Jobs -> Frame]] /\ LaneOK' /\ LanesRecorded'
  BY <1>4, IdleTyped, JobsAssumption, LanesKept DEF LaneOK
<1>6. restarts' \in Nat
  BY DEF Restart, TypeOK
<1> QED BY <1>2, <1>3, <1>5, <1>6 DEF Restart, TypeOK, wireVars

(* The initial state is typed.                                             *)
LEMMA InitTyped == Init => Typed
<1> SUFFICES ASSUME Init PROVE Typed
  OBVIOUS
<1>1. NewJob("unborn") \in JobRecord
  BY DEF NewJob, JobRecord, DispatchStates, Evidence
<1>2. frame \in [Workers -> [Jobs -> Frame]] /\ LaneOK /\ LanesRecorded
  BY IdleTyped, JobsAssumption DEF Init, LaneOK, LanesRecorded
<1>3. calls \in [Calls -> Seq(GatewayStatuses)]
  BY DEF Init
<1> QED BY <1>1, <1>2, <1>3 DEF Init, Typed, TypeOK, Sections

(* ... and every step keeps it so.                                         *)
LEMMA StepTyped == Typed /\ [Next]_vars => Typed'
<1> SUFFICES ASSUME Typed, [Next]_vars PROVE Typed'
  OBVIOUS
<1>1. CASE UNCHANGED vars
  BY <1>1 DEF vars, Typed, TypeOK, LaneOK, LanesRecorded
<1>2. CASE Client
  BY <1>2, ClientTyped
<1>3. CASE Restart
  BY <1>3, RestartTyped
<1>4. ASSUME NEW w \in Workers, Step(w) PROVE Typed'
  BY <1>4, DispatchTyped, ReportTyped DEF Step
<1> QED BY <1>1, <1>2, <1>3, <1>4 DEF Next

(* The registry, the review-room items, the gateway store and the call     *)
(* stacks keep their shape in every behaviour; a council verdict is taken  *)
(* only when every member has a record.                                    *)
THEOREM Typing == Spec => []TypeOK
<1>1. Typed => TypeOK
  BY DEF Typed
<1> QED BY InitTyped, StepTyped, <1>1, PTL DEF Spec
-----------------------------------------------------------------------------
(* What a step can do to the registry and its failed items.                *)
Backed(j, rec) ==
    rec.status = "succeeded" => /\ rec.report = "succeeded"
                                /\ rec.art # "bad"
                                /\ NeedsArtifacts(j) => rec.art = "good"
Delivered(j) == \E l \in 1 .. Lanes[j] : <<j, l>> \in delivered
Updates == \E j \in Jobs, rec \in JobRecord :
    /\ SetJob(j, rec)
    /\ AllowUpdate \/ Backed(j, rec)
    /\ rec.dispatch = "sent" => job[j].dispatch = "sent" \/ Delivered(j)
Births == \E j \in Jobs, s \in CreateStatuses \cup {"queued"} :
    /\ ~ Exists(j)
    /\ job' = [job EXCEPT ![j] = NewJob(s)]
    /\ UNCHANGED failedItem
Filings == \E j \in Jobs, act \in FounderActs :
    /\ UNCHANGED job
    /\ failedItem[j] # "absent"
    /\ failedItem' = [failedItem EXCEPT ![j] = Moved(@, act)]
Reclaims == \E R \in SUBSET Jobs :
    /\ job' = Reclaimed(R)
    /\ failedItem' = [j \in Jobs |-> IF j \in R THEN UpdatedRoom(failedItem[j], job'[j].status)
                                                 ELSE failedItem[j]]
RegistryStep ==
    UNCHANGED <<job, failedItem>> \/ Updates \/ Births \/ Filings \/ Reclaims

LEMMA RegistrySteps ==
    ASSUME Typed, SendsAccounted, [Next]_vars
    PROVE  RegistryStep
<1> USE DEF Typed
<1>1. CASE UNCHANGED vars
  BY <1>1 DEF vars, RegistryStep
<1>2. CASE Restart
  BY <1>2 DEF Restart, Reclaims, RegistryStep
<1>3. ASSUME NEW j \in ClientJobs, NEW s \in CreateStatuses, Create(j, s)
      PROVE  RegistryStep
  BY <1>3 DEF Create, ClientJobs, Births, RegistryStep
<1>4. ASSUME NEW act \in FounderActs, Founder(act)
      PROVE  RegistryStep
  BY <1>4 DEF Founder, Filings, RegistryStep
<1>5. ASSUME NEW j \in Jobs, NEW s \in Statuses, NEW keep \in BOOLEAN, ManualUpdate(j, s, keep)
      PROVE  RegistryStep
  <2> DEFINE rec == IF keep THEN [job[j] EXCEPT !.status = s] ELSE NewJob(s)
  <2>1. rec \in JobRecord /\ (rec.dispatch = "sent" => job[j].dispatch = "sent")
    BY DEF TypeOK, NewJob, JobRecord, DispatchStates, Evidence
  <2>2. SetJob(j, rec) /\ AllowUpdate
    BY <1>5 DEF ManualUpdate
  <2> HIDE DEF rec
  <2> QED BY <2>1, <2>2 DEF Updates, RegistryStep
<1>6. ASSUME NEW j \in Jobs, NEW w \in Workers,
             \/ CallDispatch(w, j)
             \/ \E s \in Terminal, ev \in Evidence \cup {"keep"} : CallReport(w, j, s, ev)
             \/ EnterRefused(w, j) \/ EnterAccepted(w, j) \/ DispatchFault(w, j)
             \/ ReportRefused(w, j) \/ ChainSkip(w, j) \/ ChainExisting(w, j)
             \/ ChainFault(w, j) \/ ChainDone(w, j)
      PROVE  RegistryStep
  BY <1>6 DEF CallDispatch, CallReport, EnterRefused, EnterAccepted, DispatchFault, ReportRefused,
     ChainSkip, ChainExisting, ChainFault, ChainDone, storeVars, RegistryStep
<1>7. ASSUME NEW j \in Jobs, NEW w \in Workers,
             Policy(w, j) \/ Send(w, j) \/ Record(w, j) \/ Warn(w, j)
      PROVE  RegistryStep
  BY <1>7 DEF Policy, Send, Record, Warn, RegistryStep
<1>8. ASSUME NEW j \in Jobs, NEW w \in Workers, MarkRunning(w, j)
      PROVE  RegistryStep
  <2>1. Started \in JobRecord /\ Backed(j, Started) /\ Started.dispatch # "sent"
    BY DEF Started, JobRecord, Statuses, DispatchStates, Evidence, Backed
  <2> QED BY <1>8, <2>1 DEF MarkRunning, Updates, RegistryStep
<1>9. ASSUME NEW j \in Jobs, NEW w \in Workers, Finalize(w, j)
      PROVE  RegistryStep
  <2>1. \A l \in 1 .. Lanes[j] : calls[<<j, l>>] # << >>
    BY <1>9 DEF Finalize, At, LanesRecorded
  <2>2. Verdict(j) \in GatewayStatuses
    BY <2>1, VerdictTyped
  <2>3. Verdict(j) = "sent" => Delivered(j)
    <3> SUFFICES ASSUME Verdict(j) = "sent" PROVE Delivered(j)
      OBVIOUS
    <3>1. PICK l \in 1 .. Lanes[j] : Len(calls[<<j, l>>]) >= 1 /\ calls[<<j, l>>][1] = "sent"
      BY <2>1, VerdictTyped
    <3>2. <<j, l>> \in Calls /\ Len(calls[<<j, l>>]) \in Nat
      BY CallsLanes DEF TypeOK
    <3>3. 1 \in 1 .. Len(calls[<<j, l>>])
      BY <3>1, <3>2
    <3>4. <<j, l>> \in delivered
      BY <3>1, <3>2, <3>3 DEF SendsAccounted
    <3> QED BY <3>4 DEF Delivered
  <2>4. /\ Finalized(Verdict(j)) \in JobRecord
        /\ Finalized(Verdict(j)).status # "succeeded"
        /\ Finalized(Verdict(j)).dispatch = "sent" => Verdict(j) = "sent"
    BY <2>2 DEF Finalized, JobRecord, Statuses, DispatchStates, GatewayStatuses, Evidence
  <2>5. SetJob(j, Finalized(Verdict(j)))
    BY <1>9 DEF Finalize
  <2> QED BY <2>3, <2>4, <2>5 DEF Backed, Updates, RegistryStep
<1>10. ASSUME NEW j \in Jobs, NEW w \in Workers, Report(w, j)
       PROVE  RegistryStep
  <2> DEFINE rec == [status |-> frame[w][j].rep, dispatch |-> job[j].dispatch,
                     report |-> frame[w][j].rep, art |-> MergedEvidence(w, j)]
  <2>1. frame[w][j].rep \in Terminal /\ frame[w][j] \in Frame /\ job[j] \in JobRecord
    BY <1>10 DEF Report, At, LanesRecorded, TypeOK
  <2>2. MergedEvidence(w, j) \in Evidence
    BY <2>1 DEF MergedEvidence, Frame, JobRecord
  <2>3. rec \in JobRecord /\ (rec.dispatch = "sent" => job[j].dispatch = "sent")
    BY <2>1, <2>2 DEF JobRecord, Terminal, Statuses
  <2>4. SetJob(j, rec)
    BY <1>10 DEF Report
  <2>5. Backed(j, rec)
    BY <1>10, <2>2 DEF Report, Refused, Backed, Evidence
  <2> HIDE DEF rec
  <2> QED BY <2>3, <2>4, <2>5 DEF Updates, RegistryStep
<1>11. ASSUME NEW j \in Jobs, NEW w \in Workers, ChainCreate(w, j)
       PROVE  RegistryStep
  BY <1>11, RuleTyped DEF ChainCreate, Births, RegistryStep
<1> QED
  BY <1>1, <1>2, <1>3, <1>4, <1>5, <1>6, <1>7, <1>8, <1>9, <1>10, <1>11
  DEF Next, Client, Step, DispatchStep, ReportStep

(* What a step can do to the call stacks.                                  *)
Busy(w, j) == frame[w][j].pc \notin {"idle", "await"}
MovesOn(w, j, f) ==
    /\ Goto(w, j, f)
    /\ Free(w) \/ Busy(w, j)
    /\ f.pc # "await"
    /\ f.pc # "record" \/ Send(w, j)
StackStep ==
    \/ UNCHANGED frame
    \/ frame' = [w \in Workers |-> [j \in Jobs |-> IdleFrame]]
    \/ \E w \in Workers, j \in Jobs : \E f \in Frame : MovesOn(w, j, f)
    \/ \E w \in Workers, j \in Jobs, ok \in BOOLEAN : Return(w, j, ok) /\ Busy(w, j)
    \/ \E w \in Workers, j \in Jobs : DispatchChild(w, j) /\ RuleFires(w, j)

LEMMA StackSteps ==
    ASSUME Typed, [Next]_vars
    PROVE  StackStep
<1> USE DEF Typed
<1>0. \A w \in Workers, j \in Jobs : frame[w][j] \in Frame
  BY DEF TypeOK
<1>1. CASE UNCHANGED vars
  BY <1>1 DEF vars, StackStep, MovesOn
<1>2. CASE Restart
  BY <1>2 DEF Restart, StackStep, MovesOn
<1>3. CASE \/ \E j \in ClientJobs, s \in CreateStatuses : Create(j, s)
           \/ \E act \in FounderActs : Founder(act)
           \/ \E j \in Jobs, s \in Statuses, keep \in BOOLEAN : ManualUpdate(j, s, keep)
  BY <1>3 DEF Create, Founder, ManualUpdate, StackStep, MovesOn
<1>4. ASSUME NEW j \in Jobs, NEW w \in Workers, CallDispatch(w, j)
      PROVE  StackStep
  <2>1. [IdleFrame EXCEPT !.pc = "enter"] \in Frame /\ [IdleFrame EXCEPT !.pc = "enter"].pc = "enter"
    BY IdleTyped, FrameTyped DEF ProgramPoints
  <2> QED BY <1>4, <2>1 DEF CallDispatch, StackStep, MovesOn
<1>5. ASSUME NEW j \in Jobs, NEW w \in Workers, NEW s \in Terminal,
             NEW ev \in Evidence \cup {"keep"}, CallReport(w, j, s, ev)
      PROVE  StackStep
  <2> DEFINE f == [IdleFrame EXCEPT !.pc = "report", !.rep = s, !.ev = ev]
  <2>1. f \in Frame /\ f.pc = "report"
    BY IdleTyped DEF Frame, ProgramPoints
  <2>2. Goto(w, j, f) /\ Free(w)
    BY <1>5 DEF CallReport
  <2> HIDE DEF f
  <2> QED BY <2>1, <2>2 DEF StackStep, MovesOn
<1>6. ASSUME NEW j \in Jobs, NEW w \in Workers,
             \/ EnterRefused(w, j) \/ DispatchFault(w, j) \/ ReportRefused(w, j) \/ ChainDone(w, j)
      PROVE  StackStep
  <2>1. PICK ok \in BOOLEAN : Return(w, j, ok)
    <3>1. frame[w][j].auto \in BOOLEAN
      BY <1>0 DEF Frame
    <3> QED BY <1>6, <3>1 DEF EnterRefused, DispatchFault, ReportRefused, ChainDone
  <2>2. Busy(w, j)
    BY <1>6 DEF EnterRefused, DispatchFault, ReportRefused, ChainDone, At, Busy
  <2> QED BY <2>1, <2>2 DEF StackStep, MovesOn
<1>7. ASSUME NEW j \in Jobs, NEW w \in Workers, NEW q \in ProgramPoints, Move(w, j, q),
             Busy(w, j), q \notin {"await", "record"}
      PROVE  StackStep
  <2>1. PICK f \in Frame : Goto(w, j, f) /\ f.pc = q
    BY <1>7, MoveTyped
  <2> QED BY <1>7, <2>1 DEF StackStep, MovesOn
<1>8. ASSUME NEW j \in Jobs, NEW w \in Workers,
             EnterAccepted(w, j) \/ MarkRunning(w, j) \/ ChainFault(w, j)
      PROVE  StackStep
  BY <1>7, <1>8 DEF EnterAccepted, MarkRunning, ChainFault, RuleFires, AtRule, At, Busy, ProgramPoints
<1>9. ASSUME NEW j \in Jobs, NEW w \in Workers, Policy(w, j)
      PROVE  StackStep
  <2> DEFINE f == [frame[w][j] EXCEPT !.pc = "send", !.lane = 1]
  <2>1. f \in Frame /\ f.pc = "send"
    BY <1>0 DEF Frame, ProgramPoints
  <2>2. Goto(w, j, f) /\ Busy(w, j)
    BY <1>9 DEF Policy, At, Busy
  <2> HIDE DEF f
  <2> QED BY <2>1, <2>2 DEF StackStep, MovesOn
<1>10. ASSUME NEW j \in Jobs, NEW w \in Workers, Send(w, j)
       PROVE  StackStep
  <2>1. PICK out \in Outcomes : Goto(w, j, [frame[w][j] EXCEPT !.pc = "record", !.out = out])
    BY <1>10 DEF Send
  <2> DEFINE f == [frame[w][j] EXCEPT !.pc = "record", !.out = out]
  <2>2. f \in Frame /\ f.pc = "record"
    <3>1. out \in GatewayStatuses
      BY JobsAssumption
    <3> QED BY <1>0, <3>1 DEF Frame, ProgramPoints
  <2>3. Goto(w, j, f) /\ Busy(w, j)
    BY <1>10, <2>1 DEF Send, At, Busy
  <2> HIDE DEF f
  <2> QED BY <1>10, <2>2, <2>3 DEF StackStep, MovesOn
<1>11. ASSUME NEW j \in Jobs, NEW w \in Workers, Record(w, j)
       PROVE  StackStep
  <2> DEFINE f == IF frame[w][j].lane < Lanes[j]
                  THEN [frame[w][j] EXCEPT !.pc = "send", !.lane = frame[w][j].lane + 1]
                  ELSE [frame[w][j] EXCEPT !.pc = "finalize"]
  <2>1. frame[w][j] \in Frame /\ frame[w][j].lane + 1 \in Nat
    BY DEF TypeOK, Frame
  <2>2. f \in Frame /\ f.pc \in {"send", "finalize"}
    BY <2>1 DEF Frame, ProgramPoints
  <2>3. Goto(w, j, f) /\ Busy(w, j)
    BY <1>11 DEF Record, At, Busy
  <2> HIDE DEF f
  <2> QED BY <2>2, <2>3 DEF StackStep, MovesOn
<1>12. ASSUME NEW j \in Jobs, NEW w \in Workers, Finalize(w, j)
       PROVE  StackStep
  <2> DEFINE f == [frame[w][j] EXCEPT !.pc = "report", !.rep = "succeeded",
                                      !.ev = "good", !.auto = TRUE]
  <2>1. f \in Frame /\ f.pc = "report"
    BY <1>0 DEF Frame, ProgramPoints, Terminal, Evidence
  <2>2. Goto(w, j, f) \/ Return(w, j, TRUE)
    BY <1>12 DEF Finalize
  <2>3. Busy(w, j)
    BY <1>12 DEF Finalize, At, Busy
  <2> HIDE DEF f
  <2> QED BY <2>1, <2>2, <2>3 DEF StackStep, MovesOn
<1>13. ASSUME NEW j \in Jobs, NEW w \in Workers, NEW i \in Nat \ {0},
              Goto(w, j, [frame[w][j] EXCEPT !.pc = "chain", !.rule = i]), Busy(w, j)
       PROVE  StackStep
  <2> DEFINE f == [frame[w][j] EXCEPT !.pc = "chain", !.rule = i]
  <2>1. f \in Frame /\ f.pc = "chain"
    BY <1>0 DEF Frame, ProgramPoints
  <2>2. Goto(w, j, f)
    BY <1>13
  <2> HIDE DEF f
  <2> QED BY <1>13, <2>1, <2>2 DEF StackStep, MovesOn
<1>14. ASSUME NEW j \in Jobs, NEW w \in Workers, Report(w, j) \/ Warn(w, j)
       PROVE  StackStep
  <2>1. Len(ChainRules[j]) + 1 \in Nat \ {0} /\ 1 \in Nat \ {0}
    <3>1. ChainRules[j] \in Seq(Rule)
      BY JobsAssumption
    <3> QED BY <3>1
  <2> QED BY <1>13, <1>14, <2>1 DEF Report, Warn, At, Busy
<1>15. ASSUME NEW j \in Jobs, NEW w \in Workers, At(w, j, "chain"),
              Goto(w, j, [frame[w][j] EXCEPT !.rule = @ + 1])
       PROVE  StackStep
  <2> DEFINE f == [frame[w][j] EXCEPT !.rule = frame[w][j].rule + 1]
  <2>1. f \in Frame /\ f.pc = "chain"
    BY <1>15, FrameTyped DEF TypeOK, At
  <2>2. Goto(w, j, f) /\ Busy(w, j)
    BY <1>15 DEF At, Busy
  <2> HIDE DEF f
  <2> QED BY <2>1, <2>2 DEF StackStep, MovesOn
<1>16. ASSUME NEW j \in Jobs, NEW w \in Workers,
              ChainSkip(w, j) \/ ChainCreate(w, j) \/ ChainExisting(w, j)
       PROVE  StackStep
  <2>1. CASE DispatchChild(w, j) /\ RuleFires(w, j)
    BY <2>1 DEF StackStep, MovesOn
  <2>2. CASE At(w, j, "chain") /\ Goto(w, j, [frame[w][j] EXCEPT !.rule = @ + 1])
    BY <1>15, <2>2
  <2> QED BY <1>16, <2>1, <2>2 DEF ChainSkip, ChainCreate, ChainExisting, RuleFires, AtRule
<1> QED
  BY <1>1, <1>2, <1>3, <1>4, <1>5, <1>6, <1>8, <1>9, <1>10, <1>11, <1>12, <1>14, <1>16
  DEF Next, Client, Step, DispatchStep, ReportStep
-----------------------------------------------------------------------------
(* No step but Send comes to the point where an answer is to be recorded.  *)
LEMMA RecordPointFromSend ==
    ASSUME Typed, StackStep, NEW v \in Workers, NEW k \in Jobs, frame'[v][k].pc = "record"
    PROVE  frame'[v][k] = frame[v][k] \/ Send(v, k)
<1> USE DEF Typed
<1>1. CASE UNCHANGED frame
  BY <1>1
<1>2. CASE frame' = [w \in Workers |-> [j \in Jobs |-> IdleFrame]]
  BY <1>2, IdleTyped
<1>3. ASSUME NEW w \in Workers, NEW j \in Jobs, NEW f \in Frame, MovesOn(w, j, f)
      PROVE  frame'[v][k] = frame[v][k] \/ Send(v, k)
  BY <1>3, GotoElsewhere DEF MovesOn
<1>4. ASSUME NEW w \in Workers, NEW j \in Jobs, NEW ok \in BOOLEAN, Return(w, j, ok)
      PROVE  frame'[v][k] = frame[v][k] \/ Send(v, k)
  BY <1>4, ReturnElsewhere, IdleTyped
<1>5. ASSUME NEW w \in Workers, NEW j \in Jobs, DispatchChild(w, j), RuleFires(w, j)
      PROVE  frame'[v][k] = frame[v][k] \/ Send(v, k)
  BY <1>5, DispatchChildElsewhere
<1> QED BY <1>1, <1>2, <1>3, <1>4, <1>5 DEF StackStep

LEMMA DeliveredGrows ==
    ASSUME [Next]_vars
    PROVE  delivered \subseteq delivered'
<1>1. CASE UNCHANGED vars
  BY <1>1 DEF vars
<1>2. CASE Client
  BY <1>2 DEF Client, Create, Founder, ManualUpdate, CallDispatch, CallReport, storeVars, wireVars
<1>3. CASE Restart
  BY <1>3 DEF Restart, wireVars
<1>4. ASSUME NEW w \in Workers, NEW j \in Jobs, DispatchStep(w, j)
      PROVE  delivered \subseteq delivered'
  BY <1>4 DEF DispatchStep, EnterRefused, EnterAccepted, MarkRunning, Policy, Send, Record,
     Finalize, DispatchFault, storeVars, wireVars
<1>5. ASSUME NEW w \in Workers, NEW j \in Jobs, ReportStep(w, j)
      PROVE  delivered \subseteq delivered'
  BY <1>5 DEF ReportStep, ReportRefused, Report, ChainSkip, ChainCreate, ChainExisting,
     ChainFault, Warn, ChainDone, storeVars, wireVars
<1> QED BY <1>1, <1>2, <1>3, <1>4, <1>5 DEF Next, Step

LEMMA CallsGrow ==
    ASSUME Typed, [Next]_vars
    PROVE  calls' = calls \/ \E w \in Workers, j \in Jobs : Record(w, j)
<1>1. CASE UNCHANGED vars
  BY <1>1 DEF vars
<1>2. CASE Client
  BY <1>2 DEF Client, Create, Founder, ManualUpdate, CallDispatch, CallReport, storeVars, wireVars
<1>3. CASE Restart
  BY <1>3 DEF Restart, wireVars
<1>4. ASSUME NEW w \in Workers, NEW j \in Jobs, DispatchStep(w, j)
      PROVE  calls' = calls \/ Record(w, j)
  BY <1>4 DEF DispatchStep, EnterRefused, EnterAccepted, MarkRunning, Policy, Send,
     Finalize, DispatchFault, storeVars, wireVars
<1>5. ASSUME NEW w \in Workers, NEW j \in Jobs, ReportStep(w, j)
      PROVE  calls' = calls
  BY <1>5 DEF ReportStep, ReportRefused, Report, ChainSkip, ChainCreate, ChainExisting,
     ChainFault, Warn, ChainDone, storeVars, wireVars
<1> QED BY <1>1, <1>2, <1>3, <1>4, <1>5 DEF Next, Step

LEMMA SendsStep ==
    ASSUME Typed, SendsAccounted, [Next]_vars
    PROVE  SendsAccounted'
<1> USE DEF Typed
<1>1. delivered \subseteq delivered'
  BY DeliveredGrows
<1>2. ASSUME NEW x \in Calls, NEW i \in 1 .. Len(calls'[x]), calls'[x][i] = "sent"
      PROVE  x \in delivered'
  <2>1. CASE calls' = calls
    BY <1>1, <1>2, <2>1 DEF SendsAccounted
  <2>2. ASSUME NEW w \in Workers, NEW j \in Jobs, Record(w, j)
        PROVE  x \in delivered'
    <3> DEFINE y == <<j, frame[w][j].lane>>
    <3>1. y \in Calls /\ calls' = [calls EXCEPT ![y] = Append(calls[y], frame[w][j].out)]
      BY <2>2, CallsLanes DEF Record, LaneOK
    <3>2. calls[x] \in Seq(GatewayStatuses)
      BY DEF TypeOK
    <3>3. frame[w][j].out = "sent" => y \in delivered
      BY <2>2 DEF Record, At, SendsAccounted
    <3> HIDE DEF y
    <3>4. CASE x # y
      BY <1>1, <1>2, <3>1, <3>4 DEF SendsAccounted, TypeOK
    <3>5. CASE x = y
      <4>1. calls'[x] = Append(calls[x], frame[w][j].out)
        BY <3>1, <3>5 DEF TypeOK
      <4>2. CASE i \in 1 .. Len(calls[x])
        BY <1>1, <1>2, <3>2, <4>1, <4>2 DEF SendsAccounted
      <4>3. CASE i = Len(calls[x]) + 1
        BY <1>1, <1>2, <3>2, <3>3, <3>5, <4>1, <4>3
      <4> QED BY <3>2, <4>1, <4>2, <4>3
    <3> QED BY <3>4, <3>5
  <2> QED BY <2>1, <2>2, CallsGrow
<1>3. ASSUME NEW v \in Workers, NEW k \in Jobs,
             frame'[v][k].pc = "record", frame'[v][k].out = "sent"
      PROVE  <<k, frame'[v][k].lane>> \in delivered'
  <2>1. CASE frame'[v][k] = frame[v][k]
    BY <1>1, <1>3, <2>1 DEF SendsAccounted
  <2>2. CASE Send(v, k)
    <3>1. PICK out \in Outcomes :
            /\ Goto(v, k, [frame[v][k] EXCEPT !.pc = "record", !.out = out])
            /\ \/ delivered' = delivered \cup {<<k, frame[v][k].lane>>}
               \/ out # "sent"
      BY <2>2 DEF Send
    <3>2. frame'[v][k] = [frame[v][k] EXCEPT !.pc = "record", !.out = out]
      BY <3>1, GotoElsewhere
    <3>3. frame'[v][k].out = out /\ frame'[v][k].lane = frame[v][k].lane
      BY <3>2 DEF TypeOK, Frame
    <3> QED BY <1>3, <3>1, <3>3
  <2> QED BY <1>3, <2>1, <2>2, StackSteps, RecordPointFromSend
<1> QED BY <1>2, <1>3 DEF SendsAccounted

(* The inductive invariant of the wire: typed, and every "sent" accounted. *)
Wired == Typed /\ SendsAccounted

LEMMA WiredAlways == Spec => []Wired
<1>1. Init => Wired
  <2>1. Init => SendsAccounted
    BY IdleTyped DEF Init, SendsAccounted
  <2> QED BY <2>1, InitTyped DEF Wired
<1>2. Wired /\ [Next]_vars => Wired'
  BY StepTyped, SendsStep DEF Wired
<1> QED BY <1>1, <1>2, PTL DEF Spec

(* dispatch_state "sent" always stands for a call that a provider took,    *)
(* with any number of goroutines, faults, clients' updates and restarts.   *)
THEOREM SendsAreReal == Spec => []NoPretendedSend
<1>1. Init => NoPretendedSend
  BY DEF Init, NoPretendedSend, NewJob
<1>2. Wired /\ NoPretendedSend /\ [Next]_vars => NoPretendedSend'
  <2> SUFFICES ASSUME Wired, NoPretendedSend, [Next]_vars,
                      NEW k \in Jobs, job'[k].dispatch = "sent"
               PROVE  \E l \in 1 .. Lanes[k] : <<k, l>> \in delivered'
    BY DEF NoPretendedSend
  <2> USE DEF Wired, Typed
  <2>0. delivered \subseteq delivered'
    BY DeliveredGrows
  <2>1. job[k].dispatch = "sent" \/ Delivered(k)
    <3>1. CASE UNCHANGED <<job, failedItem>>
      BY <3>1
    <3>2. CASE Updates
      BY <3>2 DEF Updates, SetJob, TypeOK
    <3>3. CASE Births
      BY <3>3 DEF Births, NewJob, TypeOK
    <3>4. CASE Filings
      BY <3>4 DEF Filings
    <3>5. CASE Reclaims
      BY <3>5 DEF Reclaims, Reclaimed, TypeOK, JobRecord
    <3> QED BY <3>1, <3>2, <3>3, <3>4, <3>5, RegistrySteps DEF RegistryStep
  <2> QED BY <2>0, <2>1 DEF NoPretendedSend, Delivered
<1> QED BY <1>1, <1>2, WiredAlways, PTL DEF Spec

(* Everything open on the agenda about a failed job is about a job that is *)
(* failed now.                                                             *)
THEOREM AgendaIsCurrent == Spec => []OpenItemMeansFailed
<1>1. Init => OpenItemMeansFailed
  BY DEF Init, OpenItemMeansFailed
<1>2. Wired /\ OpenItemMeansFailed /\ [Next]_vars => OpenItemMeansFailed'
  <2> SUFFICES ASSUME Wired, OpenItemMeansFailed, [Next]_vars,
                      NEW k \in Jobs, failedItem'[k] = "open"
               PROVE  job'[k].status = "failed"
    BY DEF OpenItemMeansFailed
  <2> USE DEF Wired, Typed
  <2>1. CASE UNCHANGED <<job, failedItem>>
    BY <2>1 DEF OpenItemMeansFailed
  <2>2. CASE Updates
    BY <2>2 DEF Updates, SetJob, TypeOK, UpdatedRoom, AutoResolve, OpenItemMeansFailed
  <2>3. CASE Births
    BY <2>3 DEF Births, Exists, TypeOK, OpenItemMeansFailed
  <2>4. CASE Filings
    <3>1. \A x, act : act \in FounderActs => Moved(x, act) # "open"
      BY JobsAssumption DEF Moved
    <3> QED BY <2>4, <3>1 DEF Filings, TypeOK, OpenItemMeansFailed
  <2>5. CASE Reclaims
    BY <2>5 DEF Reclaims, Reclaimed, TypeOK, JobRecord, OpenItemMeansFailed
  <2> QED BY <2>1, <2>2, <2>3, <2>4, <2>5, RegistrySteps DEF RegistryStep
<1> QED BY <1>1, <1>2, WiredAlways, PTL DEF Spec

(* A success is backed by a report whose evidence passed validation.       *)
THEOREM SuccessIsBacked == Spec => []SucceededIsEvidenced
<1>1. Init => SucceededIsEvidenced
  BY DEF Init, SucceededIsEvidenced, NewJob
<1>2. Wired /\ SucceededIsEvidenced /\ [Next]_vars => SucceededIsEvidenced'
  <2> SUFFICES ASSUME Wired, SucceededIsEvidenced, [Next]_vars,
                      ~ AllowUpdate, CreateStatuses \subseteq {"queued", "failed"},
                      NEW k \in Jobs
               PROVE  Backed(k, job'[k])
    BY DEF SucceededIsEvidenced, Backed
  <2> USE DEF Wired, Typed
  <2>0. \A j \in Jobs : Backed(j, job[j])
    BY DEF SucceededIsEvidenced, Backed
  <2>1. CASE UNCHANGED <<job, failedItem>>
    BY <2>0, <2>1
  <2>2. CASE Updates
    BY <2>0, <2>2 DEF Updates, SetJob, TypeOK
  <2>3. CASE Births
    BY <2>0, <2>3 DEF Births, NewJob, TypeOK, Backed
  <2>4. CASE Filings
    BY <2>0, <2>4 DEF Filings
  <2>5. CASE Reclaims
    BY <2>0, <2>5 DEF Reclaims, Reclaimed, TypeOK, JobRecord, Backed
  <2> QED BY <2>1, <2>2, <2>3, <2>4, <2>5, RegistrySteps DEF RegistryStep
<1> QED BY <1>1, <1>2, WiredAlways, PTL DEF Spec

(* No failure gets lost while the founder resolves nothing.                *)
THEOREM FailuresAreListed == Spec => []FailedIsOnAgenda
<1> DEFINE Asked == "resolve" \notin FounderActs /\ "failed" \notin CreateStatuses
           JobsListed == \A j \in Jobs : job[j].status = "failed" => failedItem[j] # "absent"
           CallsListed == \A x \in Calls :
                (\E i \in 1 .. Len(calls[x]) : calls[x][i] = "failed") => gatewayItem[x] # "absent"
<1>1. Init => FailedIsOnAgenda
  BY DEF Init, FailedIsOnAgenda, NewJob
<1>2. Wired /\ FailedIsOnAgenda /\ [Next]_vars => FailedIsOnAgenda'
  <2> SUFFICES ASSUME Wired, FailedIsOnAgenda, [Next]_vars, Asked
               PROVE  JobsListed' /\ CallsListed'
    BY DEF FailedIsOnAgenda
  <2> USE DEF Wired, Typed
  <2>0. JobsListed /\ CallsListed
    BY DEF FailedIsOnAgenda
  <2>m. \A x, act : act \in FounderActs /\ x # "absent" => Moved(x, act) # "absent"
    BY JobsAssumption DEF Moved
  <2>j. JobsListed'
    <3> SUFFICES ASSUME NEW k \in Jobs, job'[k].status = "failed"
                 PROVE  failedItem'[k] # "absent"
      OBVIOUS
    <3>1. CASE UNCHANGED <<job, failedItem>>
      BY <2>0, <3>1
    <3>2. CASE Updates
      BY <2>0, <3>2 DEF Updates, SetJob, TypeOK, UpdatedRoom, EnsureItem
    <3>3. CASE Births
      BY <2>0, <3>3 DEF Births, NewJob, TypeOK
    <3>4. CASE Filings
      BY <2>0, <2>m, <3>4 DEF Filings, TypeOK
    <3>5. CASE Reclaims
      BY <2>0, <3>5 DEF Reclaims, Reclaimed, TypeOK, JobRecord, UpdatedRoom, EnsureItem
    <3> QED BY <3>1, <3>2, <3>3, <3>4, <3>5, RegistrySteps DEF RegistryStep
  <2>c. CallsListed'
    <3>1. ASSUME NEW w \in Workers, NEW j \in Jobs, Record(w, j)
          PROVE  CallsListed'
      <4> DEFINE y == <<j, frame[w][j].lane>>
      <4>1. /\ y \in Calls
            /\ calls' = [calls EXCEPT ![y] = Append(calls[y], frame[w][j].out)]
            /\ gatewayItem' = IF frame[w][j].out = "failed"
                              THEN [gatewayItem EXCEPT ![y] = EnsureItem(gatewayItem[y])]
                              ELSE gatewayItem
        BY <3>1, CallsLanes DEF Record, LaneOK
      <4> HIDE DEF y
      <4>2. SUFFICES ASSUME NEW x \in Calls, NEW i \in 1 .. Len(calls'[x]), calls'[x][i] = "failed"
                     PROVE  gatewayItem'[x] # "absent"
        OBVIOUS
      <4>3. calls[x] \in Seq(GatewayStatuses)
        BY DEF TypeOK
      <4>4. gatewayItem[x] # "absent" => gatewayItem'[x] # "absent"
        BY <4>1 DEF TypeOK, EnsureItem
      <4>5. CASE x # y
        BY <2>0, <4>1, <4>2, <4>4, <4>5 DEF TypeOK
      <4>6. CASE x = y
        <5>1. calls'[x] = Append(calls[x], frame[w][j].out)
          BY <4>1, <4>6 DEF TypeOK
        <5>2. CASE i \in 1 .. Len(calls[x])
          BY <2>0, <4>2, <4>3, <4>4, <5>1, <5>2
        <5>3. CASE i = Len(calls[x]) + 1
          <6>1. frame[w][j].out = "failed"
            BY <4>2, <4>3, <5>1, <5>3
          <6> QED BY <4>1, <4>6, <6>1 DEF TypeOK, EnsureItem
        <5> QED BY <4>3, <5>1, <5>2, <5>3
      <4> QED BY <4>5, <4>6
    <3>2. ASSUME NEW act \in FounderActs, Founder(act)
          PROVE  CallsListed'
      <4>1. calls' = calls
        BY <3>2 DEF Founder
      <4>2. \A x \in Calls : gatewayItem[x] # "absent" => gatewayItem'[x] # "absent"
        BY <2>m, <3>2 DEF Founder, TypeOK
      <4> QED BY <2>0, <4>1, <4>2
    <3>3. CASE UNCHANGED <<calls, gatewayItem>>
      BY <2>0, <3>3
    <3>4. CASE UNCHANGED vars
      BY <3>3, <3>4 DEF vars
    <3>5. CASE Client
      BY <3>2, <3>3, <3>5 DEF Client, Create, ManualUpdate, CallDispatch, CallReport, storeVars, wireVars
    <3>6. CASE Restart
      BY <3>3, <3>6 DEF Restart, wireVars
    <3>7. ASSUME NEW w \in Workers, NEW j \in Jobs, DispatchStep(w, j)
          PROVE  CallsListed'
      <4>1. Record(w, j) \/ UNCHANGED <<calls, gatewayItem>>
        BY <3>7 DEF DispatchStep, EnterRefused, EnterAccepted, MarkRunning, Policy, Send,
           Finalize, DispatchFault, storeVars, wireVars, roomVars
      <4> QED BY <3>1, <3>3, <4>1
    <3>8. ASSUME NEW w \in Workers, NEW j \in Jobs, ReportStep(w, j)
          PROVE  CallsListed'
      <4>1. UNCHANGED <<calls, gatewayItem>>
        BY <3>8 DEF ReportStep, ReportRefused, Report, ChainSkip, ChainCreate, ChainExisting,
           ChainFault, Warn, ChainDone, storeVars, wireVars
      <4> QED BY <3>3, <4>1
    <3> QED BY <3>4, <3>5, <3>6, <3>7, <3>8 DEF Next, Step
  <2> QED BY <2>j, <2>c
<1> QED BY <1>1, <1>2, WiredAlways, PTL DEF Spec

(* Nothing reaches a provider without a recorded policy decision.          *)
THEOREM PolicyComesFirst == Spec => []PolicyBeforeSend
<1>1. Init => PolicyBeforeSend
  BY DEF Init, PolicyBeforeSend
<1>2. PolicyBeforeSend /\ [Next]_vars => PolicyBeforeSend'
  <2> SUFFICES ASSUME PolicyBeforeSend, [Next]_vars PROVE PolicyBeforeSend'
    OBVIOUS
  <2>1. CASE UNCHANGED <<delivered, policy>>
    BY <2>1 DEF PolicyBeforeSend
  <2>2. CASE UNCHANGED vars
    BY <2>1, <2>2 DEF vars
  <2>3. CASE Client
    BY <2>1, <2>3 DEF Client, Create, Founder, ManualUpdate, CallDispatch, CallReport,
       storeVars, wireVars
  <2>4. CASE Restart
    BY <2>1, <2>4 DEF Restart, wireVars
  <2>5. ASSUME NEW w \in Workers, NEW j \in Jobs, DispatchStep(w, j)
        PROVE  PolicyBeforeSend'
    <3>1. CASE Policy(w, j)
      BY <3>1 DEF Policy, PolicyBeforeSend
    <3>2. CASE Send(w, j)
      BY <3>2 DEF Send, PolicyBeforeSend
    <3>3. CASE ~(Policy(w, j) \/ Send(w, j))
      BY <2>1, <2>5, <3>3 DEF DispatchStep, EnterRefused, EnterAccepted, MarkRunning, Record,
         Finalize, DispatchFault, storeVars, wireVars
    <3> QED BY <3>1, <3>2, <3>3
  <2>6. ASSUME NEW w \in Workers, NEW j \in Jobs, ReportStep(w, j)
        PROVE  PolicyBeforeSend'
    BY <2>1, <2>6 DEF ReportStep, ReportRefused, Report, ChainSkip, ChainCreate, ChainExisting,
       ChainFault, Warn, ChainDone, storeVars, wireVars
  <2> QED BY <2>2, <2>3, <2>4, <2>5, <2>6 DEF Next, Step
<1> QED BY <1>1, <1>2, PTL DEF Spec
-----------------------------------------------------------------------------
(* A waiting frame has one of its rules in hand.                           *)
AwaitsRule ==
    \A w \in Workers, j \in Jobs :
        frame[w][j].pc = "await" => frame[w][j].rule <= Len(ChainRules[j])
Stacked == OneActive /\ AwaitsRule

LEMMA StackedStep ==
    ASSUME Typed, Stacked, StackStep
    PROVE  Stacked'
<1> USE DEF Typed, Stacked
<1>1. CASE UNCHANGED frame
  BY <1>1 DEF OneActive, AwaitsRule
<1>2. CASE frame' = [w \in Workers |-> [j \in Jobs |-> IdleFrame]]
  BY <1>2, IdleTyped DEF OneActive, AwaitsRule
<1>3. ASSUME NEW w \in Workers, NEW j \in Jobs, NEW f \in Frame, MovesOn(w, j, f)
      PROVE  Stacked'
  <2>1. /\ frame'[w][j] = f /\ f.pc # "await"
        /\ \A v \in Workers, k \in Jobs : v # w \/ k # j => frame'[v][k] = frame[v][k]
    BY <1>3, GotoElsewhere DEF MovesOn
  <2>2. \A k \in Jobs : k # j => frame[w][k].pc \in {"idle", "await"}
    BY <1>3 DEF MovesOn, Free, At, Busy, OneActive
  <2>3. OneActive'
    BY <2>1, <2>2 DEF OneActive
  <2>4. AwaitsRule'
    BY <2>1 DEF AwaitsRule
  <2> QED BY <2>3, <2>4
<1>4. ASSUME NEW w \in Workers, NEW j \in Jobs, NEW ok \in BOOLEAN, Return(w, j, ok), Busy(w, j)
      PROVE  Stacked'
  <2>1. \A k \in Jobs : k # j => frame[w][k].pc \in {"idle", "await"}
    BY <1>4 DEF Busy, OneActive
  <2>2. /\ frame'[w][j].pc = "idle"
        /\ \A v \in Workers : v # w => frame'[v] = frame[v]
        /\ \A k \in Jobs : k # j => \/ frame'[w][k] = frame[w][k]
                                   \/ /\ frame[w][k].pc = "await"
                                      /\ ChildOf(w, k) = j
                                      /\ frame'[w][k].pc \in {"chain", "warn"}
    BY <1>4, ReturnElsewhere, IdleTyped
  <2>3. ASSUME NEW k \in Jobs, NEW l \in Jobs,
               frame[w][k].pc = "await", ChildOf(w, k) = j,
               frame[w][l].pc = "await", ChildOf(w, l) = j
        PROVE  k = l
    <3>1. /\ frame[w][k].rule \in 1 .. Len(ChainRules[k])
          /\ frame[w][l].rule \in 1 .. Len(ChainRules[l])
      <4>1. /\ frame[w][k].rule \in Nat \ {0}
            /\ frame[w][l].rule \in Nat \ {0}
        BY DEF TypeOK, Frame
      <4>2. /\ Len(ChainRules[k]) \in Nat
            /\ Len(ChainRules[l]) \in Nat
        BY JobsAssumption
      <4> QED BY <2>3, <4>1, <4>2 DEF AwaitsRule
    <3>2. ChainRules[k][frame[w][k].rule].child = ChainRules[l][frame[w][l].rule].child
      BY <2>3 DEF ChildOf, RuleInHand
    <3>3. \A x \in 1 .. Len(ChainRules[k]), y \in 1 .. Len(ChainRules[l]) :
            ChainRules[k][x].child = ChainRules[l][y].child => k = l
      BY ChildIdsDiffer
    <3> QED BY <3>1, <3>2, <3>3
  <2>4. OneActive'
    BY <2>1, <2>2, <2>3 DEF OneActive
  <2>5. AwaitsRule'
    BY <2>2 DEF AwaitsRule
  <2> QED BY <2>4, <2>5
<1>5. ASSUME NEW w \in Workers, NEW j \in Jobs, DispatchChild(w, j), RuleFires(w, j)
      PROVE  Stacked'
  <2>1. \A k \in Jobs : k # j => frame[w][k].pc \in {"idle", "await"}
    BY <1>5 DEF RuleFires, AtRule, At, OneActive
  <2>2. /\ frame'[w][j].pc = "await"
        /\ frame'[w][ChildOf(w, j)].pc \in {"await", "enter"}
        /\ \A v \in Workers, k \in Jobs :
             v # w \/ k \notin {j, ChildOf(w, j)} => frame'[v][k] = frame[v][k]
    BY <1>5, DispatchChildElsewhere
  <2>3. OneActive'
    BY <2>1, <2>2 DEF OneActive
  <2>4. frame'[w][j].rule \in {1, frame[w][j].rule}
        /\ (ChildOf(w, j) # j => frame'[w][ChildOf(w, j)].pc = "enter")
    BY <1>5, DispatchChildRule
  <2>5. 1 <= Len(ChainRules[j]) /\ frame[w][j].rule <= Len(ChainRules[j])
    <3>1. frame[w][j].rule \in Nat \ {0} /\ Len(ChainRules[j]) \in Nat
      BY JobsAssumption DEF TypeOK, Frame
    <3> QED BY <1>5, <3>1 DEF RuleFires, AtRule
  <2>6. AwaitsRule'
    <3> SUFFICES ASSUME NEW v \in Workers, NEW k \in Jobs, frame'[v][k].pc = "await"
                 PROVE  frame'[v][k].rule <= Len(ChainRules[k])
      BY DEF AwaitsRule
    <3>1. CASE v # w \/ k \notin {j, ChildOf(w, j)}
      BY <2>2, <3>1 DEF AwaitsRule
    <3>2. CASE v = w /\ k = j
      BY <2>4, <2>5, <3>2
    <3>3. CASE v = w /\ k = ChildOf(w, j) /\ k # j
      BY <2>4, <3>3
    <3> QED BY <3>1, <3>2, <3>3
  <2> QED BY <2>3, <2>6
<1> QED BY <1>1, <1>2, <1>3, <1>4, <1>5 DEF StackStep

LEMMA StackedAlways == Spec => [](Typed /\ Stacked)
<1>1. Init => Typed /\ Stacked
  <2>1. Init => Stacked
    BY IdleTyped DEF Init, Stacked, OneActive, AwaitsRule
  <2> QED BY <2>1, InitTyped
<1>2. Typed /\ Stacked /\ [Next]_vars => (Typed /\ Stacked)'
  BY StepTyped, StackSteps, StackedStep
<1> QED BY <1>1, <1>2, PTL DEF Spec

(* What one frame does leaves a dispatch under way in another one alone.   *)
Writes(w, j) ==
    \/ \E f : Goto(w, j, f)
    \/ \E ok : Return(w, j, ok)
    \/ DispatchChild(w, j) /\ RuleFires(w, j)

LEMMA FlightElsewhere ==
    ASSUME Typed, Stacked, NEW w \in Workers, NEW j \in Jobs, Writes(w, j),
           NEW v \in Workers, NEW k \in Jobs, v # w \/ k # j, frame[v][k].pc \in InFlight
    PROVE  frame'[v][k].pc \in InFlight
<1> USE DEF Typed, Stacked
<1>1. CASE \E f : Goto(w, j, f)
  BY <1>1, GotoElsewhere
<1>2. CASE \E ok : Return(w, j, ok)
  <2>1. PICK ok : Return(w, j, ok)
    BY <1>2
  <2>2. frame'[v][k] = frame[v][k]
    BY <2>1, ReturnElsewhere DEF InFlight
  <2> QED BY <2>2
<1>3. CASE DispatchChild(w, j) /\ RuleFires(w, j)
  <2>1. v # w \/ k # ChildOf(w, j)
    BY <1>3 DEF RuleFires, AtRule, At, OneActive, InFlight
  <2> QED BY <1>3, <2>1, DispatchChildElsewhere
<1> QED BY <1>1, <1>2, <1>3 DEF Writes

(* A job that has just been set running has a goroutine at work on it.     *)
THEOREM StartsAreOwned == Spec => []NoOrphanedStart
<1> DEFINE Asked == ~ FaultsAllowed /\ ~ AllowUpdate /\ "running" \notin CreateStatuses
           Starting(k) == job[k].status = "running" /\ job[k].dispatch = "starting"
           Owned(k) == \E w \in Workers : frame[w][k].pc \in InFlight
<1>1. Init => NoOrphanedStart
  BY DEF Init, NoOrphanedStart, NewJob
<1>2. Typed /\ Stacked /\ NoOrphanedStart /\ [Next]_vars => NoOrphanedStart'
  <2> SUFFICES ASSUME Typed, Stacked, NoOrphanedStart, [Next]_vars, Asked,
                      NEW k \in Jobs, Starting(k)'
               PROVE  Owned(k)'
    BY DEF NoOrphanedStart
  <2> USE DEF Typed
  <2>0. Starting(k) => Owned(k)
    BY DEF NoOrphanedStart
  <2>u. CASE job'[k] = job[k] /\ UNCHANGED frame
    BY <2>0, <2>u
  <2>e. ASSUME NEW w \in Workers, NEW j \in Jobs, job'[k] = job[k], Writes(w, j),
               j # k \/ frame[w][j].pc \notin InFlight
        PROVE  Owned(k)'
    <3>1. PICK v \in Workers : frame[v][k].pc \in InFlight
      BY <2>0, <2>e
    <3> QED BY <2>e, <3>1, FlightElsewhere
  <2>1. CASE UNCHANGED vars
    BY <2>u, <2>1 DEF vars
  <2>2. CASE Restart
    <3>1. job' = Reclaimed({j \in Jobs : job[j].status = "running"})
      BY <2>2 DEF Restart
    <3> QED BY <3>1 DEF Reclaimed, TypeOK, JobRecord
  <2>3. ASSUME NEW j \in Jobs, NEW s \in CreateStatuses, Create(j, s)
        PROVE  Owned(k)'
    BY <2>u, <2>3 DEF Create, NewJob, TypeOK
  <2>4. ASSUME NEW act \in FounderActs, Founder(act)
        PROVE  Owned(k)'
    BY <2>u, <2>4 DEF Founder
  <2>5. ASSUME NEW w \in Workers, NEW j \in Jobs, CallDispatch(w, j)
        PROVE  Owned(k)'
    <3>1. Writes(w, j) /\ job' = job /\ frame[w][j].pc \notin InFlight
      BY <2>5 DEF CallDispatch, Writes, Free, At, InFlight, storeVars
    <3> QED BY <2>e, <3>1
  <2>6. ASSUME NEW w \in Workers, NEW j \in Jobs, NEW s \in Terminal,
               NEW ev \in Evidence \cup {"keep"}, CallReport(w, j, s, ev)
        PROVE  Owned(k)'
    <3>1. Writes(w, j) /\ job' = job /\ frame[w][j].pc \notin InFlight
      BY <2>6 DEF CallReport, Writes, Free, At, InFlight, storeVars
    <3> QED BY <2>e, <3>1
  <2>7. ASSUME NEW w \in Workers, NEW j \in Jobs, EnterRefused(w, j) \/ EnterAccepted(w, j)
        PROVE  Owned(k)'
    <3>1. Writes(w, j) /\ job' = job /\ frame[w][j].pc \notin InFlight
      BY <2>7 DEF EnterRefused, EnterAccepted, Move, Writes, At, InFlight, storeVars
    <3> QED BY <2>e, <3>1
  <2>8. ASSUME NEW w \in Workers, NEW j \in Jobs, MarkRunning(w, j)
        PROVE  Owned(k)'
    <3>1. CASE j = k
      <4>1. frame'[w][k] = [frame[w][k] EXCEPT !.pc = "policy"]
        BY <2>8, <3>1, GotoElsewhere DEF MarkRunning, Move
      <4>2. frame[w][k] \in Frame
        BY DEF TypeOK
      <4>3. frame'[w][k].pc = "policy"
        BY <4>1, <4>2, FrameTyped DEF ProgramPoints
      <4> QED BY <4>3 DEF InFlight
    <3>2. CASE j # k
      <4>1. Writes(w, j) /\ job'[k] = job[k]
        BY <2>8, <3>2 DEF MarkRunning, Move, Writes, SetJob, TypeOK
      <4> QED BY <2>e, <3>2, <4>1
    <3> QED BY <3>1, <3>2
  <2>9. ASSUME NEW w \in Workers, NEW j \in Jobs, Policy(w, j) \/ Send(w, j) \/ Record(w, j)
        PROVE  Owned(k)'
    <3>0. frame[w][j] \in Frame
      BY DEF TypeOK
    <3>1. PICK f : Goto(w, j, f) /\ f.pc \in InFlight
      <4>1. CASE Policy(w, j)
        <5> DEFINE g == [frame[w][j] EXCEPT !.pc = "send", !.lane = 1]
        <5>1. Goto(w, j, g)
          BY <4>1 DEF Policy
        <5>2. g.pc \in InFlight
          BY <3>0 DEF InFlight, Frame
        <5> QED BY <5>1, <5>2
      <4>2. CASE Send(w, j)
        <5>1. PICK out : Goto(w, j, [frame[w][j] EXCEPT !.pc = "record", !.out = out])
          BY <4>2 DEF Send
        <5>2. [frame[w][j] EXCEPT !.pc = "record", !.out = out].pc \in InFlight
          BY <3>0 DEF InFlight, Frame
        <5> QED BY <5>1, <5>2
      <4>3. CASE Record(w, j)
        <5> DEFINE g == IF frame[w][j].lane < Lanes[j]
                        THEN [frame[w][j] EXCEPT !.pc = "send", !.lane = frame[w][j].lane + 1]
                        ELSE [frame[w][j] EXCEPT !.pc = "finalize"]
        <5>1. Goto(w, j, g)
          BY <4>3 DEF Record
        <5>2. g.pc \in InFlight
          BY <3>0 DEF InFlight, Frame
        <5> QED BY <5>1, <5>2
      <4> QED BY <2>9, <4>1, <4>2, <4>3
    <3>2. job' = job
      BY <2>9 DEF Policy, Send, Record
    <3>3. CASE j = k
      BY <3>1, <3>3, GotoElsewhere
    <3>4. CASE j # k
      BY <2>e, <3>1, <3>2, <3>4 DEF Writes
    <3> QED BY <3>3, <3>4
  <2>10. ASSUME NEW w \in Workers, NEW j \in Jobs, Finalize(w, j)
         PROVE  Owned(k)'
    <3>1. CASE j = k
      <4>1. \A l \in 1 .. Lanes[j] : calls[<<j, l>>] # << >>
        BY <2>10 DEF Finalize, At, LanesRecorded
      <4>2. Verdict(j) \in GatewayStatuses
        BY <4>1, VerdictTyped
      <4>3. job'[k] = Finalized(Verdict(j))
        BY <2>10, <3>1 DEF Finalize, SetJob, TypeOK
      <4> QED BY <4>2, <4>3 DEF Finalized, GatewayStatuses
    <3>2. CASE j # k
      <4>1. Writes(w, j) /\ job'[k] = job[k]
        BY <2>10, <3>2 DEF Finalize, Writes, SetJob, TypeOK
      <4> QED BY <2>e, <3>2, <4>1
    <3> QED BY <3>1, <3>2
  <2>11. ASSUME NEW w \in Workers, NEW j \in Jobs,
                ReportRefused(w, j) \/ ChainSkip(w, j) \/ ChainDone(w, j) \/ Warn(w, j)
         PROVE  Owned(k)'
    <3>1. Writes(w, j) /\ job' = job /\ frame[w][j].pc \notin InFlight
      BY <2>11 DEF ReportRefused, ChainSkip, ChainDone, Warn, AtRule, At, Writes, InFlight, storeVars
    <3> QED BY <2>e, <3>1
  <2>12. ASSUME NEW w \in Workers, NEW j \in Jobs, Report(w, j)
         PROVE  Owned(k)'
    <3>1. Writes(w, j) /\ frame[w][j].pc \notin InFlight
      BY <2>12 DEF Report, At, Writes, InFlight
    <3>2. CASE j = k
      <4>1. frame[w][j].rep \in Terminal
        BY <2>12 DEF Report, At, LanesRecorded
      <4>2. job'[k].status = frame[w][j].rep
        BY <2>12, <3>2 DEF Report, SetJob, TypeOK
      <4> QED BY <4>1, <4>2 DEF Terminal
    <3>3. CASE j # k
      <4>1. job'[k] = job[k]
        BY <2>12, <3>3 DEF Report, SetJob, TypeOK
      <4> QED BY <2>e, <3>1, <4>1
    <3> QED BY <3>2, <3>3
  <2>13. ASSUME NEW w \in Workers, NEW j \in Jobs, ChainCreate(w, j) \/ ChainExisting(w, j)
         PROVE  Owned(k)'
    <3>1. Writes(w, j) /\ frame[w][j].pc \notin InFlight
      BY <2>13 DEF ChainCreate, ChainExisting, RuleFires, AtRule, At, Writes, InFlight
    <3>2. job'[k] = job[k]
      BY <2>13 DEF ChainCreate, ChainExisting, NewJob, TypeOK, storeVars
    <3> QED BY <2>e, <3>1, <3>2
  <2>14. ASSUME NEW w \in Workers, Step(w)
         PROVE  Owned(k)'
    <3>1. PICK j \in Jobs : DispatchStep(w, j) \/ ReportStep(w, j)
      BY <2>14 DEF Step
    <3>2. CASE DispatchStep(w, j)
      <4>1. ~ DispatchFault(w, j)
        BY DEF DispatchFault
      <4> QED BY <2>7, <2>8, <2>9, <2>10, <3>2, <4>1 DEF DispatchStep
    <3>3. CASE ReportStep(w, j)
      <4>1. ~ ChainFault(w, j)
        BY DEF ChainFault
      <4> QED BY <2>11, <2>12, <2>13, <3>3, <4>1 DEF ReportStep
    <3> QED BY <3>1, <3>2, <3>3
  <2>15. CASE Client
    <3>1. \A j \in Jobs, s \in Statuses, keep \in BOOLEAN : ~ ManualUpdate(j, s, keep)
      BY DEF ManualUpdate
    <3>2. ClientJobs \subseteq Jobs
      BY DEF ClientJobs
    <3> QED BY <2>3, <2>4, <2>5, <2>6, <2>15, <3>1, <3>2 DEF Client
  <2> QED BY <2>1, <2>2, <2>14, <2>15 DEF Next
<1> QED BY <1>1, <1>2, StackedAlways, PTL DEF Spec
============================================================================
