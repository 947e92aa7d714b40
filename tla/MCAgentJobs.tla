---------------------------- MODULE MCAgentJobs ----------------------------
(***************************************************************************)
(* Small instances of AgentJobs: an implementer job whose success chains   *)
(* to a planner job with dispatch (and whose cancellation chains to a      *)
(* verifier job without).                                                  *)
(***************************************************************************)
EXTENDS AgentJobs, TLC

CONSTANTS jobA, jobB, jobC, w1, w2

TwoJobs == {jobA, jobB}
ThreeJobs == {jobA, jobB, jobC}
RoleOfEach == [j \in Jobs |-> CASE j = jobA -> "implementer"
                                [] j = jobB -> "planner"
                                [] j = jobC -> "verifier"]
OnSuccess == [on |-> "succeeded", child |-> jobB, auto |-> TRUE]
OnCancel == [on |-> "canceled", child |-> jobC, auto |-> FALSE]
ChainOfTwo == [j \in Jobs |-> IF j = jobA THEN << OnSuccess >> ELSE << >>]
ChainOfThree == [j \in Jobs |-> IF j = jobA THEN << OnCancel, OnSuccess >> ELSE << >>]
OneLane == [j \in Jobs |-> 1]
CouncilOfTwo == [j \in Jobs |-> IF j = jobA THEN 2 ELSE 1]
PrimaryLast == Lanes
WorkerSymmetry == Permutations(Workers)
============================================================================
