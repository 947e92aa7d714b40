---------------------------- MODULE MCPersistence ----------------------------
(***************************************************************************)
(* Instances of Persistence: the agent jobs, the events, the review room   *)
(* and the company state, in the order of persistDomains.                  *)
(***************************************************************************)
EXTENDS Persistence

MCOrder == <<"agentJob", "event", "reviewRoom", "state">>
==============================================================================
