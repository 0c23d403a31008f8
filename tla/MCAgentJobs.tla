---------------------------- MODULE MCAgentJobs ----------------------------
(***************************************************************************)
(* Instances of AgentJobs for TLC.                                         *)
(***************************************************************************)
EXTENDS AgentJobs

CONSTANTS a1, a2, h1, h2
=============================================================================
