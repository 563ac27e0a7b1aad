--------------------------- MODULE MCAgentThread ---------------------------
(* Instances of AgentThread for TLC. *)
EXTENDS AgentThread, TLC
CONSTANTS m1, m2
=============================================================================
