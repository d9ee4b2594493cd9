---------------------------- MODULE MCAgentLink ----------------------------
(* The state space is finite: sessions repeat without a counter.           *)
EXTENDS AgentLink
=============================================================================
