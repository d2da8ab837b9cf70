----------------------------- MODULE MCAgentRpc -----------------------------
(* AgentRpc for TLC: two callers, so that they compete for the client, and *)
(* three probes, so that two answers can be late at once.                  *)
EXTENDS AgentRpc, TLC

CONSTANTS c1, c2
MCCallers == {c1, c2}
=============================================================================
