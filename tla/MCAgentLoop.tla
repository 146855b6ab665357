----------------------------- MODULE MCAgentLoop -----------------------------
(* The agent's loop with the code's durations and the gateway's defaults.  *)
EXTENDS AgentLoop
==============================================================================
