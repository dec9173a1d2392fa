--------------------------- MODULE MCAgentService ---------------------------
(* Model values for checking AgentService. *)
EXTENDS AgentService, TLC

CONSTANTS c1, c2, f1, f2, m1

=============================================================================
