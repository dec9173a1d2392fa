--------------------------- MODULE MCPlanExecutor ---------------------------
(* Three subtasks and room for two: levels, chunks and every graph. *)
EXTENDS PlanExecutor
============================================================================
