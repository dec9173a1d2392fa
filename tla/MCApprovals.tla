---------------------------- MODULE MCApprovals ----------------------------
(* Model values for checking Approvals. *)
EXTENDS Approvals, TLC

CONSTANTS r1, r2, s1, s2

============================================================================
