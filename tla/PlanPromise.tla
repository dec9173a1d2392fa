---------------------------- MODULE PlanPromise ----------------------------
(***************************************************************************)
(* What the caller of plan_and_spawn may rely on, whatever the subtasks'   *)
(* agents do (src/orchestrator/dag-executor.ts): a subtask starts only     *)
(* when all that must come before it is completed, no more than Limit are  *)
(* waited for at once, subtasks are given up only after a failure and only *)
(* when none is running, and the plan returns with the fate of every one.  *)
(* PlanExecutor implements this specification.                             *)
(***************************************************************************)
EXTENDS Naturals, FiniteSets

CONSTANTS
    Subtasks,     \* the subtasks of the plan
    Titles,       \* the titles a subtask may wait for
    Limit         \* subtasks waited for at once

VARIABLES
    before,       \* what each subtask has to wait for
    fate,         \* what has become of each subtask
    verdict       \* "open", "returned" or "rejected"

vars == <<before, fate, verdict>>

With(f) == {t \in Subtasks : fate[t] = f}

Init ==
    /\ before \in [Subtasks -> SUBSET Titles]
    /\ fate = [t \in Subtasks |-> "waiting"]
    /\ verdict = "open"

\* Subtasks S start together; some may fail at once.
Start(S) ==
    /\ verdict = "open" /\ S \subseteq With("waiting")
    /\ \A t \in S : before[t] \subseteq With("completed")
    /\ Cardinality(With("started") \cup S) <= Limit
    /\ \E f \in [S -> {"started", "failed"}] :
           fate' = [t \in Subtasks |-> IF t \in S THEN f[t] ELSE fate[t]]
    /\ UNCHANGED <<before, verdict>>

Settle(t) ==
    /\ fate[t] = "started"
    /\ \E f \in {"completed", "failed"} : fate' = [fate EXCEPT ![t] = f]
    /\ UNCHANGED <<before, verdict>>

\* The plan returns; what is still waiting is blocked by a failure.
Return ==
    /\ verdict = "open" /\ With("started") = {}
    /\ With("waiting") # {} => With("failed") # {}
    /\ fate' = [t \in Subtasks |->
                    IF fate[t] = "waiting" THEN "blocked" ELSE fate[t]]
    /\ verdict' = "returned" /\ UNCHANGED before

\* A plan is refused before any of its subtasks starts.
Reject ==
    /\ verdict = "open" /\ With("waiting") = Subtasks
    /\ verdict' = "rejected" /\ UNCHANGED <<before, fate>>

Next ==
    \/ Return \/ Reject
    \/ \E S \in SUBSET Subtasks : Start(S)
    \/ \E t \in Subtasks : Settle(t)

Spec == Init /\ [][Next]_vars
=============================================================================
