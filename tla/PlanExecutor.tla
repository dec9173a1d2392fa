---------------------------- MODULE PlanExecutor ----------------------------
(***************************************************************************)
(* A plan_and_spawn call: DAGExecutor (src/orchestrator/dag-executor.ts)   *)
(* runs the subtasks of a plan as child agents, level by level and chunk   *)
(* by chunk, while the orchestrator (orchestrator.ts) keeps their records  *)
(* and runtimes and stops them for the task and team tools.                *)
(*                                                                         *)
(* A child agent may fail, throw, be aborted or never answer at all. What  *)
(* its messages say is left out: it ends, or prompt() throws.              *)
(***************************************************************************)
EXTENDS Naturals, FiniteSets

CONSTANTS
    Subtasks,     \* the subtasks of the plan, numbered in its order
    Unknown,      \* a title of no subtask
    Limit         \* maxConcurrency

ASSUME SubtasksAssumption ==
    /\ Subtasks \subseteq Nat /\ IsFiniteSet(Subtasks) /\ Subtasks # {}
    /\ Unknown \notin Subtasks
ASSUME LimitAssumption == Limit \in Nat \ {0}

VARIABLES
    strategy,     \* of the plan
    deps,         \* dependsOn of each subtask
    plan,         \* the call: "idle", "running", "returned", "rejected"
    remaining,    \* subtasks of later levels
    todo,         \* subtasks of this level in later chunks
    result,       \* of each subtask; "started" while spawnAndWait runs
    step,         \* where its spawnAndWait is suspended
    agent,        \* its agent; "aborted" until it winds down, if ever
    registered,   \* children in the orchestrator's runtimes
    run,          \* status of each child's record in the AgentRunStore
    stopping      \* children whose stopAgent waits

planVars == <<strategy, deps, plan, remaining, todo>>
childVars == <<result, step, agent, registered, run, stopping>>
vars == <<planVars, childVars>>

Strategies == {"parallel", "sequential", "pipeline"}
Titles == Subtasks \cup {Unknown}

Init ==
    /\ strategy \in Strategies
    /\ deps \in [Subtasks -> SUBSET Titles]
    /\ plan = "idle" /\ remaining = {} /\ todo = {}
    /\ result = [t \in Subtasks |-> "waiting"]
    /\ step = [t \in Subtasks |-> "none"]
    /\ agent = [t \in Subtasks |-> "none"]
    /\ run = [t \in Subtasks |-> "none"]
    /\ registered = {} /\ stopping = {}

With(r) == {t \in Subtasks : result[t] = r}

----------------------------------------------------------------------------
(* The plan *)

\* Some subtasks wait for each other in a circle.
Cyclic == \E S \in SUBSET Subtasks :
              S # {} /\ \A t \in S : deps[t] \cap S # {}

Valid ==
    /\ strategy # "pipeline"
    /\ \A t \in Subtasks : deps[t] \subseteq Subtasks
    /\ ~Cyclic

Execute ==
    /\ plan = "idle"
    /\ IF Valid
       THEN plan' = "running" /\ remaining' = Subtasks
       ELSE plan' = "rejected" /\ UNCHANGED remaining
    /\ UNCHANGED <<strategy, deps, todo, childVars>>

\* A sequential plan follows its list and ignores dependsOn.
Ahead(t) ==
    IF strategy = "parallel" THEN deps[t] ELSE {u \in Subtasks : u < t}

\* Mutant of Level: one dependency of an earlier level is enough.
LevelOfSome ==
    {t \in remaining : Ahead(t) = {} \/ ~(Ahead(t) \subseteq remaining)}

Level == {t \in remaining : Ahead(t) \cap remaining = {}}

\* Mutant of ChunkOver: the chunks of a level are not awaited.
ChunkBegun == plan = "running"

\* Promise.all has returned for the last chunk.
ChunkOver == plan = "running" /\ With("started") = {}

\* Mutant of Later: a level is not taken out of what remains.
LaterKept == remaining

Later == remaining \ Level

NextLevel ==
    /\ ChunkOver /\ todo = {} /\ With("failed") = {} /\ Level # {}
    /\ todo' = Level
    /\ remaining' = Later
    /\ UNCHANGED <<strategy, deps, plan, childVars>>

\* The first Limit subtasks of what is left of the level.
IsChunk(S) ==
    /\ Cardinality(S) <= Limit
    /\ S = todo \/ Cardinality(S) = Limit
    /\ \A t \in S, u \in todo \ S : t < u

\* Each subtask of a chunk gets its record, or fails for want of a persona.
BeginChunk ==
    /\ ChunkOver /\ todo # {}
    /\ \E S \in SUBSET todo, spawned \in SUBSET todo :
        /\ IsChunk(S) /\ spawned \subseteq S
        /\ todo' = todo \ S
        /\ result' = [t \in Subtasks |->
               IF t \in spawned THEN "started"
               ELSE IF t \in S THEN "failed" ELSE result[t]]
        /\ step' = [t \in Subtasks |->
               IF t \in spawned THEN "spawned" ELSE step[t]]
        /\ run' = [t \in Subtasks |->
               IF t \in spawned THEN "running" ELSE run[t]]
    /\ UNCHANGED <<strategy, deps, plan, remaining, agent, registered, stopping>>

\* After a failure in a level, the later levels are blocked.
Return ==
    /\ ChunkOver /\ todo = {}
    /\ With("failed") # {} \/ remaining = {}
    /\ result' = [t \in Subtasks |->
           IF t \in remaining THEN "blocked" ELSE result[t]]
    /\ remaining' = {} /\ plan' = "returned"
    /\ UNCHANGED <<strategy, deps, todo, step, agent, registered, run, stopping>>

----------------------------------------------------------------------------
(* One subtask: spawnAndWait *)

\* Mutant of Launch: the runtime is not registered.
LaunchUnknown(t) ==
    /\ step[t] = "spawned"
    /\ step' = [step EXCEPT ![t] = "prompting"]
    /\ agent' = [agent EXCEPT ![t] = "works"]
    /\ UNCHANGED <<planVars, result, registered, run, stopping>>

Launch(t) ==
    /\ step[t] = "spawned"
    /\ step' = [step EXCEPT ![t] = "prompting"]
    /\ agent' = [agent EXCEPT ![t] = "works"]
    /\ registered' = registered \cup {t}
    /\ UNCHANGED <<planVars, result, run, stopping>>

\* createAgent throws: the record is left as it is.
LaunchFails(t) ==
    /\ step[t] = "spawned"
    /\ step' = [step EXCEPT ![t] = "over"]
    /\ result' = [result EXCEPT ![t] = "failed"]
    /\ UNCHANGED <<planVars, agent, registered, run, stopping>>

Busy(t) == agent[t] \in {"works", "aborted"}

\* A model error or an abort ends a run as its success does.
AgentEnds(t) ==
    /\ Busy(t)
    /\ \E a \in {"ended", "threw"} : agent' = [agent EXCEPT ![t] = a]
    /\ UNCHANGED <<planVars, result, step, registered, run, stopping>>

Aborted(t) == IF Busy(t) THEN [agent EXCEPT ![t] = "aborted"] ELSE agent

\* finishAgent, and what the caller of spawnAndWait gets.
Finish(t, status) ==
    /\ run' = [run EXCEPT ![t] = status]
    /\ registered' = registered \ {t}
    /\ result' = [result EXCEPT ![t] = status]
    /\ step' = [step EXCEPT ![t] = "over"]

Prompted(t) ==
    /\ step[t] = "prompting" /\ ~Busy(t)
    /\ Finish(t, IF agent[t] = "threw" THEN "failed" ELSE "completed")
    /\ UNCHANGED <<planVars, agent, stopping>>

\* Mutant of TimesOut: the agent is not aborted.
TimesOutQuietly(t) ==
    /\ step[t] = "prompting" /\ Busy(t)
    /\ step' = [step EXCEPT ![t] = "settling"]
    /\ UNCHANGED <<planVars, result, agent, registered, run, stopping>>

TimesOut(t) ==
    /\ step[t] = "prompting" /\ Busy(t)
    /\ step' = [step EXCEPT ![t] = "settling"]
    /\ agent' = Aborted(t)
    /\ UNCHANGED <<planVars, result, registered, run, stopping>>

\* Mutant of GraceOver: the wait for an aborted agent has no limit.
GraceEndless(t) == ~Busy(t)

\* The aborted agent has wound down, or the grace period is over.
GraceOver(t) == TRUE

Settled(t) ==
    /\ step[t] = "settling" /\ GraceOver(t)
    /\ Finish(t, "failed")
    /\ UNCHANGED <<planVars, agent, stopping>>

----------------------------------------------------------------------------
(* task_stop and team_delete *)

StopAgent(t) ==
    /\ run[t] # "none" /\ t \notin stopping
    /\ IF t \in registered
       THEN /\ agent' = Aborted(t)
            /\ stopping' = stopping \cup {t}
            /\ UNCHANGED run
       ELSE /\ run' = [run EXCEPT ![t] = "stopped"]
            /\ UNCHANGED <<agent, stopping>>
    /\ UNCHANGED <<planVars, result, step, registered>>

\* The agent is idle, or ten seconds are over.
StopEnds(t) ==
    /\ t \in stopping
    /\ stopping' = stopping \ {t}
    /\ registered' = registered \ {t}
    /\ run' = [run EXCEPT ![t] = "stopped"]
    /\ UNCHANGED <<planVars, result, step, agent>>

----------------------------------------------------------------------------

PlanStep == Execute \/ NextLevel \/ BeginChunk \/ Return
ChildStep(t) ==
    Launch(t) \/ LaunchFails(t) \/ Prompted(t) \/ TimesOut(t) \/ Settled(t)

Next ==
    \/ PlanStep
    \/ \E t \in Subtasks :
           ChildStep(t) \/ AgentEnds(t) \/ StopAgent(t) \/ StopEnds(t)

Spec == Init /\ [][Next]_vars

\* Continuations run and timers fire; an agent may never answer.
Fairness == WF_vars(PlanStep) /\ \A t \in Subtasks : WF_vars(ChildStep(t))
FairSpec == Spec /\ Fairness

----------------------------------------------------------------------------
(* Properties *)

\* Every variable has its type, and no subtask is due twice.
TypeOK ==
    /\ strategy \in Strategies
    /\ deps \in [Subtasks -> SUBSET Titles]
    /\ plan \in {"idle", "running", "returned", "rejected"}
    /\ remaining \subseteq Subtasks /\ todo \subseteq Subtasks
    /\ remaining \cap todo = {}
    /\ result \in [Subtasks ->
           {"waiting", "started", "completed", "failed", "blocked"}]
    /\ step \in [Subtasks -> {"none", "spawned", "prompting", "settling", "over"}]
    /\ agent \in [Subtasks -> {"none", "works", "aborted", "ended", "threw"}]
    /\ run \in [Subtasks -> {"none", "running", "completed", "failed", "stopped"}]
    /\ registered \subseteq Subtasks /\ stopping \subseteq Subtasks

\* A stop reaches every child at work: whoever lets go of a child's runtime
\* (its end, its timeout, another stop) has aborted it before.
StopReaches == \A t \in Subtasks : agent[t] = "works" => t \in registered

\* No more than maxConcurrency children work, those that were told to abort
\* and will not end apart: a chunk starts when the one before is settled.
WorkersCapped == Cardinality({t \in Subtasks : agent[t] = "works"}) <= Limit

\* A subtask that is settled has no runtime and no agent at work, and its
\* record says what the plan says, unless a stop wrote over it, before or
\* after. The record of an agent that could not be created stays open.
SettledIsClosed ==
    \A t \in Subtasks :
        step[t] = "over" /\ agent[t] # "none" =>
            /\ t \notin registered /\ agent[t] # "works"
            /\ run[t] \in {result[t], "stopped"}

\* The executor keeps the promise of plan_and_spawn.
Promise == INSTANCE PlanPromise WITH
    before <- [t \in Subtasks |-> Ahead(t)],
    fate <- result,
    verdict <- IF plan \in {"returned", "rejected"} THEN plan ELSE "open"

KeepsPlan == Promise!Spec

\* A plan that was accepted returns, even when agents hang, are stopped or
\* throw: neither an empty level nor a hung child holds it up.
PlanReturns == plan = "running" ~> plan = "returned"
=============================================================================
