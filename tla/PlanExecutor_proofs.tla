------------------------- MODULE PlanExecutor_proofs -------------------------
(***************************************************************************)
(* Theorems about PlanExecutor, for plans of any size and shape and any    *)
(* limit: stops reach every child at work, the limit is kept, what is      *)
(* settled is closed, and the executor implements PlanPromise.             *)
(***************************************************************************)
EXTENDS PlanExecutor, FiniteSetTheorems, TLAPS

\* How the parts of one child go together while it is spawned, waited for,
\* aborted, stopped and settled.
Child(t) ==
    /\ step[t] \in {"none", "spawned"} =>
           agent[t] = "none" /\ t \notin registered /\ t \notin stopping
    /\ step[t] \in {"spawned", "prompting", "settling"} <=> result[t] = "started"
    /\ step[t] = "over" => result[t] \in {"completed", "failed"}
    /\ agent[t] = "works" => step[t] = "prompting" /\ t \in registered
    /\ t \in stopping => agent[t] # "works"
    /\ step[t] = "over" /\ agent[t] # "none" =>
           /\ t \notin registered /\ agent[t] # "works"
           /\ run[t] \in {result[t], "stopped"}

Children == \A t \in Subtasks : Child(t)

\* What is still to come is waiting, and a level is chosen when all that comes
\* ahead of it is completed.
Levels ==
    /\ plan \in {"idle", "rejected"} => todo = {} /\ With("waiting") = Subtasks
    /\ plan = "running" =>
           /\ Valid /\ With("blocked") = {}
           /\ With("waiting") = remaining \cup todo
    /\ plan = "returned" => todo = {} /\ With("waiting") = {}
    /\ \A t \in todo : Ahead(t) \subseteq With("completed")

Cap == Cardinality(With("started")) <= Limit

IInv == TypeOK /\ Children /\ Levels /\ Cap

-----------------------------------------------------------------------------
(* Counting *)

LEMMA FiniteWith == \A r : IsFiniteSet(With(r)) /\ Cardinality(With(r)) \in Nat
<1> TAKE r
<1>1. With(r) \in SUBSET Subtasks
  BY DEF With
<1> QED
  BY <1>1, FS_Subset, FS_CardinalityType, SubtasksAssumption

\* Subtasks that settle make room.
LEMMA CapKept ==
  ASSUME Cap, With("started")' \subseteq With("started")
  PROVE  Cap'
<1>1. Cardinality(With("started")') <= Cardinality(With("started"))
  BY FS_Subset, FiniteWith
<1>2. Cardinality(With("started")') \in Nat /\ Cardinality(With("started")) \in Nat
  <2>1. IsFiniteSet(With("started")')
    BY FS_Subset, FiniteWith
  <2> QED
    BY <2>1, FiniteWith, FS_CardinalityType
<1> QED
  BY <1>1, <1>2, LimitAssumption DEF Cap

-----------------------------------------------------------------------------
(* Init *)

LEMMA InitInv == Init => IInv
<1> SUFFICES ASSUME Init PROVE IInv
  OBVIOUS
<1>1. TypeOK
  BY DEF Init, TypeOK
<1>2. Children
  BY DEF Init, Children, Child
<1>3. Levels
  BY DEF Init, Levels, With
<1>4. Cap
  <2>1. With("started") = {}
    BY DEF Init, With
  <2> QED
    BY <2>1, FS_EmptySet, LimitAssumption DEF Cap
<1> QED
  BY <1>1, <1>2, <1>3, <1>4 DEF IInv

-----------------------------------------------------------------------------
(* The plan *)

LEMMA ExecuteInv == IInv /\ Execute => IInv'
<1> SUFFICES ASSUME IInv, Execute PROVE IInv'
  OBVIOUS
<1>1. TypeOK'
  <2>1. plan' \in {"running", "rejected"} /\ remaining' \subseteq Subtasks
    BY DEF IInv, TypeOK, Execute
  <2> QED
    BY <2>1 DEF IInv, TypeOK, Levels, Execute, childVars
<1>2. Children'
  BY DEF IInv, Children, Child, Execute, childVars
<1>3. \A r : With(r)' = With(r)
  BY DEF With, Execute, childVars
<1>4. Levels'
  <2>1. todo' = {} /\ With("waiting")' = Subtasks
    BY <1>3 DEF IInv, Levels, Execute
  <2>2. CASE Valid
    <3>1. plan' = "running" /\ remaining' = Subtasks /\ Valid'
      BY <2>2 DEF Execute, Valid, Cyclic
    <3>2. With("blocked")' = {}
      BY <2>1 DEF With
    <3> QED
      BY <2>1, <3>1, <3>2 DEF Levels
  <2>3. CASE ~Valid
    BY <2>1, <2>3 DEF Execute, Levels
  <2> QED
    BY <2>2, <2>3
<1>5. Cap'
  BY <1>3 DEF IInv, Cap
<1> QED
  BY <1>1, <1>2, <1>4, <1>5 DEF IInv

\* In a valid plan only subtasks come ahead of a subtask.
LEMMA AheadIsSubtasks ==
  ASSUME TypeOK, Valid, NEW t \in Subtasks
  PROVE  Ahead(t) \subseteq Subtasks
BY DEF TypeOK, Valid, Ahead

LEMMA NextLevelInv == IInv /\ NextLevel => IInv'
<1> SUFFICES ASSUME IInv, NextLevel PROVE IInv'
  OBVIOUS
<1>0. Level \subseteq remaining
  BY DEF Level
<1>1. TypeOK'
  BY <1>0 DEF IInv, TypeOK, NextLevel, Later, childVars
<1>2. Children'
  BY DEF IInv, Children, Child, NextLevel, childVars
<1>3. \A r : With(r)' = With(r)
  BY DEF With, NextLevel, childVars
<1>4. Levels'
  <2>1. plan = "running" /\ plan' = "running" /\ todo = {} /\ todo' = Level
        /\ remaining' = remaining \ Level
    BY DEF NextLevel, ChunkOver, Later
  <2>2. Valid' /\ \A t : Ahead(t)' = Ahead(t)
    BY <2>1 DEF IInv, Levels, NextLevel, Valid, Cyclic, Ahead
  <2>3. With("waiting")' = remaining' \cup todo' /\ With("blocked")' = {}
    BY <1>0, <1>3, <2>1 DEF IInv, Levels
  <2>4. ASSUME NEW t \in Level PROVE Ahead(t) \subseteq With("completed")
    <3>1. t \in Subtasks /\ Ahead(t) \cap remaining = {} /\ Ahead(t) \subseteq Subtasks
      BY <1>0, <2>1, AheadIsSubtasks DEF IInv, TypeOK, Levels, Level
    <3>2. Subtasks \ remaining \subseteq With("completed")
      BY <2>1 DEF IInv, TypeOK, Levels, NextLevel, ChunkOver, With
    <3> QED
      BY <3>1, <3>2
  <2> QED
    BY <1>3, <2>1, <2>2, <2>3, <2>4 DEF Levels
<1>5. Cap'
  BY <1>3 DEF IInv, Cap
<1> QED
  BY <1>1, <1>2, <1>4, <1>5 DEF IInv

\* What BeginChunk does with a chunk S of which the children in spawned have
\* their records.
Begins(S, spawned) ==
    /\ S \subseteq todo /\ spawned \subseteq S /\ IsChunk(S)
    /\ todo' = todo \ S
    /\ result' = [t \in Subtasks |->
           IF t \in spawned THEN "started"
           ELSE IF t \in S THEN "failed" ELSE result[t]]
    /\ step' = [t \in Subtasks |-> IF t \in spawned THEN "spawned" ELSE step[t]]
    /\ run' = [t \in Subtasks |-> IF t \in spawned THEN "running" ELSE run[t]]

LEMMA BeginChunkInv == IInv /\ BeginChunk => IInv'
<1> SUFFICES ASSUME IInv, BeginChunk PROVE IInv'
  OBVIOUS
<1>1. PICK S \in SUBSET todo, spawned \in SUBSET todo : Begins(S, spawned)
  BY DEF BeginChunk, Begins
<1>2. /\ plan = "running" /\ With("started") = {}
      /\ UNCHANGED <<strategy, deps, plan, remaining, agent, registered, stopping>>
  BY DEF BeginChunk, ChunkOver
<1>3. \A t \in todo : t \in Subtasks /\ result[t] = "waiting"
  BY <1>2 DEF IInv, TypeOK, Levels, With
<1>4. TypeOK'
  BY <1>1, <1>2 DEF IInv, TypeOK, Begins
<1>5. Children'
  <2> SUFFICES ASSUME NEW t \in Subtasks PROVE Child(t)'
    BY DEF Children
  <2>1. Child(t)
    BY DEF IInv, Children
  <2>2. CASE t \in S
    <3>1. step[t] = "none"
      BY <1>1, <1>3, <2>1, <2>2 DEF IInv, TypeOK, Child, Begins
    <3> QED
      BY <1>1, <1>2, <2>1, <2>2, <3>1 DEF Begins, Child
  <2>3. CASE t \notin S
    <3>1. t \notin spawned
      BY <1>1, <2>3 DEF Begins
    <3> QED
      BY <1>1, <1>2, <2>1, <2>3, <3>1 DEF Begins, Child
  <2> QED
    BY <2>2, <2>3
<1>6. With("completed")' = With("completed")
  BY <1>1, <1>3 DEF Begins, With
<1>7. Levels'
  <2>1. Valid' /\ \A t : Ahead(t)' = Ahead(t)
    BY <1>2 DEF IInv, Levels, Valid, Cyclic, Ahead
  <2>2. With("waiting")' = With("waiting") \ S
    BY <1>1, <1>3 DEF Begins, With
  <2>3. With("waiting")' = remaining' \cup todo'
    BY <1>1, <1>2, <2>2 DEF IInv, TypeOK, Levels, Begins
  <2>4. With("blocked")' = {}
    BY <1>1, <1>2 DEF IInv, Levels, Begins, With
  <2>5. todo' \subseteq todo
    BY <1>1 DEF Begins
  <2> QED
    BY <1>2, <1>6, <2>1, <2>3, <2>4, <2>5 DEF IInv, Levels
<1>8. Cap'
  <2>1. With("started")' = spawned
    BY <1>1, <1>2, <1>3 DEF Begins, With
  <2>2. IsFiniteSet(S) /\ spawned \in SUBSET S
    BY <1>1, FS_Subset, SubtasksAssumption DEF IInv, TypeOK, Begins
  <2>3. Cardinality(spawned) <= Cardinality(S) /\ Cardinality(S) <= Limit
    BY <1>1, <2>2, FS_Subset DEF Begins, IsChunk
  <2>4. Cardinality(spawned) \in Nat /\ Cardinality(S) \in Nat
    BY <2>2, FS_Subset, FS_CardinalityType
  <2> QED
    BY <2>1, <2>3, <2>4, LimitAssumption DEF Cap
<1> QED
  BY <1>4, <1>5, <1>7, <1>8 DEF IInv

LEMMA ReturnInv == IInv /\ Return => IInv'
<1> SUFFICES ASSUME IInv, Return PROVE IInv'
  OBVIOUS
<1>1. /\ plan = "running" /\ plan' = "returned" /\ todo = {} /\ With("started") = {}
      /\ remaining' = {}
      /\ result' = [t \in Subtasks |-> IF t \in remaining THEN "blocked" ELSE result[t]]
      /\ UNCHANGED <<strategy, deps, todo, step, agent, registered, run, stopping>>
  BY DEF Return, ChunkOver
<1>2. With("waiting") = remaining
  BY <1>1 DEF IInv, Levels
<1>3. TypeOK'
  BY <1>1 DEF IInv, TypeOK
<1>4. Children'
  <2> SUFFICES ASSUME NEW t \in Subtasks PROVE Child(t)'
    BY DEF Children
  <2>1. Child(t) /\ (t \in remaining => result[t] = "waiting")
    BY <1>2 DEF IInv, Children, With
  <2> QED
    BY <1>1, <2>1 DEF Child, IInv, TypeOK
<1>5. Levels'
  BY <1>1, <1>2 DEF Levels, With
<1>6. Cap'
  <2>1. With("started")' \subseteq With("started")
    BY <1>1 DEF With
  <2> QED
    BY <2>1, CapKept DEF IInv
<1> QED
  BY <1>3, <1>4, <1>5, <1>6 DEF IInv

-----------------------------------------------------------------------------
(* The children *)

\* What a step of child t does to the plan: nothing, except that t may settle.
Settles(t) ==
    /\ UNCHANGED planVars
    /\ \/ result' = result
       \/ /\ result[t] = "started"
          /\ \E r \in {"completed", "failed"} : result' = [result EXCEPT ![t] = r]

LEMMA SettlesKeeps ==
  ASSUME IInv, NEW t \in Subtasks, Settles(t)
  PROVE  Levels' /\ Cap'
<1>1. With("waiting")' = With("waiting") /\ With("blocked")' = With("blocked")
  BY DEF IInv, TypeOK, Settles, With
<1>2. With("completed") \subseteq With("completed")'
  BY DEF IInv, TypeOK, Settles, With
<1>3. With("started")' \subseteq With("started")
  BY DEF IInv, TypeOK, Settles, With
<1>4. (Valid' <=> Valid) /\ \A u : Ahead(u)' = Ahead(u)
  BY DEF Settles, planVars, Valid, Cyclic, Ahead
<1>5. Levels'
  BY <1>1, <1>2, <1>4 DEF IInv, Levels, Settles, planVars
<1> QED
  BY <1>3, <1>5, CapKept DEF IInv

Moves(t) == ChildStep(t) \/ AgentEnds(t) \/ StopAgent(t) \/ StopEnds(t)

LEMMA MovesTyped ==
  ASSUME IInv, NEW t \in Subtasks, Moves(t)
  PROVE  TypeOK'
<1>1. CASE Launch(t)
  BY <1>1 DEF IInv, TypeOK, Launch, planVars
<1>2. CASE LaunchFails(t)
  BY <1>2 DEF IInv, TypeOK, LaunchFails, planVars
<1>3. CASE Prompted(t)
  BY <1>3 DEF IInv, TypeOK, Prompted, Finish, planVars
<1>4. CASE TimesOut(t)
  BY <1>4 DEF IInv, TypeOK, TimesOut, Aborted, planVars
<1>5. CASE Settled(t)
  BY <1>5 DEF IInv, TypeOK, Settled, Finish, planVars
<1>6. CASE AgentEnds(t)
  BY <1>6 DEF IInv, TypeOK, AgentEnds, planVars
<1>7. CASE StopAgent(t)
  BY <1>7 DEF IInv, TypeOK, StopAgent, Aborted, planVars
<1>8. CASE StopEnds(t)
  BY <1>8 DEF IInv, TypeOK, StopEnds, planVars
<1> QED
  BY <1>1, <1>2, <1>3, <1>4, <1>5, <1>6, <1>7, <1>8 DEF Moves, ChildStep

LEMMA MovesSettle ==
  ASSUME IInv, NEW t \in Subtasks, Moves(t)
  PROVE  Settles(t)
<1>0. Child(t) /\ result \in [Subtasks -> {"waiting", "started", "completed", "failed", "blocked"}]
  BY DEF IInv, Children, TypeOK
<1>1. CASE LaunchFails(t)
  BY <1>0, <1>1 DEF LaunchFails, Settles, Child
<1>2. CASE Prompted(t)
  BY <1>0, <1>2 DEF Prompted, Finish, Settles, Child
<1>3. CASE Settled(t)
  BY <1>0, <1>3 DEF Settled, Finish, Settles, Child
<1>4. CASE Launch(t) \/ TimesOut(t) \/ AgentEnds(t) \/ StopAgent(t) \/ StopEnds(t)
  BY <1>4 DEF Launch, TimesOut, AgentEnds, StopAgent, StopEnds, Settles
<1> QED
  BY <1>1, <1>2, <1>3, <1>4 DEF Moves, ChildStep

\* A child's step leaves the other children alone.
LEMMA OthersKept ==
  ASSUME IInv, NEW t \in Subtasks, Moves(t), NEW u \in Subtasks, u # t
  PROVE  /\ step'[u] = step[u] /\ agent'[u] = agent[u]
         /\ result'[u] = result[u] /\ run'[u] = run[u]
         /\ u \in registered' <=> u \in registered
         /\ u \in stopping' <=> u \in stopping
<1>1. CASE Launch(t)
  BY <1>1 DEF IInv, TypeOK, Launch
<1>2. CASE LaunchFails(t)
  BY <1>2 DEF IInv, TypeOK, LaunchFails
<1>3. CASE Prompted(t)
  BY <1>3 DEF IInv, TypeOK, Prompted, Finish
<1>4. CASE TimesOut(t)
  BY <1>4 DEF IInv, TypeOK, TimesOut, Aborted
<1>5. CASE Settled(t)
  BY <1>5 DEF IInv, TypeOK, Settled, Finish
<1>6. CASE AgentEnds(t)
  BY <1>6 DEF IInv, TypeOK, AgentEnds
<1>7. CASE StopAgent(t)
  BY <1>7 DEF IInv, TypeOK, StopAgent, Aborted
<1>8. CASE StopEnds(t)
  BY <1>8 DEF IInv, TypeOK, StopEnds
<1> QED
  BY <1>1, <1>2, <1>3, <1>4, <1>5, <1>6, <1>7, <1>8 DEF Moves, ChildStep

LEMMA MovesChildren ==
  ASSUME IInv, NEW t \in Subtasks, Moves(t)
  PROVE  Children'
<1>0. Child(t) /\ TypeOK
  BY DEF IInv, Children
<1>1. Child(t)'
  <2>1. CASE Launch(t)
    BY <1>0, <2>1 DEF TypeOK, Launch, Child
  <2>2. CASE LaunchFails(t)
    BY <1>0, <2>2 DEF TypeOK, LaunchFails, Child
  <2>3. CASE Prompted(t)
    BY <1>0, <2>3 DEF TypeOK, Prompted, Finish, Busy, Child
  <2>4. CASE TimesOut(t)
    BY <1>0, <2>4 DEF TypeOK, TimesOut, Aborted, Busy, Child
  <2>5. CASE Settled(t)
    BY <1>0, <2>5 DEF TypeOK, Settled, Finish, Child
  <2>6. CASE AgentEnds(t)
    BY <1>0, <2>6 DEF TypeOK, AgentEnds, Busy, Child
  <2>7. CASE StopAgent(t)
    BY <1>0, <2>7 DEF TypeOK, StopAgent, Aborted, Busy, Child
  <2>8. CASE StopEnds(t)
    BY <1>0, <2>8 DEF TypeOK, StopEnds, Child
  <2> QED
    BY <2>1, <2>2, <2>3, <2>4, <2>5, <2>6, <2>7, <2>8 DEF Moves, ChildStep
<1>2. ASSUME NEW u \in Subtasks, u # t PROVE Child(u)'
  BY <1>2, OthersKept DEF IInv, Children, Child
<1> QED
  BY <1>1, <1>2 DEF Children

-----------------------------------------------------------------------------
(* The invariant *)

LEMMA NextInv == IInv /\ [Next]_vars => IInv'
<1> SUFFICES ASSUME IInv, [Next]_vars PROVE IInv'
  OBVIOUS
<1>1. CASE PlanStep
  BY <1>1, ExecuteInv, NextLevelInv, BeginChunkInv, ReturnInv DEF PlanStep
<1>2. ASSUME NEW t \in Subtasks, Moves(t) PROVE IInv'
  BY <1>2, MovesTyped, MovesChildren, MovesSettle, SettlesKeeps DEF IInv
<1>3. CASE UNCHANGED vars
  <2>1. \A r : With(r)' = With(r)
    BY <1>3 DEF vars, childVars, With
  <2> QED
    BY <1>3, <2>1 DEF IInv, TypeOK, Children, Child, Levels, Valid, Cyclic, Ahead, Cap,
                      vars, planVars, childVars
<1> QED
  BY <1>1, <1>2, <1>3 DEF Next, Moves

THEOREM Invariant == Spec => []IInv
BY InitInv, NextInv, PTL DEF Spec

-----------------------------------------------------------------------------
(* The refinement *)

LEMMA SameSets == \A r : Promise!With(r) = With(r)
BY DEF Promise!With, With

LEMMA SameCount == \A S : Promise!Cardinality(S) = Cardinality(S)
BY DEF Promise!Cardinality, Cardinality

LEMMA PlanStepPromise ==
  ASSUME IInv, PlanStep
  PROVE  [Promise!Next]_(Promise!vars)
<1>0. TypeOK /\ Levels
  BY DEF IInv
<1>1. CASE Execute
  <2>1. CASE Valid
    BY <1>1, <2>1 DEF Execute, childVars, Promise!vars, Ahead
  <2>2. CASE ~Valid
    <3>1. Promise!Reject
      BY <1>0, <1>1, <2>2, SameSets DEF Execute, childVars, Levels, Promise!Reject, Ahead
    <3> QED
      BY <3>1 DEF Promise!Next
  <2> QED
    BY <2>1, <2>2
<1>2. CASE NextLevel
  BY <1>2 DEF NextLevel, childVars, Promise!vars, Ahead
<1>3. CASE BeginChunk
  <2>1. PICK S \in SUBSET todo, spawned \in SUBSET todo : Begins(S, spawned)
    BY <1>3 DEF BeginChunk, Begins
  <2>2. plan = "running" /\ With("started") = {} /\ UNCHANGED <<strategy, deps, plan>>
    BY <1>3 DEF BeginChunk, ChunkOver
  <2>3. S \in SUBSET Subtasks /\ S \subseteq With("waiting")
    BY <1>0, <2>1, <2>2 DEF TypeOK, Levels
  <2>4. \A t \in S : Ahead(t) \subseteq With("completed")
    BY <1>0, <2>1 DEF Levels
  <2>5. With("started") \cup S = S /\ Cardinality(S) <= Limit
    BY <2>1, <2>2 DEF Begins, IsChunk
  <2>6. /\ [t \in S |-> IF t \in spawned THEN "started" ELSE "failed"] \in [S -> {"started", "failed"}]
        /\ result' = [t \in Subtasks |->
               IF t \in S THEN [u \in S |-> IF u \in spawned THEN "started" ELSE "failed"][t]
               ELSE result[t]]
    BY <2>1 DEF Begins
  <2>7. Promise!Start(S)
    BY <2>2, <2>3, <2>4, <2>5, <2>6, SameSets, SameCount DEF Promise!Start, Ahead
  <2> QED
    BY <2>3, <2>7 DEF Promise!Next
<1>4. CASE Return
  <2>1. With("waiting") = remaining
    BY <1>0, <1>4 DEF Levels, Return, ChunkOver
  <2>2. Promise!Return
    BY <1>4, <2>1, SameSets DEF Return, ChunkOver, With, Promise!Return, Ahead
  <2> QED
    BY <2>2 DEF Promise!Next
<1> QED
  BY <1>1, <1>2, <1>3, <1>4 DEF PlanStep

LEMMA ChildPromise ==
  ASSUME IInv, NEW t \in Subtasks, Settles(t)
  PROVE  [Promise!Next]_(Promise!vars)
<1>1. CASE result' = result
  BY <1>1 DEF Settles, planVars, Promise!vars, Ahead
<1>2. CASE result' # result
  <2>1. Promise!Settle(t)
    BY <1>2 DEF Settles, planVars, Promise!Settle, Ahead
  <2> QED
    BY <2>1 DEF Promise!Next
<1> QED
  BY <1>1, <1>2

LEMMA NextPromise == IInv /\ [Next]_vars => [Promise!Next]_(Promise!vars)
<1> SUFFICES ASSUME IInv, [Next]_vars PROVE [Promise!Next]_(Promise!vars)
  OBVIOUS
<1>1. CASE PlanStep
  BY <1>1, PlanStepPromise
<1>2. ASSUME NEW t \in Subtasks, Moves(t) PROVE [Promise!Next]_(Promise!vars)
  BY <1>2, MovesSettle, ChildPromise
<1>3. CASE UNCHANGED vars
  BY <1>3 DEF vars, planVars, childVars, Promise!vars, Ahead
<1> QED
  BY <1>1, <1>2, <1>3 DEF Next, Moves

-----------------------------------------------------------------------------
(* The theorems *)

\* The types of the executor's and the orchestrator's state; a level is taken
\* out of what remains (topologicalSort).
THEOREM PlanTyped == Spec => []TypeOK
<1>1. IInv => TypeOK
  BY DEF IInv
<1> QED
  BY <1>1, Invariant, PTL

\* Whatever child is at work can be stopped: its runtime is registered until
\* it has ended or was aborted (spawnAndWait, stopAgent, finishAgent).
THEOREM StopsReach == Spec => []StopReaches
<1>1. IInv => StopReaches
  BY DEF IInv, Children, Child, StopReaches
<1> QED
  BY <1>1, Invariant, PTL

\* Chunks keep maxConcurrency, for the children that were not aborted
\* (executeParallel, chunkArray).
THEOREM WorkersKeepCap == Spec => []WorkersCapped
<1>1. ASSUME IInv PROVE WorkersCapped
  <2> DEFINE W == {t \in Subtasks : agent[t] = "works"}
  <2>1. W \in SUBSET With("started")
    BY <1>1 DEF IInv, Children, Child, With
  <2>2. Cardinality(W) <= Cardinality(With("started")) /\ Cardinality(W) \in Nat
    BY <2>1, FiniteWith, FS_Subset, FS_CardinalityType
  <2>3. Cardinality(With("started")) <= Limit /\ Cardinality(With("started")) \in Nat
    BY <1>1, FiniteWith DEF IInv, Cap
  <2>4. Cardinality(W) <= Limit
    <3> HIDE DEF W
    <3> QED
      BY <2>2, <2>3, LimitAssumption
  <2> QED
    BY <2>4 DEF WorkersCapped
<1> QED
  BY <1>1, Invariant, PTL

\* A settled subtask has no runtime, no agent at work and a closed record
\* (finishAgent, and the stop that may overtake or follow it).
THEOREM SettledAreClosed == Spec => []SettledIsClosed
<1>1. IInv => SettledIsClosed
  BY DEF IInv, Children, Child, SettledIsClosed
<1> QED
  BY <1>1, Invariant, PTL

\* The executor implements the promise of plan_and_spawn: dependencies first,
\* the limit, and blocked subtasks only after a failure.
THEOREM PlanKeepsPromise == Spec => KeepsPlan
<1>1. Init => Promise!Init
  BY SubtasksAssumption DEF Init, Promise!Init, Ahead, Titles
<1> QED
  BY <1>1, NextPromise, Invariant, PTL DEF Spec, KeepsPlan, Promise!Spec
=============================================================================
