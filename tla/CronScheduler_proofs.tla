------------------------ MODULE CronScheduler_proofs ------------------------
(* Theorems about CronScheduler, for any set of jobs, slots and times. *)
EXTENDS CronScheduler, FiniteSetTheorems, TLAPS

----------------------------------------------------------------------------
(* Facts about the helpers *)

LEMMA NextOccurrenceType ==
    ASSUME now \in Nat, NEW kind
    PROVE  NextOccurrence(kind) \in Nat
<1>1. Interval \in Nat \ {0} /\ CronPeriod \in Nat \ {0}
  BY CronAssumption
<1>2. now \div CronPeriod \in Nat
  BY <1>1
<1>3. ((now \div CronPeriod) + 1) * CronPeriod \in Nat
  BY <1>1, <1>2
<1> QED
  BY <1>1, <1>3 DEF NextOccurrence

LEMMA LaunchedType ==
    ASSUME now \in Nat, NEW job \in Job
    PROVE  Launched(job) \in Job
BY NextOccurrenceType DEF Launched, AdvanceNextRun, Job, JobStates, Time

LEMMA HandledType ==
    ASSUME now \in Nat, NEW job \in Job, NEW status \in {"success", "error", "timeout"}
    PROVE  Handled(job, status) \in Job
<1> DEFINE Retries == 0..Len(Backoff)
<1>1. Len(Backoff) \in Nat \ {0} /\ \A i \in 1..Len(Backoff) : Backoff[i] \in Nat
  BY CronAssumption
<1>2. NextRetry(job.retryCount) \in 1..Len(Backoff)
  BY <1>1 DEF NextRetry, Job
<1>3. BackoffFor(NextRetry(job.retryCount)) \in Time
  BY <1>1, <1>2 DEF BackoffFor, Time
<1>4. 0 \in Retries /\ NextRetry(job.retryCount) \in Retries
  BY <1>1, <1>2
<1>5. Job = [kind : AllKinds, enabled : BOOLEAN, state : JobStates, nextRunAt : Time,
             lastRunAt : Time, retryCount : Retries, endAt : Time]
  BY DEF Job
<1>6. Null \in Time /\ "idle" \in JobStates /\ "completed" \in JobStates
  BY DEF Time, JobStates
<1> HIDE DEF Retries
<1>7. [job EXCEPT !.retryCount = 0, !.nextRunAt = Null, !.state = "completed"] \in Job
  BY <1>4, <1>5, <1>6
<1>8. [job EXCEPT !.retryCount = 0, !.state = "idle"] \in Job
  BY <1>4, <1>5, <1>6
<1>9. \A r \in Retries, t \in Time :
        [job EXCEPT !.retryCount = r, !.nextRunAt = t, !.state = "idle"] \in Job
  BY <1>5, <1>6
<1>10. [job EXCEPT !.state = "idle"] \in Job
  BY <1>5, <1>6
<1> QED
  BY <1>3, <1>4, <1>7, <1>8, <1>9, <1>10 DEF Handled

----------------------------------------------------------------------------
(* The operations of the API, without the bounds on their arguments *)
LEMMA ApiCases ==
    ASSUME Api
    PROVE  \/ \E j \in JobIds : Remove(j) \/ Pause(j) \/ Resume(j)
           \/ \E j \in JobIds : \E kind, at, end : Add(j, kind, at, end)
           \/ \E j \in JobIds : \E kind, at, en, cleared : Put(j, kind, at, en, cleared)
           \/ \E j \in JobIds, s \in Slots : RunOnce(j, s)
BY Zenon DEF Api

----------------------------------------------------------------------------
(* Types *)

LEMMA InitTyped == Init => TypeOK
<1>1. Init => FlagsOK
  BY Zenon DEF Init, FlagsOK
<1> QED
  BY <1>1 DEF Init, TypeOK

\* No action gives a flag a value that is not a boolean.
LEMMA FlagsTyped ==
    ASSUME FlagsOK, [Next]_vars
    PROVE  FlagsOK'
<1> USE DEF FlagsOK, loop
<1>1. CASE Api
  <2>1. \/ \E j \in JobIds : Remove(j) \/ Pause(j) \/ Resume(j)
        \/ \E j \in JobIds : \E kind, at, end : Add(j, kind, at, end)
        \/ \E j \in JobIds : \E kind, at, en, cleared : Put(j, kind, at, en, cleared)
        \/ \E j \in JobIds, s \in Slots : RunOnce(j, s)
    BY <1>1, ApiCases, Zenon
  <2>2. ASSUME NEW j \in JobIds, Remove(j) \/ Pause(j) \/ Resume(j) PROVE FlagsOK'
    BY <2>2, Zenon DEF Remove, Pause, Resume, Store
  <2>3. ASSUME NEW j \in JobIds, NEW kind, NEW at, NEW end, Add(j, kind, at, end) PROVE FlagsOK'
    BY <2>3, Zenon DEF Add, Store
  <2>4. ASSUME NEW j \in JobIds, NEW kind, NEW at, NEW en, NEW cleared, Put(j, kind, at, en, cleared) PROVE FlagsOK'
    BY <2>4, Zenon DEF Put, Store
  <2>5. ASSUME NEW j \in JobIds, NEW s \in Slots, RunOnce(j, s) PROVE FlagsOK'
    BY <2>5, Zenon DEF RunOnce, Store
  <2> QED
    BY <2>1, <2>2, <2>3, <2>4, <2>5, Zenon
<1>2. ASSUME NEW s \in Slots, RunStep(s) PROVE FlagsOK'
  BY <1>2, Zenon DEF RunStep, AgentAnswers, AgentFails, AgentTimesOut, Delivered, Finish, Store
<1>3. CASE Start \/ Stop \/ TickStart \/ TickEnd
  BY <1>3, Zenon DEF Start, Stop, TickStart, TickEnd, Store
<1>4. CASE Persist \/ PersistFails \/ Crash \/ ClockTick
  BY <1>4, Zenon DEF Persist, PersistFails, Crash, ClockTick
<1>5. CASE UNCHANGED vars
  BY <1>5, Zenon DEF vars
<1> QED
  BY <1>1, <1>2, <1>3, <1>4, <1>5, Zenon DEF Next

LEMMA FinishTyped ==
    ASSUME TypeOK, FlagsOK', NEW s \in Slots, runs[s] # Null,
           NEW status \in {"success", "error", "timeout"}, Finish(s, status)
    PROVE  TypeOK'
<1> DEFINE run == runs[s]
           j == run.job
<1>1. run \in Run /\ j \in JobIds
  BY DEF TypeOK, Run
<1>2. jobs' \in [JobIds -> Job \union {Null}]
  <2>1. CASE ~Exists(j)
    BY <2>1 DEF Finish, TypeOK
  <2>2. CASE Exists(j)
    <3>1. jobs[j] \in Job
      BY <1>1, <2>2 DEF TypeOK, Exists
    <3>2. Handled(jobs[j], status) \in Job
      BY <3>1, HandledType DEF TypeOK
    <3>3. run.by = "manual" => Restored(jobs[j], run) \in Job
      BY <1>1, <3>1 DEF Restored, Job, JobStates, Run
    <3>4. jobs' = [jobs EXCEPT ![j] = IF run.by = "tick" THEN Handled(@, status) ELSE Restored(@, run)]
      BY <2>2 DEF Finish, Store
    <3>5. run.by \in {"tick", "manual"}
      BY <1>1 DEF Run
    <3> QED
      BY <3>1, <3>2, <3>3, <3>5, <3>4, <2>2, <1>1 DEF TypeOK, Finish, Store
  <2> QED BY <2>1, <2>2
<1>3. runs' \in [Slots -> Run \union {Null}] /\ queue' \subseteq JobIds
  BY DEF Finish, TypeOK, TickRun, Run, Time
<1>4. touched' \subseteq JobIds
  BY <1>3 DEF Finish, Touch, TypeOK, InFlight
<1> QED
  BY <1>2, <1>3, <1>4 DEF Finish, TypeOK

LEMMA TickStartTyped ==
    ASSUME TypeOK, FlagsOK', TickStart
    PROVE  TypeOK'
<1> DEFINE due == {j \in JobIds : IsDue(j)}
           expired == {j \in due : Past(jobs[j].endAt, now)}
           batch == due \ expired
<1>1. \A j \in due : jobs[j] \in Job
  BY DEF IsDue, Exists, TypeOK
<1>2. \A job \in Job : Completed(job) \in Job /\ Launched(job) \in Job
  <2>1. \A job \in Job : Completed(job) \in Job
    BY DEF Completed, Job, JobStates, Time
  <2>2. \A job \in Job : Launched(job) \in Job
    BY LaunchedType DEF TypeOK
  <2> QED BY <2>1, <2>2
<1>3. jobs' \in [JobIds -> Job \union {Null}]
  <2>1. CASE due = {}
    BY <2>1 DEF TickStart, TypeOK
  <2>2. CASE due # {}
    <3>1. jobs' = [j \in JobIds |-> IF j \in expired THEN Completed(jobs[j])
                                   ELSE IF j \in batch THEN Launched(jobs[j]) ELSE jobs[j]]
         
      BY <2>2 DEF TickStart, Store
    <3>2. \A j \in JobIds : jobs'[j] \in Job \union {Null}
      BY <3>1, <1>1, <1>2 DEF TypeOK
    <3> QED BY <3>1, <3>2
  <2> QED BY <2>1, <2>2
<1>4. \A j \in JobIds : TickRun(j) \in Run
  BY DEF TickRun, Run
<1>5. runs' \in [Slots -> Run \union {Null}] /\ queue' \subseteq JobIds
  <2>1. PICK first \in SUBSET batch : \E at \in [first -> Free] :
              /\ runs' = [s \in Slots |-> IF \E j \in first : at[j] = s
                                          THEN TickRun(CHOOSE j \in first : at[j] = s)
                                          ELSE runs[s]]
              /\ queue' = batch \ first
    BY DEF TickStart
  <2>2. first \subseteq JobIds /\ batch \subseteq JobIds
    BY <2>1
  <2>3. PICK at \in [first -> Free] :
              runs' = [s \in Slots |-> IF \E j \in first : at[j] = s
                                      THEN TickRun(CHOOSE j \in first : at[j] = s)
                                      ELSE runs[s]]
    BY <2>1
  <2>4. \A s \in Slots : (\E j \in first : at[j] = s) => (CHOOSE j \in first : at[j] = s) \in JobIds
    BY <2>2
  <2> QED
    BY <1>4, <2>1, <2>2, <2>3, <2>4 DEF TypeOK
<1> QED
  BY <1>3, <1>5 DEF TickStart, TypeOK

LEMMA TickEndTyped ==
    ASSUME TypeOK, FlagsOK', TickEnd
    PROVE  TypeOK'
<1>1. \A j \in JobIds : Missed(j) \/ Stuck(j) => jobs[j] \in Job
  BY DEF Missed, Stuck, Exists, TypeOK
<1>2. \A job \in Job : Completed(job) \in Job /\ [job EXCEPT !.state = "idle"] \in Job
  BY DEF Completed, Job, JobStates, Time
<1>3. jobs' \in [JobIds -> Job \union {Null}]
  BY <1>1, <1>2 DEF TickEnd, TypeOK, Store
<1>4. touched' \subseteq JobIds
  BY DEF TickEnd, Touch, TypeOK
<1> QED
  BY <1>3, <1>4 DEF TickEnd, TypeOK

LEMMA FirstRunsType ==
    ASSUME now \in Nat, NEW kind
    PROVE  FirstRuns(kind) \subseteq Nat
<1>1. MaxTime \in Nat
  BY CronAssumption
<1> QED
  BY <1>1, NextOccurrenceType DEF FirstRuns

LEMMA StoreTyped ==
    ASSUME TypeOK, NEW j \in JobIds, NEW job \in Job \union {Null}, Store([jobs EXCEPT ![j] = job])
    PROVE  jobs' \in [JobIds -> Job \union {Null}]
BY DEF Store, TypeOK

LEMMA ApiTyped ==
    ASSUME TypeOK, FlagsOK', Api
    PROVE  TypeOK'
<1>1. now \in Nat
  BY DEF TypeOK
<1>2. \A j \in JobIds : Exists(j) => jobs[j] \in Job
  BY DEF TypeOK, Exists
<1>3. JobStates = {"idle", "running", "paused", "completed"} /\ Null \in Time /\ Nat \subseteq Time
  BY DEF JobStates, Time
<1>4. Kinds \subseteq AllKinds /\ EndTimes \subseteq Time /\ EditTimes \subseteq Nat /\ Null \notin AllKinds
  BY CronAssumption
<1>5. ASSUME NEW j \in JobIds, NEW kind \in Kinds, NEW at \in 0..(MaxTime + Interval + CronPeriod),
             NEW end \in EndTimes, Add(j, kind, at, end)
      PROVE  TypeOK'
  <2>1. at \in Time
    BY <1>1, <1>3, <1>5, FirstRunsType DEF Add
  <2>2. 0 \in 0..Len(Backoff)
    BY CronAssumption
  <2>3. [kind |-> kind, enabled |-> TRUE, state |-> "idle", nextRunAt |-> at,
         lastRunAt |-> Null, retryCount |-> 0, endAt |-> end] \in Job
    BY <1>3, <1>4, <2>1, <2>2 DEF Job
  <2> QED
    BY <1>5, <2>3, StoreTyped DEF Add, loop, TypeOK
<1>6. ASSUME NEW j \in JobIds, Remove(j) PROVE TypeOK'
  BY <1>6, StoreTyped DEF Remove, loop, TypeOK
<1>7. ASSUME NEW j \in JobIds, Pause(j) PROVE TypeOK'
  <2>1. [jobs[j] EXCEPT !.enabled = FALSE, !.state = "paused"] \in Job
    BY <1>2, <1>3, <1>7 DEF Pause, Job
  <2>2. Store([jobs EXCEPT ![j] = [jobs[j] EXCEPT !.enabled = FALSE, !.state = "paused"]])
    BY <1>7 DEF Pause, TypeOK, Store
  <2> QED
    BY <1>7, <2>1, <2>2, StoreTyped DEF Pause, loop, TypeOK, Touch
<1>8. ASSUME NEW j \in JobIds, Resume(j) PROVE TypeOK'
  <2>1. RecomputeNextRun(jobs[j]) \in Time
    BY <1>1, <1>2, <1>3, <1>8, NextOccurrenceType DEF Resume, RecomputeNextRun, Job
  <2>2. \A next \in Time : [jobs[j] EXCEPT !.enabled = TRUE, !.state = "idle", !.nextRunAt = next] \in Job
    BY <1>2, <1>3, <1>8 DEF Resume, Job
  <2>3. Store([jobs EXCEPT ![j] = [jobs[j] EXCEPT !.enabled = TRUE, !.state = "idle",
                                                  !.nextRunAt = RecomputeNextRun(jobs[j])]])
    BY <1>8 DEF Resume, TypeOK, Store
  <2> QED
    BY <1>8, <2>1, <2>2, <2>3, StoreTyped DEF Resume, loop, TypeOK, Touch
<1>9. ASSUME NEW j \in JobIds, NEW kind \in Kinds \union {Null}, NEW at \in EditTimes \union {Null},
             NEW en \in BOOLEAN \union {Null}, NEW cleared \in BOOLEAN, Put(j, kind, at, en, cleared)
      PROVE  TypeOK'
  <2> DEFINE Edited(first, e, st) == [jobs[j] EXCEPT !.kind = IF kind # Null THEN kind ELSE jobs[j].kind,
                                                     !.nextRunAt = first, !.enabled = e, !.state = st]
  <2>1. jobs[j] \in Job
    BY <1>2, <1>9 DEF Put
  <2>2. \A first \in Time, e \in BOOLEAN, st \in JobStates : Edited(first, e, st) \in Job
    BY <2>1, <1>4 DEF Job
  <2>3. PICK first, e, st : /\ Store([jobs EXCEPT ![j] = Edited(first, e, st)])
                            /\ first \in FirstRuns(kind) \union {at, Null, jobs[j].nextRunAt}
                            /\ e \in {TRUE, jobs[j].enabled} \/ (en # Null /\ e = en)
                            /\ st \in {"idle", "paused", jobs[j].state}
    BY <1>9, Zenon DEF Put
  <2>4. first \in Time
    BY <2>1, <2>3, <1>1, <1>3, <1>4, FirstRunsType DEF Job
  <2>5. e \in BOOLEAN /\ st \in JobStates
    BY <2>1, <2>3, <1>3 DEF Job
  <2> QED
    BY <1>9, <2>2, <2>3, <2>4, <2>5, StoreTyped DEF Put, loop, TypeOK, Touch
<1>10. ASSUME NEW j \in JobIds, NEW s \in Slots, RunOnce(j, s) PROVE TypeOK'
  <2>1. Exists(j) /\ jobs[j].state # "running"
    BY <1>10 DEF RunOnce, MayRunOnce
  <2>2. [jobs[j] EXCEPT !.state = "running"] \in Job
    BY <1>2, <1>3, <2>1 DEF Job
  <2>3. Store([jobs EXCEPT ![j] = [jobs[j] EXCEPT !.state = "running"]])
    BY <1>10 DEF RunOnce, TypeOK, Store
  <2>4. [job |-> j, by |-> "manual", phase |-> "agent",
         hadState |-> jobs[j].state, hadNext |-> jobs[j].nextRunAt] \in Run
    BY <1>2, <2>1 DEF Job, Run
  <2> QED
    BY <1>10, <2>2, <2>3, <2>4, StoreTyped DEF RunOnce, loop, TypeOK
<1> QED
  BY <1>5, <1>6, <1>7, <1>8, <1>9, <1>10 DEF Api

LEMMA StepTyped == TypeOK /\ [Next]_vars => TypeOK'
<1> SUFFICES ASSUME TypeOK, [Next]_vars PROVE TypeOK'
  OBVIOUS
<1>1. FlagsOK'
  BY FlagsTyped DEF TypeOK
<1>2. CASE Api
  BY <1>1, <1>2, ApiTyped
<1>3. ASSUME NEW s \in Slots, RunStep(s) PROVE TypeOK'
  <2>1. CASE AgentAnswers(s)
    <3>1. [runs[s] EXCEPT !.phase = "deliver"] \in Run
      BY <2>1 DEF AgentAnswers, TypeOK, Run
    <3> QED
      BY <1>1, <2>1, <3>1 DEF AgentAnswers, loop, TypeOK
  <2>2. CASE AgentFails(s) \/ AgentTimesOut(s) \/ Delivered(s)
    BY <1>1, <2>2, FinishTyped DEF AgentFails, AgentTimesOut, Delivered
  <2> QED
    BY <1>3, <2>1, <2>2 DEF RunStep
<1>4. CASE TickStart
  BY <1>1, <1>4, TickStartTyped
<1>5. CASE TickEnd
  BY <1>1, <1>5, TickEndTyped
<1>6. CASE Start \/ Stop \/ Persist \/ PersistFails
  BY <1>1, <1>6 DEF Start, Stop, Persist, PersistFails, loop, TypeOK
<1>7. CASE Crash \/ ClockTick
  BY <1>1, <1>7 DEF Crash, ClockTick, loop, TypeOK
<1>8. CASE UNCHANGED vars
  BY <1>1, <1>8 DEF vars, TypeOK
<1> QED
  BY <1>2, <1>3, <1>4, <1>5, <1>6, <1>7, <1>8 DEF Next

\* Every variable keeps its type: store, file, runs and the scheduler's own state
\* (store.ts, scheduler.ts, service.ts).
THEOREM SchedulerTyped == Spec => []TypeOK
BY InitTyped, StepTyped, PTL DEF Spec

----------------------------------------------------------------------------
(* Scheduled executions.  Only a tick in progress has a queue and workers. *)

BatchInTick == ~ticking => queue = {} /\ TickRuns = {}

ExclusiveInv == BatchInTick /\ TickRunsExclusive

LEMMA TickStartExclusive ==
    ASSUME TypeOK, ExclusiveInv, TickStart
    PROVE  ExclusiveInv'
<1>1. ~ticking /\ TickRuns = {} /\ ticking'
  BY DEF TickStart, MayTick, ExclusiveInv, BatchInTick
<1>2a. PICK first \in SUBSET JobIds : \E at \in [first -> Free] :
          /\ \A j, k \in first : at[j] = at[k] => j = k
          /\ runs' = [s \in Slots |-> IF \E j \in first : at[j] = s
                                      THEN TickRun(CHOOSE j \in first : at[j] = s)
                                      ELSE runs[s]]
          /\ queue' \intersect first = {}
  BY DEF TickStart
<1>2. PICK at \in [first -> Free] :
          /\ \A j, k \in first : at[j] = at[k] => j = k
          /\ runs' = [s \in Slots |-> IF \E j \in first : at[j] = s
                                      THEN TickRun(CHOOSE j \in first : at[j] = s)
                                      ELSE runs[s]]
          /\ queue' \intersect first = {}
  BY <1>2a
<1>3. \A s \in Slots : \A j \in first : at[j] = s => runs'[s].job = j
  <2> SUFFICES ASSUME NEW s \in Slots, NEW j \in first, at[j] = s PROVE runs'[s].job = j
    OBVIOUS
  <2>1. (CHOOSE k \in first : at[k] = s) = j
    BY <1>2
  <2> QED
    BY <1>2, <2>1 DEF TickRun
<1>4. \A s \in TickRuns' : \E j \in first : at[j] = s
  BY <1>1, <1>2 DEF TickRuns
<1>5. \A s, t \in TickRuns' : runs'[s].job = runs'[t].job => s = t
  BY <1>2, <1>3, <1>4 DEF TickRuns
<1>6. \A s \in TickRuns' : runs'[s].job \notin queue'
  BY <1>2, <1>3, <1>4 DEF TickRuns
<1> QED
  BY <1>1, <1>5, <1>6 DEF ExclusiveInv, BatchInTick, TickRunsExclusive

LEMMA FinishExclusive ==
    ASSUME TypeOK, ExclusiveInv, NEW s \in Slots, runs[s] # Null, NEW status, Finish(s, status)
    PROVE  ExclusiveInv'
<1>1. CASE TakesNext(runs[s])
  <2>1. PICK k \in queue : queue' = queue \ {k} /\ runs' = [runs EXCEPT ![s] = TickRun(k)]
    BY <1>1 DEF Finish
  <2>2. s \in TickRuns /\ ticking /\ ticking'
    BY <1>1 DEF TakesNext, TickRuns, ExclusiveInv, TickRunsExclusive, Finish
  <2>3. \A t \in TickRuns' : t \in TickRuns /\ (t # s => runs'[t] = runs[t])
    BY <2>1, <2>2 DEF TickRuns, TypeOK
  <2>4. runs'[s].job = k
    BY <2>1 DEF TickRun, TypeOK
  <2> QED
    BY <2>1, <2>2, <2>3, <2>4 DEF ExclusiveInv, BatchInTick, TickRunsExclusive
<1>2. CASE ~TakesNext(runs[s])
  <2>1. queue' = queue /\ runs' = [runs EXCEPT ![s] = Null] /\ ticking' = ticking
    BY <1>2 DEF Finish
  <2>2. \A t \in TickRuns' : t \in TickRuns /\ runs'[t] = runs[t]
    BY <2>1 DEF TickRuns, TypeOK
  <2> QED
    BY <2>1, <2>2 DEF ExclusiveInv, BatchInTick, TickRunsExclusive
<1> QED BY <1>1, <1>2

\* A step that starts no scheduled run keeps the invariant.
LEMMA QuietExclusive ==
    ASSUME ExclusiveInv, UNCHANGED <<ticking, queue>>, TickRuns' \subseteq TickRuns,
           \A s \in TickRuns' : runs'[s].job = runs[s].job
    PROVE  ExclusiveInv'
BY DEF ExclusiveInv, BatchInTick, TickRunsExclusive

LEMMA StepExclusive == TypeOK /\ ExclusiveInv /\ [Next]_vars => ExclusiveInv'
<1> SUFFICES ASSUME TypeOK, ExclusiveInv, [Next]_vars PROVE ExclusiveInv'
  OBVIOUS
<1>1. ASSUME UNCHANGED <<ticking, queue, runs>> PROVE ExclusiveInv'
  BY <1>1, QuietExclusive DEF TickRuns
<1>2. ASSUME NEW j \in JobIds, NEW s \in Slots, RunOnce(j, s) PROVE ExclusiveInv'
  <2>1. TickRuns' \subseteq TickRuns /\ \A t \in TickRuns' : runs'[t] = runs[t]
    BY <1>2 DEF RunOnce, TickRuns, TypeOK
  <2> QED
    BY <1>2, <2>1, QuietExclusive DEF RunOnce, loop
<1>3. CASE Api
  <2>1. ASSUME NEW j \in JobIds, Remove(j) \/ Pause(j) \/ Resume(j) PROVE UNCHANGED <<loop, runs>>
    BY <2>1 DEF Remove, Pause, Resume
  <2>2. ASSUME NEW j \in JobIds, NEW kind, NEW at, NEW end, Add(j, kind, at, end) PROVE UNCHANGED <<loop, runs>>
    BY <2>2 DEF Add
  <2>3. ASSUME NEW j \in JobIds, NEW kind, NEW at, NEW en, NEW cleared, Put(j, kind, at, en, cleared) PROVE UNCHANGED <<loop, runs>>
    BY <2>3 DEF Put
  <2>4. (\E j \in JobIds, s \in Slots : RunOnce(j, s)) \/ UNCHANGED <<loop, runs>>
    BY <1>3, ApiCases, <2>1, <2>2, <2>3
  <2> QED
    BY <1>1, <1>2, <2>4 DEF loop
<1>4. ASSUME NEW s \in Slots, RunStep(s) PROVE ExclusiveInv'
  <2>1. CASE AgentAnswers(s)
    <3>1. TickRuns' \subseteq TickRuns /\ \A t \in TickRuns' : runs'[t].job = runs[t].job
      BY <2>1 DEF AgentAnswers, TickRuns, TypeOK, Run
    <3> QED
      BY <2>1, <3>1, QuietExclusive DEF AgentAnswers, loop
  <2>2. CASE AgentFails(s) \/ AgentTimesOut(s) \/ Delivered(s)
    BY <2>2, FinishExclusive DEF AgentFails, AgentTimesOut, Delivered
  <2> QED
    BY <1>4, <2>1, <2>2 DEF RunStep
<1>5. CASE TickStart
  BY <1>5, TickStartExclusive
<1>6. CASE TickEnd
  BY <1>6 DEF TickEnd, ExclusiveInv, BatchInTick, TickRunsExclusive, TickRuns
<1>7. CASE Start \/ Stop \/ Persist \/ PersistFails \/ ClockTick \/ UNCHANGED vars
  BY <1>1, <1>7 DEF Start, Stop, Persist, PersistFails, ClockTick, loop, vars
<1>8. CASE Crash
  <2>1. queue' = {} /\ TickRuns' = {}
    BY <1>8 DEF Crash, TickRuns
  <2> QED
    BY <2>1 DEF ExclusiveInv, BatchInTick, TickRunsExclusive
<1> QED
  BY <1>3, <1>4, <1>5, <1>6, <1>7, <1>8 DEF Next

\* Whatever the API does to a job in flight, the scheduler never executes it twice at
\* a time: only a tick starts runs, and it starts when none is left (scheduler.ts:55).
THEOREM ScheduledRunsExclusive == Spec => []TickRunsExclusive
<1>1. Init => ExclusiveInv
  BY DEF Init, ExclusiveInv, BatchInTick, TickRunsExclusive, TickRuns
<1>2. ExclusiveInv => TickRunsExclusive
  BY DEF ExclusiveInv
<1> QED
  BY <1>1, <1>2, StepExclusive, SchedulerTyped, PTL DEF Spec

----------------------------------------------------------------------------
(* Overlapping executions.  The mark: an untouched job in flight is "running". *)

Marked ==
    \A j \in JobIds : (j \in InFlight /\ Exists(j) /\ j \notin touched) => jobs[j].state = "running"

QueuedOnce == \A s \in Slots : runs[s] # Null /\ runs[s].job \in queue => runs[s].job \in touched

OverlapInv == Marked /\ QueuedOnce /\ OverlapNeedsOverwrite

\* A command that marks what it overwrites keeps the invariant.
LEMMA OverwriteKeepsOverlap ==
    ASSUME TypeOK, OverlapInv, UNCHANGED <<queue, runs>>, NEW more \in SUBSET JobIds, Touch(more),
           \A j \in JobIds : j \notin more /\ jobs'[j] # Null /\ j \in InFlight
                            => jobs[j] # Null /\ jobs'[j].state = jobs[j].state
    PROVE  OverlapInv'
<1>1. InFlight' = InFlight
  BY DEF InFlight, Held
<1>2. touched' = (touched \union more) \intersect InFlight
  BY <1>1 DEF Touch
<1>3. Marked'
  BY <1>1, <1>2 DEF Marked, OverlapInv, Exists
<1>4. \A s \in Slots : runs[s] # Null => runs[s].job \in InFlight
  BY DEF InFlight, Held, TypeOK, Run
<1> QED
  BY <1>2, <1>3, <1>4 DEF OverlapInv, QueuedOnce, OverlapNeedsOverwrite

\* So does a step that leaves the state of the jobs in flight alone.
LEMMA QuietKeepsOverlap ==
    ASSUME TypeOK, OverlapInv, UNCHANGED <<queue, touched>>,
           \A s \in Slots : (runs'[s] = Null <=> runs[s] = Null) /\ (runs[s] # Null => runs'[s].job = runs[s].job),
           \A j \in JobIds : jobs'[j] # Null /\ j \in InFlight
                            => jobs[j] # Null /\ jobs'[j].state = jobs[j].state
    PROVE  OverlapInv'
<1>1. InFlight' = InFlight
  BY DEF InFlight, Held
<1>2. Marked'
  BY <1>1 DEF Marked, OverlapInv, Exists
<1> QED
  BY <1>2 DEF OverlapInv, QueuedOnce, OverlapNeedsOverwrite

LEMMA RunOnceOverlap ==
    ASSUME TypeOK, OverlapInv, NEW j \in JobIds, NEW s \in Slots, RunOnce(j, s)
    PROVE  OverlapInv'
<1>1. /\ Exists(j) /\ jobs[j].state # "running" /\ runs[s] = Null
      /\ UNCHANGED <<queue, touched>>
      /\ \A t \in Slots : t # s => runs'[t] = runs[t]
      /\ runs'[s].job = j /\ runs'[s] # Null
  <2>1. [job |-> j, by |-> "manual", phase |-> "agent", hadState |-> jobs[j].state,
         hadNext |-> jobs[j].nextRunAt] \in Run
    BY DEF RunOnce, MayRunOnce, TypeOK, Exists, Job, Run
  <2> QED
    BY <2>1, CronAssumption DEF RunOnce, MayRunOnce, Free, loop, TypeOK
<1>2. jobs' = [jobs EXCEPT ![j].state = "running"]
  BY DEF RunOnce, Store
<1>3. \A i \in JobIds : i # j => jobs'[i] = jobs[i]
  BY <1>2 DEF TypeOK
<1>4. jobs'[j].state = "running"
  BY <1>1, <1>2 DEF TypeOK, Exists, Job
<1>5. j \in InFlight => j \in touched
  BY <1>1 DEF OverlapInv, Marked
<1>6. \A i \in JobIds : i # j => (i \in InFlight' => i \in InFlight)
  BY <1>1 DEF InFlight, Held
<1>7. \A t \in Slots : t # s /\ runs'[t] # Null /\ runs'[t].job = j => j \in InFlight
  BY <1>1 DEF InFlight, Held
<1>8. j \in queue => j \in InFlight
  BY DEF InFlight
<1>9. Marked'
  BY <1>1, <1>3, <1>4, <1>6 DEF Marked, OverlapInv, Exists
<1>10. QueuedOnce'
  BY <1>1, <1>5, <1>8 DEF QueuedOnce, OverlapInv
<1>11. OverlapNeedsOverwrite'
  BY <1>1, <1>5, <1>7 DEF OverlapNeedsOverwrite, OverlapInv
<1> QED
  BY <1>9, <1>10, <1>11 DEF OverlapInv

LEMMA FinishOverlap ==
    ASSUME TypeOK, OverlapInv, NEW s \in Slots, runs[s] # Null, NEW status, Finish(s, status)
    PROVE  OverlapInv'
<1> DEFINE j == runs[s].job
<1>1. j \in JobIds /\ j \in InFlight
  BY DEF TypeOK, Run, InFlight, Held
<1>2. /\ \A i \in JobIds : i # j => jobs'[i] = jobs[i]
      /\ jobs'[j] # Null => jobs[j] # Null
  BY <1>1 DEF Finish, Store, TypeOK, Exists
<1>3. touched' = touched \intersect InFlight'
  BY DEF Finish, Touch
<1>4. CASE TakesNext(runs[s])
  <2>1. PICK k \in queue : queue' = queue \ {k} /\ runs' = [runs EXCEPT ![s] = TickRun(k)]
    BY <1>4 DEF Finish
  <2>2. runs'[s].job = k /\ \A t \in Slots : t # s => runs'[t] = runs[t]
    BY <2>1 DEF TickRun, TypeOK
  <2>3. k \in JobIds /\ TickRun(k) # Null
    <3>1. k \in JobIds
      BY DEF TypeOK
    <3>2. TickRun(k) \in Run
      BY <3>1 DEF TickRun, Run
    <3> QED BY <3>1, <3>2, CronAssumption
  <2>4. k \in InFlight' /\ InFlight' \subseteq InFlight
    BY <2>1, <2>2, <2>3 DEF InFlight, Held, TypeOK
  <2>5. j \in InFlight' => j \in touched
    <3>1. CASE j = k
      BY <3>1 DEF OverlapInv, QueuedOnce
    <3>2. CASE j \in queue
      BY <3>2 DEF OverlapInv, QueuedOnce
    <3>3. ASSUME NEW t \in Slots, t # s, runs[t] # Null, runs[t].job = j PROVE j \in touched
      BY <3>3 DEF OverlapInv, OverlapNeedsOverwrite
    <3>4. j \in InFlight' => j = k \/ j \in queue \/ \E t \in Slots : t # s /\ runs[t] # Null /\ runs[t].job = j
      BY <2>1, <2>2 DEF InFlight, Held
    <3> QED BY <3>1, <3>2, <3>3, <3>4
  <2>6. Marked'
    BY <1>2, <1>3, <2>4, <2>5 DEF Marked, OverlapInv, Exists
  <2>7. \A t \in Slots : runs'[t] # Null => runs'[t].job \in InFlight'
    BY <2>2, <2>3 DEF InFlight, Held, TypeOK, Run
  <2>8. QueuedOnce'
    BY <1>3, <2>1, <2>2, <2>7 DEF OverlapInv, QueuedOnce
  <2>9. \A t \in Slots : t # s /\ runs'[t] # Null /\ runs'[t].job = k => k \in touched
    BY <2>1, <2>2 DEF OverlapInv, QueuedOnce
  <2>10. OverlapNeedsOverwrite'
    BY <1>3, <2>2, <2>7, <2>9 DEF OverlapInv, OverlapNeedsOverwrite
  <2> QED BY <2>6, <2>8, <2>10 DEF OverlapInv
<1>5. CASE ~TakesNext(runs[s])
  <2>1. queue' = queue /\ runs' = [runs EXCEPT ![s] = Null]
    BY <1>5 DEF Finish
  <2>2. \A t \in Slots : runs'[t] # Null => t # s /\ runs'[t] = runs[t]
    BY <2>1 DEF TypeOK
  <2>3. InFlight' \subseteq InFlight
    BY <2>1, <2>2 DEF InFlight, Held
  <2>4. j \in InFlight' => j \in touched
    <3>1. CASE j \in queue
      BY <3>1 DEF OverlapInv, QueuedOnce
    <3>2. ASSUME NEW t \in Slots, t # s, runs[t] # Null, runs[t].job = j PROVE j \in touched
      BY <3>2 DEF OverlapInv, OverlapNeedsOverwrite
    <3>3. j \in InFlight' => j \in queue \/ \E t \in Slots : t # s /\ runs[t] # Null /\ runs[t].job = j
      BY <2>1, <2>2 DEF InFlight, Held
    <3> QED BY <3>1, <3>2, <3>3
  <2>5. Marked'
    BY <1>2, <1>3, <2>3, <2>4 DEF Marked, OverlapInv, Exists
  <2>6. \A t \in Slots : runs'[t] # Null => runs'[t].job \in InFlight'
    BY <2>2 DEF InFlight, Held, TypeOK, Run
  <2> QED
    BY <1>3, <2>1, <2>2, <2>5, <2>6 DEF OverlapInv, QueuedOnce, OverlapNeedsOverwrite
<1> QED BY <1>4, <1>5

LEMMA TickStartOverlap ==
    ASSUME TypeOK, ExclusiveInv, OverlapInv, TickStart
    PROVE  OverlapInv'
<1> DEFINE due == {j \in JobIds : IsDue(j)}
           expired == {j \in due : Past(jobs[j].endAt, now)}
           batch == due \ expired
<1>1. queue = {} /\ touched' = touched
  BY DEF TickStart, MayTick, ExclusiveInv, BatchInTick
<1>2. PICK first \in SUBSET batch : \E at \in [first -> Free] :
          /\ \A j, k \in first : at[j] = at[k] => j = k
          /\ runs' = [s \in Slots |-> IF \E j \in first : at[j] = s
                                      THEN TickRun(CHOOSE j \in first : at[j] = s)
                                      ELSE runs[s]]
          /\ queue' = batch \ first
  BY DEF TickStart
<1>3. PICK at \in [first -> Free] :
          /\ \A j, k \in first : at[j] = at[k] => j = k
          /\ runs' = [s \in Slots |-> IF \E j \in first : at[j] = s
                                      THEN TickRun(CHOOSE j \in first : at[j] = s)
                                      ELSE runs[s]]
  BY <1>2
<1>4. \A s \in Slots : \/ runs[s] = Null /\ runs'[s].job \in first /\ at[runs'[s].job] = s
                       \/ runs'[s] = runs[s]
  <2> SUFFICES ASSUME NEW s \in Slots, NEW j \in first, at[j] = s
               PROVE  runs[s] = Null /\ runs'[s].job \in first /\ at[runs'[s].job] = s
    BY <1>3
  <2>1. (CHOOSE k \in first : at[k] = s) = j
    BY <1>3
  <2>2. runs'[s] = TickRun(j)
    BY <1>3, <2>1
  <2> QED
    BY <2>2 DEF TickRun, Free
<1>5. \A j \in batch : jobs[j] # Null /\ jobs[j].state = "idle" /\ jobs[j] \in Job
  BY DEF IsDue, Exists, TypeOK
<1>6. \A j \in batch : j \in InFlight => j \in touched
  BY <1>5 DEF OverlapInv, Marked, Exists
<1>7. \A s \in Slots : runs[s] # Null => runs[s].job \in InFlight
  BY DEF InFlight, Held, TypeOK, Run
<1>8. InFlight' \subseteq InFlight \union batch
  <2>1. \A s \in Slots : runs'[s] # Null => runs'[s].job \in InFlight \union batch
    BY <1>4, <1>7
  <2>2. queue' \subseteq batch
    BY <1>2
  <2> QED
    BY <2>1, <2>2 DEF InFlight, Held
<1>9. jobs' = jobs \/ jobs' = [j \in JobIds |-> IF j \in expired THEN Completed(jobs[j])
                                              ELSE IF j \in batch THEN Launched(jobs[j])
                                              ELSE jobs[j]]
  BY DEF TickStart, Store
<1>10. ASSUME jobs' = jobs, batch # {} PROVE FALSE
  <2>1. PICK b \in batch : TRUE
    BY <1>10
  <2>2. jobs' = [j \in JobIds |-> IF j \in expired THEN Completed(jobs[j])
                                 ELSE IF j \in batch THEN Launched(jobs[j])
                                 ELSE jobs[j]]
    BY <2>1 DEF TickStart, Store
  <2>3. jobs'[b].state = "running"
    BY <1>5, <2>1, <2>2 DEF Launched, Job
  <2> QED BY <1>5, <1>10, <2>3
<1>11. \A j \in batch : jobs'[j].state = "running"
  BY <1>5, <1>9, <1>10 DEF Launched, Job
<1>12. \A j \in JobIds : j \notin due => jobs'[j] = jobs[j]
  BY <1>9
<1>13. \A j \in due : j \in InFlight => j \in touched
  BY DEF OverlapInv, Marked, IsDue
<1>14. Marked'
  BY <1>1, <1>8, <1>11, <1>12, <1>13 DEF OverlapInv, Marked, Exists
<1>15. QueuedOnce'
  BY <1>1, <1>2, <1>4, <1>6, <1>7 DEF QueuedOnce
<1>16. ASSUME NEW s \in Slots, NEW t \in Slots, s # t, runs'[s] # Null, runs'[t] # Null,
              runs'[s].job = runs'[t].job
       PROVE  runs'[s].job \in touched
  <2>1. CASE runs'[s] = runs[s] /\ runs'[t] = runs[t]
    BY <1>16, <2>1 DEF OverlapInv, OverlapNeedsOverwrite
  <2>2. CASE runs'[s] # runs[s] \/ runs'[t] # runs[t]
    BY <1>16, <2>2, <1>4, <1>6, <1>7
  <2> QED BY <2>1, <2>2
<1>17. OverlapNeedsOverwrite'
  BY <1>1, <1>16 DEF OverlapNeedsOverwrite
<1> QED
  BY <1>14, <1>15, <1>17 DEF OverlapInv

LEMMA ApiOverlap ==
    ASSUME TypeOK, OverlapInv, Api
    PROVE  OverlapInv'
<1>1. ASSUME NEW j \in JobIds, Remove(j) PROVE OverlapInv'
  <2>1. \A i \in JobIds : jobs'[i] # Null => jobs'[i] = jobs[i]
    BY <1>1 DEF Remove, Store, TypeOK
  <2> QED
    BY <1>1, <2>1, QuietKeepsOverlap DEF Remove, loop
<1>2. ASSUME NEW j \in JobIds, Pause(j) \/ Resume(j) PROVE OverlapInv'
  <2>1. Touch({j}) /\ UNCHANGED <<queue, runs>> /\ {j} \in SUBSET JobIds
    BY <1>2 DEF Pause, Resume, loop
  <2>2. \A i \in JobIds : i # j => jobs'[i] = jobs[i]
    BY <1>2 DEF Pause, Resume, Store, TypeOK
  <2> QED
    BY <2>1, <2>2, OverwriteKeepsOverlap
<1>3. ASSUME NEW j \in JobIds, NEW kind, NEW at, NEW end, Add(j, kind, at, end) PROVE OverlapInv'
  <2>1. \A i \in JobIds : i # j => jobs'[i] = jobs[i]
    BY <1>3 DEF Add, Store, TypeOK
  <2> QED
    BY <1>3, <2>1, QuietKeepsOverlap DEF Add, loop
<1>4. ASSUME NEW j \in JobIds, NEW kind, NEW at, NEW en, NEW cleared, Put(j, kind, at, en, cleared) PROVE OverlapInv'
  <2>1. UNCHANGED <<queue, runs>> /\ jobs[j] \in Job /\ jobs[j] # Null
    BY <1>4 DEF Put, loop, Exists, TypeOK
  <2>2. PICK more, first, e, st :
            /\ more \in {{}, {j}} /\ Touch(more)
            /\ more = {} => st = jobs[j].state
            /\ Store([jobs EXCEPT ![j] = [jobs[j] EXCEPT !.kind = IF kind # Null THEN kind ELSE jobs[j].kind,
                                                        !.nextRunAt = first, !.enabled = e, !.state = st]])
    BY <1>4, Zenon DEF Put
  <2>3. \A i \in JobIds : i # j => jobs'[i] = jobs[i]
    BY <2>2 DEF Store, TypeOK
  <2>4. jobs'[j].state = st
    BY <2>1, <2>2 DEF Store, TypeOK, Job
  <2> QED
    BY <2>1, <2>2, <2>3, <2>4, OverwriteKeepsOverlap
<1> QED
  BY ApiCases, <1>1, <1>2, <1>3, <1>4, RunOnceOverlap

LEMMA StepOverlap == TypeOK /\ ExclusiveInv /\ OverlapInv /\ [Next]_vars => OverlapInv'
<1> SUFFICES ASSUME TypeOK, ExclusiveInv, OverlapInv, [Next]_vars PROVE OverlapInv'
  OBVIOUS
<1>1. ASSUME NEW s \in Slots, RunStep(s) PROVE OverlapInv'
  <2>1. CASE AgentAnswers(s)
    <3>1. [runs[s] EXCEPT !.phase = "deliver"] \in Run
      BY <2>1 DEF AgentAnswers, TypeOK, Run
    <3>2. runs'[s].job = runs[s].job
      BY <2>1 DEF AgentAnswers, TypeOK, Run
    <3> QED
      BY <2>1, <3>1, <3>2, QuietKeepsOverlap, CronAssumption DEF AgentAnswers, loop, TypeOK
  <2>2. CASE AgentFails(s) \/ AgentTimesOut(s) \/ Delivered(s)
    BY <2>2, FinishOverlap DEF AgentFails, AgentTimesOut, Delivered
  <2> QED
    BY <1>1, <2>1, <2>2 DEF RunStep
<1>2. CASE TickEnd
  <2>1. \A j \in JobIds : ~(Missed(j) \/ Stuck(j)) => jobs'[j] = jobs[j]
    BY <1>2 DEF TickEnd, Store, TypeOK
  <2> QED
    BY <1>2, <2>1, OverwriteKeepsOverlap DEF TickEnd
<1>3. CASE Crash
  BY <1>3 DEF Crash, OverlapInv, Marked, QueuedOnce, OverlapNeedsOverwrite, InFlight, Held
<1>4. CASE Start \/ Stop \/ Persist \/ PersistFails \/ ClockTick \/ UNCHANGED vars
  <2>1. UNCHANGED <<jobs, queue, runs, touched>>
    BY <1>4 DEF Start, Stop, Persist, PersistFails, ClockTick, loop, vars
  <2> QED
    BY <2>1, QuietKeepsOverlap
<1> QED
  BY <1>1, <1>2, <1>3, <1>4, ApiOverlap, TickStartOverlap DEF Next

\* The "running" mark does what service.ts:237 wants of it as long as nothing but the
\* run itself writes the state: an overlap is always preceded by such a write.
THEOREM OverlapOnlyAfterOverwrite == Spec => []OverlapNeedsOverwrite
<1>1. Init => ExclusiveInv /\ OverlapInv
  BY DEF Init, ExclusiveInv, BatchInTick, TickRunsExclusive, TickRuns,
         OverlapInv, Marked, QueuedOnce, OverlapNeedsOverwrite, InFlight, Held
<1>2. OverlapInv => OverlapNeedsOverwrite
  BY DEF OverlapInv
<1> QED
  BY <1>1, <1>2, StepExclusive, StepOverlap, SchedulerTyped, PTL DEF Spec

----------------------------------------------------------------------------
(* Completed jobs.  The file and the closures of manual runs hold copies of    *)
(* state and nextRunAt that come back later, so they are part of the invariant. *)

NoNext(job) == job # Null /\ job.state = "completed" => job.nextRunAt = Null

CompletedInv ==
    /\ \A j \in JobIds : NoNext(jobs[j]) /\ NoNext(disk[j])
    /\ \A s \in Slots : runs[s] # Null /\ runs[s].hadState = "completed" => runs[s].hadNext = Null

\* A step that only writes sound records, and leaves the copies alone.
LEMMA QuietCompleted ==
    ASSUME CompletedInv, UNCHANGED <<disk, runs>>, \A j \in JobIds : NoNext(jobs'[j])
    PROVE  CompletedInv'
BY DEF CompletedInv

LEMMA ApiCompleted ==
    ASSUME TypeOK, CompletedInv, Api
    PROVE  CompletedInv'
<1>1. ASSUME NEW j \in JobIds, Remove(j) PROVE CompletedInv'
  BY <1>1, QuietCompleted DEF Remove, Store, CompletedInv, NoNext, TypeOK
<1>2. ASSUME NEW j \in JobIds, Pause(j) PROVE CompletedInv'
  <2>1. jobs'[j].state = "paused" /\ \A i \in JobIds : i # j => jobs'[i] = jobs[i]
    BY <1>2 DEF Pause, Store, TypeOK, Exists, Job
  <2> QED
    BY <1>2, <2>1, QuietCompleted DEF Pause, CompletedInv, NoNext
<1>3. ASSUME NEW j \in JobIds, Resume(j) PROVE CompletedInv'
  <2>1. jobs'[j].state = "idle" /\ \A i \in JobIds : i # j => jobs'[i] = jobs[i]
    BY <1>3 DEF Resume, Store, TypeOK, Exists, Job
  <2> QED
    BY <1>3, <2>1, QuietCompleted DEF Resume, CompletedInv, NoNext
<1>4. ASSUME NEW j \in JobIds, NEW kind, NEW at, NEW end, Add(j, kind, at, end) PROVE CompletedInv'
  <2>1. jobs'[j].state = "idle" /\ \A i \in JobIds : i # j => jobs'[i] = jobs[i]
    BY <1>4 DEF Add, Store, TypeOK
  <2> QED
    BY <1>4, <2>1, QuietCompleted DEF Add, CompletedInv, NoNext
<1>5. ASSUME NEW j \in JobIds, NEW kind, NEW at, NEW en, NEW cleared, Put(j, kind, at, en, cleared) PROVE CompletedInv'
  <2>1. UNCHANGED <<disk, runs>> /\ jobs[j] \in Job /\ jobs[j] # Null
    BY <1>5 DEF Put, Exists, TypeOK
  <2>2. PICK first, e, st :
            /\ Store([jobs EXCEPT ![j] = [jobs[j] EXCEPT !.kind = IF kind # Null THEN kind ELSE jobs[j].kind,
                                                        !.nextRunAt = first, !.enabled = e, !.state = st]])
            /\ \/ st = "idle" \/ st = "paused"
               \/ st = jobs[j].state /\ jobs[j].state \notin {"completed", "paused"}
               \/ st = jobs[j].state /\ first = Null
    BY <1>5, Zenon DEF Put
  <2>3. \A i \in JobIds : i # j => jobs'[i] = jobs[i]
    BY <2>2 DEF Store, TypeOK
  <2>4. jobs'[j].state = st /\ jobs'[j].nextRunAt = first
    BY <2>1, <2>2 DEF Store, TypeOK, Job
  <2>5. NoNext(jobs'[j])
    BY <2>1, <2>2, <2>4 DEF NoNext, CompletedInv
  <2> QED
    BY <2>1, <2>3, <2>5, QuietCompleted DEF CompletedInv
<1>6. ASSUME NEW j \in JobIds, NEW s \in Slots, RunOnce(j, s) PROVE CompletedInv'
  <2>1. jobs'[j].state = "running" /\ \A i \in JobIds : i # j => jobs'[i] = jobs[i]
    BY <1>6 DEF RunOnce, MayRunOnce, Store, TypeOK, Exists, Job
  <2>2. runs'[s].hadState = jobs[j].state /\ runs'[s].hadNext = jobs[j].nextRunAt
        /\ \A t \in Slots : t # s => runs'[t] = runs[t]
    BY <1>6 DEF RunOnce, TypeOK
  <2>3. NoNext(jobs[j]) /\ jobs[j] # Null
    BY <1>6 DEF RunOnce, MayRunOnce, Exists, CompletedInv
  <2>4. disk' = disk
    BY <1>6 DEF RunOnce
  <2> QED
    BY <2>1, <2>2, <2>3, <2>4 DEF CompletedInv, NoNext
<1> QED
  BY ApiCases, <1>1, <1>2, <1>3, <1>4, <1>5, <1>6

LEMMA FinishCompleted ==
    ASSUME TypeOK, CompletedInv, NEW s \in Slots, runs[s] # Null,
           NEW status \in {"success", "error", "timeout"}, Finish(s, status)
    PROVE  CompletedInv'
<1> DEFINE run == runs[s]
           j == run.job
<1>1. run \in Run /\ j \in JobIds /\ disk' = disk
  BY DEF TypeOK, Run, Finish
<1>2. \A t \in Slots : runs'[t] # Null => runs'[t] = runs[t] \/ \E k \in queue : runs'[t] = TickRun(k)
  BY DEF Finish, TypeOK
<1>2a. \A k : TickRun(k).hadNext = Null
  BY DEF TickRun
<1>3. \A t \in Slots : runs'[t] # Null /\ runs'[t].hadState = "completed" => runs'[t].hadNext = Null
  BY <1>2, <1>2a DEF CompletedInv
<1>4. CASE ~Exists(j)
  BY <1>1, <1>3, <1>4 DEF Finish, CompletedInv
<1>5. CASE Exists(j)
  <2>1. jobs[j] \in Job
    BY <1>1, <1>5 DEF TypeOK, Exists
  <2>2. NoNext(Handled(jobs[j], status))
    BY <2>1 DEF Handled, NoNext, Job
  <2>3. NoNext(Restored(jobs[j], run))
    BY <2>1 DEF Restored, NoNext, CompletedInv, Job
  <2>4. jobs' = [jobs EXCEPT ![j] = IF run.by = "tick" THEN Handled(jobs[j], status)
                                    ELSE Restored(jobs[j], run)]
    BY <1>5 DEF Finish, Store
  <2>5. \A i \in JobIds : NoNext(jobs'[i])
    BY <2>2, <2>3, <2>4 DEF CompletedInv, TypeOK
  <2> QED
    BY <1>1, <1>3, <2>5 DEF CompletedInv
<1> QED BY <1>4, <1>5

LEMMA StepCompleted == TypeOK /\ CompletedInv /\ [Next]_vars => CompletedInv'
<1> SUFFICES ASSUME TypeOK, CompletedInv, [Next]_vars PROVE CompletedInv'
  OBVIOUS
<1>1. ASSUME NEW s \in Slots, RunStep(s) PROVE CompletedInv'
  <2>1. CASE AgentAnswers(s)
    BY <2>1 DEF AgentAnswers, CompletedInv, TypeOK, Run
  <2>2. CASE AgentFails(s) \/ AgentTimesOut(s) \/ Delivered(s)
    BY <2>2, FinishCompleted DEF AgentFails, AgentTimesOut, Delivered
  <2> QED
    BY <1>1, <2>1, <2>2 DEF RunStep
<1>2. \A job \in Job : NoNext(Completed(job)) /\ NoNext(Launched(job)) /\ NoNext([job EXCEPT !.state = "idle"])
  BY DEF NoNext, Completed, Launched, Job
<1>3. CASE TickStart
  <2> DEFINE due == {j \in JobIds : IsDue(j)}
             expired == {j \in due : Past(jobs[j].endAt, now)}
             batch == due \ expired
  <2>1. \A j \in due : jobs[j] \in Job
    BY DEF IsDue, Exists, TypeOK
  <2>2. jobs' = jobs \/ jobs' = [j \in JobIds |-> IF j \in expired THEN Completed(jobs[j])
                                                ELSE IF j \in batch THEN Launched(jobs[j])
                                                ELSE jobs[j]]
    BY <1>3 DEF TickStart, Store
  <2>3. \A j \in JobIds : NoNext(jobs'[j])
    BY <1>2, <2>1, <2>2 DEF CompletedInv
  <2>4. PICK first \in SUBSET batch : \E at \in [first -> Free] :
              runs' = [s \in Slots |-> IF \E j \in first : at[j] = s
                                      THEN TickRun(CHOOSE j \in first : at[j] = s)
                                      ELSE runs[s]]
    BY <1>3 DEF TickStart
  <2>5. \A s \in Slots : runs'[s] = runs[s] \/ \E j : runs'[s] = TickRun(j)
    BY <2>4
  <2>5a. \A k : TickRun(k).hadNext = Null
    BY DEF TickRun
  <2>6. \A s \in Slots : runs'[s] # Null /\ runs'[s].hadState = "completed" => runs'[s].hadNext = Null
    BY <2>5, <2>5a DEF CompletedInv
  <2>7. disk' = disk
    BY <1>3 DEF TickStart
  <2> QED
    BY <2>3, <2>6, <2>7 DEF CompletedInv
<1>4. CASE TickEnd
  <2>1. \A j \in JobIds : jobs'[j] = jobs[j] \/ (jobs[j] \in Job /\ jobs'[j] \in {Completed(jobs[j]), [jobs[j] EXCEPT !.state = "idle"]})
    BY <1>4 DEF TickEnd, Store, TypeOK, Missed, Stuck, Exists
  <2>2. \A j \in JobIds : NoNext(jobs'[j])
    BY <1>2, <2>1 DEF CompletedInv
  <2> QED
    BY <1>4, <2>2, QuietCompleted DEF TickEnd
<1>5. CASE Crash
  BY <1>5 DEF Crash, CompletedInv
<1>6. CASE Persist
  BY <1>6 DEF Persist, CompletedInv
<1>7. CASE Start \/ Stop \/ PersistFails \/ ClockTick \/ UNCHANGED vars
  <2>1. UNCHANGED <<jobs, disk, runs>>
    BY <1>7 DEF Start, Stop, PersistFails, ClockTick, vars
  <2> QED
    BY <2>1 DEF CompletedInv
<1> QED
  BY <1>1, <1>3, <1>4, <1>5, <1>6, <1>7, ApiCompleted DEF Next

\* A completed job cannot fire again by a pause and a resume, a restore or a restart:
\* nothing brings its next run back (scheduler.ts:68-74, 155-160, service.ts:254-263).
THEOREM CompletedStaysUnscheduled == Spec => []CompletedHasNoNextRun
<1>1. Init => CompletedInv
  BY DEF Init, CompletedInv, NoNext
<1>2. CompletedInv => CompletedHasNoNextRun
  BY DEF CompletedInv, CompletedHasNoNextRun, NoNext, Exists
<1> QED
  BY <1>1, <1>2, StepCompleted, SchedulerTyped, PTL DEF Spec

----------------------------------------------------------------------------
(* The worker pool *)

LEMMA TickRunsFinite == IsFiniteSet(TickRuns) /\ Cardinality(TickRuns) \in Nat
<1>1. TickRuns \in SUBSET Slots /\ IsFiniteSet(Slots)
  BY CronAssumption DEF TickRuns
<1>2. IsFiniteSet(TickRuns)
  BY <1>1, FS_Subset
<1> QED
  BY <1>2, FS_CardinalityType

\* The pool starts with as many workers as it may have, or with one for each job.
LEMMA TickStartCapped ==
    ASSUME TypeOK, ExclusiveInv, TickStart
    PROVE  BatchCap'
<1> DEFINE batch == {j \in JobIds : IsDue(j)} \ {j \in {i \in JobIds : IsDue(i)} : Past(jobs[j].endAt, now)}
           n == Cardinality(batch)
<1>1. PICK first \in SUBSET batch :
          /\ Cardinality(first) = WorkerCount(n)
          /\ \E at \in [first -> Free] :
                /\ \A j, k \in first : at[j] = at[k] => j = k
                /\ runs' = [s \in Slots |-> IF \E j \in first : at[j] = s
                                            THEN TickRun(CHOOSE j \in first : at[j] = s)
                                            ELSE runs[s]]
  BY DEF TickStart
<1> HIDE DEF n, batch
<1>2. PICK at \in [first -> Free] :
          /\ \A j, k \in first : at[j] = at[k] => j = k
          /\ runs' = [s \in Slots |-> IF \E j \in first : at[j] = s
                                      THEN TickRun(CHOOSE j \in first : at[j] = s)
                                      ELSE runs[s]]
  BY <1>1
<1>3. Free \in SUBSET Slots /\ IsFiniteSet(Free)
  <2>1. Free \in SUBSET Slots /\ IsFiniteSet(Slots)
    BY CronAssumption DEF Free
  <2> QED BY <2>1, FS_Subset
<1>4. IsFiniteSet(first) /\ Cardinality(first) \in Nat
  <2>1. at \in Injection(first, Free)
    BY <1>2 DEF Injection, IsInjective
  <2>2. IsFiniteSet(first)
    BY <1>3, <2>1, FS_Injection
  <2> QED BY <2>2, FS_CardinalityType
<1>5. Cardinality(first) <= MaxConcurrency
  BY <1>1, <1>4, CronAssumption DEF WorkerCount
<1>6. TickRuns = {}
  BY DEF TickStart, MayTick, ExclusiveInv, BatchInTick
<1>7. \A s \in TickRuns' : \E j \in first : at[j] = s
  BY <1>2, <1>6 DEF TickRuns
<1> DEFINE worker == [s \in TickRuns' |-> CHOOSE j \in first : at[j] = s]
<1>8. worker \in Injection(TickRuns', first)
  <2>1. \A s \in TickRuns' : worker[s] \in first /\ at[worker[s]] = s
    BY <1>7
  <2>2. \A s, t \in TickRuns' : worker[s] = worker[t] => s = t
    BY <2>1
  <2>3. worker \in [TickRuns' -> first]
    BY <2>1
  <2> QED BY <2>2, <2>3 DEF Injection, IsInjective
<1> HIDE DEF worker
<1>9. Cardinality(TickRuns') <= Cardinality(first) /\ IsFiniteSet(TickRuns')
  BY <1>4, <1>8, FS_Injection
<1>10. Cardinality(TickRuns') \in Nat
  BY <1>9, FS_CardinalityType
<1>11. MaxConcurrency \in Nat
  BY CronAssumption
<1> QED
  BY <1>4, <1>5, <1>9, <1>10, <1>11 DEF BatchCap

\* A step after which only slots with a scheduled run have one.
LEMMA NoMoreTickRuns ==
    ASSUME BatchCap, TickRuns' \subseteq TickRuns
    PROVE  BatchCap'
<1>1. IsFiniteSet(TickRuns) /\ Cardinality(TickRuns) \in Nat /\ TickRuns' \in SUBSET TickRuns
  BY TickRunsFinite
<1>2. IsFiniteSet(TickRuns') /\ Cardinality(TickRuns') <= Cardinality(TickRuns)
  BY <1>1, FS_Subset
<1>3. Cardinality(TickRuns') \in Nat /\ MaxConcurrency \in Nat
  BY <1>2, FS_CardinalityType, CronAssumption
<1> QED
  BY <1>1, <1>2, <1>3 DEF BatchCap

LEMMA StepCapped == TypeOK /\ ExclusiveInv /\ BatchCap /\ [Next]_vars => BatchCap'
<1> SUFFICES ASSUME TypeOK, ExclusiveInv, BatchCap, [Next]_vars PROVE BatchCap'
  OBVIOUS
<1>1. ASSUME UNCHANGED runs PROVE BatchCap'
  BY <1>1, NoMoreTickRuns DEF TickRuns
<1>2. CASE Api
  <2>1. ASSUME NEW j \in JobIds, Remove(j) \/ Pause(j) \/ Resume(j) PROVE UNCHANGED runs
    BY <2>1 DEF Remove, Pause, Resume
  <2>2. ASSUME NEW j \in JobIds, NEW kind, NEW at, NEW end, Add(j, kind, at, end) PROVE UNCHANGED runs
    BY <2>2 DEF Add
  <2>3. ASSUME NEW j \in JobIds, NEW kind, NEW at, NEW en, NEW cleared, Put(j, kind, at, en, cleared) PROVE UNCHANGED runs
    BY <2>3 DEF Put
  <2>4. ASSUME NEW j \in JobIds, NEW s \in Slots, RunOnce(j, s) PROVE TickRuns' \subseteq TickRuns
    BY <2>4 DEF RunOnce, TickRuns, TypeOK
  <2> QED
    BY <1>1, <1>2, ApiCases, NoMoreTickRuns, <2>1, <2>2, <2>3, <2>4
<1>3. ASSUME NEW s \in Slots, RunStep(s) PROVE TickRuns' \subseteq TickRuns
  <2>1. CASE AgentAnswers(s)
    BY <2>1 DEF AgentAnswers, TickRuns, TypeOK, Run
  <2>2. ASSUME NEW status, Finish(s, status), runs[s] # Null PROVE TickRuns' \subseteq TickRuns
    BY <2>2 DEF Finish, TakesNext, TickRuns, TypeOK
  <2> QED
    BY <1>3, <2>1, <2>2 DEF RunStep, AgentFails, AgentTimesOut, Delivered
<1>4. CASE TickStart
  BY <1>4, TickStartCapped
<1>5. CASE Start \/ Stop \/ TickEnd \/ Persist \/ PersistFails \/ ClockTick \/ UNCHANGED vars
  BY <1>1, <1>5 DEF Start, Stop, TickEnd, Persist, PersistFails, ClockTick, vars
<1>6. CASE Crash
  <2>1. TickRuns' \subseteq TickRuns
    BY <1>6 DEF Crash, TickRuns
  <2> QED BY <2>1, NoMoreTickRuns
<1> QED
  BY <1>2, <1>3, <1>4, <1>5, <1>6, NoMoreTickRuns DEF Next

\* No more jobs of a batch are in flight than maxConcurrency allows, although a worker
\* takes its next job while manual runs and the API change the store (scheduler.ts:110).
THEOREM PoolIsCapped == Spec => []BatchCap
<1>1. Init => ExclusiveInv
  BY DEF Init, ExclusiveInv, BatchInTick, TickRunsExclusive, TickRuns
<1>2. Init => BatchCap
  <2>1. Init => TickRuns = {}
    BY DEF Init, TickRuns
  <2>2. Cardinality({}) <= MaxConcurrency
    BY FS_EmptySet, CronAssumption
  <2> QED
    BY <2>1, <2>2 DEF BatchCap
<1> QED
  BY <1>1, <1>2, StepExclusive, StepCapped, SchedulerTyped, PTL DEF Spec

----------------------------------------------------------------------------
(* What is stored as running is in flight *)

RunningInFlight == \A j \in JobIds : Exists(j) /\ jobs[j].state = "running" => j \in InFlight

\* A step that ends no execution and makes no other job running.
LEMMA QuietRunning ==
    ASSUME RunningInFlight, queue \subseteq queue',
           \A s \in Slots : runs[s] # Null => runs'[s] # Null /\ runs'[s].job = runs[s].job,
           \A j \in JobIds : jobs'[j] # Null /\ jobs'[j].state = "running" =>
                                (jobs[j] # Null /\ jobs[j].state = "running") \/ j \in InFlight'
    PROVE  RunningInFlight'
<1>1. InFlight \subseteq InFlight'
  BY DEF InFlight, Held
<1> QED
  BY <1>1 DEF RunningInFlight, Exists

LEMMA ApiRunning ==
    ASSUME TypeOK, RunningInFlight, Api
    PROVE  RunningInFlight'
<1>1. \A j \in JobIds : Exists(j) => jobs[j] \in Job
  BY DEF TypeOK, Exists
<1>2. ASSUME NEW j \in JobIds, NEW s \in Slots, RunOnce(j, s) PROVE RunningInFlight'
  <2>1. [job |-> j, by |-> "manual", phase |-> "agent", hadState |-> jobs[j].state,
         hadNext |-> jobs[j].nextRunAt] \in Run
    BY <1>1, <1>2 DEF RunOnce, MayRunOnce, Job, Run
  <2>2. runs[s] = Null /\ queue' = queue /\ \A i \in JobIds : i # j => jobs'[i] = jobs[i]
    BY <1>2 DEF RunOnce, Free, Store, TypeOK, loop
  <2>3. /\ \A t \in Slots : t # s => runs'[t] = runs[t]
        /\ runs'[s] # Null /\ runs'[s].job = j
    BY <1>2, <2>1, CronAssumption DEF RunOnce, TypeOK
  <2>4. j \in InFlight'
    BY <2>3 DEF InFlight, Held
  <2> QED
    BY <2>2, <2>3, <2>4, QuietRunning
<1>3. ASSUME NEW j \in JobIds, UNCHANGED <<queue, runs>>,
             \A i \in JobIds : i # j => jobs'[i] = jobs[i],
             jobs'[j] = Null \/ jobs'[j].state # "running" \/ (Exists(j) /\ jobs'[j].state = jobs[j].state)
      PROVE  RunningInFlight'
  BY <1>3, QuietRunning DEF Exists
<1>4. ASSUME NEW j \in JobIds, Remove(j) \/ Pause(j) \/ Resume(j) PROVE RunningInFlight'
  <2>1. UNCHANGED <<queue, runs>> /\ \A i \in JobIds : i # j => jobs'[i] = jobs[i]
    BY <1>4 DEF Remove, Pause, Resume, Store, TypeOK, loop
  <2>2. jobs'[j] = Null \/ jobs'[j].state # "running"
    <3>1. CASE Remove(j)
      BY <3>1 DEF Remove, Store, TypeOK
    <3>2. CASE Pause(j)
      BY <3>2, <1>1 DEF Pause, Store, TypeOK, Job
    <3>3. CASE Resume(j)
      BY <3>3, <1>1 DEF Resume, Store, TypeOK, Job
    <3> QED BY <1>4, <3>1, <3>2, <3>3
  <2> QED BY <1>3, <2>1, <2>2
<1>5. ASSUME NEW j \in JobIds, NEW kind, NEW at, NEW end, Add(j, kind, at, end) PROVE RunningInFlight'
  <2>1. UNCHANGED <<queue, runs>> /\ \A i \in JobIds : i # j => jobs'[i] = jobs[i]
    BY <1>5 DEF Add, Store, TypeOK, loop
  <2>2. jobs'[j].state = "idle"
    BY <1>5 DEF Add, Store, TypeOK
  <2> QED BY <1>3, <2>1, <2>2
<1>6. ASSUME NEW j \in JobIds, NEW kind, NEW at, NEW en, NEW cleared, Put(j, kind, at, en, cleared) PROVE RunningInFlight'
  <2>1. UNCHANGED <<queue, runs>> /\ \A i \in JobIds : i # j => jobs'[i] = jobs[i]
    BY <1>6 DEF Put, Store, TypeOK, loop
  <2>2. Exists(j) /\ jobs[j] \in Job
    BY <1>1, <1>6 DEF Put
  <2> DEFINE Edited(first, e, st) == [jobs[j] EXCEPT !.kind = IF kind # Null THEN kind ELSE jobs[j].kind,
                                                     !.nextRunAt = first, !.enabled = e, !.state = st]
  <2>3. PICK first, e, st : /\ Store([jobs EXCEPT ![j] = Edited(first, e, st)])
                            /\ st \in {"idle", "paused", jobs[j].state}
    BY <1>6, Zenon DEF Put
  <2>4. jobs'[j] = Edited(first, e, st)
    BY <2>3 DEF Store, TypeOK
  <2>5. jobs'[j].state = st
    BY <2>2, <2>4 DEF Job
  <2> QED BY <1>3, <2>1, <2>2, <2>3, <2>5
<1> QED
  BY ApiCases, <1>2, <1>4, <1>5, <1>6

\* The end of a run leaves its job in another state than running.
LEMMA FinishRunning ==
    ASSUME TypeOK, RunningInFlight, NEW s \in Slots, runs[s] # Null,
           NEW status \in {"success", "error", "timeout"}, Finish(s, status)
    PROVE  RunningInFlight'
<1> DEFINE j == runs[s].job
<1>1. runs[s] \in Run /\ j \in JobIds
  BY DEF TypeOK, Run
<1>2. \A i \in JobIds : i # j => jobs'[i] = jobs[i]
  BY <1>1 DEF Finish, Store, TypeOK
<1>3. jobs'[j] = Null \/ jobs'[j].state # "running"
  <2>1. CASE ~Exists(j)
    BY <2>1 DEF Finish, Exists
  <2>2. CASE Exists(j)
    <3>1. jobs[j] \in Job
      BY <1>1, <2>2 DEF TypeOK, Exists
    <3>2. Handled(jobs[j], status).state # "running"
      BY <3>1 DEF Handled, Job
    <3>3. runs[s].by # "tick" => runs[s].hadState # "running"
      BY <1>1 DEF Run
    <3>4. runs[s].by # "tick" => Restored(jobs[j], runs[s]).state # "running"
      BY <3>1, <3>3 DEF Restored, Job
    <3>5. jobs'[j] = IF runs[s].by = "tick" THEN Handled(jobs[j], status) ELSE Restored(jobs[j], runs[s])
      BY <1>1, <2>2 DEF Finish, Store, TypeOK
    <3> QED BY <3>2, <3>4, <3>5
  <2> QED BY <2>1, <2>2
<1>4. \A i \in InFlight : i # j => i \in InFlight'
  <2>1. CASE TakesNext(runs[s])
    <3>1. PICK k \in queue : queue' = queue \ {k} /\ runs' = [runs EXCEPT ![s] = TickRun(k)]
      BY <2>1 DEF Finish
    <3>2. runs'[s] = TickRun(k) /\ \A t \in Slots : t # s => runs'[t] = runs[t]
      BY <3>1 DEF TypeOK
    <3>3. k \in JobIds
      BY DEF TypeOK
    <3>4. TickRun(k) \in Run /\ TickRun(k).job = k
      BY <3>3 DEF TickRun, Run
    <3>5. TickRun(k) # Null
      BY <3>4, CronAssumption
    <3>6. k \in InFlight'
      BY <3>2, <3>3, <3>4, <3>5 DEF InFlight, Held
    <3> QED BY <3>1, <3>2, <3>6 DEF InFlight, Held
  <2>2. CASE ~TakesNext(runs[s])
    <3>1. queue' = queue /\ \A t \in Slots : t # s => runs'[t] = runs[t]
      BY <2>2 DEF Finish, TypeOK
    <3> QED BY <3>1 DEF InFlight, Held
  <2> QED BY <2>1, <2>2
<1> QED
  BY <1>2, <1>3, <1>4 DEF RunningInFlight, Exists

LEMMA TickStartRunning ==
    ASSUME TypeOK, ExclusiveInv, RunningInFlight, TickStart
    PROVE  RunningInFlight'
<1> DEFINE due == {j \in JobIds : IsDue(j)}
           expired == {j \in due : Past(jobs[j].endAt, now)}
           batch == due \ expired
<1>1. queue = {}
  BY DEF TickStart, MayTick, ExclusiveInv, BatchInTick
<1>2. PICK first \in SUBSET batch : \E at \in [first -> Free] :
          /\ \A j, k \in first : at[j] = at[k] => j = k
          /\ runs' = [s \in Slots |-> IF \E j \in first : at[j] = s
                                      THEN TickRun(CHOOSE j \in first : at[j] = s)
                                      ELSE runs[s]]
          /\ queue' = batch \ first
  BY DEF TickStart
<1>3. PICK at \in [first -> Free] :
          /\ \A j, k \in first : at[j] = at[k] => j = k
          /\ runs' = [s \in Slots |-> IF \E j \in first : at[j] = s
                                      THEN TickRun(CHOOSE j \in first : at[j] = s)
                                      ELSE runs[s]]
  BY <1>2
<1>4. \A s \in Slots : runs[s] # Null => runs'[s] = runs[s]
  BY <1>3 DEF Free
<1>5. \A j \in batch : j \in InFlight'
  <2>1. ASSUME NEW j \in first PROVE j \in InFlight'
    <3>1. (CHOOSE k \in first : at[k] = at[j]) = j
      BY <1>3
    <3>2. at[j] \in Slots /\ runs'[at[j]] = TickRun(j)
      BY <1>3, <3>1 DEF Free
    <3>3. j \in JobIds
      BY <1>2
    <3>4. TickRun(j) \in Run /\ TickRun(j).job = j
      BY <3>3 DEF TickRun, Run
    <3>5. TickRun(j) # Null
      BY <3>4, CronAssumption
    <3> QED BY <3>2, <3>3, <3>4, <3>5 DEF InFlight, Held
  <2>2. batch \ first \subseteq InFlight'
    BY <1>2 DEF InFlight
  <2> QED BY <2>1, <2>2
<1>6. \A j \in due : jobs[j] \in Job
  BY DEF IsDue, Exists, TypeOK
<1>7. \A j \in JobIds : jobs'[j] # Null /\ jobs'[j].state = "running" =>
                           (jobs[j] # Null /\ jobs[j].state = "running") \/ j \in InFlight'
  <2>1. CASE due = {}
    BY <2>1 DEF TickStart
  <2>2. CASE due # {}
    <3>1. jobs' = [j \in JobIds |-> IF j \in expired THEN Completed(jobs[j])
                                   ELSE IF j \in batch THEN Launched(jobs[j]) ELSE jobs[j]]
      BY <2>2 DEF TickStart, Store
    <3>2. \A j \in expired : Completed(jobs[j]).state = "completed"
      BY <1>6 DEF Completed, Job
    <3> HIDE DEF expired, batch, due
    <3> QED BY <3>1, <3>2, <1>5
  <2> QED BY <2>1, <2>2
<1> QED
  BY <1>1, <1>4, <1>7, QuietRunning

LEMMA TickEndRunning ==
    ASSUME TypeOK, RunningInFlight, TickEnd
    PROVE  RunningInFlight'
<1>1. UNCHANGED <<queue, runs>>
  BY DEF TickEnd
<1>2. \A j \in JobIds : Missed(j) \/ Stuck(j) => jobs[j] \in Job
  BY DEF Missed, Stuck, Exists, TypeOK
<1>3. \A j \in JobIds : jobs[j] \in Job =>
         Completed(jobs[j]).state = "completed" /\ [jobs[j] EXCEPT !.state = "idle"].state = "idle"
  BY DEF Completed, Job
<1>4. \A j \in JobIds : jobs'[j] = jobs[j] \/ jobs'[j].state # "running"
  <2>1. CASE jobs' = jobs
    BY <2>1
  <2>2. CASE jobs' = [j \in JobIds |-> IF Missed(j) THEN Completed(jobs[j])
                                      ELSE IF Stuck(j) THEN [jobs[j] EXCEPT !.state = "idle"]
                                      ELSE jobs[j]]
    BY <1>2, <1>3, <2>2
  <2> QED BY <2>1, <2>2 DEF TickEnd, Store
<1> QED
  BY <1>1, <1>4, QuietRunning

LEMMA StepRunning == TypeOK /\ ExclusiveInv /\ RunningIsInFlight /\ [Next]_vars => RunningIsInFlight'
<1> SUFFICES ASSUME TypeOK, ExclusiveInv, MaxCrashes = 0, RunningInFlight, [Next]_vars
             PROVE  RunningInFlight'
  BY DEF RunningIsInFlight, RunningInFlight
<1>1. CASE Api
  BY <1>1, ApiRunning
<1>2. ASSUME NEW s \in Slots, RunStep(s) PROVE RunningInFlight'
  <2>1. CASE AgentAnswers(s)
    <3>1. runs[s] \in Run /\ jobs' = jobs /\ queue' = queue
      BY <2>1 DEF AgentAnswers, TypeOK, loop
    <3>2. [runs[s] EXCEPT !.phase = "deliver"] \in Run /\ [runs[s] EXCEPT !.phase = "deliver"].job = runs[s].job
      BY <3>1 DEF Run
    <3>3. \A t \in Slots : runs[t] # Null => runs'[t] # Null /\ runs'[t].job = runs[t].job
      BY <2>1, <3>2, CronAssumption DEF AgentAnswers, TypeOK
    <3> QED BY <3>1, <3>3, QuietRunning
  <2>2. CASE AgentFails(s) \/ AgentTimesOut(s) \/ Delivered(s)
    BY <2>2, FinishRunning DEF AgentFails, AgentTimesOut, Delivered
  <2> QED BY <1>2, <2>1, <2>2 DEF RunStep
<1>3. CASE TickStart
  BY <1>3, TickStartRunning
<1>4. CASE TickEnd
  BY <1>4, TickEndRunning
<1>5. CASE Start \/ Stop \/ Persist \/ PersistFails \/ ClockTick \/ UNCHANGED vars
  BY <1>5, QuietRunning DEF Start, Stop, Persist, PersistFails, ClockTick, loop, vars
<1>6. CASE Crash
  BY <1>6 DEF Crash, TypeOK
<1> QED
  BY <1>1, <1>2, <1>3, <1>4, <1>5, <1>6 DEF Next

\* While the process lives, a job stored as running is executed or about to be: no end of
\* a run, manual or scheduled, and no command leaves the state behind (service.ts:243,
\* job-runner.ts), which would keep the job from ever being due again.
THEOREM RunningIsNeverLeftBehind == Spec => []RunningIsInFlight
<1>1. Init => RunningIsInFlight
  BY DEF Init, RunningIsInFlight, Exists
<1>2. Init => ExclusiveInv
  BY DEF Init, ExclusiveInv, BatchInTick, TickRunsExclusive, TickRuns
<1> QED
  BY <1>1, <1>2, StepExclusive, StepRunning, SchedulerTyped, PTL DEF Spec

=============================================================================
