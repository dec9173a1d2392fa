--------------------------- MODULE CronScheduler ---------------------------
(***************************************************************************)
(* The cron subsystem: CronStore (src/src/cron/store.ts), CronScheduler    *)
(* (scheduler.ts), CronService (service.ts) and the part of JobRunner      *)
(* (job-runner.ts) that decides how a run ends.  One process, one event    *)
(* loop: every action below is the code between two awaits.                *)
(***************************************************************************)
EXTENDS Integers, Sequences, FiniteSets

CONSTANTS
    JobIds,          \* ids a job may get
    Slots,           \* executions of JobRunner.run that may be in flight
    Null,            \* null, undefined, "no job", "no run"
    MaxConcurrency,  \* CronSchedulerOptions.maxConcurrency
    Interval,        \* intervalMs of an "every X" job
    CronPeriod,      \* a cron expression fires at the multiples of it
    Backoff,         \* BACKOFF_SCHEDULE_MS
    StuckThreshold,  \* STUCK_THRESHOLD_MS
    Kinds,           \* schedule types in use
    EndTimes,        \* values an endAt may take, Null included
    EditTimes,       \* next_run_at values the web API may be given
    MaxManual,       \* bound: manual runs in flight
    MaxTime,         \* bound: the clock stops there
    MaxCrashes,      \* bound: times the process dies
    CanStop          \* whether a config reload may turn cron off and on

AllKinds == {"oneshot", "interval", "cron"}
JobStates == {"idle", "running", "paused", "completed"}
Time == Nat \union {Null}

\* CronJob, without the fields nothing reads back
Job == [kind : AllKinds, enabled : BOOLEAN, state : JobStates, nextRunAt : Time,
        lastRunAt : Time, retryCount : 0..Len(Backoff), endAt : Time]

\* An execution of JobRunner.run, with what runOnce's closure remembers.
Run ==
    [job : JobIds, by : {"tick"}, phase : {"agent", "deliver"}, hadState : {Null}, hadNext : {Null}]
    \union [job : JobIds, by : {"manual"}, phase : {"agent", "deliver"},
            hadState : JobStates \ {"running"}, hadNext : Time]

ASSUME CronAssumption ==
    /\ Null \notin Nat /\ Null \notin BOOLEAN /\ Null \notin Job /\ Null \notin Run
    /\ IsFiniteSet(Slots)
    /\ MaxConcurrency \in Nat \ {0} /\ MaxManual \in Nat
    /\ Cardinality(Slots) >= MaxConcurrency + MaxManual
    /\ Interval \in Nat \ {0} /\ CronPeriod \in Nat \ {0}
    /\ Backoff \in Seq(Nat \ {0}) /\ Backoff # <<>>
    /\ StuckThreshold \in Nat
    /\ Kinds \subseteq AllKinds /\ Null \notin AllKinds
    /\ EndTimes \subseteq Time /\ EditTimes \subseteq Nat
    /\ MaxTime \in Nat /\ MaxCrashes \in Nat /\ CanStop \in BOOLEAN

VARIABLES
    now,       \* Date.now()
    jobs,      \* CronStore.data: job id -> its record, Null when there is none
    disk,      \* cron-jobs.json
    dirty,     \* a doPersist is queued on writeQueue
    timer,     \* CronScheduler.timer is set
    kicked,    \* start()'s setImmediate has not run yet
    ticking,   \* CronScheduler.ticking
    tickNow,   \* the `now` captured by the tick in progress
    queue,     \* jobs of the batch that no worker has taken yet
    runs,      \* slot -> the execution it holds, Null when free
    crashes,   \* times the process died
    touched    \* history: jobs in flight whose state something else overwrote

vars == <<now, jobs, disk, dirty, timer, kicked, ticking, tickNow, queue, runs, crashes,
          touched>>
loop == <<timer, kicked, ticking, tickNow, queue, crashes>>

----------------------------------------------------------------------------
(* Schedules *)

NextOccurrence(kind) ==
    IF kind = "cron" THEN ((now \div CronPeriod) + 1) * CronPeriod ELSE now + Interval

\* parseSchedule: a oneshot names its time, which must lie in the future.
FirstRuns(kind) ==
    IF kind = "oneshot" THEN (now + 1)..MaxTime ELSE {NextOccurrence(kind)}

RecomputeNextRun(job) ==
    IF job.kind = "oneshot" THEN job.nextRunAt ELSE NextOccurrence(job.kind)

Past(end, t) == end # Null /\ t >= end

\* advanceNextRun: a oneshot keeps its time, a recurring job moves on unless it ends first.
AdvanceNextRun(job) ==
    IF job.kind = "oneshot" THEN job.nextRunAt
    ELSE IF Past(job.endAt, NextOccurrence(job.kind)) THEN Null
    ELSE NextOccurrence(job.kind)

\* The retry count saturates where the backoff it selects does.
NextRetry(retry) == IF retry < Len(Backoff) THEN retry + 1 ELSE retry

\* JobRunner.applyBackoff, for a retry count that is already incremented.
BackoffFor(retry) == now + Backoff[retry]

----------------------------------------------------------------------------
(* The store.  Every mutation queues a write of whatever is current when   *)
(* the write runs; the file is followed only where the process may die.    *)

Exists(j) == jobs[j] # Null

IsDue(j) ==
    /\ Exists(j)
    /\ jobs[j].enabled /\ jobs[j].state = "idle"
    /\ jobs[j].nextRunAt # Null /\ jobs[j].nextRunAt <= now

Store(newJobs) == jobs' = newJobs /\ dirty' = IF MaxCrashes = 0 THEN FALSE ELSE TRUE

Persist ==
    /\ dirty
    /\ disk' = jobs
    /\ dirty' = FALSE
    /\ UNCHANGED <<now, jobs, loop, runs, touched>>

\* doPersist throws (disk full, rename refused): logged, the chain goes on.
PersistFails ==
    /\ crashes < MaxCrashes /\ dirty
    /\ dirty' = FALSE
    /\ UNCHANGED <<now, jobs, disk, loop, runs, touched>>

----------------------------------------------------------------------------
(* Executions *)

Free == {s \in Slots : runs[s] = Null}
Held(j) == {s \in Slots : runs[s] # Null /\ runs[s].job = j}
TickRuns == {s \in Slots : runs[s] # Null /\ runs[s].by = "tick"}
ManualRuns == {s \in Slots : runs[s] # Null /\ runs[s].by = "manual"}
InFlight == queue \union {j \in JobIds : Held(j) # {}}

\* The jobs of `more` join `touched`; a job leaves it with its last execution.
Touch(more) == touched' = (touched \union more) \intersect InFlight'

TickRun(j) == [job |-> j, by |-> "tick", phase |-> "agent", hadState |-> Null, hadNext |-> Null]

----------------------------------------------------------------------------
(* The commands, the cron tools and the web API *)

Add(j, kind, at, end) ==
    /\ ~Exists(j) /\ disk[j] = Null /\ j \notin InFlight
    /\ at \in FirstRuns(kind)
    /\ Store([jobs EXCEPT ![j] =
            [kind |-> kind, enabled |-> TRUE, state |-> "idle", nextRunAt |-> at,
             lastRunAt |-> Null, retryCount |-> 0, endAt |-> end]])
    /\ UNCHANGED <<now, disk, loop, runs, touched>>

Remove(j) ==
    /\ Exists(j)
    /\ Store([jobs EXCEPT ![j] = Null])
    /\ UNCHANGED <<now, disk, loop, runs, touched>>

\* pause, and toggle(id, false)
Pause(j) ==
    /\ Exists(j)
    /\ Store([jobs EXCEPT ![j].enabled = FALSE, ![j].state = "paused"])
    /\ UNCHANGED <<now, disk, loop, runs>>
    /\ Touch({j})

\* resume, and toggle(id, true)
Resume(j) ==
    /\ Exists(j)
    /\ Store([jobs EXCEPT ![j].enabled = TRUE, ![j].state = "idle",
                          ![j].nextRunAt = RecomputeNextRun(jobs[j])])
    /\ UNCHANGED <<now, disk, loop, runs>>
    /\ Touch({j})

\* PUT /api/cron/jobs/:id.  kind, at and en are Null where the body has no such
\* field; `cleared` says that it has a next_run_at of null. Either overrides the
\* time a new expression gives, but null alone is no change of schedule.
Put(j, kind, at, en, cleared) ==
    LET job == jobs[j]
        scheduleChanged == kind # Null \/ at # Null
        toggles == en # Null /\ en # job.enabled
        revived == scheduleChanged /\ job.state \in {"completed", "paused"}
        enabled == IF revived THEN TRUE ELSE IF toggles THEN en ELSE job.enabled
        state == IF revived THEN "idle"
                 ELSE IF ~toggles THEN job.state
                 ELSE IF en THEN "idle" ELSE "paused"
    IN  /\ Exists(j)
        /\ scheduleChanged \/ toggles \/ cleared
        /\ cleared => at = Null
        /\ \E first \in IF cleared THEN {Null} ELSE IF at # Null THEN {at}
                        ELSE IF kind # Null THEN FirstRuns(kind) ELSE {job.nextRunAt} :
              Store([jobs EXCEPT ![j] =
                 [job EXCEPT !.kind = IF kind # Null THEN kind ELSE job.kind,
                             !.nextRunAt = first, !.enabled = enabled, !.state = state]])
        /\ UNCHANGED <<now, disk, loop, runs>>
        /\ Touch(IF revived \/ toggles THEN {j} ELSE {})

\* Mutant: runOnce does not look at the state of the job.
MayRunOnceAlways(j) == Exists(j)

MayRunOnce(j) == Exists(j) /\ jobs[j].state # "running"

\* runOnce, up to its await
RunOnce(j, s) ==
    /\ MayRunOnce(j)
    /\ s \in Free /\ Cardinality(ManualRuns) < MaxManual
    /\ Store([jobs EXCEPT ![j].state = "running"])
    /\ runs' = [runs EXCEPT ![s] = [job |-> j, by |-> "manual", phase |-> "agent",
                                    hadState |-> jobs[j].state, hadNext |-> jobs[j].nextRunAt]]
    /\ UNCHANGED <<now, disk, loop, touched>>

----------------------------------------------------------------------------
(* The scheduler's loop *)

Start ==
    /\ ~timer
    /\ timer' = TRUE /\ kicked' = TRUE
    /\ UNCHANGED <<now, jobs, disk, dirty, ticking, tickNow, queue, runs, crashes, touched>>

\* Mutants: no guard against overlapping ticks; a worker for every job of the batch.
MayTickAlways == timer \/ kicked
WorkerCountUnbounded(n) == n

\* The interval timer or start()'s immediate fires, and no tick is in progress.
MayTick == (timer \/ kicked) /\ ~ticking

WorkerCount(n) == IF n < MaxConcurrency THEN n ELSE MaxConcurrency

Stop ==
    /\ CanStop /\ timer
    /\ timer' = FALSE
    /\ UNCHANGED <<now, jobs, disk, dirty, kicked, ticking, tickNow, queue, runs, crashes, touched>>

\* Mutant: completing a job leaves its next run in place.
CompletedKeepsNext(job) == [job EXCEPT !.state = "completed", !.enabled = FALSE]

Completed(job) == [job EXCEPT !.state = "completed", !.enabled = FALSE, !.nextRunAt = Null]

Launched(job) == [job EXCEPT !.state = "running", !.lastRunAt = now, !.nextRunAt = AdvanceNextRun(job)]

\* tick, up to its await: the first workers take their jobs at once.  The order of
\* the batch (that of the store's array) is abstracted.
TickStart ==
    LET due == {j \in JobIds : IsDue(j)}
        expired == {j \in due : Past(jobs[j].endAt, now)}
        batch == due \ expired
    IN  /\ MayTick
        /\ ticking' = TRUE /\ tickNow' = now /\ kicked' = FALSE
        /\ IF due = {} THEN UNCHANGED <<jobs, dirty>>
           ELSE Store([j \in JobIds |-> IF j \in expired THEN Completed(jobs[j])
                                        ELSE IF j \in batch THEN Launched(jobs[j])
                                        ELSE jobs[j]])
        /\ \E first \in SUBSET batch :
              /\ Cardinality(first) = WorkerCount(Cardinality(batch))
              /\ \E at \in [first -> Free] :
                    /\ \A j, k \in first : at[j] = at[k] => j = k
                    /\ runs' = [s \in Slots |-> IF \E j \in first : at[j] = s
                                                THEN TickRun(CHOOSE j \in first : at[j] = s)
                                                ELSE runs[s]]
              /\ queue' = batch \ first
        /\ UNCHANGED <<now, disk, timer, crashes, touched>>

\* handleResult
Handled(job, status) ==
    IF status = "success" THEN
        IF job.kind = "oneshot"
        THEN [job EXCEPT !.retryCount = 0, !.nextRunAt = Null, !.state = "completed"]
        ELSE [job EXCEPT !.retryCount = 0, !.state = "idle"]
    ELSE IF status = "error" THEN
        [job EXCEPT !.retryCount = NextRetry(@), !.nextRunAt = BackoffFor(NextRetry(job.retryCount)),
                    !.state = "idle"]
    ELSE [job EXCEPT !.state = "idle"]

\* Mutant: the finally block forgets the state.
RestoredNextOnly(job, run) == [job EXCEPT !.nextRunAt = run.hadNext]

\* runOnce's finally block
Restored(job, run) == [job EXCEPT !.state = run.hadState, !.nextRunAt = run.hadNext]

\* Mutant: a worker takes one job only.
TakesNextNever(run) == FALSE

\* The worker's loop: another job of the batch is left.
TakesNext(run) == run.by = "tick" /\ queue # {}

\* A run is over.  The worker of a scheduled run handles the result and takes the
\* next job of the batch in the same turn, whatever happened to that job meanwhile.
Finish(s, status) ==
    LET run == runs[s]
        j == run.job
    IN  /\ IF ~Exists(j) THEN UNCHANGED <<jobs, dirty>>
           ELSE Store([jobs EXCEPT ![j] = IF run.by = "tick" THEN Handled(@, status)
                                          ELSE Restored(@, run)])
        /\ IF TakesNext(run)
           THEN \E k \in queue :
                   /\ queue' = queue \ {k}
                   /\ runs' = [runs EXCEPT ![s] = TickRun(k)]
           ELSE /\ runs' = [runs EXCEPT ![s] = Null]
                /\ UNCHANGED queue
        /\ Touch({})
        /\ UNCHANGED <<now, disk, timer, kicked, ticking, tickNow, crashes>>

\* The agent answers: the result goes to JobRunner.deliver.
AgentAnswers(s) ==
    /\ runs[s] # Null /\ runs[s].phase = "agent"
    /\ runs' = [runs EXCEPT ![s].phase = "deliver"]
    /\ UNCHANGED <<now, jobs, disk, dirty, loop, touched>>

AgentFails(s) == runs[s] # Null /\ runs[s].phase = "agent" /\ Finish(s, "error")

\* withTimeout.  How long the execution timeout is, is abstracted.
AgentTimesOut(s) == runs[s] # Null /\ runs[s].phase = "agent" /\ Finish(s, "timeout")

\* deliver returns or throws; either way the run counts as a success.  No timeout guards it.
Delivered(s) == runs[s] # Null /\ runs[s].phase = "deliver" /\ Finish(s, "success")

\* detectStuckAndExpiredJobs, with the time the tick began
Missed(j) ==
    /\ Exists(j) /\ jobs[j].enabled /\ jobs[j].state # "completed"
    /\ Past(jobs[j].endAt, tickNow)

\* Mutant: the age of the run is computed the wrong way round.
StuckReversed(j) ==
    /\ Exists(j) /\ ~Missed(j)
    /\ jobs[j].state = "running" /\ jobs[j].lastRunAt # Null
    /\ jobs[j].lastRunAt - tickNow > StuckThreshold

Stuck(j) ==
    /\ Exists(j) /\ ~Missed(j)
    /\ jobs[j].state = "running" /\ jobs[j].lastRunAt # Null
    /\ tickNow - jobs[j].lastRunAt > StuckThreshold

TickEnd ==
    /\ ticking /\ queue = {} /\ TickRuns = {}
    /\ ticking' = FALSE
    /\ IF \E j \in JobIds : Missed(j) \/ Stuck(j)
       THEN Store([j \in JobIds |-> IF Missed(j) THEN Completed(jobs[j])
                                    ELSE IF Stuck(j) THEN [jobs[j] EXCEPT !.state = "idle"]
                                    ELSE jobs[j]])
       ELSE UNCHANGED <<jobs, dirty>>
    /\ tickNow' = 0
    /\ UNCHANGED <<now, disk, timer, kicked, queue, runs, crashes>>
    /\ Touch({j \in JobIds : Missed(j) \/ Stuck(j)})

----------------------------------------------------------------------------
ClockTick ==
    /\ now < MaxTime
    /\ now' = now + 1
    /\ UNCHANGED <<jobs, disk, dirty, loop, runs, touched>>

\* The process dies and is started again: CronStore.load, then start().
Crash ==
    /\ crashes < MaxCrashes /\ crashes' = crashes + 1
    /\ jobs' = disk /\ dirty' = FALSE
    /\ timer' = TRUE /\ kicked' = TRUE
    /\ ticking' = FALSE /\ tickNow' = 0 /\ queue' = {}
    /\ runs' = [s \in Slots |-> Null]
    /\ touched' = {}
    /\ UNCHANGED <<now, disk>>

Init ==
    /\ now = 0
    /\ jobs = [j \in JobIds |-> Null] /\ disk = jobs /\ dirty = FALSE
    /\ timer = TRUE /\ kicked = TRUE
    /\ ticking = FALSE /\ tickNow = 0 /\ queue = {}
    /\ runs = [s \in Slots |-> Null]
    /\ crashes = 0 /\ touched = {}

Api ==
    \E j \in JobIds :
        \/ \E kind \in Kinds, at \in 0..(MaxTime + Interval + CronPeriod), end \in EndTimes :
              Add(j, kind, at, end)
        \/ Remove(j) \/ Pause(j) \/ Resume(j)
        \/ EditTimes # {} /\ \E kind \in Kinds \union {Null}, at \in EditTimes \union {Null},
                                 en \in BOOLEAN \union {Null}, cleared \in BOOLEAN :
                                 Put(j, kind, at, en, cleared)
        \/ \E s \in Slots : RunOnce(j, s)

RunStep(s) == AgentAnswers(s) \/ AgentFails(s) \/ AgentTimesOut(s) \/ Delivered(s)

Next ==
    \/ Api
    \/ \E s \in Slots : RunStep(s)
    \/ Start \/ Stop \/ TickStart \/ TickEnd
    \/ Persist \/ PersistFails \/ Crash
    \/ ClockTick

Spec == Init /\ [][Next]_vars

\* The event loop gets to a tick that is asked for, and the execution timeout sees
\* to it that an agent run ends.
LoopFairness ==
    /\ WF_vars(TickStart) /\ WF_vars(TickEnd)
    /\ \A s \in Slots : WF_vars(AgentFails(s) \/ AgentTimesOut(s))

\* What the code does not see to: that a channel's deliver() returns.
DeliveryFairness == \A s \in Slots : WF_vars(Delivered(s))

FairSpec == Spec /\ LoopFairness /\ DeliveryFairness

----------------------------------------------------------------------------
(* Properties *)

FlagsOK == dirty \in BOOLEAN /\ timer \in BOOLEAN /\ kicked \in BOOLEAN /\ ticking \in BOOLEAN

TypeOK ==
    /\ now \in Nat /\ tickNow \in Nat /\ crashes \in Nat
    /\ jobs \in [JobIds -> Job \union {Null}] /\ disk \in [JobIds -> Job \union {Null}]
    /\ FlagsOK
    /\ queue \subseteq JobIds /\ touched \subseteq JobIds
    /\ runs \in [Slots -> Run \union {Null}]

\* The scheduler never executes one job twice at a time, whatever users do to the
\* job meanwhile: the `ticking` guard, not the job's state, sees to that.
TickRunsExclusive ==
    \A s \in TickRuns :
        /\ ticking
        /\ runs[s].job \notin queue
        /\ \A t \in TickRuns : runs[s].job = runs[t].job => s = t

\* No more of a batch is in flight than maxConcurrency allows.
BatchCap == Cardinality(TickRuns) <= MaxConcurrency

\* Two executions of one job overlap only after something other than the end of a
\* run has overwritten the state of that job while it was in flight.
OverlapNeedsOverwrite ==
    \A s, t \in Slots :
        (s # t /\ runs[s] # Null /\ runs[t] # Null /\ runs[s].job = runs[t].job)
            => runs[s].job \in touched

\* A completed job has no next run that a later change of its state could expose.
CompletedHasNoNextRun ==
    \A j \in JobIds : Exists(j) /\ jobs[j].state = "completed" => jobs[j].nextRunAt = Null

\* While the process lives, "running" is never left behind: an execution of the job
\* is in flight or the worker pool is about to start it.
RunningIsInFlight ==
    MaxCrashes = 0 => \A j \in JobIds : Exists(j) /\ jobs[j].state = "running" => j \in InFlight

\* A due job does not wait forever while the scheduler is on.
DueJobsFire ==
    \A j \in JobIds : IsDue(j) ~> (~IsDue(j) \/ ~timer)

\* A job whose run died with the process.
Orphan(j) == Exists(j) /\ jobs[j].state = "running" /\ j \notin InFlight

\* Stuck detection gives back every orphan that has a lastRunAt, once two hours are over.
OrphansRecovered ==
    \A j \in JobIds :
        (Orphan(j) /\ jobs[j].lastRunAt # Null /\ now - jobs[j].lastRunAt > StuckThreshold)
            ~> (~Orphan(j) \/ ~timer)

(* What a comment of the code says and the code does not do *)

\* scheduler.ts:82: "At-most-once": a tick does not fire a job for a time that an
\* earlier execution has served.
FiresAtMostOncePerSlot ==
    [][\A j \in JobIds :
          (~ticking /\ ticking' /\ Exists(j) /\ jobs'[j].state = "running" /\ IsDue(j))
              => jobs[j].lastRunAt = Null \/ jobs[j].lastRunAt < jobs[j].nextRunAt]_vars
============================================================================
