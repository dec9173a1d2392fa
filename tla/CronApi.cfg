\* Every operation of the API on one job against the scheduler's loop.
SPECIFICATION Spec
CONSTANTS
    j1 = j1
    j2 = j2
    s1 = s1
    s2 = s2
    s3 = s3
    JobIds = {j1}
    Slots = {s1, s2}
    Null = Null
    MaxConcurrency = 1
    MaxManual = 1
    Interval = 1
    CronPeriod = 2
    Backoff <- BackoffDef
    StuckThreshold = 1
    Kinds = {"oneshot", "cron"}
    EndTimes <- EndTimesDef
    EditTimes = {1}
    MaxTime = 2
    MaxCrashes = 0
    CanStop = TRUE
SYMMETRY SlotSymmetry
INVARIANTS
    TypeOK
    OverlapNeedsOverwrite
    CompletedHasNoNextRun
    RunningIsInFlight
CHECK_DEADLOCK FALSE
