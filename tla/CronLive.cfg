\* Every due job is fired, provided that channels answer.
SPECIFICATION FairSpec
CONSTANTS
    j1 = j1
    j2 = j2
    s1 = s1
    s2 = s2
    s3 = s3
    JobIds = {j1, j2}
    Slots = {s1, s2}
    Null = Null
    MaxConcurrency = 1
    MaxManual = 0
    Interval = 1
    CronPeriod = 2
    Backoff <- BackoffDef
    StuckThreshold = 1
    Kinds = {"interval"}
    EndTimes <- NoEnd
    EditTimes = {}
    MaxTime = 2
    MaxCrashes = 0
    CanStop = TRUE
INVARIANTS
    TickRunsExclusive
    BatchCap
PROPERTIES
    DueJobsFire
CHECK_DEADLOCK FALSE
