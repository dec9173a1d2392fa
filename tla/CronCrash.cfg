\* The process dies between any two steps and comes back from cron-jobs.json.
SPECIFICATION FairSpec
CONSTANTS
    j1 = j1
    j2 = j2
    s1 = s1
    s2 = s2
    s3 = s3
    JobIds = {j1}
    Slots = {s1}
    Null = Null
    MaxConcurrency = 1
    MaxManual = 0
    Interval = 1
    CronPeriod = 2
    Backoff <- BackoffDef
    StuckThreshold = 0
    Kinds = {"oneshot", "interval"}
    EndTimes <- NoEnd
    EditTimes = {}
    MaxTime = 2
    MaxCrashes = 2
    CanStop = FALSE
PROPERTIES
    OrphansRecovered
CHECK_DEADLOCK FALSE
