\* A oneshot whose run times out.
SPECIFICATION Spec
CONSTANTS
    j1 = j1
    j2 = j2
    s1 = s1
    s2 = s2
    s3 = s3
    JobIds = {j1}
    Slots = {s1, s2}
    Null = Null
    MaxConcurrency = 1
    MaxManual = 1
    Interval = 1
    CronPeriod = 2
    Backoff <- BackoffDef
    StuckThreshold = 1
    Kinds = {"oneshot", "interval"}
    EndTimes <- NoEnd
    EditTimes = {}
    MaxTime = 2
    MaxCrashes = 0
    CanStop = FALSE
PROPERTIES
    FiresAtMostOncePerSlot
CHECK_DEADLOCK FALSE
