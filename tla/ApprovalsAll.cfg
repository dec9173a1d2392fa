\* Two requests in up to two sessions, every way to settle them, a reload, a restart.
SPECIFICATION FairSpec
CONSTANTS
    r1 = r1
    r2 = r2
    s1 = s1
    s2 = s2
    Null = Null
    Requests = {r1, r2}
    Sessions = {s1, s2}
    Kinds = {"path", "high", "question"}
    MaxRestarts = 1
INVARIANTS
    TypeOK
    WaitersReachable
    HighRiskNeedsHuman
    GrantsNeedHuman
    RowKeepsDecision
PROPERTIES
    OthersUntouched
    ApprovalsEnd
CHECK_DEADLOCK FALSE
