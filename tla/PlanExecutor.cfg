\* Every plan of three subtasks, its agents failing, hanging or stopped.
SPECIFICATION FairSpec
CONSTANTS
    Subtasks = {1, 2, 3}
    Unknown = Unknown
    Limit = 2
INVARIANTS
    TypeOK
    StopReaches
    WorkersCapped
    SettledIsClosed
PROPERTIES
    KeepsPlan
    PlanReturns
CHECK_DEADLOCK FALSE
