\* Two turns and a follow-up on one session, and one of: a steering message, /clear,
\* deletion, a switch of agents, an eviction, a change of the tool set.
SPECIFICATION FairSpec
CONSTANTS
    c1 = c1
    c2 = c2
    f1 = f1
    f2 = f2
    m1 = m1
    Null = Null
    Calls = {c1, c2}
    FollowUps = {f1}
    Steers = {m1}
    MaxEvents = 1
INVARIANTS
    TypeOK
    BusyHasOwner
    SharedOnlyAfterFollowUp
PROPERTIES
    EvictionsSpareTurns
    CallsEnd
    InvalidationLands
CHECK_DEADLOCK FALSE
