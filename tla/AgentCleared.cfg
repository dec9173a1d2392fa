\* /clear, a turn, an eviction, a turn.
SPECIFICATION Spec
CONSTANTS
    c1 = c1
    c2 = c2
    f1 = f1
    f2 = f2
    m1 = m1
    Null = Null
    Calls = {c1, c2}
    FollowUps = {}
    Steers = {}
    MaxEvents = 2
PROPERTIES
    EvictionKeepsContext
CHECK_DEADLOCK FALSE
