\* A button pressed before the request is registered.
SPECIFICATION Spec
CONSTANTS
    r1 = r1
    r2 = r2
    s1 = s1
    s2 = s2
    Null = Null
    Requests = {r1, r2}
    Sessions = {s1}
    Kinds = {"medium"}
    MaxRestarts = 0
INVARIANTS
    RefusedWasHandled
CHECK_DEADLOCK FALSE
