\* A manual reconnect overtaken by a tool call, then the stop.
SPECIFICATION Spec
CONSTANTS
    k1 = k1
    k2 = k2
    Null = Null
    Ops = {1, 2}
    Callers = {k1}
    Attempts = {1, 2, 3, 4}
    Kinds = {"reconnect", "stop"}
INVARIANTS
    StopClosesConnections
CHECK_DEADLOCK FALSE
