\* Two operations of any kind and a tool call.
SPECIFICATION FairSpec
CONSTANTS
    k1 = k1
    k2 = k2
    Null = Null
    Ops = {1, 2}
    Callers = {k1}
    Attempts = {1, 2, 3, 4}
    Kinds = {"startup", "reload", "reconnect", "logout", "complete", "oversize", "stop"}
INVARIANTS
    TypeOK
    OffStaysOff
    ServesCurrentConfig
    LastReloadWins
PROPERTIES
    KeepsPromise
    OperationsReturn
    CallsReturn
CHECK_DEADLOCK FALSE
