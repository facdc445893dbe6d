SPECIFICATION Spec
CONSTANTS
    t1 = t1
    t2 = t2
    k1 = k1
    w1 = w1
    w2 = w2
    Main = Main
    Tasks = {t1, t2}
    Keys = {k1}
    KeyOf <- OneKey
    Workers = {w1}
    NamedForType = TRUE
    Operations = {"draw", "clear", "type"}
    Faults = TRUE
    MaxRequests = 4
    MaxClears = 1
    MaxEdits = 1
INVARIANTS
    PendingHasOwner
    OneLiveOwner
    StaleCompilesAreDiscarded
    NoShaderIsLost
CHECK_DEADLOCK FALSE
