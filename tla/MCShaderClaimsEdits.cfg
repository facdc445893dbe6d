SPECIFICATION Spec
CONSTANTS
    t1 = t1
    t2 = t2
    k1 = k1
    w1 = w1
    w2 = w2
    Main = Main
    Tasks = {t1}
    Keys = {k1}
    KeyOf <- JustOne
    Workers = {w1}
    NamedForType = TRUE
    Operations = {}
    Faults = FALSE
    MaxRequests = 3
    MaxClears = 0
    MaxEdits = 1
INVARIANTS
    EditsTakeEffect
CHECK_DEADLOCK FALSE
