SPECIFICATION SmartSpec
CONSTANTS
    t1 = t1
    k1 = k1
    w1 = w1
    w2 = w2
    Main = Main
    Tasks = {t1}
    Keys = {k1}
    KeyOf <- JustOne
    Workers = {w1}
    NamedForType = FALSE
    Operations = {}
    Faults = FALSE
    MaxRequests = 2
    MaxClears = 0
    MaxEdits = 0
    MaxResets = 1
INVARIANTS
    ClearedShadersComeBack
CHECK_DEADLOCK FALSE
