SPECIFICATION FairSpec
CONSTANTS
    t1 = t1
    t2 = t2
    k1 = k1
    w1 = w1
    w2 = w2
    Main = Main
    Tasks = {t1}
    Keys = {k1}
    KeyOf <- JustOne
    Workers = {w1}
    NamedForType = FALSE
    Operations = {"draw", "type"}
    Faults = FALSE
    MaxRequests = 4
    MaxClears = 1
    MaxEdits = 1
PROPERTIES
    ParkedEvictionsAreApplied
CHECK_DEADLOCK FALSE
