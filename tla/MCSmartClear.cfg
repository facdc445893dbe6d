SPECIFICATION FairSmartSpec
CONSTANTS
    t1 = t1
    k1 = k1
    w1 = w1
    w2 = w2
    Main = Main
    Tasks = {t1}
    Keys = {k1}
    KeyOf <- JustOne
    Workers = {w1, w2}
    NamedForType = FALSE
    Operations = {"clear", "type"}
    Faults = TRUE
    MaxRequests = 3
    MaxClears = 1
    MaxEdits = 1
    MaxResets = 1
CHECK_DEADLOCK FALSE
PROPERTIES
    WaitersAreWoken
    ParkedEvictionsAreApplied
