CONSTANTS
    lighting = lighting
    grass = grass
    l1 = l1
    g1 = g1
    Tasks = {l1, g1}
    Types = {lighting, grass}
    TypeOf <- MCTypeOf
    Rank <- MCRank
    Slots = {s1, s2}
    FgLimit = 2
    BgLimit = 1
    Users = {u1, u2}
    Operations = {"add", "clear", "clearType", "clearPath", "forget", "mode", "draw", "load", "stop"}
    MaxRequests = 2
SPECIFICATION FairSpec
CHECK_DEADLOCK FALSE
INVARIANTS
    TypeOK
    TasksAreAccountedFor
    OneWorkerPerLiveTask
    StaleWorkIsBeingCleared
    WantedTasksAreKept
    NoFalseCompletion
PROPERTIES
    BatchesDrain
    StartupPhaseEnds
