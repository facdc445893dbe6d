CONSTANTS
    Compilers = {c1}
    Writer = writer
    Paths = {p1, p2}
    MaxQueued = 2
    BatchSize = 2
    MaxCompiles = 3
    MaxGeneration = 1
    MaxEvents = 2
SPECIFICATION FairSpec
CHECK_DEADLOCK FALSE
INVARIANTS
    TypeOK
    QueueIsSound
    WritesAreAccountedFor
    NewestWriteWins
    NothingIsResurrected
PROPERTIES
    WritesSettle
    DigestsReachTheDisk
