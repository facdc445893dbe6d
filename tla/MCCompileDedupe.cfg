CONSTANTS
    small = small
    large = large
    Keys = {small, large}
    SizeOf <- MCSizeOf
    MaxRetainedBytes = 2
    Workers = {w1, w2, w3}
    Entries = {e1, e2, e3}
    NoEntry = NoEntry
    NoKey = NoKey
SPECIFICATION FairSpec
INVARIANTS
    PendingEntriesHaveAnOwner
    FailedEntriesAreUnlisted
    RetentionIsExact
PROPERTIES
    EveryWaitEnds
