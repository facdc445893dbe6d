\* Two calls on two threads, all interleavings; nothing forces the queue of
\* game tasks to drain.
CONSTANTS
    Calls = {c1, c2}
    Threads = {t1, t2}
    None = None
SPECIFICATION FairSpec
INVARIANTS
    OwnerComesFromTaskQueue
PROPERTIES
    ContractSpec
    EveryCallReturns
