SPECIFICATION Spec
CONSTANTS
    A = A
    B = B
    None = None
    x1 = x1
    x2 = x2
    x3 = x3
    l1 = l1
    l2 = l2
    Exacts = {x1, x2, x3}
    Logicals = {l1, l2}
    LogicalOf <- MCLogicalOf
    MaxGeneration = 5
    MaxAppends = 3
INVARIANTS
    TypeOK
    ResetIsFinal
    IndexMatchesDisk
    CheckpointedRecordsSurvive
