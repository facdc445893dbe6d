SPECIFICATION Spec
CONSTANTS
    r1 = r1
    r2 = r2
    c1 = c1
    c2 = c2
    NoThread = NoThread
    Renderers = {r1, r2}
    Clients = {c1, c2}
    SlotCount = 2
    Width = 8
    MaxSubscriptions = 4
INVARIANTS
    SubscribersAreCounted
    CallbacksAreQuiescent
PROPERTIES
    CallsReturn
CHECK_DEADLOCK FALSE
