SPECIFICATION Spec
CONSTANTS
    a = a
    b = b
    None = None
    Keys = {a, b}
    Announcing = {a, b}
    Requests <- MCRequests
    Capacities = {1, 2}
    MaxExecs = 2
    MaxUpdates = 1
    MaxRequests = 2
    MaxAttempts = 2
INVARIANTS
    TypeOK
    HubFollowsOwner
    Converges
    NothingLeft
PROPERTIES
    HubForward
    SentForward
CHECK_DEADLOCK FALSE
