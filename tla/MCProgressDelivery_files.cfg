SPECIFICATION Spec
CONSTANTS
    a = a
    b = b
    None = None
    Keys = {a}
    Announcing = {}
    Requests = {}
    Capacities = {1}
    MaxExecs = 2
    MaxUpdates = 1
    MaxRequests = 0
    MaxAttempts = 2
INVARIANTS
    HubFollowsOwner
CHECK_DEADLOCK FALSE
