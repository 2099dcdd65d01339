SPECIFICATION FairSpec
CONSTANTS
    d1 = d1
    d2 = d2
    h1 = h1
    c1 = c1
    None = None
    Dispatchers = {d1}
    Helpers = {h1}
    Callers = {c1}
    CalledInStates = {"new"}
    Poison = {1, 2}
    MaxTasks = 3
    PageSize = 2
    MaxFaults = 1
INVARIANTS
    TypeOK
    NoLostWakeup
PROPERTIES
    InOrder
    NoStarvation
    StopEnds
CHECK_DEADLOCK FALSE
