SPECIFICATION Spec
CONSTANTS
    d1 = d1
    d2 = d2
    h1 = h1
    c1 = c1
    None = None
    Dispatchers = {d1, d2}
    Helpers = {h1}
    Callers = {c1}
    CalledInStates = {"new", "stopped", "closed"}
    Poison = {}
    MaxTasks = 1
    PageSize = 1
    MaxFaults = 1
SYMMETRY Interchangeable
INVARIANTS
    OneExecutor
    StoppedIsQuiet
PROPERTIES
    NothingBeginsOnceStopping
CHECK_DEADLOCK FALSE
