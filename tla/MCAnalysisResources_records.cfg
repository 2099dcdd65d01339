SPECIFICATION Spec
CONSTANTS
    Executions   = {e1}
    MaxDeferrals = 2
    MaxFaults    = 3
    Crashes      = TRUE
INVARIANTS
    TypeOK
    WorkerUndisturbed
PROPERTIES
    ImplementsDisposal
    Settles
CHECK_DEADLOCK FALSE
