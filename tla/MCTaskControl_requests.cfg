SPECIFICATION FairSpec
CONSTANTS
    c1 = c1
    c2 = c2
    Keys = {r1}
    FileKeys = {}
    Recoverers = {c1, c2}
    ProcessOf <- Apart
    MaxExecs = 1
    MaxAttempts = 3
    MaxBatch = 1
    Outcomes = {"success", "rejected", "skipped", "delivery_outcome_unknown"}
INVARIANTS
    OneDeliveryPerSnapshot
    NobodyWaits
PROPERTIES
    FreezeOnlyExpired
    NothingHangs
CHECK_DEADLOCK FALSE
