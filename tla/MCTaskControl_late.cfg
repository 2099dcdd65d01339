SPECIFICATION Spec
CONSTANTS
    c1 = c1
    c2 = c2
    Keys = {r1}
    FileKeys = {}
    Recoverers = {c1}
    ProcessOf <- One
    MaxExecs = 2
    MaxAttempts = 2
    MaxBatch = 1
    Outcomes = {"success", "rejected", "delivery_outcome_unknown"}
PROPERTIES
    NewestPostedLast
CHECK_DEADLOCK FALSE
