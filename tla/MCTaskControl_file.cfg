SPECIFICATION Spec
CONSTANTS
    c1 = c1
    c2 = c2
    Keys = {f1, f2, r1}
    FileKeys = {f1, f2}
    Recoverers = {}
    ProcessOf <- NoThread
    MaxExecs = 3
    MaxAttempts = 1
    MaxBatch = 2
    Outcomes = {"rejected", "delivery_outcome_unknown"}
SYMMETRY FilesAlike
INVARIANTS
    AdmissionNeverRaises
PROPERTIES
    SupersededOnlyWhenSettled
    NewestPostedLast
CHECK_DEADLOCK FALSE
