\* The request, a recoverer, every scene, and other programs that change the row.
SPECIFICATION Spec
CONSTANTS
    Request      = f
    Recoverers   = {r1}
    Scenes       <- MCScenes
    Reclassifies = TRUE
    None         = None
INVARIANTS
    TypeOK
    VerdictHolds
    EffectRecorded
    OneMutator
CHECK_DEADLOCK FALSE
