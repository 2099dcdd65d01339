\* Two runs of which one may go stale, a title, a deletion, a document.
SPECIFICATION Spec
CONSTANTS
    Runs = {r1, r2}
    Titles = {t1}
    Deletes = {d1}
    Docs = {f1}
    Slow = {r1}
    Crashes = TRUE
    None = None
INVARIANTS TypeOK OneAtATime ReferencesHold NothingForgotten Attended
PROPERTIES VerdictFinal
CHECK_DEADLOCK FALSE
