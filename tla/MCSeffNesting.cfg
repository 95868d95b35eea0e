SPECIFICATION Spec
CONSTANTS
    Threads = {t1}
    Coroutines = {k1, k2, k3}
    Effects = {e1, e2}
    Return = Return
    ResumeSets <- LibrarySets
    YieldIds = {e1, e2}
    Debug = TRUE
    Null = Null
    Junk = Junk
SYMMETRY Symmetry
INVARIANTS TypeOK WellFormed CurrentOwnsStack LeavesToResumer OneWayIn ResumableIsAlive InnermostHandler SearchDescends
CHECK_DEADLOCK FALSE
