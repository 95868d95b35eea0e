SPECIFICATION Spec
CONSTANTS
    Threads = {t1, t2}
    Coroutines = {k1, k2}
    Effects = {e1}
    Return = Return
    ResumeSets <- ArraySets
    YieldIds = {}
    Debug = FALSE
    Null = Null
    Junk = Junk
SYMMETRY Symmetry
PROPERTIES ImplementsEffectHandlers
CHECK_DEADLOCK FALSE
