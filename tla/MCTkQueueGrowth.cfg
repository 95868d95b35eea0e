SPECIFICATION Spec
CONSTANTS
    Thieves = {h1}
    Owner = o
    Elts = {x1, x2, x3}
    log_size = 0
    MaxQueued = 3
    MaxTail = 5
    StealsDuringGrowth = TRUE
    None = None
    EMPTY = EMPTY
    Junk = Junk
SYMMETRY Symmetry
PROPERTIES ImplementsWorkQueue
CHECK_DEADLOCK FALSE
