SPECIFICATION Spec
CONSTANTS
    Cells = {c1, c2, c3, c4}
    Start = Start
    Handlers = {h1, Null}
    Null = Null
    Junk = Junk
INVARIANTS NoDangling ReachesAll
SYMMETRY Symmetry
CHECK_DEADLOCK FALSE
