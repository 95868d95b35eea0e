SPECIFICATION Spec
CONSTANTS
    Cells = {c1, c2}
    Start = Start
    Handlers = {h1, Null}
    Null = Null
    Junk = Junk
INVARIANTS HandlerKept
CHECK_DEADLOCK FALSE
