SPECIFICATION FairSpec
CONSTANTS
    Thieves = {h1, h2}
    Owner = o
    Elts = {x1, x2}
    None = None
    EMPTY = EMPTY
    ABORT = ABORT
    Junk = Junk
    log_size = 0
    MaxTail = 3
    MaxQueued = 2
    MaxBuffer = 3
INVARIANTS NoUseAfterFree
PROPERTIES ImplementsWorkQueue ImplementsWorkDeque LockReleased AllTaken
