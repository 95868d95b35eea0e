SPECIFICATION Spec
CONSTANTS
    Threads = {t1, t2}
    Coroutines = {k1, k2}
    FrameSizes = {56}
    ParamSizes = {0, 120}
    default_frame_size = 32
    min_segment_size = 0
    syscall_segment_size = 32
    RedZone = 0
    MaxSegments = 3
    MaxDepth = 4
    NULL = NULL
INVARIANTS OwnedOnce LimitMatchesStack RedZoneFits SystemStackIsFree
SYMMETRY Symmetry
