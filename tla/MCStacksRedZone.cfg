SPECIFICATION Spec
CONSTANTS
    Threads = {t1}
    Coroutines = {k1}
    FrameSizes = {24, 56}
    ParamSizes = {0, 120}
    default_frame_size = 32
    min_segment_size = 0
    syscall_segment_size = 32
    RedZone = 128
    MaxSegments = 3
    MaxDepth = 3
    NULL = NULL
INVARIANTS RedZoneFits
