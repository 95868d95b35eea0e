SPECIFICATION FairSpec
CONSTANTS
    NWorkers = 2
    BRANCHING_FACTOR = 2
    last_layer = 4
    Listeners = {l1}
    Conns = {c1, c2}
    SndBuf = 2
    NFds = 2
    RequestUnits = 2
    ResponseUnits <- OnePage
    BUF_SIZE = 4
    MaxRequests = 2
    creatureColours <- ThreeCreatures
    MEETINGS = 2
    Capacity = 1
    tabColour <- ThreeThreads
    MaxIters = 3
    Inputs = {0, 2, 3}
    Arrays <- SmallArrays
    Keys = {0, 1, 2, 5}
    MaxLookups = 3
    StreamCounts = {0, 2, 3}
    capacity = 2
INVARIANTS
    TasksAccounted FramesAreThere WaitersGetAnswers SocketsAreRight
    MeetingsArePairs DerivativeIsRight LookupsAreRight
PROPERTIES AllServed ProgramsGoOn
