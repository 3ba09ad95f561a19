SPECIFICATION ThreadsSpec
CONSTANTS
    MaxTimers = 2
    FreeListSize = 8
    Programs <- AllPrograms
    Buffered = FALSE
    OrIsAtomic = FALSE
    MaxDisplays = 2
    MaxQueue = 1
    Threads = {p, w}
    MaxHandles = 4
    MaxGrowths = 1
INVARIANTS
    ThreadsTypeOK
    ReallocExcludesScan
    InProgressIsOnStack
    FreeListExact
    GLExcludesProgram
    MessageOwned
    ExitOnGlutThread
    HandlesExact
PROPERTIES
    ThreadLeavesRunningAlone
\* Several of these programs hang, and the bound on handles stops their part: see the README.
CHECK_DEADLOCK FALSE
