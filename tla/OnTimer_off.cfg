SPECIFICATION ErrorFree
CONSTANTS
    MaxTimers = 2
    FreeListSize = 8
INVARIANT OffStartsOver
