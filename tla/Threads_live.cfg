SPECIFICATION ThreadsFairSpec
CONSTANTS
    MaxTimers = 2
    FreeListSize = 8
    Programs <- SoundPrograms
    Buffered = TRUE
    OrIsAtomic = TRUE
    MaxDisplays = 2
    MaxQueue = 1
    Threads = {p, w}
    MaxHandles = 1
    MaxGrowths = 0
INVARIANTS
    NoLostEvent
    ClosedAfterParked
PROPERTIES
    EventServed
    WaitsGranted
    Ends
