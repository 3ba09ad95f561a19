SPECIFICATION RuntimeFairSpec
CONSTANTS
    Programs <- AskingPrograms
    Buffered = FALSE
    OrIsAtomic = TRUE
    MaxDisplays = 2
    MaxQueue = 1
PROPERTIES
    FrameGranted
