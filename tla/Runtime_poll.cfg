SPECIFICATION RuntimeFairSpec
CONSTANTS
    Programs <- PollingPrograms
    Buffered = FALSE
    OrIsAtomic = TRUE
    MaxDisplays = 2
    MaxQueue = 1
PROPERTIES
    Ends
\* That all threads wait for ever is the violation.
CHECK_DEADLOCK FALSE
