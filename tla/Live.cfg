SPECIFICATION LiveSpec
CONSTANTS
    NStrigs = 0
    NKeys = 2
    NTimers = 0
    Unstructured = FALSE
    StateModulus = 256
    MaxPresses = 2
    MaxGosubs = 1
    MaxFrames = 1
    Closes = FALSE
    Ids = {1}
    MaxOpens = 2
    MaxBlocks <- TwoThenNone
INVARIANTS
    HandlerIsOwn
PROPERTIES
    PressServed
    WaitsEnd
    CallsReturn
