SPECIFICATION Spec
CONSTANTS
    NStrigs = 0
    NKeys = 1
    NTimers = 1
    Unstructured = FALSE
    StateModulus = 256
    MaxPresses = 3
    MaxGosubs = 1
INVARIANTS
    HandlerIsOwn
