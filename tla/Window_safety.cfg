SPECIFICATION WindowSpec
CONSTANTS
    NStrigs = 1
    NKeys = 1
    NTimers = 1
    Unstructured = TRUE
    StateModulus = 256
    MaxPresses = 2
    MaxGosubs = 1
    MaxFrames = 3
    Closes = TRUE
    MaxImages = 2
    MaxCommands = 4
    MaxOrder = 3
    Modes <- SoundModes
    KeyhitSize = 3
    MaxKeys = 8
    Ids = {1, 2}
    MaxOpens = 2
    MaxBlocks <- TwoThenNone
INVARIANTS
    WindowTypeOK
    MarkersMatch
    InProgressMatches
    FramesFound
    DisplayAlone
    ObjectsExist
    NothingLeftOut
    KeysInOrder
    HttpInv
    EofIsFinal
PROPERTIES
    DoneOnce
\* The bounds on presses, pictures, commands, keys and connections stop the parts that
\* have them, and a program whose return count wrapped or that waits for a closed window stops:
\* see the README.
CHECK_DEADLOCK FALSE
