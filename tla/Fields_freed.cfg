SPECIFICATION FilesSpec
CONSTANTS
    FieldStrings = {a, b}
    FileNumbers = {1}
    Words <- ShortAndLong
    RecordLength = 2
    MaxFiles = 1
    Detaches = TRUE
INVARIANTS
    ListedAreFields
CHECK_DEADLOCK FALSE
