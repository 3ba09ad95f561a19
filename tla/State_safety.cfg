SPECIFICATION StateSpec
CONSTANTS
    FieldStrings = {a, b}
    FileNumbers = {1, 2}
    Words <- ShortAndLong
    RecordLength = 2
    MaxFiles = 2
    Detaches = FALSE
    MemVars = {v1, v2}
    Addresses = {8, 16}
    Owners = {o1}
    MaxLockId = 3
    StaleTypes = FALSE
    Strings = {s1, s2, s3}
    Hole = Hole
    MaxLen = 2
    MaxTmps = 2
    Pad = 1
    DataSize = 2
    ListLast = 2
    MaxSize = 5
    MaxLast = 4
SYMMETRY Symmetry
INVARIANTS
    StateTypeOK
    FieldsExact
    BlocksExact
    Ordered
    ListsExact
PROPERTIES
    RecordsOwn
    ImplementsFileTable
\* The bounds on files and ids stop the parts that have them.
CHECK_DEADLOCK FALSE
