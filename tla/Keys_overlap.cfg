SPECIFICATION KeyhitSpec
CONSTANTS
    KeyhitSize = 3
    MaxKeys = 8
INVARIANT OldestDiscarded
CHECK_DEADLOCK FALSE
