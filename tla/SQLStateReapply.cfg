SPECIFICATION Spec
CONSTANTS
    Ids = {1, 2}
    Values = {1, 2}
    Absent = Absent
    Deleted = Deleted
    InitialLogs <- MCEmptyLog
    MaxVersion = 2
    MaxIndex = 3
    MaxRows = 1
CHECK_DEADLOCK FALSE
INVARIANT SameState
