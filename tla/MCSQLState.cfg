SPECIFICATION Spec
CONSTANTS
    Ids = {1, 2}
    Values = {1, 2}
    Absent = Absent
    Deleted = Deleted
    InitialLogs <- MCInitialLogs
    MaxVersion = 2
    MaxIndex = 7
    MaxRows = 2
CHECK_DEADLOCK FALSE
INVARIANT ReplayLeavesNoTrace
