SPECIFICATION Spec
CONSTANTS
    Keys <- MCKeys
    Values <- MCValues
    MinBytes = 3
    MinPercent = 40
    MaxFile = 7
    MaxReplaced = 1
    OrderedRename = TRUE
CHECK_DEADLOCK FALSE
INVARIANTS
    KeydirMatchesFile
    DurableAfterFlush
PROPERTIES
    GarbageAccounted
    ImplementsKeyValue
