SPECIFICATION MCSpec
CONSTANTS
    Sessions = {s1, s2}
    Tables = {"unique", "self", "parent", "child"}
    Schema <- Database
    Ids = {1, 2}
    Null = Null
    Absent = Absent
    NoTxn = NoTxn
    MaxTxns = 3
    MaxWrites = 3
    Instances <- Constraints
SYMMETRY Symmetry
CHECK_DEADLOCK FALSE
INVARIANTS
    IndexesMatchRows
    UniqueColumns
    ReferentialIntegrity
    NoOrphanedRows
