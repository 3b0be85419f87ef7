SPECIFICATION MCSpec
CONSTANTS
    Keys = {k1, k2}
    Values = {a}
    Tombstone = Tombstone
    Absent = Absent
    Sessions = {s1, s2, s3}
    NoTxn = NoTxn
    MaxVersion = 3
    BufferSize = 1
SYMMETRY Symmetry
INVARIANTS
    NoConcurrentWriters
    LatestKeySuffices
    IInv
    ScanIsSnapshot
PROPERTIES
    SnapshotStable
    TimeTravelStable
    ImplementsSnapshotIsolation
