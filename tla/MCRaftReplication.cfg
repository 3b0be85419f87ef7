SPECIFICATION MCSpec
CONSTANTS
    Nodes = {n1, n2, n3}
    None = None
    Writes = {}
    Reads = {}
    Statuses = {}
    Noop = Noop
    MaxTerm = 3
    MaxAppend = 1
    MaxInFlight = 1
    Instances <- Replication
SYMMETRY Symmetry
CHECK_DEADLOCK FALSE
INVARIANTS
    TypeOK
    LogMatching
    ElectableHoldCommitted
    StateMachineSafety
PROPERTIES
    CommittedStable
