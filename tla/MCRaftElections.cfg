SPECIFICATION HSpec
CONSTANTS
    Nodes = {n1, n2, n3}
    None = None
    Writes = {}
    Reads = {}
    Statuses = {}
    Noop = Noop
    MaxTerm = 1
    MaxAppend = 1
    MaxInFlight = 2
SYMMETRY Symmetry
CHECK_DEADLOCK FALSE
INVARIANTS
    ElectionSafety
    ElectionIInv
