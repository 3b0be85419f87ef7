SPECIFICATION MCSpec
CONSTANTS
    Nodes = {n1, n2, n3}
    None = None
    Writes = {w1}
    Reads = {r1}
    Statuses = {s1}
    Noop = Noop
    MaxTerm = 2
    MaxAppend = 1
    MaxInFlight = 2
    Instances <- MessageOrders
SYMMETRY Symmetry
CHECK_DEADLOCK FALSE
INVARIANTS
    NoPanic
    ProgressSound
    Linearizable
