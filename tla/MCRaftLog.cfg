SPECIFICATION Spec
CONSTANTS
    Nodes = {n1, n2}
    None = None
    MaxTerm = 2
    MaxIndex = 3
    MaxWrites = 1
SYMMETRY Symmetry
CHECK_DEADLOCK FALSE
INVARIANTS
    VoteSurvivesCrash
    CacheCoherent
    IntactWithoutTornCalls
PROPERTIES
    CommittedKept
