SPECIFICATION FairSpec
CONSTANTS
    Closures <- Both
    MaxRetries = 2
    MaxCalls = 2
    MaxVersion = 4
    None = None
CHECK_DEADLOCK FALSE
INVARIANTS
    EffectAtMostOnce
    OkHasEffect
    NoLeakedTxns
PROPERTY
    CallsReturn
