CONSTANTS
    IdentOrder <- MCIdentOrder
    StringOrder <- MCStringOrder
    NumberDigits <- MCNumberDigits
    FloatValue <- MCFloatValue
    MaxI64 = 19
    MaxU64 = 39
    MaxNestingDepth = 4
    LikeMatches <- MCLikeMatches
    Catalog <- MCCatalog
    Databases <- MCDatabases
    Seeds <- MCSeeds
    Alphabet <- MCAlphabet
SPECIFICATION Spec
CHECK_DEADLOCK FALSE
PROPERTIES
    RoundTrip
    ParsersAgree
    WideListsFree
    GuardChargesNesting
    ExecutesAsWritten
    OptimizedAsWritten
