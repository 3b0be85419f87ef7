CONSTANTS
    IdentOrder <- MCIdentOrder
    StringOrder <- MCStringOrder
    NumberDigits <- MCNumberDigits
    FloatValue <- MCFloatValue
    MaxI64 = 19
    MaxU64 = 39
    MaxNestingDepth = 4
    LikeMatches <- MCLikeMatches
    Catalog <- MCCatalog
    Databases <- MCDatabases
    Seeds <- OuterJoinSeeds
    Alphabet <- MCAlphabet
SPECIFICATION Spec
CHECK_DEADLOCK FALSE
PROPERTY OuterJoinsAsWritten
