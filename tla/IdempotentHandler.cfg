SPECIFICATION FairSpec
CONSTANTS
    Workers = {w1, w2}
    Keys = {k1, k2}
    NoKey = NoKey
INVARIANTS
    TypeOK
    OneOpenTransaction
    AppliedAsRecorded
    RowsAreEarned
    NilMeansProcessed
PROPERTIES
    OncePerKeySpec
    CallsReturn
