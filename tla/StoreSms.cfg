SPECIFICATION FairSpec
CONSTANTS
    Key = {a, b, c}
    Refused = {b}
    MaxVersion = 1
    MaxItems = 2
    MaxBatches = 1
INVARIANTS
    TypeOK
    OnlyKnownLosses
PROPERTY OthersAreDelivered
CHECK_DEADLOCK FALSE
