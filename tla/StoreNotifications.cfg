SPECIFICATION Spec
CONSTANTS
    Key = {a}
    Refused = {}
    MaxVersion = 2
    MaxItems = 2
    MaxBatches = 2
INVARIANT OnlyKnownLosses
CHECK_DEADLOCK FALSE
