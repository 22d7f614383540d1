SPECIFICATION Spec
CONSTANTS
    Key = {a}
    Refused = {}
    MaxVersion = 1
    MaxItems = 2
    MaxBatches = 2
PROPERTY SyncKeepsUndelivered
CHECK_DEADLOCK FALSE
