SPECIFICATION Spec
CONSTANTS
    Device = {d1, d2}
    Conn = {k1, k2}
    Cmd = {c1}
    Answer = {"completed"}
    SendCap = 1
    None = None
SYMMETRY HubSymmetry
INVARIANTS
    RegistryHoldsLiveConnections
    AnswerReturnedIsStored
    NoAbandonedPending
    RefusedNeverRuns
    QueuedForTarget
PROPERTIES
    RowHistory
    ImplementsLifecycleSafety
CHECK_DEADLOCK FALSE
