SPECIFICATION WakeSpec
CONSTANTS
    Device = {d1, d2}
    Conn = {k1}
    Cmd = {c1}
    Answer = {"completed"}
    SendCap = 1
    PushEnabled = TRUE
    None = None
INVARIANT OnlyFoundDevicesAreAsked
PROPERTIES
    LiveRequestsEnd
    BrokenConnectionsAreForgotten
    CallsReturn
    ImplementsLifecycle
CHECK_DEADLOCK FALSE
