SPECIFICATION WakeSpec
CONSTANTS
    Device = {d1}
    Conn = {k1, k2}
    Cmd = {c1}
    Answer = {"completed"}
    SendCap = 1
    PushEnabled = TRUE
    None = None
PROPERTY WakeIsNoOpWhenOnline
CHECK_DEADLOCK FALSE
