SPECIFICATION Spec
CONSTANTS
    Socket = {s1, s2}
    None = None
PROPERTY OnlyItsOwnSocketEndsASession
CHECK_DEADLOCK FALSE
