SPECIFICATION OverlaySpec
CONSTANTS
    Cmd = {c1, c2}
    MaxCallbacks = 2
PROPERTY ActivityKeepsBanner
CHECK_DEADLOCK FALSE
