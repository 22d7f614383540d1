SPECIFICATION AgentSpec
CONSTANTS
    Socket = {s1, s2}
    Cmd = {c1}
    GuiCmd = {c1}
    MaxCallbacks = 1
    None = None
INVARIANTS
    WritersAreAlone
    NoConnectionLeaks
    BannerWillHide
PROPERTIES
    BrokenConnectionIsLeft
    SignalEndsAgent
    HandlersFinish
CHECK_DEADLOCK FALSE
