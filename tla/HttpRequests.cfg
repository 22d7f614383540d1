CONSTANTS
    d1 = d1
    d2 = d2
    k1 = k1
    k2 = k2
    r1 = r1
    r2 = r2
    None = None
    Device = {d1, d2}
    Beating = {d1}
    Conn = {k1, k2}
    Req = {r1, r2}
    MaxTroubles = 1
    MaxItems = 2
    MaxActors = 2
SPECIFICATION HttpSpec
INVARIANTS OnlineHasASource NothingGivenIsLost ShownOfflineWasAbsent
PROPERTIES ConnectedSettles IdentityReturns
CHECK_DEADLOCK FALSE
