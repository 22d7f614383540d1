SPECIFICATION FairSpec
CONSTANTS
    Socket = {s1, s2}
    None = None
INVARIANTS
    ConsentIsAskedEachTime
    NoOrphanSocket
    ActiveSessionIsWatched
    WakeLockNeedsSession
PROPERTY QuietSessionsEnd
CHECK_DEADLOCK FALSE
