CONSTANTS
    Asked <- MCAsked
    Monitor = {m1, m2}
    Address = {"a1", "a2"}
    Interface = {"w1"}
    MaxChanges = 2
    Caller = {c1, c2}
    NoCaller = none
    Patience = 2
    Margin = 2
    Default = 5
    Lives = {0, 2, 3}
    MaxTime = 8
    Width = 4
    MaxTicks = 4
SPECIFICATION PartsSpec
INVARIANTS
    SameWishSameCommand SuccessMeansDone HistoryIsBounded
    WarningsAreFew OneMonitorEmitsAll
    UsedTokensAreValid UsageCoversItsInterval
PROPERTY MonitorsSettle
CHECK_DEADLOCK FALSE
