SPECIFICATION MCSpec
CONSTANTS
    s1 = s1
    g1 = g1
    g2 = g2
    Servers = {s1}
    Callers = {g1, g2}
    None = None
    Headers = {"answer", "request"}
    Timeout = 4
    Period = 1
    MaxDelay = 1
    MaxTime = 7
    UpdateTimeout = 2
    MaxIndex = 0
INVARIANTS HeartbeatsInTime DeadServersLeave IInv
PROPERTIES RefreshesApart CallsEnd
