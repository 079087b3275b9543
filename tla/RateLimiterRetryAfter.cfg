CONSTANTS
    c1 = c1
    u1 = u1
    Callers = {c1}
    Ids = {u1}
    Limit = 1
    WindowTicks = 4
    TicksPerSecond = 2
    MaxStall = 1
    MaxSends = 1
    MaxWindow = 1
    MaxCount = 2
    MaxFaults = 0
SPECIFICATION Spec
INVARIANT
    RetryAfterReachesNextWindow
CHECK_DEADLOCK FALSE
