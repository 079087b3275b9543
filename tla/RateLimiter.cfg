CONSTANTS
    c1 = c1
    c2 = c2
    u1 = u1
    Callers = {c1, c2}
    Ids = {u1}
    Limit = 1
    WindowTicks = 2
    TicksPerSecond = 1
    MaxStall = 2
    MaxSends = 2
    MaxWindow = 1
    MaxCount = 2
    MaxFaults = 1
SPECIFICATION FairSpec
INVARIANTS
    TypeOK
    AdmittedWithinLimit
    RefusalIsJustified
    LeakOnlyAfterFault
PROPERTY
    AllowReturns
CHECK_DEADLOCK FALSE
