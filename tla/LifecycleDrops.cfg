CONSTANTS
    r1 = r1
    r2 = r2
    Requests = {r1, r2}
    Releases = {2, 3}
    ConsentsAt = 2
    MaxAttempts = 2
    Repeatable = {2, 3}
    MaxStarts = 2
    MaxEvents = 1
SPECIFICATION Spec
INVARIANT
    ServesMigrated
CHECK_DEADLOCK FALSE
