CONSTANTS
    r1 = r1
    Requests = {r1}
    Releases = {2, 3}
    ConsentsAt = 2
    MaxAttempts = 2
    Repeatable = {2, 3}
    MaxStarts = 2
    MaxEvents = 1
    Tokens <- MCTokens
    Rotation <- MCRotation
    Deployments <- MCDeployments
SPECIFICATION PSpec
INVARIANTS
    ProcessTypeOK
    HandlerHasPool
    CleanExitDrained
    MigratedUnlessDropped
    OnlyEntitledAdmitted
PROPERTIES
    GenuineRefusedOnlyForKey
    SignalStops
    StartupEnds
CHECK_DEADLOCK FALSE
