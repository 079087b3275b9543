CONSTANTS
    r1 = r1
    r2 = r2
    Requests = {r1, r2}
    Inputs <- MCSharedInputs
    DocTypes = {"identity_document"}
    KnownTypes = {"identity_document"}
    Contents = {"s1"}
    Limit = 1
    NoEntry = NoEntry
    Corrupt = Corrupt
    None = None
    NoRow = NoRow
    ForwardSecret = "key"
    PdeClients = {"pde-m2m"}
SPECIFICATION Spec
INVARIANT
    EveryRowHasConsent
CHECK_DEADLOCK FALSE
