CONSTANTS
    r1 = r1
    r2 = r2
    r3 = r3
    Requests = {r1, r2, r3}
    Inputs <- MCSharedInputs
    DocTypes = {"identity_document"}
    KnownTypes = {"identity_document"}
    Contents = {"s1"}
    Limit = 1
    NoEntry = NoEntry
    Corrupt = Corrupt
    None = None
    NoRow = NoRow
    ForwardSecret = "key"
    PdeClients = {"pde-m2m"}
SYMMETRY RequestSymmetry
SPECIFICATION Spec
INVARIANTS
    TypeOK
    CachedHasRow
    AnsweredHasOwnRow
    FailureLeavesNothing
    QuotaPaidByOwner
PROPERTY
    ImplementsLedger
CHECK_DEADLOCK FALSE
