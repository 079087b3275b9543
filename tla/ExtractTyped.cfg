CONSTANTS
    r1 = r1
    r2 = r2
    Requests = {r1, r2}
    Inputs <- MCTypedInputs
    DocTypes = {"identity_document", "curriculum_vitae", "passport"}
    KnownTypes = {"identity_document", "curriculum_vitae"}
    Contents = {"s1"}
    Limit = 1
    NoEntry = NoEntry
    Corrupt = Corrupt
    None = None
    NoRow = NoRow
    ForwardSecret = "key"
    PdeClients = {"pde-m2m"}
SPECIFICATION FairSpec
INVARIANTS
    ResponseIsForUpload
    OnlyAuthorizedAndConsented
PROPERTY
    RequestAnswered
CHECK_DEADLOCK FALSE
