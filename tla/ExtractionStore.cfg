CONSTANTS
    t1 = t1
    t2 = t2
    t3 = t3
    e1 = e1
    e2 = e2
    Txns = {t1, t2, t3, e1, e2}
    Earlier = {e1, e2}
    Subjects = {"ann", "bob"}
    Documents = {"cv", "id"}
    Calls <- MCCalls
    PoolSize = 2
    PageSize = 2
    NoTxn = NoTxn
    NoRow = NoRow
SPECIFICATION FairSpec
INVARIANTS
    TypeOK
    LockProtectsRow
    ReplaceSupersedes
PROPERTIES
    ImplementsLedger
    ListNeverLosesDocument
    PersistReturns
CHECK_DEADLOCK FALSE
