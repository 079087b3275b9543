CONSTANTS
    t1 = t1
    t2 = t2
    Txns = {t1, t2}
    Earlier = {}
    Subjects = {"ann"}
    Documents = {"cv"}
    Calls <- MCReplaces
    PoolSize = 2
    PageSize = 2
    NoTxn = NoTxn
    NoRow = NoRow
SPECIFICATION Spec
INVARIANT
    OneActiveAfterReplace
CHECK_DEADLOCK FALSE
