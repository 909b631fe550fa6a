SPECIFICATION FairSpec
CONSTANTS
    Threads = {t1, t2, t3}
    NoThread = NoThread
    MaxDepth = 2
    MaxEnters = 3
INVARIANTS
    TypeOK
    ExclusiveUntilHandover
    CntAccounts
PROPERTIES
    LockUntilHandover
    WaiterGetsIn
\* After a hand-over the monitor really can strand its waiters.
CHECK_DEADLOCK FALSE
