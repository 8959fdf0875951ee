SPECIFICATION FairSpec
CONSTANTS
    b1 = b1
    b2 = b2
    b3 = b3
    Callers = {b1, b2, b3}
    Limits <- MCLimits
CHECK_DEADLOCK FALSE
INVARIANTS
    TypeOK
    SlotAccounting
PROPERTIES
    FirstComeFirstServed
    ZombiesNeverBuild
    PoolPromise
    QueuedServed
