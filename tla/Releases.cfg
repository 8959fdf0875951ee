SPECIFICATION FairSpec
CONSTANTS
    MaxRuns = 3
    Past = 1
    Requests = {q1}
    KeepRecent = 1
    MaxMishaps = 1
CHECK_DEADLOCK FALSE
INVARIANTS
    TypeOK
    OneWriter
    LedgerTellsWhatServes
    ReclaimSparesServing
PROPERTIES
    UsersTakeTurns
    VerdictsStand
    CancelledWritesNoMore
    TargetFreesUp
