SPECIFICATION MCSpec
CONSTANTS
    Branches = {b1, b2}
    Still = b2
    Ticks = {t1}
    Routes = {r1}
    MaxHot = 1
    MaxOps = 2
    MaxMishaps = 1
CHECK_DEADLOCK FALSE
INVARIANTS
    TypeOK
    WaitedForIsWorkedOn
PROPERTIES
    IdleCools
    CapacityReturns
    UserWorkStands
