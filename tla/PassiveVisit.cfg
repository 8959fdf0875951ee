SPECIFICATION FairSpec
CONSTANTS
    Branches = {b1, b2}
    Still = b2
    Ticks = {t1}
    Routes = {}
    MaxHot = 1
    MaxOps = 1
    MaxMishaps = 0
CHECK_DEADLOCK FALSE
PROPERTIES
    VisitsReviveOnlyCooled
