SPECIFICATION FairSpec
CONSTANTS
    main = main
    api = api
    web = web
    NoProfile = NoProfile
    Branches = {main}
    Profiles = {api, web}
    Requests <- MCRequests
    MaxBegins = 5
CHECK_DEADLOCK FALSE
INVARIANTS
    TypeOK
    MutualExclusion
    OneHolderPerId
    NoOrphanPending
PROPERTIES
    LeasePromise
    PendingSettles
