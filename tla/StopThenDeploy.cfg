SPECIFICATION Spec
CONSTANTS
    main = main
    api = api
    web = web
    NoProfile = NoProfile
    Branches = {main}
    Profiles = {api, web}
    Requests <- MCStopRequests
    MaxBegins = 4
CHECK_DEADLOCK FALSE
INVARIANT NoManualDeployBehindStop
