SPECIFICATION Spec
CONSTANTS
    MaxRuns = 3
    Past = 1
    Requests = {q1}
    KeepRecent = 1
    MaxMishaps = 0
CHECK_DEADLOCK FALSE
INVARIANT RestoresTheLatest
