SPECIFICATION StreamSpec
CONSTANTS
    MaxRuns = 1
    Ring = 3
    Keep = 1
    MaxSeq = 4
    MaxCrashes = 1
    Watched = 1
CHECK_DEADLOCK FALSE
PROPERTY
    ResumeAcrossRestarts
