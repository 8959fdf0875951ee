SPECIFICATION FairDrainSpec
CONSTANTS
    MaxRuns = 1
    Ring = 1
    Keep = 1
    MaxSeq = 0
    MaxCrashes = 1
    MaxUpdates = 2
CHECK_DEADLOCK FALSE
INVARIANTS
    NoLiveVictim
PROPERTIES
    NobodySlipsIn
    DrainEnds
    GateReopens
    BookPromise
