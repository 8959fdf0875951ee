SPECIFICATION StockedSpec
CONSTANTS
    b1 = b1
    b2 = b2
    run = run
    Docs = {b1, b2, run}
    Collections = 2
    CollectionOf <- MCCollectionOf
    v = v
    Values = {v}
    Absent = Absent
    Keep = Keep
    None = None
    MaxSaves = 2
INVARIANTS
    AcknowledgedSurvives
