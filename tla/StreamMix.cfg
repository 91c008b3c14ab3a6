CONSTANTS
    s1 = s1
    s2 = s2
    Sessions <- TwoSessions
    Models = {m1, m2}
    None = None
    Failed = Failed
    Skipped = Skipped
    MaxSamples <- TwoAndOne
    MaxFaults = 1
SPECIFICATION FairSpec
INVARIANTS
    TypeOK
    TranscriptWholeOnlyIf
    LeftoverOnlyIfSkipped
PROPERTIES
    StopsReturn
    KeepsPromise
CHECK_DEADLOCK FALSE
