CONSTANTS
    s1 = s1
    s2 = s2
    Sessions <- OneSession
    Models = {m1, m2}
    None = None
    Failed = Failed
    Skipped = Skipped
    MaxSamples <- TwoSamples
    MaxFaults = 0
SPECIFICATION Spec
CHECK_DEADLOCK FALSE
INVARIANT SentExactlyOnce
