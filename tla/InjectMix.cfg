CONSTANTS
    a = a
    b = b
    c = c
    None = None
    Jobs <- ThreeJobs
    Scenarios <- Mixed
SPECIFICATION FairSpec
INVARIANTS
    OutputsStayWhole
    PastesOwnPayload
    AbortBoundsOutput
    
PROPERTIES
    AbortFreesKeyboard
    JobsFinish
