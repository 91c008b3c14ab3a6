CONSTANTS
    h1 = h1
    h2 = h2
    d1 = d1
    d2 = d2
    Handlers <- TwoHandlers
    Devices <- TwoDevices
    Sweep = sweep
    Settings = settings
    Absent = Absent
    None = None
    MaxInputs = 3
SPECIFICATION FairSpec
INVARIANTS
    
    DeadAirNoticed
    ClosedWhenIdle
PROPERTIES
    AudioKept
    
CHECK_DEADLOCK FALSE
