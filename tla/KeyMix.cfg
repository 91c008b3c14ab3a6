CONSTANTS
    ctrl = ctrl
    alt = alt
    x = x
    tab = tab
    Keys <- FourKeys
    Modifiers <- TwoModifiers
    Tab = tab
    None = None
    Scenarios <- AllSettings
    MaxFaults = 1
SPECIFICATION Spec
INVARIANTS
    FlagsHonest
    
PROPERTIES
    
    EchoesIgnored
CHECK_DEADLOCK FALSE
