SPECIFICATION FairSpec
CONSTANTS
    Calls = {c1, c2}
    Timers = {t1}
    None = None
    Platforms <- BothTrays
    ChannelSize = 1
    MaxInputs = 3

    
PROPERTIES
    
    SubsystemsFollow
    IconSettles
CHECK_DEADLOCK FALSE
