CONSTANTS
    l1 = l1
    l2 = l2
    l3 = l3
    Listeners <- ThreeListeners
    None = None
    Unspawned = Unspawned
    MissedPressThreshold = 2
    Newborn = 1
    Startup = 2
    BackoffCap = 2
    MaxQueue = 1
    MaxEvents = 2
SPECIFICATION FairSpec
INVARIANTS
    OneHandlerUnlessAdrift
    UnhookedWhileLocked
PROPERTIES
    EvictionKeepsSuccessor
    NewbornCondemnedOnlyIf
    HookComesBack
CHECK_DEADLOCK FALSE
