CONSTANTS
    t1 = t1
    t2 = t2
    Threads <- TwoThreads
    Limit <- MixLimit
SPECIFICATION Spec
INVARIANTS
    OneOwner
    MicParkedOnlyIf
    Consistent
    
SYMMETRY Swaps
CHECK_DEADLOCK FALSE
