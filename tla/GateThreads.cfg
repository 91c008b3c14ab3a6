CONSTANTS
    t1 = t1
    t2 = t2
    s1 = s1
    s2 = s2
    s3 = s3
    v1 = v1
    Nobody = Nobody
    Threads <- TwoThreads
    ScopeGuards <- ThreeScopes
    ViewGuards <- OneView
SPECIFICATION GateSpec
INVARIANTS
    DepthsCountGuards
    SuppressionUnlessOverlapped
