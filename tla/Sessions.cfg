SPECIFICATION Spec
CONSTANTS
    None = None
    v1 = v1
    v2 = v2
    VirtualServer = {v1, v2}
    Session = {s1, s2}
    Request = {q1, q2, q3}
    Home <- AllAtV1
    CacheTTL = 2
    MaxTime = 6
SYMMETRY RequestSymmetry
INVARIANTS TypeOK AcceptedAtHome StaleForCacheTTL
PROPERTIES EndedForGood
CHECK_DEADLOCK FALSE
