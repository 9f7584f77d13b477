SPECIFICATION SSpec
CONSTANTS
    VirtualServer = {v1}
    Alg = {RS256}
    Runner = {n1, n2}
    Admin = {c1}
    Instance = {i1}
    None = None
    RotateAfter = 2
    ExpireAfter = 3
    MaxRun = 1
    MaxTime = 4
    MaxCommands = 0
    MaxFaults = 0
INVARIANTS PublishedUntilExpiry ExpiredPurged
CHECK_DEADLOCK FALSE
