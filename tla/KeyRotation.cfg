SPECIFICATION Spec
CONSTANTS
    VirtualServer = {v1}
    Alg = {RS256, EdDSA}
    Runner = {n1}
    Admin = {c1}
    None = None
    RotateAfter = 1
    ExpireAfter = 2
    MaxRun = 0
    MaxTime = 3
    MaxCommands = 1
    MaxFaults = 1
INVARIANTS TypeOK KeyAvailable KeysDoNotPileUp
PROPERTIES KeylessRecovers OrphansDisappear
CHECK_DEADLOCK FALSE
