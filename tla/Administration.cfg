SPECIFICATION Spec
CONSTANTS
    Unit = {"u1", "u2"}
    CallsOf <- MCCalls
    Backends = {"postgres", "memory"}
    InitialRows <- MCRows
    InitialKeys <- MCKeys
    MaxFaults = 1
INVARIANTS TenantsApart AlgorithmOffered AuditTrail RefusedChangesNothing
    NewServerComplete KeysHaveServer AnswersStayInTenant
PROPERTIES ChangesStayInTenant SystemProjectKept SavedAsTracked
CHECK_DEADLOCK FALSE
