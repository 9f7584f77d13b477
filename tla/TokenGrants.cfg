SPECIFICATION Spec
CONSTANTS
    VirtualServer = {v1, v2}
    ClientName = {web}
    App = {a1, a2, a3}
    Confidential = {a1, a3}
    User = {u1}
    Uri = {r1, r2}
    Challenge = {x1}
    Token = {t1, t2, t3}
    Request = {q1, q2}
    None = None
    CodeTTL = 0
    RefreshTTL = 0
    MaxTime = 1
    MaxAdmin = 2
SYMMETRY Interchangeable
INVARIANTS GrantBinding ClientContinuity RotationInvalidates
PROPERTIES OneTime
CHECK_DEADLOCK FALSE
