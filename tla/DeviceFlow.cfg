SPECIFICATION Spec
CONSTANTS
    None = None
    v1 = v1
    v2 = v2
    c1 = c1
    c2 = c2
    u1 = u1
    u2 = u2
    VirtualServer = {v1, v2}
    ClientName = {c1, c2}
    User = {u1, u2}
    Device = {d1, d2}
    UserCode = {n1}
    Login = {l1, l2}
    Handler = {h1, h2}
    Applications <- SharedName
    DeviceClients <- EnabledInOne
    Home <- OneEach
    DeviceTTL = 0
    LoginTTL = 1
    MaxTime = 1
SYMMETRY Interchangeable
INVARIANTS GrantAuthorized RedeemedOnce ForeignUserByName
CHECK_DEADLOCK FALSE
