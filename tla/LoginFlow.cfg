SPECIFICATION Spec
CONSTANTS
    None = None
    u1 = u1
    u2 = u2
    User = {u1, u2}
    InitialUsers <- OneComplete
    Login = {l1}
    Handler = {h1, h2}
    PasskeyUser = {u2}
    RequireEmail = TRUE
    Require2fa = TRUE
    MaxAttempts = 2
    MaxUncounted = 1

SYMMETRY Interchangeable
CONSTRAINT FailsAlone
INVARIANTS UserProved StepsTakenInTurn BurnedForGood
CHECK_DEADLOCK FALSE
