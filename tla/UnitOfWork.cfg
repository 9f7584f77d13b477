SPECIFICATION FairSpec
CONSTANTS
    None = None
    n1 = n1
    User = {u1, u2}
    Username <- OneName
    Instance = {i1}
    Request = {q1, q2}
    MaxPatches = 1
    MaxFaults = 1
INVARIANTS VerifiedByMail VerifiedUserExists RegisteredWithMail
PROPERTIES MailKept MailDelivered
CHECK_DEADLOCK FALSE
