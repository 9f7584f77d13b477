SPECIFICATION Spec
CONSTANTS
    None = None
    n1 = n1
    User = {u1, u2}
    Username <- OneName
    Instance = {i1, i2}
    Request = {q1, q2}
    MaxPatches = 1
    MaxFaults = 0
INVARIANTS InstancesStayUp
