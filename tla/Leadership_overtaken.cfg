SPECIFICATION Spec
CONSTANTS
    Instance = {i1}
    Job = {j1}
    Mode = {"raft"}
    MaxChanges = 2
    MaxCrashes = 0
INVARIANTS OnlyLeaderWorks
CHECK_DEADLOCK FALSE
