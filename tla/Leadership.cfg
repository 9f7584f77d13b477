SPECIFICATION FairSpec
CONSTANTS
    Instance = {i1, i2}
    Job = {j1}
    Mode = {"none", "raft"}
    MaxChanges = 3
    MaxCrashes = 1
INVARIANTS ManagerFollowsLeadership
PROPERTIES LeaderWorks FollowerIdle
CHECK_DEADLOCK FALSE
