SPECIFICATION FairSpec
CONSTANTS
    SaveEvery = 1
    FailureLimit = 2
    MaxRestarts = 1
    Keep = 1
    Iters = 4
    Ladder = TRUE
    MaxLaunches = 2
    Faults = {"write", "rename", "load"}
INVARIANTS RotationKeepsNewest SaveFailuresBounded
PROPERTIES LaunchEnds
CHECK_DEADLOCK FALSE
