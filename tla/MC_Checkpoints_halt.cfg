SPECIFICATION Spec
CONSTANTS
    SaveEvery = 2
    FailureLimit = 2
    MaxRestarts = 1
    Keep = 0
    Iters = 6
    Ladder = FALSE
    MaxLaunches = 1
    Faults = {"write"}
INVARIANTS HaltsAfterLimit
CHECK_DEADLOCK FALSE
