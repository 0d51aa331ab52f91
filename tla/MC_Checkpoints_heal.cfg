SPECIFICATION Spec
CONSTANTS
    SaveEvery = 2
    FailureLimit = 2
    MaxRestarts = 1
    Keep = 0
    Iters = 4
    Ladder = FALSE
    MaxLaunches = 1
    Faults = {"nan"}
PROPERTIES RelaunchHeals
CHECK_DEADLOCK FALSE
