SPECIFICATION Spec
CONSTANTS
    SaveEvery = 1
    FailureLimit = 2
    MaxRestarts = 1
    Keep = 0
    Iters = 3
    Ladder = TRUE
    MaxLaunches = 1
    Faults = {"nan"}
INVARIANTS ResumePointIsHealthy
CHECK_DEADLOCK FALSE
