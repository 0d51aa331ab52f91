SPECIFICATION Spec
CONSTANTS
    MaxLevel = 3
    Window = 2
    Grain = 1
    SaveEvery = 2
    MaxIters = 5
    MaxRuns = 2
    MaxResumes = 2
    Faults = {"crash"}
INVARIANTS FreshTrainsFromStart
CHECK_DEADLOCK FALSE
