SPECIFICATION Spec
CONSTANTS
    MaxLevel = 3
    Window = 2
    Grain = 1
    SaveEvery = 2
    MaxIters = 5
    MaxRuns = 1
    MaxResumes = 3
    Faults = {"crash", "ckpt"}
INVARIANTS TypeOK FrontierSurvivesCrash ChainIsTrue UnearnedNeedsResume
CHECK_DEADLOCK FALSE
