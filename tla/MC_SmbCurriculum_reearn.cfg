SPECIFICATION Spec
CONSTANTS
    MaxLevel = 3
    Window = 2
    Grain = 1
    SaveEvery = 2
    MaxIters = 5
    MaxRuns = 1
    MaxResumes = 2
    Faults = {"crash", "load"}
PROPERTIES NewStageReearns
CHECK_DEADLOCK FALSE
