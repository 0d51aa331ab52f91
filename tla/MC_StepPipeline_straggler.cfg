SPECIFICATION Spec
CONSTANTS
    NumWorkers = 2
    MaxSteps = 2
    MaxBatches = 2
    Modes = {"async"}
    Faults = {"drain"}
INVARIANTS ResetFixesTheLag
CHECK_DEADLOCK FALSE
