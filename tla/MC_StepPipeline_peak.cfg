SPECIFICATION Spec
CONSTANTS
    NumWorkers = 2
    MaxSteps = 3
    MaxBatches = 2
    Modes = {"sync_smb"}
    Faults = {"reset"}
INVARIANTS PeakIsRecent
CHECK_DEADLOCK FALSE
