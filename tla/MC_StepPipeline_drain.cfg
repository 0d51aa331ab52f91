SPECIFICATION Spec
CONSTANTS
    NumWorkers = 2
    MaxSteps = 2
    MaxBatches = 2
    Modes = {"async", "async_smb"}
    Faults = {"drain", "step"}
INVARIANTS Exclusive NoPanicUnlessMisused
CHECK_DEADLOCK FALSE
