SPECIFICATION Spec
CONSTANTS
    MaxBlocks = 1
    MaxCells = 1
    MaxSolutions = 1
    StepBound = 2
    Controls = {FALSE}
    Faults = {"reset"}
    MaxFaults = 1
INVARIANTS ResetsNeverBank
CHECK_DEADLOCK FALSE
