SPECIFICATION Spec
CONSTANTS
    MaxBlocks = 1
    MaxCells = 1
    MaxSolutions = 1
    StepBound = 2
    Controls = {FALSE}
    Faults = {}
    MaxFaults = 0
INVARIANTS OnlyResetsTrip
CHECK_DEADLOCK FALSE
