SPECIFICATION Spec
CONSTANTS
    MaxBlocks = 2
    MaxCells = 1
    MaxSolutions = 1
    StepBound = 2
    Controls = {TRUE}
    Faults = {"reset", "root", "lock", "refuse", "kill", "unkillable", "crash"}
    MaxFaults = 1
INVARIANTS TypeOK BankedIsOwn AbortedAreQuarantined ControlWorks TripsAreReal
PROPERTIES BlockEnds
CHECK_DEADLOCK FALSE
