SPECIFICATION Spec
CONSTANTS
    NumWorkers = 2
    MaxSteps = 3
    MaxBatches = 2
    Modes = {"async"}
    Faults = {}
INVARIANTS TuplesPairTheirObs
CHECK_DEADLOCK FALSE
