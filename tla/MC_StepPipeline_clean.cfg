SPECIFICATION Spec
CONSTANTS
    NumWorkers = 2
    MaxSteps = 4
    MaxBatches = 2
    Modes = {"sync", "sync_smb", "async"}
    Faults = {"step", "reset", "halt"}
INVARIANTS TypeOK MachinesServeTheBatch TransitionsAreTrue
PROPERTIES CollectsEpisodes BatchEnds
CHECK_DEADLOCK FALSE
