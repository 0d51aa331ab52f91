SPECIFICATION CliFairSpec
CONSTANTS
    Pid = {p1, p2}
    NoPid = NoPid
    MaxLives = 2
    Overlap = FALSE
    Faults = {"ps", "create", "write", "unlink"}
INVARIANTS HolderOwnsFile CliTypeOK CommandIsCovered
PROPERTIES RefusedForCause ImplementsService AcquireDecides
CHECK_DEADLOCK FALSE
