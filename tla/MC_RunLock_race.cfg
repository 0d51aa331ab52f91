SPECIFICATION Spec
CONSTANTS
    Pid = {p1, p2}
    NoPid = NoPid
    MaxLives = 1
    Overlap = TRUE
    Faults = {}
INVARIANTS MutualExclusion
CHECK_DEADLOCK FALSE
