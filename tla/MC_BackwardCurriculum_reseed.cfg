SPECIFICATION Spec
CONSTANTS
    NumEnvs = 2
    MaxSteps = 2
    Depth = 2
    Lengths = {3}
    Gates = {2}
    Hits = 1
    OutOf = 2
    AdvanceEntries = 1
    WindowEntries = 1
    EntranceInDraw = TRUE
    CountTruncations = TRUE
    RungBudget = TRUE
    Base = 1
    PerEntry = 1
    Per = 2
    LoadsFail = FALSE
    MaxCrashes = 0
INVARIANTS SeedIsPostRestore
