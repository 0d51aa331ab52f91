SPECIFICATION Spec
CONSTANTS
    MaxRate = 3
    MaxIter = 7
    Faults = {"ckpt", "gap", "tear"}
INVARIANTS TypeOK SidecarNeverOverclaims
PROPERTIES BestNeverDecreases TiesDecideByIter
CHECK_DEADLOCK FALSE
