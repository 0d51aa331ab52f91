SPECIFICATION Spec
CONSTANTS
    MaxRate = 2
    MaxIter = 6
    Faults = {"gap","ckpt"}
PROPERTIES OlderTieKeepsIncumbent
CHECK_DEADLOCK FALSE
