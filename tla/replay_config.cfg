SPECIFICATION Spec
CONSTANTS
    MaxPorts = 1
    MaxQueues = 3
    MaxLcores = 2
    PerLcore = 2
    MaxTuples = 2
    ArraySize = 2
    Enabled = {0, 1}
    ArgPorts = {0, 1}
    ArgQueues = {0, 1, 2}
    ArgLcores = {0, 1, 2}
    ArgDisks = {0, 1}
    ArgSizes = {0, 2, 3}
    MaxOptions = 3
CHECK_DEADLOCK FALSE
INVARIANTS
    TypeOK
    QueuesHandled
PROPERTIES
    QueuesKept
