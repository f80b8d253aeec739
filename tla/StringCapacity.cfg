SPECIFICATION UsedSpec
CONSTANTS
    b1 = b1
    b2 = b2
    Blocks <- MCBlocks
    NULL = NULL
    Types <- MCTypes
    MaxLen = 6
INVARIANT WithinCapacity
CHECK_DEADLOCK FALSE
