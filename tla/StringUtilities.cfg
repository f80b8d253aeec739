SPECIFICATION UsedSpec
CONSTANTS
    b1 = b1
    b2 = b2
    Blocks <- MCBlocks
    NULL = NULL
    Types <- MCTypes
    MaxLen = 8
INVARIANTS UsedTypeOK OwnsItsBlock AtMostTerminatorPast ListingIsTree StaleOnlyNested
CHECK_DEADLOCK FALSE
