SPECIFICATION Spec
CONSTANTS
    Blocks <- MCBlocks
    Sizes <- MCSizes
    Rates <- MCRates
    Delays <- MCDelays
    Names <- MCNames
INVARIANTS
    RangesPartition
    ChunksPartition
    
    FindsFirst
    NearestResolver
CHECK_DEADLOCK FALSE
