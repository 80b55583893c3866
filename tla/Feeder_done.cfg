SPECIFICATION Spec
CONSTANTS
    Files <- FullBatches
    BatchSize = 2
INVARIANT AllProcessed
CHECK_DEADLOCK FALSE
