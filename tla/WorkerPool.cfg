\* Nine pcs in batches of two for two goroutines, native and -legacy.
\* The program stops when main returns, and it may hang (StuckOnlyWhenAllLost
\* says when): deadlock is a subject of the properties.
SPECIFICATION Spec
CONSTANTS
    Workers = {w1, w2}
    BatchSize = 2
    MaxPCs = 9
    MaxSilent = 2
INVARIANTS
    TypeOK
    EveryPCAccountedFor
    ReportNeverBlocks
    PartOfBatchOnlyWhilePrinting
    StuckOnlyWhenAllLost
PROPERTIES
    InOrderWithinBatch
    AbstractSpec
    EndsUnlessAllFail
CHECK_DEADLOCK FALSE
