\* Five batches of one pc for two goroutines: one more than they and the channel hold.
SPECIFICATION Spec
CONSTANTS
    Workers = {w1, w2}
    BatchSize = 1
    MaxPCs = 5
    MaxSilent = 1
PROPERTIES
    ErrorIsReported
CHECK_DEADLOCK FALSE
