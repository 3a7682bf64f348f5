\* Up to two lines.
SPECIFICATION Spec
CONSTANTS
    MaxLines = 2
INVARIANTS
    EveryPCIsAnswered
CHECK_DEADLOCK FALSE
