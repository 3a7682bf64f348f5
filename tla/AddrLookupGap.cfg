\* Programs of up to three functions on five addresses, see MCAddrLookup.
SPECIFICATION Spec
CONSTANTS
    MaxAddr = 4
    Progs <- MCProgs
    PCs <- MCPCs
    RowStep = 2
INVARIANTS
    UncoveredIsAnError
CHECK_DEADLOCK FALSE
