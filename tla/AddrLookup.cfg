\* Programs of up to three functions on six addresses, see MCAddrLookup.
SPECIFICATION Spec
CONSTANTS
    MaxAddr = 5
    Progs <- MCProgs
    PCs <- MCPCs
    RowStep = 2
INVARIANTS
    TypeOK
    UnitIsOwner
    SubprogramIsOwner
    RowIsNearest
    OwnRowUnlessReplaced
\* The call returns, panics or loops.
CHECK_DEADLOCK FALSE
