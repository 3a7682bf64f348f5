\* Trees of up to four entries behind that of the unit.
SPECIFICATION Spec
CONSTANTS
    MaxDies = 5
    Trees <- MCTrees
INVARIANTS
    TypeOK
    FuncsAreThoseOfUnit
    DepthIsLevel
    SubroutinesAreInside
    FramesAreChain
\* A walk ends.
CHECK_DEADLOCK FALSE
