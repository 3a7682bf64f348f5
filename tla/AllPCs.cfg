\* Bytes of 3 bits, addresses of 24, see MCAllPCs.
SPECIFICATION Spec
CONSTANTS
    Byte = 8
    Word = 16777216
    CallOpcode = 5
    BranchLink = 4
    Files <- MCFiles
    Placements <- MCPlacements
INVARIANTS
    TypeOK
    TextPointsReadAsCalls
    RelaPointsAreCallsAndJumps
    ListIsComplete
    OutcomeFits
\* The call returns, panics or loops.
CHECK_DEADLOCK FALSE
