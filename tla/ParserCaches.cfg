\* Two callers and three calls on a file of two units.
SPECIFICATION Spec
CONSTANTS
    Callers = {t1, t2}
    Paths <- MCPaths
    NumCUs = 2
    NumSPs = 1
    MaxCalls = 3
INVARIANTS
    TypeOK
    FileKeyIsWhole
    SubprogramKeyIsOwn
    ResultFits
PROPERTIES
    NoScanIsLeft
    CallsReturn
\* The callers stop after three calls.
CHECK_DEADLOCK FALSE
