\* One caller, a call of FindAllFuncs and then one of FindAllFuncsInCUByAddr.
SPECIFICATION Spec
CONSTANTS
    Callers = {t1}
    Paths <- MCPaths
    NumCUs = 3
    NumSPs = 1
    MaxCalls = 2
INVARIANTS
    FuncsInCUAreOwn
CHECK_DEADLOCK FALSE
