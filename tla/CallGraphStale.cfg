\* The functions of trees of four entries behind that of the unit.
SPECIFICATION Spec
CONSTANTS
    MaxDies = 5
    Lists <- MCLists
    Names <- MCNames
    MaxLevels <- MCMaxLevels
    Covereds <- MCCovereds
INVARIANTS
    EdgesAreNesting
CHECK_DEADLOCK FALSE
